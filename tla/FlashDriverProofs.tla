--------------------------- MODULE FlashDriverProofs ---------------------------
(***************************************************************************)
(* Proofs about FlashDriver, for every capacity of the flash, every size   *)
(* of its blocks, of a command and of a request, and every number of       *)
(* requests.  They suppose that a command does not end before the          *)
(* statement after its start (~Prompt).                                    *)
(***************************************************************************)
EXTENDS FlashDriver, SequenceTheorems, TLAPS

-----------------------------------------------------------------------------
(***************************************************************************)
(* The inductive invariant: in each phase of a request, what the driver,   *)
(* the device and the flag between them are at, and how far the request    *)
(* is carried out.                                                         *)
(***************************************************************************)
Commands == [op : {"none", "read", "write", "erase", "eraseAll"}, address : Nat,
             data : Seq(Bits)]
Ops == {"none", "READ_BLOCKING", "READ_START", "WRITE_BLOCKING", "WRITE_START",
        "erase", "eraseAll"}

DeviceTypes ==
  /\ array \in Array
  /\ command \in Commands /\ Len(command.data) <= MAX_DATA
  /\ cycleDone \in BOOLEAN /\ interruptEnable \in BOOLEAN /\ dataRegs \in Seq(Bits)

ProgressTypes ==
  /\ operation \in {"NONE", "READ_START", "READ_BLOCKING", "WRITE_START", "WRITE_BLOCKING",
                    "BLOCK_ERASE"}
  /\ thread \in {"idle", "readStarted", "writeStarted", "readIssue", "readWait",
                 "writeIssue", "writeWait"}
  /\ readWritePos \in 0 .. MAX_REQUEST /\ readWriteSize \in 0 .. MAX_REQUEST
  /\ startAddress \in 0 .. FLASH_CAPACITY - 1 /\ sizeWasRead \in 0 .. MAX_DATA
  /\ flashFlag \in BOOLEAN

BufferTypes == buffer \in Seq(Bits) /\ internalBuffer \in [1 .. MAX_REQUEST -> Bits]

HistoryTypes ==
  /\ request \in [op : Ops, address : Nat, data : Seq(Bits), clean : BOOLEAN]
  /\ completed \in {0, 1} /\ requests \in Nat

FlashTypes == DeviceTypes /\ ProgressTypes /\ BufferTypes /\ HistoryTypes

\* Where a command is: not started, in the device, ended, or told to the thread.
Quiet == command = Idle /\ ~cycleDone /\ ~flashFlag
Running == command # Idle /\ ~cycleDone /\ ~flashFlag
Ended == command = Idle /\ cycleDone /\ ~flashFlag
Told == command = Idle /\ ~cycleDone /\ flashFlag

Size == Len(request.data)

\* The request the driver works on is the one that was accepted.
InTransfer(op) ==
  /\ operation = op /\ request.op = op /\ completed = 0
  /\ Size \in 1 .. MAX_REQUEST /\ request.address + Size <= FLASH_CAPACITY
  /\ readWriteSize = Size /\ startAddress = request.address
  /\ readWritePos <= Size

\* The bytes of the command in the device, or of the one that ended.
Reading ==
  command = [op |-> "read", address |-> startAddress + readWritePos,
             data |-> Zeros(Chunk(Size, readWritePos))]
HasRead ==
  dataRegs = [k \in 1 .. Chunk(Size, readWritePos) |-> array[startAddress + readWritePos + k - 1]]

\* The command writes the bytes of the request from the one after the first from to the to-th.
Writing(from, to) ==
  /\ command.op = "write" /\ command.address = startAddress + from
  /\ Len(command.data) = to - from
  /\ \A k \in 1 .. to - from : command.data[k] = request.data[from + k]

\* What was read so far is in its place, and nothing else.
ReadInto(b) ==
  \A k \in 1 .. Size : b[k] = IF k <= readWritePos THEN array[startAddress + k - 1] ELSE 0

Ready == operation = "NONE" /\ thread = "idle" /\ Quiet /\ completed = 1

Erasing ==
  /\ operation = "BLOCK_ERASE" /\ thread = "idle" /\ completed = 0
  /\ request.op \in {"erase", "eraseAll"} /\ request.data = <<>>
  /\ request.address < FLASH_CAPACITY
  /\ \/ Running /\ command = [op |-> request.op, address |-> request.address, data |-> <<>>]
     \/ Ended

ReadsAlone ==
  /\ InTransfer("READ_START") /\ request.data = Zeros(Size) /\ readWritePos < Size
  /\ \/ thread = "readStarted" /\ readWritePos = 0 /\ Running /\ Reading
     \/ /\ thread = "idle" /\ sizeWasRead = Chunk(Size, readWritePos)
        /\ (Running /\ Reading) \/ (Ended /\ HasRead)
  /\ request.clean => ReadInto(internalBuffer)

ReadsForThread ==
  /\ InTransfer("READ_BLOCKING") /\ request.data = Zeros(Size)
  /\ \/ thread = "readIssue" /\ Quiet
     \/ /\ thread = "readWait" /\ sizeWasRead = Chunk(Size, readWritePos)
        /\ readWritePos < Size
        /\ (Running /\ Reading) \/ ((Ended \/ Told) /\ HasRead)
  /\ Len(buffer) = Size /\ ReadInto(buffer)

WritesAlone ==
  /\ InTransfer("WRITE_START")
  /\ \/ /\ thread = "writeStarted" /\ readWritePos = 0
        /\ Running /\ Writing(0, Chunk(Size, 0))
     \/ /\ thread = "idle" /\ readWritePos > 0
        /\ \/ Running /\ \E from \in 0 .. readWritePos - 1 : Writing(from, readWritePos)
           \/ Ended
  /\ \A k \in 1 .. Size : internalBuffer[k] = request.data[k]

WritesForThread ==
  /\ InTransfer("WRITE_BLOCKING")
  /\ \/ thread = "writeIssue" /\ Quiet
     \/ /\ thread = "writeWait" /\ readWritePos > 0
        /\ \/ Running /\ \E from \in 0 .. readWritePos - 1 : Writing(from, readWritePos)
           \/ Ended \/ Told
  /\ buffer = request.data

FlashInv ==
  /\ FlashTypes
  /\ Ready \/ Erasing \/ ReadsAlone \/ ReadsForThread \/ WritesAlone \/ WritesForThread

-----------------------------------------------------------------------------
(***************************************************************************)
(* Commands and sequences of bits.                                         *)
(***************************************************************************)
LEMMA ChunkIs ==
  ASSUME NEW s \in Nat, NEW p \in Nat, p < s
  PROVE  /\ Chunk(s, p) \in 1 .. MAX_DATA /\ Chunk(s, p) \in Nat
         /\ p + Chunk(s, p) \in 1 .. s /\ p + Chunk(s, p) > p
         /\ p + Chunk(s, p) < s => Chunk(s, p) = MAX_DATA
BY FlashAssumption DEF Chunk, Lesser

LEMMA ZerosAre ==
  ASSUME NEW n \in Nat
  PROVE  Zeros(n) \in Seq(Bits) /\ Len(Zeros(n)) = n /\ \A k \in 1 .. n : Zeros(n)[k] = 0
BY DEF Zeros, Bits

LEMMA PartIs ==
  ASSUME NEW s \in Seq(Bits), NEW from \in Nat, NEW to \in Nat, from < to, to <= Len(s)
  PROVE  /\ SubSeq(s, from + 1, to) \in Seq(Bits)
         /\ Len(SubSeq(s, from + 1, to)) = to - from
         /\ \A k \in 1 .. to - from : SubSeq(s, from + 1, to)[k] = s[from + k]
<1>1. \A i \in from + 1 .. to : s[i] \in Bits
  OBVIOUS
<1>2. /\ SubSeq(s, from + 1, to) \in Seq(Bits)
      /\ Len(SubSeq(s, from + 1, to)) = IF from + 1 <= to THEN to - (from + 1) + 1 ELSE 0
      /\ \A k \in 1 .. to - (from + 1) + 1 : SubSeq(s, from + 1, to)[k] = s[from + 1 + k - 1]
  BY <1>1, SubSeqProperties
<1>3. to - (from + 1) + 1 = to - from /\ from + 1 <= to
  OBVIOUS
<1>4. \A k \in 1 .. to - from : from + 1 + k - 1 = from + k
  OBVIOUS
<1> QED BY <1>2, <1>3, <1>4

\* A buffer is a function or, as well, a sequence.
LEMMA BufferIsSeq ==
  ASSUME NEW n \in Nat, NEW b \in [1 .. n -> Bits]
  PROVE  b \in Seq(Bits) /\ Len(b) = n
OBVIOUS

LEMMA SeqIsBuffer ==
  ASSUME NEW s \in Seq(Bits)
  PROVE  s \in [1 .. Len(s) -> Bits]
OBVIOUS

\* What flash_write_start leaves in its buffer.
LEMMA CopiedIn ==
  ASSUME NEW data \in Seq(Bits), NEW b \in [1 .. MAX_REQUEST -> Bits], Len(data) \in 1 .. MAX_REQUEST
  PROVE  /\ data \o SubSeq(b, Len(data) + 1, MAX_REQUEST) \in [1 .. MAX_REQUEST -> Bits]
         /\ \A k \in 1 .. Len(data) : (data \o SubSeq(b, Len(data) + 1, MAX_REQUEST))[k] = data[k]
<1> DEFINE n == Len(data)
           t == SubSeq(b, n + 1, MAX_REQUEST)
<1>1. MAX_REQUEST \in Nat /\ n \in Nat
  BY FlashAssumption
<1>2. t \in Seq(Bits) /\ Len(t) = MAX_REQUEST - n
  <2>1. b \in Seq(Bits) /\ Len(b) = MAX_REQUEST
    BY <1>1, BufferIsSeq
  <2>2. CASE n < MAX_REQUEST
    BY <1>1, <2>1, <2>2, PartIs
  <2>3. CASE n = MAX_REQUEST
    <3>1. t = <<>>
      BY <1>1, <2>3, SubSeqEmpty
    <3> QED BY <1>1, <2>3, <3>1
  <2> QED BY <1>1, <2>2, <2>3
<1> HIDE DEF t
<1>3. /\ data \o t \in Seq(Bits) /\ Len(data \o t) = n + Len(t)
      /\ \A k \in 1 .. n + Len(t) : (data \o t)[k] = IF k <= n THEN data[k] ELSE t[k - n]
  BY <1>2, ConcatProperties
<1>4. data \o t \in [1 .. MAX_REQUEST -> Bits]
  <2>1. n + Len(t) = MAX_REQUEST
    BY <1>1, <1>2
  <2>2. \A u \in Seq(Bits) : Len(u) = MAX_REQUEST => u \in [1 .. MAX_REQUEST -> Bits]
    BY SeqIsBuffer
  <2> QED BY <1>3, <2>1, <2>2, Zenon
<1>5. \A k \in 1 .. n : k \in 1 .. n + Len(t) /\ k <= n
  BY <1>1, <1>2
<1> QED BY <1>3, <1>4, <1>5 DEF t

\* What was read is added to a buffer.
LEMMA ResultCopied ==
  ASSUME NEW n \in Nat, NEW b \in [1 .. n -> Bits], NEW p \in Nat, NEW c \in Nat,
         dataRegs \in Seq(Bits)
  PROVE  /\ copyResultToBuffer(b, p, c) \in [1 .. n -> Bits]
         /\ \A k \in 1 .. n : ~(k \in p + 1 .. p + c) => copyResultToBuffer(b, p, c)[k] = b[k]
         /\ \A k \in 1 .. n : k \in p + 1 .. p + c /\ Len(dataRegs) = c /\ b[k] = 0
              => copyResultToBuffer(b, p, c)[k] = dataRegs[k - p]
<1> DEFINE new == copyResultToBuffer(b, p, c)
<1>1. /\ DOMAIN new = 1 .. n
      /\ new = [k \in 1 .. n |-> new[k]]
      /\ \A k \in 1 .. n :
           new[k] = IF k \in p + 1 .. p + c /\ k - p \in DOMAIN dataRegs
                      THEN Lesser(1, b[k] + dataRegs[k - p]) ELSE b[k]
  BY DEF copyResultToBuffer
<1> HIDE DEF new
<1>2. \A k \in DOMAIN dataRegs : dataRegs[k] \in Bits
  OBVIOUS
<1>3. \A x, y \in Bits : Lesser(1, x + y) \in Bits /\ Lesser(1, 0 + y) = y
  BY DEF Lesser, Bits
<1>4. \A k \in 1 .. n : new[k] \in Bits
  BY <1>1, <1>2, <1>3
<1>5. new \in [1 .. n -> Bits]
  BY <1>1, <1>4
<1>6. ASSUME NEW k \in 1 .. n, k \in p + 1 .. p + c, Len(dataRegs) = c, b[k] = 0
      PROVE  new[k] = dataRegs[k - p]
  <2>1. k - p \in DOMAIN dataRegs
    BY <1>6
  <2>2. new[k] = Lesser(1, 0 + dataRegs[k - p])
    BY <1>1, <1>6, <2>1
  <2> QED BY <1>2, <1>3, <2>1, <2>2
<1> QED BY <1>1, <1>5, <1>6 DEF new
-----------------------------------------------------------------------------
(***************************************************************************)
(* Each step keeps the invariant.                                          *)
(***************************************************************************)

\* A command for bytes of the flash.
LEMMA GoIs ==
  ASSUME NEW op \in {"read", "write", "erase", "eraseAll"}, NEW address \in Nat,
         NEW data \in Seq(Bits), Go(op, address, data)
  PROVE  /\ command' = [op |-> op, address |-> address, data |-> data]
         /\ command' \in Commands /\ command' # Idle
         /\ command'.op = op /\ command'.address = address /\ command'.data = data
         /\ interruptEnable' = TRUE
<1>1. command' = [op |-> op, address |-> address, data |-> data] /\ interruptEnable' = TRUE
  BY DEF Go
<1>2. command'.op = op /\ command'.address = address /\ command'.data = data
  BY <1>1
<1>3. command' # Idle
  BY <1>2 DEF Idle
<1>4. command' \in Commands
  BY <1>1 DEF Commands
<1> QED BY <1>1, <1>2, <1>3, <1>4

\* The driver accepts a request only when no other is in progress.
LEMMA OnlyReadyAccepts ==
  ASSUME FlashInv, operation = "NONE"
  PROVE  Ready
BY DEF FlashInv, Erasing, ReadsAlone, ReadsForThread, WritesAlone, WritesForThread, InTransfer

LEMMA AcceptIs ==
  ASSUME FlashInv, NEW op \in Ops, NEW address \in 0 .. FLASH_CAPACITY - 1, NEW data \in Seq(Bits),
         Accept(op, address, data)
  PROVE  /\ Ready
         /\ request' \in [op : Ops, address : Nat, data : Seq(Bits), clean : BOOLEAN]
         /\ request'.op = op /\ request'.address = address /\ request'.data = data
         /\ request'.clean => internalBuffer = Zeros(MAX_REQUEST)
         /\ completed' = 0 /\ requests' \in Nat
         /\ UNCHANGED <<array, dataRegs>>
<1>1. Ready
  BY OnlyReadyAccepts DEF Accept, flash_is_ready
<1>2. request' = [op |-> op, address |-> address, data |-> data,
                  clean |-> internalBuffer = Zeros(MAX_REQUEST)]
  BY DEF Accept
<1>3. address \in Nat /\ (internalBuffer = Zeros(MAX_REQUEST)) \in BOOLEAN
  BY FlashAssumption
<1>4. /\ request' \in [op : Ops, address : Nat, data : Seq(Bits), clean : BOOLEAN]
      /\ request'.op = op /\ request'.address = address /\ request'.data = data
  BY <1>2, <1>3
<1>5. request'.clean = (internalBuffer = Zeros(MAX_REQUEST))
  BY <1>2, Zenon
<1>6. completed' = 0 /\ requests' \in Nat /\ UNCHANGED <<array, dataRegs>>
  BY FlashAssumption DEF Accept, FlashInv, FlashTypes, HistoryTypes
<1> QED BY <1>1, <1>4, <1>5, <1>6

\* A request's bytes are in the flash, and there are not more than one request holds.
Fits(address, size) ==
  /\ address \in 0 .. FLASH_CAPACITY - 1
  /\ size \in 1 .. MAX_REQUEST /\ address + size <= FLASH_CAPACITY

LEMMA ReadKeeps ==
  ASSUME FlashInv, NEW address, NEW size, Fits(address, size), flash_read(address, size)
  PROVE  FlashInv'
<1>1. address \in 0 .. FLASH_CAPACITY - 1 /\ size \in Nat /\ size \in 1 .. MAX_REQUEST
  BY FlashAssumption DEF Fits
<1>2. Zeros(size) \in Seq(Bits) /\ Len(Zeros(size)) = size /\ \A k \in 1 .. size : Zeros(size)[k] = 0
  BY <1>1, ZerosAre
<1>3. /\ Ready
      /\ request' \in [op : Ops, address : Nat, data : Seq(Bits), clean : BOOLEAN]
      /\ request'.op = "READ_BLOCKING" /\ request'.address = address /\ request'.data = Zeros(size)
      /\ completed' = 0 /\ requests' \in Nat
      /\ UNCHANGED <<array, dataRegs>>
  BY <1>1, <1>2, AcceptIs DEF flash_read, Ops
<1>4. /\ operation' = "READ_BLOCKING" /\ thread' = "readIssue"
      /\ readWritePos' = 0 /\ readWriteSize' = size /\ startAddress' = address
      /\ buffer' = Zeros(size) /\ cycleDone' = FALSE
      /\ UNCHANGED <<command, interruptEnable, sizeWasRead, internalBuffer, flashFlag>>
  BY DEF flash_read, Transfer
<1>5. Size' = size
  BY <1>2, <1>3 DEF Size
<1>6. FlashTypes'
  <2>1. DeviceTypes'
    BY <1>1, <1>2, <1>3, <1>4 DEF FlashInv, FlashTypes, DeviceTypes
  <2>2. ProgressTypes'
    BY <1>1, <1>2, <1>3, <1>4, FlashAssumption DEF FlashInv, FlashTypes, ProgressTypes
  <2>3. BufferTypes'
    BY <1>1, <1>2, <1>3, <1>4 DEF FlashInv, FlashTypes, BufferTypes
  <2>4. HistoryTypes'
    BY <1>1, <1>2, <1>3, <1>4 DEF FlashInv, FlashTypes, HistoryTypes
  <2> QED BY <2>1, <2>2, <2>3, <2>4 DEF FlashTypes
<1>7. ReadsForThread'
  <2>1. InTransfer("READ_BLOCKING")'
    BY <1>1, <1>3, <1>4, <1>5 DEF InTransfer, Fits
  <2>2. Quiet'
    BY <1>3, <1>4 DEF Ready, Quiet
  <2>3. ReadInto(buffer)'
    BY <1>1, <1>2, <1>4, <1>5 DEF ReadInto
  <2> QED BY <1>2, <1>3, <1>4, <1>5, <2>1, <2>2, <2>3 DEF ReadsForThread
<1> QED BY <1>6, <1>7 DEF FlashInv

LEMMA WriteKeeps ==
  ASSUME FlashInv, NEW address, NEW size, Fits(address, size), NEW data \in [1 .. size -> Bits],
         flash_write(address, data)
  PROVE  FlashInv'
<1>1. address \in 0 .. FLASH_CAPACITY - 1 /\ size \in Nat /\ size \in 1 .. MAX_REQUEST
  BY FlashAssumption DEF Fits
<1>2. data \in Seq(Bits) /\ Len(data) = size
  BY <1>1, BufferIsSeq
<1>3. /\ Ready
      /\ request' \in [op : Ops, address : Nat, data : Seq(Bits), clean : BOOLEAN]
      /\ request'.op = "WRITE_BLOCKING" /\ request'.address = address /\ request'.data = data
      /\ completed' = 0 /\ requests' \in Nat
      /\ UNCHANGED <<array, dataRegs>>
  BY <1>1, <1>2, AcceptIs DEF flash_write, Ops
<1>4. /\ operation' = "WRITE_BLOCKING" /\ thread' = "writeIssue"
      /\ readWritePos' = 0 /\ readWriteSize' = size /\ startAddress' = address
      /\ buffer' = data /\ cycleDone' = FALSE /\ interruptEnable' = FALSE
      /\ UNCHANGED <<command, sizeWasRead, internalBuffer, flashFlag>>
  BY <1>2 DEF flash_write, Transfer
<1>5. Size' = size
  BY <1>2, <1>3 DEF Size
<1>6. FlashTypes'
  <2>1. DeviceTypes'
    BY <1>1, <1>2, <1>3, <1>4 DEF FlashInv, FlashTypes, DeviceTypes
  <2>2. ProgressTypes'
    BY <1>1, <1>2, <1>3, <1>4, FlashAssumption DEF FlashInv, FlashTypes, ProgressTypes
  <2>3. BufferTypes'
    BY <1>1, <1>2, <1>3, <1>4 DEF FlashInv, FlashTypes, BufferTypes
  <2>4. HistoryTypes'
    BY <1>1, <1>2, <1>3, <1>4 DEF FlashInv, FlashTypes, HistoryTypes
  <2> QED BY <2>1, <2>2, <2>3, <2>4 DEF FlashTypes
<1>7. WritesForThread'
  <2>1. InTransfer("WRITE_BLOCKING")'
    BY <1>1, <1>3, <1>4, <1>5 DEF InTransfer, Fits
  <2>2. Quiet'
    BY <1>3, <1>4 DEF Ready, Quiet
  <2> QED BY <1>2, <1>3, <1>4, <1>5, <2>1, <2>2 DEF WritesForThread
<1> QED BY <1>6, <1>7 DEF FlashInv

LEMMA ReadStartKeeps ==
  ASSUME FlashInv, NEW address, NEW size, Fits(address, size), flash_read_start(address, size)
  PROVE  FlashInv'
<1>1. address \in 0 .. FLASH_CAPACITY - 1 /\ size \in Nat /\ size \in 1 .. MAX_REQUEST
      /\ address \in Nat /\ address + 0 = address /\ 0 < size
  BY FlashAssumption DEF Fits
<1>2. Zeros(size) \in Seq(Bits) /\ Len(Zeros(size)) = size /\ \A k \in 1 .. size : Zeros(size)[k] = 0
  BY <1>1, ZerosAre
<1>3. /\ Ready
      /\ request' \in [op : Ops, address : Nat, data : Seq(Bits), clean : BOOLEAN]
      /\ request'.op = "READ_START" /\ request'.address = address /\ request'.data = Zeros(size)
      /\ request'.clean => internalBuffer = Zeros(MAX_REQUEST)
      /\ completed' = 0 /\ requests' \in Nat
      /\ UNCHANGED <<array, dataRegs>>
  BY <1>1, <1>2, AcceptIs DEF flash_read_start, Ops
<1>4. /\ operation' = "READ_START" /\ thread' = "readStarted"
      /\ readWritePos' = 0 /\ readWriteSize' = size /\ startAddress' = address
      /\ myFlushRead(address, size, 0)
      /\ UNCHANGED <<cycleDone, sizeWasRead, buffer, internalBuffer, flashFlag>>
  BY DEF flash_read_start, Transfer, buffers
<1>5. Size' = size
  BY <1>2, <1>3 DEF Size
<1>6. Chunk(size, 0) \in Nat /\ Chunk(size, 0) <= MAX_DATA
  BY <1>1, ChunkIs
<1>7. /\ Zeros(Chunk(size, 0)) \in Seq(Bits) /\ Len(Zeros(Chunk(size, 0))) = Chunk(size, 0)
  BY <1>6, ZerosAre
<1>8. /\ command' = [op |-> "read", address |-> address, data |-> Zeros(Chunk(size, 0))]
      /\ command' \in Commands /\ command' # Idle
      /\ command'.op = "read" /\ command'.data = Zeros(Chunk(size, 0))
      /\ interruptEnable' = TRUE
  <2>1. Go("read", address, Zeros(Chunk(size, 0)))
    BY <1>1, <1>4 DEF myFlushRead
  <2> QED BY <1>1, <1>7, <2>1, GoIs
<1>9. FlashTypes'
  <2>1. DeviceTypes'
    BY <1>1, <1>2, <1>3, <1>4, <1>6, <1>7, <1>8 DEF FlashInv, FlashTypes, DeviceTypes
  <2>2. ProgressTypes'
    BY <1>1, <1>2, <1>3, <1>4, <1>6, <1>7, <1>8, FlashAssumption DEF FlashInv, FlashTypes, ProgressTypes
  <2>3. BufferTypes'
    BY <1>1, <1>2, <1>3, <1>4, <1>6, <1>7, <1>8 DEF FlashInv, FlashTypes, BufferTypes
  <2>4. HistoryTypes'
    BY <1>1, <1>2, <1>3, <1>4, <1>6, <1>7, <1>8 DEF FlashInv, FlashTypes, HistoryTypes
  <2> QED BY <2>1, <2>2, <2>3, <2>4 DEF FlashTypes
<1>10. ReadsAlone'
  <2>1. InTransfer("READ_START")'
    BY <1>1, <1>3, <1>4, <1>5 DEF InTransfer, Fits
  <2>2. Running' /\ Reading'
    BY <1>1, <1>3, <1>4, <1>5, <1>8 DEF Ready, Quiet, Running, Reading
  <2>3. request'.clean => ReadInto(internalBuffer)'
    <3> SUFFICES ASSUME request'.clean PROVE ReadInto(internalBuffer)'
      OBVIOUS
    <3>1. internalBuffer' = Zeros(MAX_REQUEST) /\ MAX_REQUEST \in Nat
      BY <1>3, <1>4, FlashAssumption
    <3>2. \A k \in 1 .. size : internalBuffer'[k] = 0
      BY <1>1, <3>1, ZerosAre
    <3> QED BY <1>4, <1>5, <3>2 DEF ReadInto
  <2> QED BY <1>1, <1>3, <1>4, <1>5, <2>1, <2>2, <2>3 DEF ReadsAlone
<1> QED BY <1>9, <1>10 DEF FlashInv

LEMMA WriteStartKeeps ==
  ASSUME FlashInv, NEW address, NEW size, Fits(address, size), NEW data \in [1 .. size -> Bits],
         flash_write_start(address, data)
  PROVE  FlashInv'
<1>1. address \in 0 .. FLASH_CAPACITY - 1 /\ size \in Nat /\ size \in 1 .. MAX_REQUEST
      /\ address \in Nat /\ address + 0 = address /\ 0 < size
  BY FlashAssumption DEF Fits
<1>2. data \in Seq(Bits) /\ Len(data) = size
  BY <1>1, BufferIsSeq
<1>3. /\ Ready
      /\ request' \in [op : Ops, address : Nat, data : Seq(Bits), clean : BOOLEAN]
      /\ request'.op = "WRITE_START" /\ request'.address = address /\ request'.data = data
      /\ completed' = 0 /\ requests' \in Nat
      /\ UNCHANGED <<array, dataRegs>>
  BY <1>1, <1>2, AcceptIs DEF flash_write_start, Ops
<1>4. /\ operation' = "WRITE_START" /\ thread' = "writeStarted"
      /\ readWritePos' = 0 /\ readWriteSize' = size /\ startAddress' = address
      /\ myFlushWrite(data, address, size, 0)
      /\ internalBuffer' = data \o SubSeq(internalBuffer, Len(data) + 1, MAX_REQUEST)
      /\ UNCHANGED <<cycleDone, sizeWasRead, buffer, flashFlag>>
  BY <1>2 DEF flash_write_start, Transfer, buffers
<1>5. Size' = size
  BY <1>2, <1>3 DEF Size
<1>6. /\ Chunk(size, 0) \in Nat /\ Chunk(size, 0) <= MAX_DATA /\ Chunk(size, 0) \in 1 .. size
      /\ 0 + Chunk(size, 0) = Chunk(size, 0) /\ Chunk(size, 0) - 0 = Chunk(size, 0)
  BY <1>1, ChunkIs
<1>7. /\ SubSeq(data, 0 + 1, Chunk(size, 0)) \in Seq(Bits)
      /\ Len(SubSeq(data, 0 + 1, Chunk(size, 0))) = Chunk(size, 0)
      /\ \A k \in 1 .. Chunk(size, 0) : SubSeq(data, 0 + 1, Chunk(size, 0))[k] = data[0 + k]
  BY <1>1, <1>2, <1>6, PartIs
<1>8. /\ command' \in Commands /\ command' # Idle /\ interruptEnable' = TRUE
      /\ command'.op = "write" /\ command'.address = address
      /\ command'.data = SubSeq(data, 0 + 1, Chunk(size, 0))
  <2>1. Go("write", address, SubSeq(data, 0 + 1, Chunk(size, 0)))
    BY <1>1, <1>4, <1>6 DEF myFlushWrite
  <2> QED BY <1>1, <1>7, <2>1, GoIs
<1>9. /\ internalBuffer' \in [1 .. MAX_REQUEST -> Bits]
      /\ \A k \in 1 .. size : internalBuffer'[k] = data[k]
  BY <1>1, <1>2, <1>4, CopiedIn DEF FlashInv, FlashTypes, BufferTypes
<1>10. FlashTypes'
  <2>1. DeviceTypes'
    BY <1>1, <1>2, <1>3, <1>4, <1>6, <1>7, <1>8, <1>9 DEF FlashInv, FlashTypes, DeviceTypes
  <2>2. ProgressTypes'
    BY <1>1, <1>2, <1>3, <1>4, <1>6, <1>7, <1>8, <1>9, FlashAssumption DEF FlashInv, FlashTypes, ProgressTypes
  <2>3. BufferTypes'
    BY <1>1, <1>2, <1>3, <1>4, <1>6, <1>7, <1>8, <1>9 DEF FlashInv, FlashTypes, BufferTypes
  <2>4. HistoryTypes'
    BY <1>1, <1>2, <1>3, <1>4, <1>6, <1>7, <1>8, <1>9 DEF FlashInv, FlashTypes, HistoryTypes
  <2> QED BY <2>1, <2>2, <2>3, <2>4 DEF FlashTypes
<1>11. WritesAlone'
  <2>1. InTransfer("WRITE_START")'
    BY <1>1, <1>3, <1>4, <1>5 DEF InTransfer, Fits
  <2>2. Running'
    BY <1>3, <1>4, <1>8 DEF Ready, Quiet, Running
  <2>3. Writing(0, Chunk(Size, 0))'
    BY <1>1, <1>3, <1>4, <1>5, <1>6, <1>7, <1>8 DEF Writing
  <2> QED BY <1>3, <1>4, <1>5, <1>9, <2>1, <2>2, <2>3 DEF WritesAlone
<1> QED BY <1>10, <1>11 DEF FlashInv

LEMMA EraseStartKeeps ==
  ASSUME FlashInv, NEW op \in {"erase", "eraseAll"}, NEW address \in 0 .. FLASH_CAPACITY - 1,
         flash_erase_start(op, address)
  PROVE  FlashInv'
<1>1. <<>> \in Seq(Bits) /\ Len(<<>>) = 0 /\ address \in Nat /\ op \in Ops /\ 0 <= MAX_DATA
  BY FlashAssumption DEF Ops
<1>2. /\ Ready
      /\ request' \in [op : Ops, address : Nat, data : Seq(Bits), clean : BOOLEAN]
      /\ request'.op = op /\ request'.address = address /\ request'.data = <<>>
      /\ completed' = 0 /\ requests' \in Nat
      /\ UNCHANGED <<array, dataRegs>>
  BY <1>1, AcceptIs DEF flash_erase_start
<1>3. /\ operation' = "BLOCK_ERASE"
      /\ UNCHANGED <<cycleDone, readWritePos, readWriteSize, startAddress, sizeWasRead, buffer,
                     internalBuffer, flashFlag, thread>>
  BY DEF flash_erase_start, progress, buffers
<1>4. /\ command' = [op |-> op, address |-> address, data |-> <<>>]
      /\ command' \in Commands /\ command' # Idle
      /\ command'.op = op /\ command'.data = <<>>
      /\ interruptEnable' = TRUE
  BY <1>1, GoIs DEF flash_erase_start
<1>5. FlashTypes'
  <2>1. DeviceTypes'
    BY <1>1, <1>2, <1>3, <1>4 DEF FlashInv, FlashTypes, DeviceTypes
  <2>2. ProgressTypes'
    BY <1>1, <1>2, <1>3, <1>4, FlashAssumption DEF FlashInv, FlashTypes, ProgressTypes
  <2>3. BufferTypes'
    BY <1>1, <1>2, <1>3, <1>4 DEF FlashInv, FlashTypes, BufferTypes
  <2>4. HistoryTypes'
    BY <1>1, <1>2, <1>3, <1>4 DEF FlashInv, FlashTypes, HistoryTypes
  <2> QED BY <2>1, <2>2, <2>3, <2>4 DEF FlashTypes
<1>6. Erasing'
  <2>1. Running'
    BY <1>2, <1>3, <1>4 DEF Ready, Quiet, Running
  <2>2. thread' = "idle" /\ address < FLASH_CAPACITY
    BY <1>2, <1>3, FlashAssumption DEF Ready
  <2> QED BY <1>2, <1>3, <1>4, <2>1, <2>2 DEF Erasing
<1> QED BY <1>5, <1>6 DEF FlashInv
LEMMA RequestsKeep == FlashInv /\ Requests => FlashInv'
<1> SUFFICES ASSUME FlashInv, Requests PROVE FlashInv'
  OBVIOUS
<1>1. PICK address \in 0 .. FLASH_CAPACITY - 1 :
        \/ flash_erase_start("erase", address)
        \/ flash_erase_start("eraseAll", 0)
        \/ \E size \in 1 .. Lesser(MAX_REQUEST, FLASH_CAPACITY - address) :
             \/ flash_read(address, size) \/ flash_read_start(address, size)
             \/ \E data \in [1 .. size -> Bits] :
                  flash_write(address, data) \/ flash_write_start(address, data)
  BY DEF Requests
<1>2. 0 \in 0 .. FLASH_CAPACITY - 1
  BY FlashAssumption
<1>3. ASSUME NEW size \in 1 .. Lesser(MAX_REQUEST, FLASH_CAPACITY - address)
      PROVE  Fits(address, size)
  BY <1>1, FlashAssumption DEF Fits, Lesser
<1> QED BY <1>1, <1>2, <1>3, EraseStartKeeps, ReadKeeps, ReadStartKeeps, WriteKeeps, WriteStartKeeps

\* What the invariant says of a state in which the driver carries out an operation.
LEMMA PhaseIs ==
  ASSUME FlashInv
  PROVE  /\ operation = "NONE" => Ready
         /\ operation = "BLOCK_ERASE" => Erasing
         /\ operation = "READ_START" => ReadsAlone
         /\ operation = "READ_BLOCKING" => ReadsForThread
         /\ operation = "WRITE_START" => WritesAlone
         /\ operation = "WRITE_BLOCKING" => WritesForThread
         /\ thread = "readStarted" => ReadsAlone
         /\ thread = "writeStarted" => WritesAlone
         /\ thread \in {"readIssue", "readWait"} => ReadsForThread
         /\ thread \in {"writeIssue", "writeWait"} => WritesForThread
BY DEF FlashInv, Ready, Erasing, ReadsAlone, ReadsForThread, WritesAlone, WritesForThread, InTransfer

\* The request in progress, in numbers.
LEMMA TransferIs ==
  ASSUME FlashInv, NEW op, InTransfer(op)
  PROVE  /\ Size \in Nat /\ readWritePos \in Nat /\ readWriteSize = Size /\ readWritePos <= Size
         /\ startAddress \in Nat /\ MAX_REQUEST \in Nat /\ MAX_DATA \in Nat /\ Size <= MAX_REQUEST
         /\ startAddress + Size <= FLASH_CAPACITY /\ FLASH_CAPACITY \in Nat
         /\ request.data \in Seq(Bits)
         /\ readWritePos < Size =>
              /\ Chunk(Size, readWritePos) \in 1 .. MAX_DATA /\ Chunk(Size, readWritePos) \in Nat
              /\ readWritePos + Chunk(Size, readWritePos) \in 1 .. Size
              /\ readWritePos + Chunk(Size, readWritePos) > readWritePos
<1>1. /\ Size \in Nat /\ readWritePos \in Nat /\ readWriteSize = Size /\ readWritePos <= Size
      /\ startAddress \in Nat /\ MAX_REQUEST \in Nat /\ MAX_DATA \in Nat /\ Size <= MAX_REQUEST
      /\ startAddress + Size <= FLASH_CAPACITY /\ FLASH_CAPACITY \in Nat
      /\ request.data \in Seq(Bits)
  BY FlashAssumption DEF InTransfer, Size, FlashInv, FlashTypes, ProgressTypes, HistoryTypes
<1>2. readWritePos < Size =>
        /\ Chunk(Size, readWritePos) \in 1 .. MAX_DATA /\ Chunk(Size, readWritePos) \in Nat
        /\ readWritePos + Chunk(Size, readWritePos) \in 1 .. Size
        /\ readWritePos + Chunk(Size, readWritePos) > readWritePos
  BY <1>1, ChunkIs
<1> QED BY <1>1, <1>2

\* A command to read the next bytes, and one to write them.
LEMMA NextRead ==
  ASSUME NEW s \in Nat, NEW p \in Nat, p < s, NEW start \in Nat, myFlushRead(start, s, p)
  PROVE  /\ command' = [op |-> "read", address |-> start + p, data |-> Zeros(Chunk(s, p))]
         /\ command' \in Commands /\ command' # Idle /\ Len(command'.data) <= MAX_DATA
         /\ interruptEnable' = TRUE
<1>1. Chunk(s, p) \in Nat /\ Chunk(s, p) <= MAX_DATA /\ start + p \in Nat
  BY ChunkIs
<1>2. Zeros(Chunk(s, p)) \in Seq(Bits) /\ Len(Zeros(Chunk(s, p))) = Chunk(s, p)
  BY <1>1, ZerosAre
<1> QED BY <1>1, <1>2, GoIs DEF myFlushRead

LEMMA NextWrite ==
  ASSUME NEW source \in Seq(Bits), NEW s \in Nat, s <= Len(source), NEW p \in Nat, p < s,
         NEW start \in Nat, myFlushWrite(source, start, s, p)
  PROVE  /\ command' \in Commands /\ command' # Idle /\ Len(command'.data) <= MAX_DATA
         /\ command'.op = "write" /\ command'.address = start + p
         /\ Len(command'.data) = Chunk(s, p)
         /\ \A k \in 1 .. Chunk(s, p) : command'.data[k] = source[p + k]
         /\ interruptEnable' = TRUE
<1>1. /\ Chunk(s, p) \in Nat /\ Chunk(s, p) <= MAX_DATA /\ start + p \in Nat
      /\ p + Chunk(s, p) \in Nat /\ p < p + Chunk(s, p) /\ p + Chunk(s, p) <= Len(source)
      /\ p + Chunk(s, p) - p = Chunk(s, p)
  <2>1. Chunk(s, p) \in 1 .. MAX_DATA /\ Chunk(s, p) \in Nat /\ p + Chunk(s, p) \in 1 .. s
    BY ChunkIs
  <2>2. MAX_DATA \in Nat /\ Len(source) \in Nat
    BY FlashAssumption
  <2> QED BY <2>1, <2>2
<1>2. /\ SubSeq(source, p + 1, p + Chunk(s, p)) \in Seq(Bits)
      /\ Len(SubSeq(source, p + 1, p + Chunk(s, p))) = Chunk(s, p)
      /\ \A k \in 1 .. Chunk(s, p) : SubSeq(source, p + 1, p + Chunk(s, p))[k] = source[p + k]
  BY <1>1, PartIs
<1>3. /\ command' \in Commands /\ command' # Idle
      /\ command'.op = "write" /\ command'.address = start + p
      /\ command'.data = SubSeq(source, p + 1, p + Chunk(s, p))
      /\ interruptEnable' = TRUE
  BY <1>1, <1>2, GoIs DEF myFlushWrite
<1> QED BY <1>1, <1>2, <1>3

LEMMA ReadStartedKeeps == FlashInv /\ ReadStarted => FlashInv'
<1> SUFFICES ASSUME FlashInv, ReadStarted PROVE FlashInv'
  OBVIOUS
<1>1. ReadsAlone /\ thread = "readStarted"
  BY PhaseIs DEF ReadStarted, ThreadStep
<1>2. InTransfer("READ_START") /\ readWritePos < Size
  BY <1>1 DEF ReadsAlone
<1>3. /\ Chunk(Size, readWritePos) \in 0 .. MAX_DATA /\ readWriteSize = Size /\ readWritePos = 0
  BY <1>1, <1>2, TransferIs DEF ReadsAlone
<1>4. /\ thread' = "idle" /\ sizeWasRead' = Chunk(Size, readWritePos)
      /\ UNCHANGED <<array, command, cycleDone, interruptEnable, dataRegs, operation, readWritePos,
                     readWriteSize, startAddress, buffer, internalBuffer, flashFlag, request,
                     completed, requests>>
  BY <1>3 DEF ReadStarted, ThreadStep, registers, buffers, history
<1>5. FlashTypes'
  <2>1. DeviceTypes'
    BY <1>3, <1>4 DEF FlashInv, FlashTypes, DeviceTypes
  <2>2. ProgressTypes'
    BY <1>3, <1>4, FlashAssumption DEF FlashInv, FlashTypes, ProgressTypes
  <2>3. BufferTypes'
    BY <1>3, <1>4 DEF FlashInv, FlashTypes, BufferTypes
  <2>4. HistoryTypes'
    BY <1>3, <1>4 DEF FlashInv, FlashTypes, HistoryTypes
  <2> QED BY <2>1, <2>2, <2>3, <2>4 DEF FlashTypes
<1>6. ReadsAlone'
  BY <1>1, <1>2, <1>4
  DEF ReadsAlone, InTransfer, Size, Running, Reading, ReadInto
<1> QED BY <1>5, <1>6 DEF FlashInv

LEMMA WriteStartedKeeps == FlashInv /\ WriteStarted => FlashInv'
<1> SUFFICES ASSUME FlashInv, WriteStarted PROVE FlashInv'
  OBVIOUS
<1>1. WritesAlone /\ thread = "writeStarted"
  BY PhaseIs DEF WriteStarted, ThreadStep
<1>2. InTransfer("WRITE_START") /\ readWritePos = 0 /\ readWriteSize = Size
      /\ Running /\ Writing(0, Chunk(Size, 0)) /\ 0 < Size
  BY <1>1, TransferIs DEF WritesAlone, InTransfer
<1>3. /\ Chunk(Size, 0) \in 1 .. Size /\ 0 + Chunk(Size, 0) = Chunk(Size, 0) /\ Size <= MAX_REQUEST
      /\ Size \in Nat /\ MAX_REQUEST \in Nat /\ 0 \in 0 .. Chunk(Size, 0) - 1
  BY <1>2, TransferIs
<1>4. /\ thread' = "idle" /\ readWritePos' = Chunk(Size, 0)
      /\ UNCHANGED <<array, command, cycleDone, interruptEnable, dataRegs, operation,
                     readWriteSize, startAddress, sizeWasRead, buffer, internalBuffer, flashFlag,
                     request, completed, requests>>
  BY <1>2, <1>3 DEF WriteStarted, ThreadStep, registers, buffers, history
<1>5. readWritePos' \in 0 .. MAX_REQUEST /\ readWritePos' > 0 /\ readWritePos' <= Size
  BY <1>3, <1>4
<1>6. FlashTypes'
  <2>1. DeviceTypes'
    BY <1>4, <1>5 DEF FlashInv, FlashTypes, DeviceTypes
  <2>2. ProgressTypes'
    BY <1>4, <1>5, FlashAssumption DEF FlashInv, FlashTypes, ProgressTypes
  <2>3. BufferTypes'
    BY <1>4, <1>5 DEF FlashInv, FlashTypes, BufferTypes
  <2>4. HistoryTypes'
    BY <1>4, <1>5 DEF FlashInv, FlashTypes, HistoryTypes
  <2> QED BY <2>1, <2>2, <2>3, <2>4 DEF FlashTypes
<1>7. WritesAlone'
  <2>1. Size' = Size
    BY <1>4 DEF Size
  <2>2. InTransfer("WRITE_START")'
    BY <1>2, <1>4, <1>5, <2>1 DEF InTransfer
  <2>3. Running' /\ Writing(0, readWritePos)'
    BY <1>2, <1>4 DEF Running, Writing
  <2>4. \A k \in 1 .. Size' : internalBuffer'[k] = request'.data[k]
    BY <1>1, <1>4, <2>1 DEF WritesAlone
  <2>5. 0 \in 0 .. readWritePos' - 1
    BY <1>3, <1>4
  <2> QED BY <1>4, <1>5, <2>2, <2>3, <2>4, <2>5 DEF WritesAlone
<1> QED BY <1>6, <1>7 DEF FlashInv

LEMMA ReadIssueKeeps == FlashInv /\ ReadIssue => FlashInv'
<1> SUFFICES ASSUME FlashInv, ReadIssue PROVE FlashInv'
  OBVIOUS
<1>1. ReadsForThread /\ InTransfer("READ_BLOCKING") /\ Quiet
  BY PhaseIs DEF ReadIssue, ThreadStep, ReadsForThread
<1>2. /\ readWriteSize = Size /\ readWritePos < Size /\ Size \in Nat /\ readWritePos \in Nat
      /\ startAddress \in Nat /\ Chunk(Size, readWritePos) \in 1 .. MAX_DATA
      /\ Chunk(Size, readWritePos) \in 0 .. MAX_DATA
  <2>1. /\ readWriteSize = Size /\ Size \in Nat /\ readWritePos \in Nat /\ startAddress \in Nat
        /\ MAX_DATA \in Nat
    BY <1>1, TransferIs
  <2>2. readWritePos < Size
    BY <2>1 DEF ReadIssue
  <2> QED BY <1>1, <2>1, <2>2, TransferIs
<1>3. /\ thread' = "readWait" /\ myFlushRead(startAddress, Size, readWritePos)
      /\ sizeWasRead' = Chunk(Size, readWritePos)
      /\ UNCHANGED <<array, dataRegs, cycleDone, operation, readWritePos, readWriteSize,
                     startAddress, buffer, internalBuffer, flashFlag, request, completed, requests>>
  BY <1>2 DEF ReadIssue, ThreadStep, buffers, history
<1>4. /\ command' = [op |-> "read", address |-> startAddress + readWritePos,
                     data |-> Zeros(Chunk(Size, readWritePos))]
      /\ command' \in Commands /\ command' # Idle /\ Len(command'.data) <= MAX_DATA
      /\ interruptEnable' = TRUE
  BY <1>2, <1>3, NextRead
<1>5. FlashTypes'
  <2>1. DeviceTypes'
    BY <1>2, <1>3, <1>4 DEF FlashInv, FlashTypes, DeviceTypes
  <2>2. ProgressTypes'
    BY <1>2, <1>3, <1>4, FlashAssumption DEF FlashInv, FlashTypes, ProgressTypes
  <2>3. BufferTypes'
    BY <1>2, <1>3, <1>4 DEF FlashInv, FlashTypes, BufferTypes
  <2>4. HistoryTypes'
    BY <1>2, <1>3, <1>4 DEF FlashInv, FlashTypes, HistoryTypes
  <2> QED BY <2>1, <2>2, <2>3, <2>4 DEF FlashTypes
<1>6. ReadsForThread'
  <2>1. Size' = Size
    BY <1>3 DEF Size
  <2>2. InTransfer("READ_BLOCKING")' /\ Running' /\ Reading' /\ ReadInto(buffer)'
    BY <1>1, <1>3, <1>4, <2>1 DEF InTransfer, Quiet, Running, Reading, ReadsForThread, ReadInto
  <2> QED BY <1>1, <1>2, <1>3, <2>1, <2>2 DEF ReadsForThread
<1> QED BY <1>5, <1>6 DEF FlashInv

\* What was read is in its place.
LEMMA CopiedOut ==
  ASSUME FlashInv, NEW op, InTransfer(op), readWritePos < Size, HasRead,
         NEW n \in Nat, NEW b \in [1 .. n -> Bits], n >= Size, ReadInto(b),
         NEW new, new = copyResultToBuffer(b, readWritePos, Chunk(Size, readWritePos))
  PROVE  /\ new \in [1 .. n -> Bits]
         /\ \A k \in 1 .. Size :
              new[k] = IF k <= readWritePos + Chunk(Size, readWritePos)
                         THEN array[startAddress + k - 1] ELSE 0
<1> DEFINE p == readWritePos
           c == Chunk(Size, readWritePos)
<1>1. p \in Nat /\ c \in Nat /\ Size \in Nat /\ startAddress \in Nat /\ p + c <= Size
  BY TransferIs
<1>2. /\ dataRegs \in Seq(Bits) /\ Len(dataRegs) = c
      /\ \A k \in 1 .. c : dataRegs[k] = array[startAddress + p + k - 1]
  BY <1>1 DEF HasRead, FlashInv, FlashTypes, DeviceTypes
<1> HIDE DEF c
<1>3. /\ new \in [1 .. n -> Bits]
      /\ \A k \in 1 .. n : ~(k \in p + 1 .. p + c) => new[k] = b[k]
      /\ \A k \in 1 .. n : k \in p + 1 .. p + c /\ Len(dataRegs) = c /\ b[k] = 0
              => new[k] = dataRegs[k - p]
  <2>1. new = copyResultToBuffer(b, p, c)
    BY DEF c
  <2>2. dataRegs \in Seq(Bits)
    BY <1>2
  <2>3. n \in Nat /\ b \in [1 .. n -> Bits] /\ p \in Nat /\ c \in Nat
    BY <1>1
  <2> HIDE DEF p
  <2>4. LET m == copyResultToBuffer(b, p, c)
        IN  /\ m \in [1 .. n -> Bits]
            /\ \A k \in 1 .. n : ~(k \in p + 1 .. p + c) => m[k] = b[k]
            /\ \A k \in 1 .. n : k \in p + 1 .. p + c /\ Len(dataRegs) = c /\ b[k] = 0
                  => m[k] = dataRegs[k - p]
    BY <2>2, <2>3, ResultCopied
  <2> QED BY <2>1, <2>4, Zenon
<1>4. ASSUME NEW k \in 1 .. Size
      PROVE  new[k] = IF k <= p + c THEN array[startAddress + k - 1] ELSE 0
  <2>1. k \in 1 .. n /\ b[k] = IF k <= p THEN array[startAddress + k - 1] ELSE 0
    BY <1>1 DEF ReadInto
  <2>2. CASE k \in p + 1 .. p + c
    <3>1. b[k] = 0
      BY <1>1, <2>1, <2>2
    <3>2. new[k] = dataRegs[k - p]
      BY <1>2, <1>3, <2>1, <2>2, <3>1
    <3>3. k - p \in 1 .. c /\ startAddress + p + (k - p) - 1 = startAddress + k - 1 /\ k <= p + c
      BY <1>1, <2>2
    <3> QED BY <1>2, <3>2, <3>3
  <2>3. CASE ~(k \in p + 1 .. p + c)
    BY <1>1, <1>3, <2>1, <2>3
  <2> QED BY <2>2, <2>3
<1> QED BY <1>3, <1>4 DEF c

LEMMA ReadCopyKeeps == FlashInv /\ ReadCopy => FlashInv'
<1> SUFFICES ASSUME FlashInv, ReadCopy PROVE FlashInv'
  OBVIOUS
<1> DEFINE c == Chunk(Size, readWritePos)
<1>1. /\ InTransfer("READ_BLOCKING") /\ request.data = Zeros(Size) /\ sizeWasRead = c
      /\ readWritePos < Size /\ Told /\ HasRead /\ Len(buffer) = Size /\ ReadInto(buffer)
  BY PhaseIs DEF ReadCopy, ThreadStep, ReadsForThread, Running, Ended, Told
<1>2. /\ Size \in Nat /\ readWritePos + c \in 1 .. Size /\ Size <= MAX_REQUEST /\ MAX_REQUEST \in Nat
      /\ buffer \in [1 .. Size -> Bits]
  BY <1>1, TransferIs DEF FlashInv, FlashTypes, BufferTypes
<1>3. /\ thread' = "readIssue" /\ flashFlag' = FALSE
      /\ buffer' = copyResultToBuffer(buffer, readWritePos, c)
      /\ readWritePos' = readWritePos + c
      /\ UNCHANGED <<array, dataRegs, command, cycleDone, interruptEnable, operation, readWriteSize,
                     startAddress, sizeWasRead, internalBuffer, request, completed, requests>>
  BY <1>1 DEF ReadCopy, ThreadStep, registers, history
<1> HIDE DEF c
<1>4. /\ buffer' \in [1 .. Size -> Bits]
      /\ \A k \in 1 .. Size :
           buffer'[k] = IF k <= readWritePos + c THEN array[startAddress + k - 1] ELSE 0
  BY <1>1, <1>2, <1>3, CopiedOut DEF c
<1>5. buffer' \in Seq(Bits) /\ Len(buffer') = Size /\ readWritePos' \in 0 .. MAX_REQUEST
  BY <1>2, <1>3, <1>4, BufferIsSeq
<1>6. FlashTypes'
  <2>1. DeviceTypes'
    BY <1>3, <1>5 DEF FlashInv, FlashTypes, DeviceTypes
  <2>2. ProgressTypes'
    BY <1>3, <1>5, FlashAssumption DEF FlashInv, FlashTypes, ProgressTypes
  <2>3. BufferTypes'
    BY <1>3, <1>5 DEF FlashInv, FlashTypes, BufferTypes
  <2>4. HistoryTypes'
    BY <1>3, <1>5 DEF FlashInv, FlashTypes, HistoryTypes
  <2> QED BY <2>1, <2>2, <2>3, <2>4 DEF FlashTypes
<1>7. ReadsForThread'
  <2>1. Size' = Size
    BY <1>3 DEF Size
  <2>2. InTransfer("READ_BLOCKING")'
    BY <1>1, <1>2, <1>3, <2>1 DEF InTransfer
  <2>3. Quiet' /\ ReadInto(buffer)'
    BY <1>1, <1>3, <1>4, <2>1 DEF Told, Quiet, ReadInto
  <2> QED BY <1>1, <1>3, <1>5, <2>1, <2>2, <2>3 DEF ReadsForThread
<1> QED BY <1>6, <1>7 DEF FlashInv
LEMMA WriteIssueKeeps == FlashInv /\ WriteIssue => FlashInv'
<1> SUFFICES ASSUME FlashInv, WriteIssue PROVE FlashInv'
  OBVIOUS
<1> DEFINE p == readWritePos
           c == Chunk(Size, readWritePos)
<1>1. WritesForThread /\ InTransfer("WRITE_BLOCKING") /\ Quiet /\ buffer = request.data
  BY PhaseIs DEF WriteIssue, ThreadStep, WritesForThread
<1>2. /\ readWriteSize = Size /\ p < Size /\ Size \in Nat /\ p \in Nat
      /\ startAddress \in Nat /\ c \in 1 .. MAX_DATA /\ c \in Nat /\ p + c \in 1 .. Size
      /\ p + c \in 0 .. MAX_REQUEST /\ buffer \in Seq(Bits) /\ Len(buffer) = Size
  <2>1. /\ readWriteSize = Size /\ Size \in Nat /\ p \in Nat /\ startAddress \in Nat
        /\ MAX_DATA \in Nat /\ MAX_REQUEST \in Nat /\ Size <= MAX_REQUEST
        /\ request.data \in Seq(Bits)
    BY <1>1, TransferIs
  <2>2. p < Size
    BY <2>1 DEF WriteIssue
  <2> QED BY <1>1, <2>1, <2>2, TransferIs DEF Size
<1>3. /\ thread' = "writeWait" /\ myFlushWrite(buffer, startAddress, Size, p)
      /\ readWritePos' = p + c
      /\ UNCHANGED <<array, dataRegs, cycleDone, operation, readWriteSize, startAddress,
                     sizeWasRead, buffer, internalBuffer, flashFlag, request, completed, requests>>
  BY <1>2 DEF WriteIssue, ThreadStep, buffers, history
<1> HIDE DEF c
<1>4. /\ command' \in Commands /\ command' # Idle /\ Len(command'.data) <= MAX_DATA
      /\ command'.op = "write" /\ command'.address = startAddress + p
      /\ Len(command'.data) = c
      /\ \A k \in 1 .. c : command'.data[k] = buffer[p + k]
      /\ interruptEnable' = TRUE
  <2>1. /\ Size \in Nat /\ p \in Nat /\ p < Size /\ startAddress \in Nat
        /\ buffer \in Seq(Bits) /\ Size <= Len(buffer)
    BY <1>2
  <2> HIDE DEF p
  <2>2. myFlushWrite(buffer, startAddress, Size, p) /\ c = Chunk(Size, p)
    BY <1>3 DEF c, p
  <2> QED BY <2>1, <2>2, NextWrite
<1>5. FlashTypes'
  <2>1. DeviceTypes'
    BY <1>2, <1>3, <1>4 DEF FlashInv, FlashTypes, DeviceTypes
  <2>2. ProgressTypes'
    BY <1>2, <1>3, <1>4, FlashAssumption DEF FlashInv, FlashTypes, ProgressTypes
  <2>3. BufferTypes'
    BY <1>2, <1>3, <1>4 DEF FlashInv, FlashTypes, BufferTypes
  <2>4. HistoryTypes'
    BY <1>2, <1>3, <1>4 DEF FlashInv, FlashTypes, HistoryTypes
  <2> QED BY <2>1, <2>2, <2>3, <2>4 DEF FlashTypes
<1>6. WritesForThread'
  <2>1. Size' = Size
    BY <1>3 DEF Size
  <2>2. InTransfer("WRITE_BLOCKING")'
    BY <1>1, <1>2, <1>3, <2>1 DEF InTransfer
  <2>3. Running'
    BY <1>1, <1>3, <1>4 DEF Quiet, Running
  <2>4. readWritePos' - p = c /\ p \in 0 .. readWritePos' - 1
    BY <1>2, <1>3
  <2>5. \E from \in 0 .. readWritePos' - 1 : Writing(from, readWritePos)'
    <3>1. /\ command'.op = "write" /\ command'.address = startAddress' + p
          /\ Len(command'.data) = readWritePos' - p
          /\ \A k \in 1 .. readWritePos' - p : command'.data[k] = request'.data[p + k]
      BY <1>1, <1>3, <1>4, <2>4
    <3> QED BY <2>4, <3>1 DEF Writing
  <2>6. readWritePos' > 0 /\ buffer' = request'.data
    BY <1>1, <1>2, <1>3
  <2> QED BY <1>3, <2>2, <2>3, <2>5, <2>6 DEF WritesForThread
<1> QED BY <1>5, <1>6 DEF FlashInv

LEMMA WriteWaitedKeeps == FlashInv /\ WriteWaited => FlashInv'
<1> SUFFICES ASSUME FlashInv, WriteWaited PROVE FlashInv'
  OBVIOUS
<1>1. InTransfer("WRITE_BLOCKING") /\ Told /\ buffer = request.data
  BY PhaseIs DEF WriteWaited, ThreadStep, WritesForThread, Running, Ended, Told
<1>2. /\ thread' = "writeIssue" /\ flashFlag' = FALSE
      /\ UNCHANGED <<array, command, cycleDone, interruptEnable, dataRegs, operation, readWritePos,
                     readWriteSize, startAddress, sizeWasRead, buffer, internalBuffer, request,
                     completed, requests>>
  BY DEF WriteWaited, ThreadStep, registers, progress, buffers, history
<1>3. FlashTypes'
  <2>1. DeviceTypes'
    BY <1>2 DEF FlashInv, FlashTypes, DeviceTypes
  <2>2. ProgressTypes'
    BY <1>2, FlashAssumption DEF FlashInv, FlashTypes, ProgressTypes
  <2>3. BufferTypes'
    BY <1>2 DEF FlashInv, FlashTypes, BufferTypes
  <2>4. HistoryTypes'
    BY <1>2 DEF FlashInv, FlashTypes, HistoryTypes
  <2> QED BY <2>1, <2>2, <2>3, <2>4 DEF FlashTypes
<1>4. WritesForThread'
  BY <1>1, <1>2 DEF WritesForThread, InTransfer, Size, Told, Quiet
<1> QED BY <1>3, <1>4 DEF FlashInv

\* What blocking requests are at when they return.
LEMMA ReturnIs ==
  ASSUME FlashInv, BlockingReturns
  PROVE  /\ Quiet /\ completed = 0 /\ readWritePos = Size /\ InTransfer(request.op)
         /\ \/ ReadsForThread /\ request.op = "READ_BLOCKING" /\ ReadInto(buffer)
               /\ Len(buffer) = Size
            \/ WritesForThread /\ request.op = "WRITE_BLOCKING"
<1>1. CASE thread = "readIssue"
  <2>1. ReadsForThread /\ InTransfer("READ_BLOCKING")
    BY <1>1, PhaseIs DEF ReadsForThread
  <2>2. readWritePos = Size
    BY <2>1, TransferIs DEF BlockingReturns
  <2> QED BY <1>1, <2>1, <2>2 DEF ReadsForThread, InTransfer
<1>2. CASE thread = "writeIssue"
  <2>1. WritesForThread /\ InTransfer("WRITE_BLOCKING")
    BY <1>2, PhaseIs DEF WritesForThread
  <2>2. readWritePos = Size
    BY <2>1, TransferIs DEF BlockingReturns
  <2> QED BY <1>2, <2>1, <2>2 DEF WritesForThread, InTransfer
<1> QED BY <1>1, <1>2 DEF BlockingReturns

LEMMA BlockingReturnsKeeps == FlashInv /\ BlockingReturns => FlashInv'
<1> SUFFICES ASSUME FlashInv, BlockingReturns PROVE FlashInv'
  OBVIOUS
<1>1. Quiet /\ completed = 0
  BY ReturnIs
<1>2. /\ thread' = "idle" /\ operation' = "NONE" /\ cycleDone' = FALSE /\ interruptEnable' = TRUE
      /\ completed' = 1
      /\ UNCHANGED <<array, dataRegs, command, readWritePos, readWriteSize, startAddress,
                     sizeWasRead, buffer, internalBuffer, flashFlag, request, requests>>
  BY <1>1 DEF BlockingReturns, ThreadStep, progress, buffers
<1>3. FlashTypes'
  <2>1. DeviceTypes'
    BY <1>2 DEF FlashInv, FlashTypes, DeviceTypes
  <2>2. ProgressTypes'
    BY <1>2, FlashAssumption DEF FlashInv, FlashTypes, ProgressTypes
  <2>3. BufferTypes'
    BY <1>2 DEF FlashInv, FlashTypes, BufferTypes
  <2>4. HistoryTypes'
    BY <1>2 DEF FlashInv, FlashTypes, HistoryTypes
  <2> QED BY <2>1, <2>2, <2>3, <2>4 DEF FlashTypes
<1>4. Ready'
  BY <1>1, <1>2 DEF Ready, Quiet
<1> QED BY <1>3, <1>4 DEF FlashInv

LEMMA InterruptBlockingKeeps == FlashInv /\ InterruptBlocking => FlashInv'
<1> SUFFICES ASSUME FlashInv, InterruptBlocking PROVE FlashInv'
  OBVIOUS
<1>1. /\ cycleDone /\ cycleDone' = FALSE /\ flashFlag' = TRUE
      /\ UNCHANGED <<array, command, interruptEnable, dataRegs, operation, readWritePos,
                     readWriteSize, startAddress, sizeWasRead, buffer, internalBuffer, thread,
                     request, completed, requests>>
  BY DEF InterruptBlocking, Interrupted, progress, buffers, history
<1>2. FlashTypes'
  <2>1. DeviceTypes'
    BY <1>1 DEF FlashInv, FlashTypes, DeviceTypes
  <2>2. ProgressTypes'
    BY <1>1, FlashAssumption DEF FlashInv, FlashTypes, ProgressTypes
  <2>3. BufferTypes'
    BY <1>1 DEF FlashInv, FlashTypes, BufferTypes
  <2>4. HistoryTypes'
    BY <1>1 DEF FlashInv, FlashTypes, HistoryTypes
  <2> QED BY <2>1, <2>2, <2>3, <2>4 DEF FlashTypes
<1>3. CASE operation = "READ_BLOCKING"
  <2>1. ReadsForThread
    BY <1>3, PhaseIs
  <2>2. ReadsForThread'
    BY <1>1, <2>1
    DEF ReadsForThread, InTransfer, Size, Quiet, Running, Ended, Told, HasRead, ReadInto
  <2> QED BY <1>2, <2>2 DEF FlashInv
<1>4. CASE operation = "WRITE_BLOCKING"
  <2>1. WritesForThread
    BY <1>4, PhaseIs
  <2>2. WritesForThread'
    BY <1>1, <2>1 DEF WritesForThread, InTransfer, Size, Quiet, Running, Ended, Told
  <2> QED BY <1>2, <2>2 DEF FlashInv
<1> QED BY <1>3, <1>4 DEF InterruptBlocking

LEMMA InterruptEraseKeeps == FlashInv /\ InterruptErase => FlashInv'
<1> SUFFICES ASSUME FlashInv, InterruptErase PROVE FlashInv'
  OBVIOUS
<1>1. Erasing
  BY PhaseIs DEF InterruptErase
<1>2. /\ cycleDone /\ cycleDone' = FALSE
      /\ operation' = "NONE" /\ interruptEnable' = TRUE /\ completed' = 1
      /\ UNCHANGED <<array, command, dataRegs, readWritePos, readWriteSize, startAddress,
                     sizeWasRead, buffer, internalBuffer, flashFlag, thread, request, requests>>
  BY <1>1 DEF InterruptErase, Interrupted, CallsBack, Erasing, progress, buffers
<1>3. FlashTypes'
  <2>1. DeviceTypes'
    BY <1>2 DEF FlashInv, FlashTypes, DeviceTypes
  <2>2. ProgressTypes'
    BY <1>2, FlashAssumption DEF FlashInv, FlashTypes, ProgressTypes
  <2>3. BufferTypes'
    BY <1>2 DEF FlashInv, FlashTypes, BufferTypes
  <2>4. HistoryTypes'
    BY <1>2 DEF FlashInv, FlashTypes, HistoryTypes
  <2> QED BY <2>1, <2>2, <2>3, <2>4 DEF FlashTypes
<1>4. Ready'
  BY <1>1, <1>2 DEF Ready, Erasing, Quiet, Running, Ended
<1> QED BY <1>3, <1>4 DEF FlashInv

\* The interrupt after a command of flash_write_start.
LEMMA InterruptWriteKeeps == FlashInv /\ InterruptWrite => FlashInv'
<1> SUFFICES ASSUME FlashInv, InterruptWrite PROVE FlashInv'
  OBVIOUS
<1> DEFINE p == readWritePos
           c == Chunk(Size, readWritePos)
<1>1. /\ WritesAlone /\ InTransfer("WRITE_START") /\ Ended /\ thread = "idle" /\ p > 0
      /\ \A k \in 1 .. Size : internalBuffer[k] = request.data[k]
  BY PhaseIs DEF InterruptWrite, Interrupted, WritesAlone, Running, Ended
<1>2. /\ readWriteSize = Size /\ Size \in Nat /\ p \in Nat /\ p <= Size /\ Size <= MAX_REQUEST
      /\ startAddress \in Nat /\ MAX_REQUEST \in Nat /\ completed = 0
      /\ internalBuffer \in Seq(Bits) /\ Len(internalBuffer) = MAX_REQUEST
  <2>1. /\ readWriteSize = Size /\ Size \in Nat /\ p \in Nat /\ p <= Size /\ Size <= MAX_REQUEST
        /\ startAddress \in Nat /\ MAX_REQUEST \in Nat /\ completed = 0
    BY <1>1, TransferIs DEF InTransfer
  <2> QED BY <2>1, BufferIsSeq DEF FlashInv, FlashTypes, BufferTypes
<1>3. /\ cycleDone' = FALSE
      /\ UNCHANGED <<array, dataRegs, readWriteSize, startAddress, sizeWasRead, buffer,
                     internalBuffer, flashFlag, thread, request, requests>>
  BY DEF InterruptWrite, Interrupted, buffers
<1>4. CASE p < Size
  <2>1. c \in 1 .. MAX_DATA /\ c \in Nat /\ p + c \in 1 .. Size /\ p + c \in 0 .. MAX_REQUEST
    BY <1>1, <1>2, <1>4, TransferIs
  <2>2. /\ myFlushWrite(internalBuffer, startAddress, Size, p)
        /\ readWritePos' = p + c
        /\ UNCHANGED <<operation, completed>>
    BY <1>2, <1>4 DEF InterruptWrite
  <2> HIDE DEF c
  <2>3. /\ command' \in Commands /\ command' # Idle /\ Len(command'.data) <= MAX_DATA
        /\ command'.op = "write" /\ command'.address = startAddress + p
        /\ Len(command'.data) = c
        /\ \A k \in 1 .. c : command'.data[k] = internalBuffer[p + k]
        /\ interruptEnable' = TRUE
    BY <1>2, <1>4, <2>2, NextWrite DEF c
  <2>4. FlashTypes'
    <3>1. DeviceTypes'
      BY <1>2, <1>3, <2>1, <2>2, <2>3 DEF FlashInv, FlashTypes, DeviceTypes
    <3>2. ProgressTypes'
      BY <1>2, <1>3, <2>1, <2>2, <2>3, FlashAssumption DEF FlashInv, FlashTypes, ProgressTypes
    <3>3. BufferTypes'
      BY <1>2, <1>3, <2>1, <2>2, <2>3 DEF FlashInv, FlashTypes, BufferTypes
    <3>4. HistoryTypes'
      BY <1>2, <1>3, <2>1, <2>2, <2>3 DEF FlashInv, FlashTypes, HistoryTypes
    <3> QED BY <3>1, <3>2, <3>3, <3>4 DEF FlashTypes
  <2>5. WritesAlone'
    <3>1. Size' = Size
      BY <1>3 DEF Size
    <3>2. InTransfer("WRITE_START")'
      BY <1>1, <1>2, <1>3, <2>1, <2>2, <3>1 DEF InTransfer
    <3>3. Running'
      BY <1>1, <1>3, <2>3 DEF Ended, Running
    <3>4. readWritePos' - p = c /\ p \in 0 .. readWritePos' - 1 /\ readWritePos' > 0
      BY <1>2, <2>1, <2>2
    <3>5. \A k \in 1 .. c : p + k \in 1 .. Size
      BY <1>2, <2>1
    <3>6. /\ command'.op = "write" /\ command'.address = startAddress' + p
          /\ Len(command'.data) = readWritePos' - p
          /\ \A k \in 1 .. readWritePos' - p : command'.data[k] = request'.data[p + k]
      BY <1>1, <1>3, <2>3, <3>4, <3>5
    <3>7. \E from \in 0 .. readWritePos' - 1 : Writing(from, readWritePos)'
      BY <3>4, <3>6 DEF Writing
    <3>8. \A k \in 1 .. Size' : internalBuffer'[k] = request'.data[k]
      BY <1>1, <1>3, <3>1
    <3> QED BY <1>1, <1>3, <3>2, <3>3, <3>4, <3>7, <3>8 DEF WritesAlone
  <2> QED BY <2>4, <2>5 DEF FlashInv
<1>5. CASE ~(p < Size)
  <2>1. /\ operation' = "NONE" /\ interruptEnable' = TRUE /\ completed' = 1
        /\ UNCHANGED <<command, readWritePos>>
    BY <1>2, <1>5 DEF InterruptWrite, CallsBack
  <2>2. FlashTypes'
    <3>1. DeviceTypes'
      BY <1>3, <2>1 DEF FlashInv, FlashTypes, DeviceTypes
    <3>2. ProgressTypes'
      BY <1>3, <2>1, FlashAssumption DEF FlashInv, FlashTypes, ProgressTypes
    <3>3. BufferTypes'
      BY <1>3, <2>1 DEF FlashInv, FlashTypes, BufferTypes
    <3>4. HistoryTypes'
      BY <1>3, <2>1 DEF FlashInv, FlashTypes, HistoryTypes
    <3> QED BY <3>1, <3>2, <3>3, <3>4 DEF FlashTypes
  <2>3. Ready'
    BY <1>1, <1>3, <2>1 DEF Ready, Quiet, Ended
  <2> QED BY <2>2, <2>3 DEF FlashInv
<1> QED BY <1>4, <1>5

\* The interrupt after a command of flash_read_start.
LEMMA InterruptReadIs ==
  ASSUME FlashInv, InterruptRead
  PROVE  LET c == Chunk(Size, readWritePos) IN
         /\ InTransfer("READ_START") /\ request.data = Zeros(Size) /\ thread = "idle" /\ Ended
         /\ readWritePos < Size /\ HasRead
         /\ Size \in Nat /\ Size <= MAX_REQUEST /\ startAddress \in Nat
         /\ readWritePos' = readWritePos + c
         /\ readWritePos' \in 1 .. Size /\ readWritePos' \in Nat
         /\ internalBuffer' \in [1 .. MAX_REQUEST -> Bits]
         /\ request.clean =>
              \A k \in 1 .. Size :
                internalBuffer'[k] = IF k <= readWritePos' THEN array[startAddress + k - 1] ELSE 0
<1> DEFINE c == Chunk(Size, readWritePos)
<1>1. /\ InTransfer("READ_START") /\ request.data = Zeros(Size) /\ thread = "idle" /\ Ended
      /\ readWritePos < Size /\ HasRead /\ sizeWasRead = c
      /\ request.clean => ReadInto(internalBuffer)
  BY PhaseIs DEF InterruptRead, Interrupted, ReadsAlone, Running, Ended
<1>2. /\ Size \in Nat /\ readWritePos + c \in 1 .. Size /\ Size <= MAX_REQUEST /\ MAX_REQUEST \in Nat
      /\ internalBuffer \in [1 .. MAX_REQUEST -> Bits] /\ dataRegs \in Seq(Bits)
      /\ readWritePos \in Nat /\ c \in Nat /\ readWritePos + c \in Nat /\ startAddress \in Nat
  BY <1>1, TransferIs DEF FlashInv, FlashTypes, BufferTypes, DeviceTypes
<1>3. /\ internalBuffer' = copyResultToBuffer(internalBuffer, readWritePos, c)
      /\ readWritePos' = readWritePos + c
  BY <1>1 DEF InterruptRead
<1> HIDE DEF c
<1>4. internalBuffer' \in [1 .. MAX_REQUEST -> Bits]
  BY <1>2, <1>3, ResultCopied
<1>5. ASSUME request.clean
      PROVE  \A k \in 1 .. Size :
               internalBuffer'[k] = IF k <= readWritePos' THEN array[startAddress + k - 1] ELSE 0
  <2>1. ReadInto(internalBuffer)
    BY <1>1, <1>5
  <2> QED BY <1>1, <1>2, <1>3, <2>1, CopiedOut DEF c
<1> QED BY <1>1, <1>2, <1>3, <1>4, <1>5 DEF c

LEMMA InterruptReadKeeps == FlashInv /\ InterruptRead => FlashInv'
<1> SUFFICES ASSUME FlashInv, InterruptRead PROVE FlashInv'
  OBVIOUS
<1> DEFINE p == readWritePos'
           c == Chunk(Size, readWritePos')
<1>1. /\ InTransfer("READ_START") /\ request.data = Zeros(Size) /\ thread = "idle" /\ Ended
      /\ readWriteSize = Size /\ Size \in Nat /\ Size <= MAX_REQUEST /\ startAddress \in Nat
      /\ p \in 1 .. Size /\ p \in Nat /\ p \in 0 .. MAX_REQUEST /\ completed = 0
      /\ internalBuffer' \in [1 .. MAX_REQUEST -> Bits]
      /\ request.clean =>
           \A k \in 1 .. Size :
             internalBuffer'[k] = IF k <= p THEN array[startAddress + k - 1] ELSE 0
  <2>1. MAX_REQUEST \in Nat
    BY FlashAssumption
  <2> QED BY <2>1, InterruptReadIs DEF InTransfer
<1>2. /\ cycleDone' = FALSE
      /\ UNCHANGED <<array, dataRegs, readWriteSize, startAddress, buffer, flashFlag, thread,
                     request, requests>>
  BY DEF InterruptRead, Interrupted
<1>3. Size' = Size
  BY <1>2 DEF Size
<1>4. CASE p < Size
  <2>1. c \in 0 .. MAX_DATA /\ c \in Nat
    BY <1>1, <1>4, ChunkIs
  <2>2. /\ myFlushRead(startAddress, Size, p) /\ sizeWasRead' = c
        /\ UNCHANGED <<operation, completed>>
    BY <1>1, <1>4 DEF InterruptRead
  <2>3. /\ command' = [op |-> "read", address |-> startAddress + p, data |-> Zeros(c)]
        /\ command' \in Commands /\ command' # Idle /\ Len(command'.data) <= MAX_DATA
        /\ interruptEnable' = TRUE
    BY <1>1, <1>4, <2>2, NextRead
  <2> HIDE DEF c
  <2>4. FlashTypes'
    <3>1. DeviceTypes'
      BY <1>1, <1>2, <2>1, <2>2, <2>3 DEF FlashInv, FlashTypes, DeviceTypes
    <3>2. ProgressTypes'
      BY <1>1, <1>2, <2>1, <2>2, <2>3, FlashAssumption DEF FlashInv, FlashTypes, ProgressTypes
    <3>3. BufferTypes'
      BY <1>1, <1>2, <2>1, <2>2, <2>3 DEF FlashInv, FlashTypes, BufferTypes
    <3>4. HistoryTypes'
      BY <1>1, <1>2, <2>1, <2>2, <2>3 DEF FlashInv, FlashTypes, HistoryTypes
    <3> QED BY <3>1, <3>2, <3>3, <3>4 DEF FlashTypes
  <2>5. ReadsAlone'
    <3>1. InTransfer("READ_START")'
      BY <1>1, <1>2, <1>3, <2>2 DEF InTransfer
    <3>2. Running' /\ Reading'
      BY <1>1, <1>2, <1>3, <2>3 DEF Ended, Running, Reading, c
    <3>3. request'.clean => ReadInto(internalBuffer)'
      BY <1>1, <1>2, <1>3 DEF ReadInto
    <3> QED BY <1>1, <1>2, <1>3, <1>4, <2>2, <3>1, <3>2, <3>3 DEF ReadsAlone, c
  <2> QED BY <2>4, <2>5 DEF FlashInv
<1>5. CASE ~(p < Size)
  <2>1. /\ operation' = "NONE" /\ interruptEnable' = TRUE /\ completed' = 1
        /\ UNCHANGED <<command, sizeWasRead>>
    BY <1>1, <1>5 DEF InterruptRead, CallsBack
  <2>2. FlashTypes'
    <3>1. DeviceTypes'
      BY <1>1, <1>2, <2>1 DEF FlashInv, FlashTypes, DeviceTypes
    <3>2. ProgressTypes'
      BY <1>1, <1>2, <2>1, FlashAssumption DEF FlashInv, FlashTypes, ProgressTypes
    <3>3. BufferTypes'
      BY <1>1, <1>2, <2>1 DEF FlashInv, FlashTypes, BufferTypes
    <3>4. HistoryTypes'
      BY <1>1, <1>2, <2>1 DEF FlashInv, FlashTypes, HistoryTypes
    <3> QED BY <3>1, <3>2, <3>3, <3>4 DEF FlashTypes
  <2>3. Ready'
    BY <1>1, <1>2, <2>1 DEF Ready, Quiet, Ended
  <2> QED BY <2>2, <2>3 DEF FlashInv
<1> QED BY <1>4, <1>5
\* What the commands leave in the flash.
LEMMA ReadEffect ==
  ASSUME NEW c, c.op = "read"
  PROVE  Effect(c, array) = [a \in DOMAIN array |-> array[a]]
<1>1. c.op \notin {"write", "WRITE_BLOCKING", "WRITE_START"} /\ c.op # "erase" /\ c.op # "eraseAll"
  OBVIOUS
<1> QED BY <1>1, Zenon DEF Effect

LEMMA WriteEffect ==
  ASSUME NEW c, c.op = "write"
  PROVE  Effect(c, array) =
           [a \in DOMAIN array |->
              IF a - c.address + 1 \in DOMAIN c.data
                THEN Lesser(array[a], c.data[a - c.address + 1]) ELSE array[a]]
<1>1. c.op \in {"write", "WRITE_BLOCKING", "WRITE_START"} /\ c.op # "erase" /\ c.op # "eraseAll"
  OBVIOUS
<1> QED BY <1>1, Zenon DEF Effect

LEMMA EraseEffect ==
  ASSUME NEW c, c.op \in {"erase", "eraseAll"}
  PROVE  Effect(c, array) =
           [a \in DOMAIN array |->
              IF c.op = "eraseAll" \/ Block(a) = Block(c.address) THEN 1 ELSE array[a]]
<1>1. c.op \notin {"write", "WRITE_BLOCKING", "WRITE_START"}
  OBVIOUS
<1>2. CASE c.op = "erase"
  <2>1. c.op # "eraseAll"
    BY <1>2
  <2> QED BY <1>1, <1>2, <2>1, Zenon DEF Effect
<1>3. CASE c.op = "eraseAll"
  <2>1. c.op # "erase"
    BY <1>3
  <2> QED BY <1>1, <1>3, <2>1, Zenon DEF Effect
<1> QED BY <1>2, <1>3

LEMMA EffectTypes ==
  ASSUME array \in Array, NEW c \in Commands, c.op \in {"read", "write", "erase", "eraseAll"}
  PROVE  Effect(c, array) \in Array
<1>1. DOMAIN array = 0 .. FLASH_CAPACITY - 1 /\ \A a \in DOMAIN array : array[a] \in Bits
  BY DEF Array
<1>2. c.data \in Seq(Bits) /\ \A k \in DOMAIN c.data : c.data[k] \in Bits
  BY DEF Commands
<1>3. \A x, y \in Bits : Lesser(x, y) \in Bits
  BY DEF Lesser, Bits
<1>4. CASE c.op = "read"
  BY <1>1, <1>4, ReadEffect DEF Array
<1>5. CASE c.op = "write"
  BY <1>1, <1>2, <1>3, <1>5, WriteEffect DEF Array
<1>6. CASE c.op \in {"erase", "eraseAll"}
  BY <1>1, <1>6, EraseEffect DEF Array, Bits
<1> QED BY <1>4, <1>5, <1>6

\* The command that ends belongs to a phase that waits for it.
LEMMA EndIs ==
  ASSUME ~Prompt, FlashInv, CommandEnds
  PROVE  /\ Running /\ thread \notin {"readStarted", "writeStarted"}
         /\ Erasing \/ ReadsAlone \/ ReadsForThread \/ WritesAlone \/ WritesForThread
         /\ ReadsAlone \/ ReadsForThread => Reading /\ readWritePos < Size
         /\ WritesAlone \/ WritesForThread =>
              \E from \in 0 .. readWritePos - 1 : Writing(from, readWritePos)
         /\ Erasing => command = [op |-> request.op, address |-> request.address, data |-> <<>>]
         /\ command.op \in {"read", "write", "erase", "eraseAll"}
         /\ command' = Idle /\ cycleDone' = TRUE /\ array' = Effect(command, array)
         /\ dataRegs' = IF command.op = "read" THEN BytesOf(command, array) ELSE dataRegs
         /\ UNCHANGED <<interruptEnable, operation, readWritePos, readWriteSize, startAddress,
                        sizeWasRead, buffer, internalBuffer, flashFlag, thread, request, completed,
                        requests>>
<1>1. /\ command # Idle /\ thread \notin {"readStarted", "writeStarted"}
      /\ command' = Idle /\ cycleDone' = TRUE /\ array' = Effect(command, array)
      /\ dataRegs' = IF command.op = "read" THEN BytesOf(command, array) ELSE dataRegs
      /\ UNCHANGED <<interruptEnable, operation, readWritePos, readWriteSize, startAddress,
                        sizeWasRead, buffer, internalBuffer, flashFlag, thread, request, completed,
                        requests>>
  BY DEF CommandEnds, progress, buffers, history
<1>2. Erasing \/ ReadsAlone \/ ReadsForThread \/ WritesAlone \/ WritesForThread
  BY <1>1 DEF FlashInv, Ready, Quiet
<1>3. ASSUME ReadsAlone \/ ReadsForThread
      PROVE  Running /\ Reading /\ readWritePos < Size /\ command.op = "read"
  BY <1>1, <1>3 DEF ReadsAlone, ReadsForThread, Quiet, Ended, Told, Reading
<1>4. ASSUME WritesAlone \/ WritesForThread
      PROVE  /\ Running /\ command.op = "write"
             /\ \E from \in 0 .. readWritePos - 1 : Writing(from, readWritePos)
  BY <1>1, <1>4 DEF WritesAlone, WritesForThread, Quiet, Ended, Told, Writing
<1>5. ASSUME Erasing
      PROVE  /\ Running /\ command.op \in {"erase", "eraseAll"}
             /\ command = [op |-> request.op, address |-> request.address, data |-> <<>>]
  BY <1>1, <1>5 DEF Erasing, Ended
<1> QED BY <1>1, <1>2, <1>3, <1>4, <1>5

LEMMA CommandEndsKeeps == ~Prompt /\ FlashInv /\ CommandEnds => FlashInv'
<1> SUFFICES ASSUME ~Prompt, FlashInv, CommandEnds PROVE FlashInv'
  OBVIOUS
<1>1. /\ Running /\ thread \notin {"readStarted", "writeStarted"}
      /\ Erasing \/ ReadsAlone \/ ReadsForThread \/ WritesAlone \/ WritesForThread
      /\ command.op \in {"read", "write", "erase", "eraseAll"}
      /\ command' = Idle /\ cycleDone' = TRUE /\ array' = Effect(command, array)
      /\ dataRegs' = IF command.op = "read" THEN BytesOf(command, array) ELSE dataRegs
      /\ UNCHANGED <<interruptEnable, operation, readWritePos, readWriteSize, startAddress,
                     sizeWasRead, buffer, internalBuffer, flashFlag, thread, request, completed,
                     requests>>
  BY EndIs
<1>2. array' \in Array
  BY <1>1, EffectTypes DEF FlashInv, FlashTypes, DeviceTypes
<1>3. Idle \in Commands /\ Len(Idle.data) <= MAX_DATA
  BY FlashAssumption DEF Idle, Commands
<1>4. Size' = Size
  BY <1>1 DEF Size
<1>5. Ended'
  BY <1>1 DEF Running, Ended
<1>6. ASSUME ReadsAlone \/ ReadsForThread
      PROVE  array' = array /\ HasRead' /\ dataRegs' \in Seq(Bits)
  <2> DEFINE c == Chunk(Size, readWritePos)
             at == startAddress + readWritePos
  <2>1. Reading /\ readWritePos < Size /\ \E op \in Ops : InTransfer(op)
    BY <1>6, EndIs DEF ReadsAlone, ReadsForThread, Ops
  <2>2. /\ c \in Nat /\ readWritePos \in Nat /\ startAddress \in Nat /\ Size \in Nat
        /\ readWritePos + c <= Size /\ startAddress + Size <= FLASH_CAPACITY /\ FLASH_CAPACITY \in Nat
    BY <2>1, TransferIs
  <2>3. command.op = "read" /\ command.address = at /\ command.data = Zeros(c)
    BY <2>1 DEF Reading
  <2>4. array \in Array /\ array' = array
    <3>1. array \in Array
      BY DEF FlashInv, FlashTypes, DeviceTypes
    <3>2. array' = [a \in DOMAIN array |-> array[a]]
      BY <1>1, <2>3, ReadEffect
    <3> QED BY <3>1, <3>2 DEF Array
  <2>5. DOMAIN Zeros(c) = 1 .. c
    BY <2>2 DEF Zeros
  <2>6. dataRegs' = [k \in 1 .. c |-> array[at + k - 1]]
    BY <1>1, <2>3, <2>5 DEF BytesOf
  <2> HIDE DEF c
  <2>7. \A k \in 1 .. c : array[at + k - 1] \in Bits
    BY <2>2, <2>4 DEF Array
  <2>8. dataRegs' \in [1 .. c -> Bits]
    BY <2>6, <2>7
  <2>9. dataRegs' \in Seq(Bits)
    BY <2>2, <2>8, BufferIsSeq
  <2>10. HasRead'
    BY <1>1, <1>4, <2>4, <2>6 DEF HasRead, c
  <2> QED BY <2>4, <2>9, <2>10
<1>7. ASSUME ~(ReadsAlone \/ ReadsForThread)
      PROVE  dataRegs' \in Seq(Bits)
  <2>1. command.op # "read"
    BY <1>1, <1>7, EndIs DEF Writing, Erasing
  <2> QED BY <1>1, <2>1 DEF FlashInv, FlashTypes, DeviceTypes
<1>8. FlashTypes'
  <2>1. DeviceTypes'
    BY <1>1, <1>2, <1>3, <1>6, <1>7 DEF FlashInv, FlashTypes, DeviceTypes
  <2>2. ProgressTypes' /\ BufferTypes' /\ HistoryTypes'
    BY <1>1 DEF FlashInv, FlashTypes, ProgressTypes, BufferTypes, HistoryTypes
  <2> QED BY <2>1, <2>2 DEF FlashTypes
<1>9. CASE ReadsAlone
  <2>1. array' = array /\ HasRead'
    BY <1>6, <1>9
  <2>2. ReadsAlone'
    BY <1>1, <1>4, <1>5, <1>9, <2>1 DEF ReadsAlone, InTransfer, ReadInto
  <2> QED BY <1>8, <2>2 DEF FlashInv
<1>10. CASE ReadsForThread
  <2>1. array' = array /\ HasRead'
    BY <1>6, <1>10
  <2>2. ReadsForThread'
    BY <1>1, <1>4, <1>5, <1>10, <2>1 DEF ReadsForThread, InTransfer, ReadInto, Quiet, Running
  <2> QED BY <1>8, <2>2 DEF FlashInv
<1>11. CASE WritesAlone
  <2>1. WritesAlone'
    BY <1>1, <1>4, <1>5, <1>11 DEF WritesAlone, InTransfer
  <2> QED BY <1>8, <2>1 DEF FlashInv
<1>12. CASE WritesForThread
  <2>1. WritesForThread'
    BY <1>1, <1>4, <1>5, <1>12 DEF WritesForThread, InTransfer, Quiet, Running
  <2> QED BY <1>8, <2>1 DEF FlashInv
<1>13. CASE Erasing
  <2>1. Erasing'
    BY <1>1, <1>5, <1>13 DEF Erasing
  <2> QED BY <1>8, <2>1 DEF FlashInv
<1> QED BY <1>1, <1>9, <1>10, <1>11, <1>12, <1>13

LEMMA FlashInvInit == FlashInit => FlashInv
<1> SUFFICES ASSUME FlashInit PROVE FlashInv
  OBVIOUS
<1>1. /\ Idle \in Commands /\ Len(Idle.data) = 0 /\ <<>> \in Seq(Bits) /\ "none" \in Ops
      /\ MAX_REQUEST \in Nat /\ 0 \in 0 .. FLASH_CAPACITY - 1 /\ 0 \in 0 .. MAX_REQUEST
      /\ 0 \in 0 .. MAX_DATA /\ 0 <= MAX_DATA
  BY FlashAssumption DEF Idle, Commands, Ops
<1>2. Zeros(MAX_REQUEST) \in [1 .. MAX_REQUEST -> Bits]
  BY DEF Zeros, Bits
<1>3. DeviceTypes
  BY <1>1 DEF FlashInit, DeviceTypes, Array, Bits
<1>4. ProgressTypes
  BY <1>1 DEF FlashInit, ProgressTypes
<1>5. BufferTypes
  BY <1>1, <1>2 DEF FlashInit, BufferTypes
<1>6. HistoryTypes
  BY <1>1 DEF FlashInit, HistoryTypes
<1>7. Ready
  BY DEF FlashInit, Ready, Quiet
<1> QED BY <1>3, <1>4, <1>5, <1>6, <1>7 DEF FlashInv, FlashTypes

LEMMA FlashInvStep ==
  ASSUME ~Prompt, FlashInv, [FlashNext]_flashVars
  PROVE  FlashInv'
<1>1. CASE UNCHANGED flashVars
  BY <1>1
  DEF flashVars, registers, progress, buffers, history, FlashInv, FlashTypes, DeviceTypes,
      ProgressTypes, BufferTypes, HistoryTypes, Ready, Erasing, ReadsAlone, ReadsForThread,
      WritesAlone, WritesForThread, InTransfer, Size, Quiet, Running, Ended, Told, Reading,
      HasRead, Writing, ReadInto
<1> QED
  BY <1>1, RequestsKeep, ReadStartedKeeps, WriteStartedKeeps, ReadIssueKeeps, ReadCopyKeeps,
     WriteIssueKeeps, WriteWaitedKeeps, BlockingReturnsKeeps, InterruptReadKeeps,
     InterruptWriteKeeps, InterruptEraseKeeps, InterruptBlockingKeeps, CommandEndsKeeps, Zenon
  DEF FlashNext, CallingThread, flash_interrupt

LEMMA FlashInvHolds ==
  ASSUME ~Prompt
  PROVE  FlashSpec => []FlashInv
<1>1. FlashInv /\ [FlashNext]_flashVars => FlashInv'
  BY FlashInvStep
<1> QED BY <1>1, FlashInvInit, PTL DEF FlashSpec

-----------------------------------------------------------------------------
(***************************************************************************)
(* What the invariant shows.                                               *)
(***************************************************************************)

\* Every reachable state of the driver has the declared types.
THEOREM FlashTypeCorrect ==
  ASSUME ~Prompt
  PROVE  FlashSpec => []FlashTypeOK
<1>1. FlashInv => FlashTypeOK
  BY DEF FlashInv, FlashTypes, DeviceTypes, ProgressTypes, BufferTypes, HistoryTypes, FlashTypeOK,
         Commands
<1> QED BY <1>1, FlashInvHolds, PTL

\* A request is answered once, and then nothing of it is left that the next one would meet.
THEOREM RequestsAnsweredOnce ==
  ASSUME ~Prompt
  PROVE  FlashSpec => []AnsweredOnce
<1>1. FlashInv => AnsweredOnce
  <2> SUFFICES ASSUME FlashInv PROVE AnsweredOnce
    OBVIOUS
  <2>1. completed \in {0, 1}
    BY DEF FlashInv, FlashTypes, HistoryTypes
  <2>2. completed = 1 => Ready
    BY DEF FlashInv, Erasing, ReadsAlone, ReadsForThread, WritesAlone, WritesForThread, InTransfer
  <2> QED BY <2>1, <2>2 DEF AnsweredOnce, Ready, Quiet, flash_is_ready
<1> QED BY <1>1, FlashInvHolds, PTL

\* A command is started only when the device is through with the last one and its end was seen.
THEOREM CommandsKeepApart ==
  ASSUME ~Prompt
  PROVE  FlashSpec => CommandsNotOverrun
<1>1. FlashInv /\ [FlashNext]_flashVars =>
        [command' # command /\ command' # Idle => command = Idle /\ ~cycleDone']_flashVars
  <2> SUFFICES ASSUME FlashInv, FlashNext, command' # command, command' # Idle
               PROVE  command = Idle /\ ~cycleDone'
    BY DEF flashVars, registers
  <2>1. CASE Requests
    <3>1. flash_is_ready /\ (cycleDone' = cycleDone \/ cycleDone' = FALSE)
      BY <2>1
      DEF Requests, flash_read, flash_write, flash_read_start, flash_write_start,
          flash_erase_start, Accept
    <3> QED BY <3>1 DEF flash_is_ready, FlashInv, FlashTypes, DeviceTypes
  <2>2. CASE CallingThread
    <3>1. ReadIssue \/ WriteIssue
      BY <2>2
      DEF CallingThread, ReadStarted, WriteStarted, ReadCopy, WriteWaited, BlockingReturns, registers
    <3>2. Quiet /\ cycleDone' = cycleDone
      BY <3>1, PhaseIs DEF ReadIssue, WriteIssue, ThreadStep, ReadsForThread, WritesForThread
    <3> QED BY <3>2 DEF Quiet
  <2>3. CASE flash_interrupt
    <3>1. cycleDone /\ cycleDone' = FALSE
      BY <2>3
      DEF flash_interrupt, InterruptRead, InterruptWrite, InterruptErase, InterruptBlocking, Interrupted
    <3> QED
      BY <3>1
      DEF FlashInv, Ready, Erasing, ReadsAlone, ReadsForThread, WritesAlone, WritesForThread, Quiet,
          Running, Ended, Told
  <2>4. CASE CommandEnds
    BY <2>4 DEF CommandEnds
  <2> QED BY <2>1, <2>2, <2>3, <2>4 DEF FlashNext
<1> QED BY <1>1, FlashInvHolds, PTL DEF FlashSpec, CommandsNotOverrun
-----------------------------------------------------------------------------
(***************************************************************************)
(* The refinement of FlashMemory: a request is asked when it is accepted;  *)
(* a command that ends writes or erases; the last step of a request        *)
(* answers it; and the other steps are not seen.                           *)
(***************************************************************************)

\* What the request in progress is to FlashMemory.
LEMMA KindIs ==
  /\ request.op \in {"READ_BLOCKING", "READ_START"} => Kind = "read"
  /\ request.op \in {"WRITE_BLOCKING", "WRITE_START"} => Kind = "write"
  /\ request.op \in {"erase", "eraseAll"} => Kind = request.op
<1>1. CASE request.op \in {"READ_BLOCKING", "READ_START"}
  <2>1. request.op \notin {"WRITE_BLOCKING", "WRITE_START"} /\ request.op \notin {"erase", "eraseAll"}
    BY <1>1
  <2> QED BY <1>1, <2>1, Zenon DEF Kind
<1>2. CASE request.op \in {"WRITE_BLOCKING", "WRITE_START"}
  <2>1. request.op \notin {"READ_BLOCKING", "READ_START"} /\ request.op \notin {"erase", "eraseAll"}
    BY <1>2
  <2> QED BY <1>2, <2>1, Zenon DEF Kind
<1>3. CASE request.op \in {"erase", "eraseAll"}
  <2>1. /\ request.op \notin {"READ_BLOCKING", "READ_START"}
        /\ request.op \notin {"WRITE_BLOCKING", "WRITE_START"}
    BY <1>3
  <2> QED BY <1>3, <2>1, Zenon DEF Kind
<1> QED BY <1>1, <1>2, <1>3

\* Between requests.
LEMMA MemoryIdle ==
  completed = 1 =>
    /\ Asked = Idle /\ Done = 0
    /\ Kind # "read" => Answer = <<>>
    /\ Kind = "read" /\ request.op = "READ_BLOCKING" => Answer = buffer
    /\ Kind = "read" /\ request.op # "READ_BLOCKING" =>
         Answer = IF request.clean THEN SubSeq(internalBuffer, 1, Size) ELSE BytesOf(request, array)
<1> SUFFICES ASSUME completed = 1
             PROVE  /\ Asked = Idle /\ Done = 0
                    /\ Kind # "read" => Answer = <<>>
                    /\ Kind = "read" /\ request.op = "READ_BLOCKING" => Answer = buffer
                    /\ Kind = "read" /\ request.op # "READ_BLOCKING" =>
                         Answer = IF request.clean THEN SubSeq(internalBuffer, 1, Size)
                                  ELSE BytesOf(request, array)
  OBVIOUS
<1>1. completed # 0
  OBVIOUS
<1>2. Asked = Idle
  BY <1>1 DEF Asked
<1>3. Done = 0
  BY <1>1, Zenon DEF Done
<1>4. ASSUME Kind # "read"
      PROVE  Answer = <<>>
  <2>1. request.op # "READ_BLOCKING"
    BY <1>4, KindIs
  <2> QED BY <1>4, <2>1, Zenon DEF Answer
<1>5. ASSUME Kind = "read", request.op = "READ_BLOCKING"
      PROVE  Answer = buffer
  <2>1. /\ ~(completed = 0 \/ Kind # "read")
        /\ completed # 0 /\ request.op = "READ_BLOCKING"
    BY <1>1, <1>5
  <2> QED BY <2>1, Zenon DEF Answer
<1>6. ASSUME Kind = "read", request.op # "READ_BLOCKING"
      PROVE  Answer = IF request.clean THEN SubSeq(internalBuffer, 1, Size)
                      ELSE BytesOf(request, array)
  <2>1. /\ ~(completed = 0 \/ Kind # "read")
        /\ ~(completed # 0 /\ request.op = "READ_BLOCKING")
    BY <1>1, <1>6
  <2> QED BY <2>1, Zenon DEF Answer, Size
<1> QED BY <1>2, <1>3, <1>4, <1>5, <1>6

\* During a request.
LEMMA MemoryBusy ==
  completed = 0 =>
    /\ Asked = [op |-> Kind, address |-> request.address, data |-> request.data]
    /\ Answer = <<>>
    /\ Kind = "read" => Done = 0
    /\ Kind = "write" =>
         Done = IF command = Idle THEN readWritePos ELSE command.address - request.address
    /\ Kind \in {"erase", "eraseAll"} => Done = IF command = Idle THEN 1 ELSE 0
<1> SUFFICES ASSUME completed = 0
             PROVE  /\ Asked = [op |-> Kind, address |-> request.address, data |-> request.data]
                    /\ Answer = <<>>
                    /\ Kind = "read" => Done = 0
                    /\ Kind = "write" =>
                         Done = IF command = Idle THEN readWritePos
                                ELSE command.address - request.address
                    /\ Kind \in {"erase", "eraseAll"} => Done = IF command = Idle THEN 1 ELSE 0
  OBVIOUS
<1>1. Asked = [op |-> Kind, address |-> request.address, data |-> request.data]
  BY DEF Asked
<1>2. Answer = <<>>
  BY Zenon DEF Answer
<1>3. Kind = "read" => Done = 0
  BY Zenon DEF Done
<1>4. ASSUME Kind = "write"
      PROVE  Done = IF command = Idle THEN readWritePos ELSE command.address - request.address
  <2>1. Kind # "read"
    BY <1>4
  <2> QED BY <1>4, <2>1, Zenon DEF Done
<1>5. ASSUME Kind \in {"erase", "eraseAll"}
      PROVE  Done = IF command = Idle THEN 1 ELSE 0
  <2>1. Kind # "read" /\ Kind # "write"
    BY <1>5
  <2> QED BY <2>1, Zenon DEF Done
<1> QED BY <1>1, <1>2, <1>3, <1>4, <1>5

\* The same after a step.
LEMMA MemoryNext ==
  /\ request'.op \in {"READ_BLOCKING", "READ_START"} => Kind' = "read"
  /\ request'.op \in {"WRITE_BLOCKING", "WRITE_START"} => Kind' = "write"
  /\ request'.op \in {"erase", "eraseAll"} => Kind' = request'.op
  /\ completed' = 1 =>
       /\ Asked' = Idle /\ Done' = 0
       /\ Kind' # "read" => Answer' = <<>>
       /\ Kind' = "read" /\ request'.op = "READ_BLOCKING" => Answer' = buffer'
       /\ Kind' = "read" /\ request'.op # "READ_BLOCKING" =>
            Answer' = IF request'.clean THEN SubSeq(internalBuffer', 1, Size')
                      ELSE BytesOf(request', array')
  /\ completed' = 0 =>
       /\ Asked' = [op |-> Kind', address |-> request'.address, data |-> request'.data]
       /\ Answer' = <<>>
       /\ Kind' = "read" => Done' = 0
       /\ Kind' = "write" =>
            Done' = IF command' = Idle THEN readWritePos' ELSE command'.address - request'.address
       /\ Kind' \in {"erase", "eraseAll"} => Done' = IF command' = Idle THEN 1 ELSE 0
<1>1. (/\ request.op \in {"READ_BLOCKING", "READ_START"} => Kind = "read"
       /\ request.op \in {"WRITE_BLOCKING", "WRITE_START"} => Kind = "write"
       /\ request.op \in {"erase", "eraseAll"} => Kind = request.op)'
  BY KindIs, PTL
<1>2. (completed = 1 =>
        /\ Asked = Idle /\ Done = 0
        /\ Kind # "read" => Answer = <<>>
        /\ Kind = "read" /\ request.op = "READ_BLOCKING" => Answer = buffer
        /\ Kind = "read" /\ request.op # "READ_BLOCKING" =>
             Answer = IF request.clean THEN SubSeq(internalBuffer, 1, Size)
                      ELSE BytesOf(request, array))'
  BY MemoryIdle, PTL
<1>3. (completed = 0 =>
        /\ Asked = [op |-> Kind, address |-> request.address, data |-> request.data]
        /\ Answer = <<>>
        /\ Kind = "read" => Done = 0
        /\ Kind = "write" =>
             Done = IF command = Idle THEN readWritePos ELSE command.address - request.address
        /\ Kind \in {"erase", "eraseAll"} => Done = IF command = Idle THEN 1 ELSE 0)'
  BY MemoryBusy, PTL
<1>4. BytesOf(request, array)' = BytesOf(request', array')
  BY DEF BytesOf
<1> QED BY <1>1, <1>2, <1>3, <1>4

\* Two states of one request.
LEMMA StaysBusy ==
  ASSUME completed = 0, completed' = 0, UNCHANGED request,
         request.op \in Ops \ {"none"}
  PROVE  /\ UNCHANGED <<Kind, Asked, Answer>>
         /\ Asked.op = Kind /\ Asked.address = request.address /\ Asked.data = request.data
         /\ Kind = "read" => UNCHANGED Done
<1>1. /\ request'.op = request.op /\ request'.address = request.address
      /\ request'.data = request.data
  OBVIOUS
<1>2. Kind' = Kind
  BY <1>1, KindIs, MemoryNext DEF Ops
<1>3. /\ Asked = [op |-> Kind, address |-> request.address, data |-> request.data]
      /\ Asked' = [op |-> Kind', address |-> request'.address, data |-> request'.data]
      /\ Answer = <<>> /\ Answer' = <<>>
      /\ Kind = "read" => Done = 0
      /\ Kind' = "read" => Done' = 0
  BY MemoryBusy, MemoryNext
<1>4. Asked' = Asked /\ Asked.op = Kind /\ Asked.address = request.address /\ Asked.data = request.data
  BY <1>1, <1>2, <1>3
<1> QED BY <1>2, <1>3, <1>4

\* A request that is accepted.
LEMMA AskIs ==
  ASSUME FlashInv, NEW op \in Ops, NEW address \in 0 .. FLASH_CAPACITY - 1, NEW data \in Seq(Bits),
         Accept(op, address, data)
  PROVE  /\ Asked = Idle /\ Answer' = <<>> /\ UNCHANGED array
         /\ op \in {"READ_BLOCKING", "READ_START"} =>
              Asked' = [op |-> "read", address |-> address, data |-> data] /\ Done' = 0
         /\ op \in {"WRITE_BLOCKING", "WRITE_START"} =>
              /\ Asked' = [op |-> "write", address |-> address, data |-> data]
              /\ Done' = IF command' = Idle THEN readWritePos' ELSE command'.address - address
         /\ op \in {"erase", "eraseAll"} =>
              /\ Asked' = [op |-> op, address |-> address, data |-> data]
              /\ Done' = IF command' = Idle THEN 1 ELSE 0
<1>1. /\ completed = 1 /\ completed' = 0 /\ UNCHANGED array
      /\ request'.op = op /\ request'.address = address /\ request'.data = data
  BY AcceptIs DEF Ready
<1>2. Asked = Idle
  BY <1>1, MemoryIdle
<1>3. /\ Asked' = [op |-> Kind', address |-> address, data |-> data]
      /\ Answer' = <<>>
      /\ Kind' = "read" => Done' = 0
      /\ Kind' = "write" =>
           Done' = IF command' = Idle THEN readWritePos' ELSE command'.address - address
      /\ Kind' \in {"erase", "eraseAll"} => Done' = IF command' = Idle THEN 1 ELSE 0
  BY <1>1, MemoryNext
<1>4. /\ op \in {"READ_BLOCKING", "READ_START"} => Kind' = "read"
      /\ op \in {"WRITE_BLOCKING", "WRITE_START"} => Kind' = "write"
      /\ op \in {"erase", "eraseAll"} => Kind' = op
  BY <1>1, MemoryNext
<1> QED BY <1>1, <1>2, <1>3, <1>4

LEMMA RequestsAsk == FlashInv /\ Requests => Memory!Request
<1> SUFFICES ASSUME FlashInv, Requests PROVE Memory!Request
  OBVIOUS
<1>1. FLASH_CAPACITY \in Nat \ {0} /\ 0 \in 0 .. FLASH_CAPACITY - 1 /\ <<>> \in Seq(Bits)
  BY FlashAssumption
<1>2. ASSUME NEW op, NEW address, NEW data, op # "none", Asked = Idle, Answer' = <<>>, UNCHANGED array,
             Asked' = [op |-> op, address |-> address, data |-> data], Done' = 0
      PROVE  Memory!Ask(op, address, data) /\ Asked = Memory!Nothing /\ Asked' # Memory!Nothing
  <2>1. Asked'.op = op /\ Idle.op = "none"
    BY <1>2 DEF Idle
  <2> QED BY <1>2, <2>1 DEF Memory!Ask, Memory!Nothing, Idle
<1>3. ASSUME NEW address \in 0 .. FLASH_CAPACITY - 1, NEW op \in {"erase", "eraseAll"},
             flash_erase_start(op, address)
      PROVE  Memory!Ask(op, address, <<>>) /\ Asked = Memory!Nothing /\ Asked' # Memory!Nothing
  <2>1. Accept(op, address, <<>>) /\ Go(op, address, <<>>)
    BY <1>3 DEF flash_erase_start
  <2>2. address \in Nat /\ op \in {"read", "write", "erase", "eraseAll"} /\ op \in Ops /\ op # "none"
    BY <1>1 DEF Ops
  <2>3. command' # Idle
    BY <1>1, <2>1, <2>2, GoIs
  <2>4. /\ Asked = Idle /\ Answer' = <<>> /\ UNCHANGED array /\ Done' = 0
        /\ Asked' = [op |-> op, address |-> address, data |-> <<>>]
    BY <1>1, <2>1, <2>2, <2>3, AskIs
  <2> QED BY <1>2, <2>2, <2>4
<1>4. ASSUME NEW address \in 0 .. FLASH_CAPACITY - 1, flash_erase_start("erase", address)
      PROVE  Memory!Request
  BY <1>3, <1>4 DEF Memory!Request, Memory!Addresses
<1>5. ASSUME flash_erase_start("eraseAll", 0)
      PROVE  Memory!Request
  BY <1>1, <1>3, <1>5 DEF Memory!Request, Memory!Addresses
<1>6. ASSUME NEW address \in 0 .. FLASH_CAPACITY - 1,
             NEW size \in 1 .. Lesser(MAX_REQUEST, FLASH_CAPACITY - address),
             flash_read(address, size) \/ flash_read_start(address, size)
      PROVE  Memory!Request
  <2>1. size \in 1 .. MAX_REQUEST /\ address + size <= FLASH_CAPACITY /\ size \in Nat
    BY FlashAssumption DEF Lesser
  <2>2. Zeros(size) \in Seq(Bits)
    BY <2>1, ZerosAre
  <2>3. \E op \in {"READ_BLOCKING", "READ_START"} : Accept(op, address, Zeros(size))
    BY <1>6 DEF flash_read, flash_read_start
  <2>4. /\ Asked = Idle /\ Answer' = <<>> /\ UNCHANGED array /\ Done' = 0
        /\ Asked' = [op |-> "read", address |-> address, data |-> Zeros(size)]
    BY <2>2, <2>3, AskIs DEF Ops
  <2>5. /\ Memory!Ask("read", address, [k \in 1 .. size |-> 0])
        /\ Asked = Memory!Nothing /\ Asked' # Memory!Nothing
    BY <1>2, <2>4 DEF Zeros
  <2> QED BY <2>1, <2>5 DEF Memory!Request, Memory!Addresses
<1>7. ASSUME NEW address \in 0 .. FLASH_CAPACITY - 1,
             NEW size \in 1 .. Lesser(MAX_REQUEST, FLASH_CAPACITY - address),
             NEW data \in [1 .. size -> Bits],
             flash_write(address, data) \/ flash_write_start(address, data)
      PROVE  Memory!Request
  <2>1. /\ size \in 1 .. MAX_REQUEST /\ address + size <= FLASH_CAPACITY /\ size \in Nat
        /\ address \in Nat
    BY FlashAssumption DEF Lesser
  <2>2. data \in Seq(Bits) /\ Len(data) = size
    BY <2>1, BufferIsSeq
  <2>3. /\ \E op \in {"WRITE_BLOCKING", "WRITE_START"} : Accept(op, address, data)
        /\ (IF command' = Idle THEN readWritePos' ELSE command'.address - address) = 0
    <3>1. CASE flash_write(address, data)
      <4>1. Accept("WRITE_BLOCKING", address, data) /\ command' = command /\ readWritePos' = 0
        BY <3>1 DEF flash_write, Transfer
      <4>2. Ready
        BY <2>2, <4>1, AcceptIs DEF Ops
      <4> QED BY <4>1, <4>2 DEF Ready, Quiet
    <3>2. CASE flash_write_start(address, data)
      <4>1. /\ Accept("WRITE_START", address, data) /\ myFlushWrite(data, address, size, 0)
        BY <2>2, <3>2 DEF flash_write_start
      <4>2. size <= Len(data) /\ 0 < size /\ 0 \in Nat
        BY <2>1, <2>2
      <4>3. command' # Idle /\ command'.address = address + 0
        BY <2>1, <2>2, <4>1, <4>2, NextWrite
      <4> QED BY <2>1, <4>1, <4>3
    <3> QED BY <1>7, <3>1, <3>2
  <2>4. /\ Asked = Idle /\ Answer' = <<>> /\ UNCHANGED array /\ Done' = 0
        /\ Asked' = [op |-> "write", address |-> address, data |-> data]
    BY <2>2, <2>3, AskIs DEF Ops
  <2>5. Memory!Ask("write", address, data) /\ Asked = Memory!Nothing /\ Asked' # Memory!Nothing
    BY <1>2, <2>4
  <2> QED BY <2>1, <2>5 DEF Memory!Request, Memory!Addresses, Memory!Bits, Bits
<1> QED BY <1>4, <1>5, <1>6, <1>7 DEF Requests

\* The flash after a command to write is that of FlashMemory.
LEMMA EndWrites ==
  ASSUME ~Prompt, FlashInv, CommandEnds, WritesAlone \/ WritesForThread
  PROVE  Memory!Write
<1>1. PICK from \in 0 .. readWritePos - 1 : Writing(from, readWritePos)
  BY EndIs
<1> DEFINE p == readWritePos
           at == request.address
<1>2. /\ \E op \in {"WRITE_START", "WRITE_BLOCKING"} : InTransfer(op)
      /\ Running /\ command' = Idle /\ array' = Effect(command, array)
      /\ UNCHANGED <<readWritePos, request, completed>>
  BY EndIs DEF WritesAlone, WritesForThread
<1>3. /\ completed = 0 /\ completed' = 0 /\ UNCHANGED request /\ startAddress = at
      /\ request.op \in {"WRITE_START", "WRITE_BLOCKING"}
  BY <1>2 DEF InTransfer
<1>4. /\ Size \in Nat /\ p \in Nat /\ p <= Size /\ at \in Nat /\ from \in Nat /\ from < p
      /\ request.data \in Seq(Bits) /\ Size = Len(request.data)
  BY <1>2, <1>3, TransferIs DEF Size
<1>5. /\ UNCHANGED <<Asked, Answer>> /\ Kind = "write" /\ Kind' = "write"
      /\ Asked.op = "write" /\ Asked.address = at /\ Asked.data = request.data
  BY <1>3, StaysBusy, KindIs, MemoryNext DEF Ops
<1>6. /\ command # Idle /\ command.op = "write" /\ command.address = at + from
      /\ Len(command.data) = p - from /\ command.data \in Seq(Bits)
      /\ \A k \in 1 .. p - from : command.data[k] = request.data[from + k]
  BY <1>1, <1>2, <1>3 DEF Running, Writing, FlashInv, FlashTypes, DeviceTypes, Commands
<1>7. Done = from /\ Done' = p
  <2>1. Done = command.address - at
    BY <1>3, <1>5, <1>6, MemoryBusy
  <2>2. at + from - at = from
    BY <1>4
  <2>3. Done' = readWritePos'
    BY <1>2, <1>3, <1>5, MemoryNext
  <2>4. Done = from
    BY <1>4, <1>6, <2>1
  <2>5. Done' = p
    BY <1>2, <2>3
  <2> QED BY <2>4, <2>5
<1>8. array \in [0 .. FLASH_CAPACITY - 1 -> Bits] /\ FLASH_CAPACITY \in Nat
  BY FlashAssumption DEF FlashInv, FlashTypes, DeviceTypes, Array
<1>9. array' = [a \in 0 .. FLASH_CAPACITY - 1 |->
                  IF a - (at + from) + 1 \in DOMAIN command.data
                    THEN Lesser(array[a], command.data[a - (at + from) + 1]) ELSE array[a]]
  BY <1>2, <1>6, <1>8, WriteEffect
<1>10. ASSUME NEW a \in 0 .. FLASH_CAPACITY - 1
       PROVE  (IF a - (at + from) + 1 \in DOMAIN command.data
                 THEN Lesser(array[a], command.data[a - (at + from) + 1]) ELSE array[a])
              = IF a - at \in from .. p - 1 /\ request.data[a - at + 1] = 0 THEN 0 ELSE array[a]
  <2> DEFINE k == a - (at + from) + 1
  <2>1. /\ DOMAIN command.data = 1 .. p - from
        /\ k \in 1 .. p - from <=> a - at \in from .. p - 1
        /\ from + k = a - at + 1
    <3>1. DOMAIN command.data = 1 .. p - from
      BY <1>4, <1>6
    <3>2. \A x, y, u, v \in Int : /\ x - (y + u) + 1 \in 1 .. v - u <=> x - y \in u .. v - 1
                               /\ u + (x - (y + u) + 1) = x - y + 1
      OBVIOUS
    <3>3. a \in Int /\ at \in Int /\ from \in Int /\ p \in Int
      BY <1>4, <1>8
    <3> QED BY <3>1, <3>2, <3>3, Zenon
  <2>2. array[a] \in Bits
    BY <1>8
  <2>3. CASE a - at \in from .. p - 1
    <3>1. command.data[k] = request.data[a - at + 1]
      BY <1>6, <2>1, <2>3
    <3>2. request.data[a - at + 1] \in Bits
      BY <1>4, <1>8, <2>3
    <3>3. \A x, y \in Bits : Lesser(x, y) = IF y = 0 THEN 0 ELSE x
      BY DEF Bits, Lesser
    <3>4. Lesser(array[a], request.data[a - at + 1])
            = IF request.data[a - at + 1] = 0 THEN 0 ELSE array[a]
      BY <2>2, <3>2, <3>3, Zenon
    <3> QED BY <2>1, <2>3, <3>1, <3>4
  <2>4. CASE ~(a - at \in from .. p - 1)
    BY <2>1, <2>4
  <2> QED BY <2>3, <2>4
<1>11. array' = Memory!Written(Done, Done')
  <2>1. array' = [a \in 0 .. FLASH_CAPACITY - 1 |->
                    IF a - at \in from .. p - 1 /\ request.data[a - at + 1] = 0 THEN 0 ELSE array[a]]
    BY <1>9, <1>10, Zenon
  <2> QED BY <1>5, <1>7, <2>1, Zenon DEF Memory!Written, Memory!Addresses
<1>12. Done' \in Done + 1 .. Len(Asked.data)
  BY <1>4, <1>5, <1>7
<1> QED BY <1>5, <1>11, <1>12 DEF Memory!Write

\* And so it is after an erase.
LEMMA EndErases ==
  ASSUME ~Prompt, FlashInv, CommandEnds, Erasing
  PROVE  Memory!Erase
<1>1. /\ command = [op |-> request.op, address |-> request.address, data |-> <<>>]
      /\ command # Idle /\ command' = Idle /\ array' = Effect(command, array)
      /\ UNCHANGED <<request, completed>>
  BY EndIs DEF Running
<1>2. completed = 0 /\ completed' = 0 /\ request.op \in {"erase", "eraseAll"}
  BY <1>1 DEF Erasing
<1>3. /\ UNCHANGED <<Asked, Answer>> /\ Kind = request.op /\ Kind' = request.op
      /\ Asked.op = request.op /\ Asked.address = request.address
  BY <1>1, <1>2, StaysBusy, KindIs, MemoryNext DEF Ops
<1>4. Done = 0 /\ Done' = 1
  BY <1>1, <1>2, <1>3, MemoryBusy, MemoryNext
<1>5. DOMAIN array = 0 .. FLASH_CAPACITY - 1
  BY DEF FlashInv, FlashTypes, DeviceTypes, Array
<1>6. command.op = request.op /\ command.address = request.address
  BY <1>1
<1>7. array' = [a \in 0 .. FLASH_CAPACITY - 1 |->
                  IF request.op = "eraseAll" \/ Block(a) = Block(request.address) THEN 1 ELSE array[a]]
  <2>1. command.op \in {"erase", "eraseAll"}
    BY <1>2, <1>6
  <2>2. Effect(command, array) =
          [a \in DOMAIN array |->
             IF command.op = "eraseAll" \/ Block(a) = Block(command.address) THEN 1 ELSE array[a]]
    BY <2>1, EraseEffect
  <2> QED BY <1>1, <1>5, <1>6, <2>2, Zenon
<1>8. array' = [a \in Memory!Addresses |->
                 IF \/ Asked.op = "eraseAll"
                    \/ a \div BLOCK_LENGTH = Asked.address \div BLOCK_LENGTH
                   THEN 1 ELSE array[a]]
  BY <1>3, <1>7, Zenon DEF Memory!Addresses, Block
<1>9. Asked.op \in {"erase", "eraseAll"}
  BY <1>2, <1>3
<1> QED BY <1>3, <1>4, <1>8, <1>9 DEF Memory!Erase

\* The end of a command to read is not seen.
LEMMA EndReads ==
  ASSUME ~Prompt, FlashInv, CommandEnds, ReadsAlone \/ ReadsForThread
  PROVE  UNCHANGED <<array, Asked, Done, Answer>>
<1>1. Reading /\ array' = Effect(command, array) /\ UNCHANGED <<request, completed>>
  BY EndIs
<1>2. completed = 0 /\ completed' = 0 /\ request.op \in {"READ_START", "READ_BLOCKING"}
  BY <1>1 DEF ReadsAlone, ReadsForThread, InTransfer
<1>3. array' = array
  <2>1. array \in Array /\ command.op = "read"
    BY <1>1 DEF Reading, FlashInv, FlashTypes, DeviceTypes
  <2> QED BY <1>1, <2>1, ReadEffect DEF Array
<1>4. Kind = "read"
  BY <1>2, KindIs
<1> QED BY <1>1, <1>2, <1>3, <1>4, StaysBusy DEF Ops

\* Nor are the other steps between the first of a request and its last.
LEMMA BusyStepIs ==
  ASSUME FlashInv, CallingThread \/ flash_interrupt, completed' # completed + 1
  PROVE  /\ completed = 0 /\ completed' = 0 /\ UNCHANGED <<array, request>>
         /\ request.op \in Ops \ {"none"}
         /\ Kind = "write" =>
              \/ UNCHANGED command /\ (command = Idle => UNCHANGED readWritePos)
              \/ /\ command = Idle /\ command' # Idle
                 /\ command'.address = request.address + readWritePos
<1>1. completed \in Int
  BY DEF FlashInv, FlashTypes, HistoryTypes
<1>2. CASE ReadStarted \/ ReadIssue \/ ReadCopy
  <2>1. \E op \in {"READ_START", "READ_BLOCKING"} : InTransfer(op)
    BY <1>2, PhaseIs DEF ReadStarted, ReadIssue, ReadCopy, ThreadStep, ReadsAlone, ReadsForThread
  <2>2. UNCHANGED <<array, request, completed>>
    BY <1>2 DEF ReadStarted, ReadIssue, ReadCopy, ThreadStep, history
  <2>3. Kind # "write"
    BY <2>1, KindIs DEF InTransfer
  <2> QED BY <2>1, <2>2, <2>3 DEF InTransfer, Ops
<1>3. CASE WriteStarted
  <2>1. InTransfer("WRITE_START") /\ Running
    BY <1>3, PhaseIs DEF WriteStarted, ThreadStep, WritesAlone
  <2>2. UNCHANGED <<array, request, completed, command>>
    BY <1>3 DEF WriteStarted, ThreadStep, history, registers
  <2> QED BY <2>1, <2>2 DEF InTransfer, Ops, Running
<1>4. CASE WriteIssue
  <2>1. InTransfer("WRITE_BLOCKING") /\ Quiet /\ buffer = request.data
    BY <1>4, PhaseIs DEF WriteIssue, ThreadStep, WritesForThread
  <2>2. UNCHANGED <<array, request, completed>> /\ readWritePos < Size
    BY <1>4, <2>1, TransferIs DEF WriteIssue, ThreadStep, history
  <2>3. /\ Size \in Nat /\ Size <= Len(request.data) /\ readWritePos \in Nat /\ startAddress \in Nat
        /\ readWriteSize = Size /\ request.data \in Seq(Bits) /\ startAddress = request.address
    BY <2>1, TransferIs DEF InTransfer, Size
  <2>4. myFlushWrite(buffer, startAddress, Size, readWritePos)
    BY <1>4, <2>1, <2>3 DEF WriteIssue
  <2>5. Size <= Len(buffer) /\ buffer \in Seq(Bits) /\ readWritePos < Size
    BY <2>1, <2>2, <2>3
  <2>6. command' # Idle /\ command'.address = startAddress + readWritePos
    <3>1. /\ Size \in Nat /\ readWritePos \in Nat /\ readWritePos < Size /\ startAddress \in Nat
          /\ buffer \in Seq(Bits) /\ Size <= Len(buffer)
          /\ myFlushWrite(buffer, startAddress, Size, readWritePos)
      BY <2>3, <2>4, <2>5
    <3> QED BY <3>1, NextWrite
  <2> QED BY <2>1, <2>2, <2>3, <2>6 DEF InTransfer, Ops, Quiet
<1>5. CASE WriteWaited
  <2>1. InTransfer("WRITE_BLOCKING")
    BY <1>5, PhaseIs DEF WriteWaited, ThreadStep, WritesForThread
  <2>2. UNCHANGED <<array, request, completed, command, readWritePos>>
    BY <1>5 DEF WriteWaited, ThreadStep, history, registers, progress
  <2> QED BY <2>1, <2>2 DEF InTransfer, Ops
<1>6. CASE InterruptBlocking
  <2>1. \E op \in {"WRITE_BLOCKING", "READ_BLOCKING"} : InTransfer(op)
    BY <1>6, PhaseIs DEF InterruptBlocking, WritesForThread, ReadsForThread
  <2>2. UNCHANGED <<array, request, completed, command, readWritePos>>
    BY <1>6 DEF InterruptBlocking, history, progress
  <2> QED BY <2>1, <2>2 DEF InTransfer, Ops
<1>7. CASE InterruptRead
  <2>1. InTransfer("READ_START")
    BY <1>7, InterruptReadIs
  <2>2. UNCHANGED <<array, request, completed>>
    BY <1>7 DEF InterruptRead, CallsBack
  <2>3. Kind # "write"
    BY <2>1, KindIs DEF InTransfer
  <2> QED BY <2>1, <2>2, <2>3 DEF InTransfer, Ops
<1>8. CASE InterruptWrite
  <2>1. /\ InTransfer("WRITE_START") /\ Ended
        /\ \A k \in 1 .. Size : internalBuffer[k] = request.data[k]
    BY <1>8, PhaseIs DEF InterruptWrite, Interrupted, WritesAlone, Running, Ended
  <2>2. /\ readWriteSize > readWritePos /\ UNCHANGED <<array, request, completed>>
        /\ myFlushWrite(internalBuffer, startAddress, readWriteSize, readWritePos)
    BY <1>8 DEF InterruptWrite, CallsBack
  <2>3. /\ Size \in Nat /\ Size <= MAX_REQUEST /\ readWritePos \in Nat /\ startAddress \in Nat
        /\ readWriteSize = Size /\ startAddress = request.address /\ MAX_REQUEST \in Nat
        /\ readWritePos < Size
    BY <2>1, <2>2, TransferIs DEF InTransfer
  <2>4. internalBuffer \in Seq(Bits) /\ Len(internalBuffer) = MAX_REQUEST
    BY <2>3, BufferIsSeq DEF FlashInv, FlashTypes, BufferTypes
  <2>5. Size <= Len(internalBuffer)
    BY <2>3, <2>4
  <2>6. myFlushWrite(internalBuffer, startAddress, Size, readWritePos)
    BY <2>2, <2>3
  <2>7. command' # Idle /\ command'.address = startAddress + readWritePos
    <3>1. /\ Size \in Nat /\ readWritePos \in Nat /\ readWritePos < Size /\ startAddress \in Nat
          /\ internalBuffer \in Seq(Bits) /\ Size <= Len(internalBuffer)
          /\ myFlushWrite(internalBuffer, startAddress, Size, readWritePos)
      BY <2>3, <2>4, <2>5, <2>6
    <3> QED BY <3>1, NextWrite
  <2> QED BY <2>1, <2>2, <2>3, <2>7 DEF InTransfer, Ops, Ended
<1>9. ~BlockingReturns /\ ~InterruptErase
  BY DEF BlockingReturns, InterruptErase, CallsBack
<1> QED
  BY <1>2, <1>3, <1>4, <1>5, <1>6, <1>7, <1>8, <1>9 DEF CallingThread, flash_interrupt

LEMMA BusyStutters ==
  ASSUME FlashInv, CallingThread \/ flash_interrupt, completed' # completed + 1
  PROVE  UNCHANGED <<array, Asked, Done, Answer>>
<1>1. /\ completed = 0 /\ completed' = 0 /\ UNCHANGED <<array, request>>
      /\ request.op \in Ops \ {"none"}
  BY BusyStepIs
<1>2. UNCHANGED <<Kind, Asked, Answer>> /\ (Kind = "read" => UNCHANGED Done)
  BY <1>1, StaysBusy
<1>3. request.address \in Nat /\ readWritePos \in Nat /\ request'.address = request.address
  BY <1>1, FlashAssumption DEF FlashInv, FlashTypes, HistoryTypes, ProgressTypes
<1>4. ASSUME Kind = "write" PROVE Done' = Done
  <2>1. /\ Done = IF command = Idle THEN readWritePos ELSE command.address - request.address
        /\ Done' = IF command' = Idle THEN readWritePos' ELSE command'.address - request'.address
    BY <1>1, <1>2, <1>4, MemoryBusy, MemoryNext
  <2>2. CASE UNCHANGED command /\ (command = Idle => UNCHANGED readWritePos)
    BY <1>3, <2>1, <2>2
  <2>3. CASE command = Idle /\ command' # Idle /\ command'.address = request.address + readWritePos
    <3>1. request.address + readWritePos - request.address = readWritePos
      BY <1>3
    <3> QED BY <1>3, <2>1, <2>3, <3>1
  <2> QED BY <1>4, <2>2, <2>3, BusyStepIs
<1>5. ASSUME Kind \in {"erase", "eraseAll"} PROVE FALSE
  <2>1. request.op \in {"erase", "eraseAll"}
    BY <1>1, <1>5, KindIs DEF Ops
  <2>2. operation = "BLOCK_ERASE"
    BY <1>1, <2>1
    DEF FlashInv, Ready, ReadsAlone, ReadsForThread, WritesAlone, WritesForThread, InTransfer, Erasing
  <2>3. InterruptErase
    BY <2>2, PhaseIs
    DEF Erasing, CallingThread, flash_interrupt, InterruptRead, InterruptWrite, InterruptBlocking,
        ReadStarted, WriteStarted, ReadIssue, ReadCopy, WriteIssue, WriteWaited, BlockingReturns,
        ThreadStep
  <2> QED BY <2>3 DEF InterruptErase, CallsBack
<1>6. Kind \in {"read", "write", "erase", "eraseAll"}
  BY <1>1, KindIs DEF Ops
<1> QED BY <1>1, <1>2, <1>4, <1>5, <1>6

\* A request that is answered.
LEMMA AnswerIs ==
  ASSUME FlashInv, completed = 0, completed' = 1, UNCHANGED <<array, request>>,
         request.op \in Ops \ {"none"},
         \/ /\ Kind = "read"
            /\ Answer' = [k \in DOMAIN request.data |-> array[request.address + k - 1]]
         \/ Kind = "write" /\ Done = Size
         \/ Kind \in {"erase", "eraseAll"} /\ Done = 1
  PROVE  Memory!Answer
<1>1. Asked' = Idle /\ Done' = 0 /\ (Kind' # "read" => Answer' = <<>>)
  BY MemoryNext
<1>2. request'.op = request.op
  OBVIOUS
<1>3. Kind' = Kind
  BY <1>2, KindIs, MemoryNext DEF Ops
<1>4. /\ Asked.op = Kind /\ Asked.address = request.address /\ Asked.data = request.data
  BY MemoryBusy
<1>5. Asked # Memory!Nothing /\ Asked' = Memory!Nothing
  <2>1. Memory!Nothing = Idle /\ Idle.op = "none"
    BY DEF Memory!Nothing, Idle
  <2>2. Kind # "none"
    BY KindIs DEF Ops
  <2> QED BY <1>1, <1>4, <2>1, <2>2
<1>6. \/ /\ Asked.op = "read"
         /\ Answer' = [k \in DOMAIN Asked.data |-> array[Asked.address + k - 1]]
      \/ Asked.op = "write" /\ Done = Len(Asked.data) /\ Answer' = <<>>
      \/ Asked.op \in {"erase", "eraseAll"} /\ Done = 1 /\ Answer' = <<>>
  BY <1>1, <1>3, <1>4 DEF Size
<1> QED BY <1>1, <1>5, <1>6 DEF Memory!Answer

\* What a whole read leaves in a buffer.
LEMMA WholeRead ==
  ASSUME NEW b \in Seq(Bits), NEW n \in Nat, Len(b) = n, NEW f,
         \A k \in 1 .. n : b[k] = f[k], DOMAIN f = 1 .. n, f = [k \in 1 .. n |-> f[k]]
  PROVE  b = f
<1>1. b = [k \in 1 .. n |-> b[k]]
  OBVIOUS
<1> QED BY <1>1

LEMMA ReturnAnswers ==
  ASSUME FlashInv, BlockingReturns
  PROVE  Memory!Answer
<1>1. /\ Quiet /\ completed = 0 /\ readWritePos = Size /\ InTransfer(request.op)
      /\ \/ ReadsForThread /\ request.op = "READ_BLOCKING" /\ ReadInto(buffer) /\ Len(buffer) = Size
         \/ WritesForThread /\ request.op = "WRITE_BLOCKING"
  BY ReturnIs
<1>2. completed' = 1 /\ UNCHANGED <<array, request, buffer>>
  BY <1>1 DEF BlockingReturns, ThreadStep, buffers
<1>3. request'.op = request.op /\ request.data \in Seq(Bits) /\ Size \in Nat /\ buffer \in Seq(Bits)
  BY <1>1, <1>2, TransferIs DEF FlashInv, FlashTypes, BufferTypes
<1>4. CASE request.op = "READ_BLOCKING"
  <2> DEFINE f == [k \in DOMAIN request.data |-> array[request.address + k - 1]]
  <2>1. Kind = "read" /\ Answer' = buffer
    BY <1>2, <1>3, <1>4, KindIs, MemoryNext
  <2>2. DOMAIN request.data = 1 .. Size /\ ReadInto(buffer) /\ Len(buffer) = Size
    BY <1>1, <1>3, <1>4 DEF Size
  <2>3. \A k \in 1 .. Size : buffer[k] = f[k]
    BY <1>1, <2>2 DEF ReadInto, InTransfer
  <2>4. DOMAIN f = 1 .. Size /\ f = [k \in 1 .. Size |-> f[k]]
    BY <2>2
  <2> HIDE DEF f
  <2>5. buffer = f
    BY <1>3, <2>2, <2>3, <2>4, WholeRead
  <2>6. Answer' = [k \in DOMAIN request.data |-> array[request.address + k - 1]]
    BY <2>1, <2>5 DEF f
  <2> QED BY <1>1, <1>2, <1>4, <2>1, <2>6, AnswerIs DEF Ops
<1>5. CASE request.op = "WRITE_BLOCKING"
  <2>1. Kind = "write"
    BY <1>5, KindIs
  <2>2. Done = Size
    BY <1>1, <2>1, MemoryBusy DEF Quiet
  <2> QED BY <1>1, <1>2, <1>5, <2>1, <2>2, AnswerIs DEF Ops
<1> QED BY <1>1, <1>4, <1>5

LEMMA CallBackAnswers ==
  ASSUME FlashInv, flash_interrupt, completed' = completed + 1
  PROVE  Memory!Answer
<1>1. CASE InterruptErase
  <2>1. Erasing /\ completed' = 1 /\ UNCHANGED <<array, request>>
    BY <1>1, PhaseIs DEF InterruptErase, Erasing
  <2>2. /\ completed = 0 /\ request.op \in {"erase", "eraseAll"} /\ command = Idle
    BY <1>1, <2>1 DEF Erasing, InterruptErase, Interrupted, Running, Ended
  <2>3. Kind = request.op
    BY <2>2, KindIs
  <2>4. Done = 1
    BY <2>2, <2>3, MemoryBusy
  <2> QED BY <2>1, <2>2, <2>3, <2>4, AnswerIs DEF Ops
<1>2. CASE InterruptWrite
  <2>1. InTransfer("WRITE_START") /\ Ended
    BY <1>2, PhaseIs DEF InterruptWrite, Interrupted, WritesAlone, Running, Ended
  <2>2. completed = 0 /\ request.op = "WRITE_START" /\ command = Idle
    BY <2>1 DEF InTransfer, Ended
  <2>3. ~(readWriteSize > readWritePos) /\ completed' = 1 /\ UNCHANGED <<array, request>>
    BY <1>2, <2>2 DEF InterruptWrite
  <2>4. readWritePos = Size
    BY <2>1, <2>3, TransferIs
  <2>5. Kind = "write"
    BY <2>2, KindIs
  <2>6. Done = Size
    BY <2>2, <2>4, <2>5, MemoryBusy
  <2> QED BY <2>2, <2>3, <2>5, <2>6, AnswerIs DEF Ops
<1>3. CASE InterruptRead
  <2> DEFINE f == [k \in DOMAIN request.data |-> array[request.address + k - 1]]
             part == SubSeq(internalBuffer', 1, Size)
  <2>1. /\ InTransfer("READ_START") /\ Size \in Nat /\ Size <= MAX_REQUEST /\ readWritePos' \in 1 .. Size
        /\ internalBuffer' \in [1 .. MAX_REQUEST -> Bits]
        /\ request.clean =>
             \A k \in 1 .. Size :
               internalBuffer'[k] = IF k <= readWritePos' THEN array[startAddress + k - 1] ELSE 0
    BY <1>3, InterruptReadIs
  <2>2. /\ completed = 0 /\ request.op = "READ_START" /\ readWriteSize = Size
        /\ startAddress = request.address /\ request.data \in Seq(Bits) /\ MAX_REQUEST \in Nat
        /\ 1 <= Size /\ DOMAIN request.data = 1 .. Size
    BY <2>1, TransferIs DEF InTransfer, Size
  <2>3. ~(readWriteSize > readWritePos') /\ completed' = 1 /\ UNCHANGED <<array, request>>
    BY <1>3, <2>2 DEF InterruptRead
  <2>4. readWritePos' = Size
    BY <2>1, <2>2, <2>3
  <2>5. Kind = "read" /\ Kind' = "read" /\ request'.op = "READ_START" /\ Size' = Size
    BY <2>2, <2>3, KindIs, MemoryNext DEF Size
  <2>6. Answer' = IF request.clean THEN part ELSE BytesOf(request, array)
    BY <2>3, <2>5, MemoryNext
  <2>7. DOMAIN f = 1 .. Size /\ f = [k \in 1 .. Size |-> f[k]]
    BY <2>2
  <2>8. ASSUME request.clean PROVE part = f
    <3>1. internalBuffer' \in Seq(Bits) /\ Len(internalBuffer') = MAX_REQUEST
      BY <2>1, <2>2, BufferIsSeq
    <3>2. /\ part \in Seq(Bits) /\ Len(part) = Size
          /\ \A k \in 1 .. Size : part[k] = internalBuffer'[k]
      <4>1. 0 \in Nat /\ 0 < Size /\ Size <= Len(internalBuffer')
        BY <2>1, <2>2, <3>1
      <4>2. /\ SubSeq(internalBuffer', 0 + 1, Size) \in Seq(Bits)
            /\ Len(SubSeq(internalBuffer', 0 + 1, Size)) = Size - 0
            /\ \A k \in 1 .. Size - 0 : SubSeq(internalBuffer', 0 + 1, Size)[k] = internalBuffer'[0 + k]
        BY <2>1, <3>1, <4>1, PartIs
      <4>3. 0 + 1 = 1 /\ Size - 0 = Size /\ \A k \in 1 .. Size : 0 + k = k
        BY <2>1
      <4> QED BY <4>2, <4>3
    <3>3. \A k \in 1 .. Size : internalBuffer'[k] = f[k]
      BY <2>1, <2>2, <2>4, <2>8
    <3> HIDE DEF f, part
    <3> QED BY <2>1, <2>7, <3>2, <3>3, WholeRead
  <2>9. Answer' = f
    BY <2>6, <2>8, Zenon DEF BytesOf
  <2> QED BY <2>2, <2>3, <2>5, <2>9, AnswerIs DEF Ops
<1>4. CASE InterruptBlocking
  <2>1. UNCHANGED completed
    BY <1>4 DEF InterruptBlocking, history
  <2> QED BY <2>1 DEF FlashInv, FlashTypes, HistoryTypes
<1> QED BY <1>1, <1>2, <1>3, <1>4 DEF flash_interrupt

\* The driver keeps the promise of FlashMemory: a request writes or erases its bytes and no
\* others, in order, and is answered once, with what is in the flash, when it is through.
THEOREM DriverIsAMemory ==
  ASSUME ~Prompt
  PROVE  FlashSpec => ImplementsMemory
<1>1. FlashInit => Memory!Init
  <2> SUFFICES ASSUME FlashInit PROVE Memory!Init
    OBVIOUS
  <2>1. completed = 1 /\ request.op = "none" /\ array = [a \in 0 .. FLASH_CAPACITY - 1 |-> 1]
    BY DEF FlashInit
  <2>2. Kind # "read"
    <3>1. request.op \notin {"READ_BLOCKING", "READ_START"}
          /\ request.op \notin {"WRITE_BLOCKING", "WRITE_START"}
      BY <2>1
    <3>2. Kind = request.op
      BY <3>1, Zenon DEF Kind
    <3> QED BY <2>1, <3>2
  <2>3. Asked = Idle /\ Done = 0 /\ Answer = <<>>
    BY <2>1, <2>2, MemoryIdle
  <2> QED BY <2>1, <2>3 DEF Memory!Init, Memory!Nothing, Memory!Addresses, Idle
<1>2. FlashInv /\ [FlashNext]_flashVars => [Memory!Next]_(Memory!vars)
  <2> SUFFICES ASSUME FlashInv, [FlashNext]_flashVars
               PROVE  Memory!Next \/ UNCHANGED <<array, Asked, Done, Answer>>
    BY DEF Memory!vars
  <2>1. CASE UNCHANGED flashVars
    BY <2>1, Zenon
    DEF flashVars, registers, progress, buffers, history, Asked, Done, Answer, Kind, BytesOf
  <2>2. CASE Requests
    BY <2>2, RequestsAsk DEF Memory!Next
  <2>3. CASE (CallingThread \/ flash_interrupt) /\ completed' # completed + 1
    BY <2>3, BusyStutters
  <2>4. CASE CallingThread /\ completed' = completed + 1
    <3>1. completed' # completed
      BY <2>4 DEF FlashInv, FlashTypes, HistoryTypes
    <3>2. BlockingReturns
      BY <2>4, <3>1
      DEF CallingThread, ReadStarted, WriteStarted, ReadIssue, ReadCopy, WriteIssue, WriteWaited,
          history
    <3> QED BY <3>2, ReturnAnswers DEF Memory!Next
  <2>5. CASE flash_interrupt /\ completed' = completed + 1
    BY <2>5, CallBackAnswers DEF Memory!Next
  <2>6. CASE CommandEnds
    BY <2>6, EndIs, EndWrites, EndErases, EndReads DEF Memory!Next
  <2> QED BY <2>1, <2>2, <2>3, <2>4, <2>5, <2>6 DEF FlashNext
<1> QED BY <1>1, <1>2, FlashInvHolds, PTL DEF FlashSpec, ImplementsMemory, Memory!Spec
=============================================================================
