----------------------------- MODULE FlashDriver -----------------------------
(***************************************************************************)
(* The driver of the flash device (ex4/flash.c).  A request is carried out *)
(* as a chain of commands of at most MAX_DATA bytes, each one ended by an  *)
(* interrupt.  Blocking requests issue the next command from the thread    *)
(* that waits, the others from the interrupt itself.                       *)
(*                                                                         *)
(* The bits of a byte do not affect each other, so a byte here is one bit. *)
(* How bytes are packed into the registers is FlashRegisters.              *)
(***************************************************************************)
EXTENDS Integers, Sequences

CONSTANTS
  FLASH_CAPACITY,  \* bytes of the device
  BLOCK_LENGTH,    \* bytes of an erase block
  MAX_DATA,        \* MAX_DATA_READ_WRITE_SIZE, bytes of one command
  MAX_REQUEST,     \* MAX_REQUEST_BUFFER_SIZE, bytes of a request
  Prompt,          \* whether a command may end before the statement after its start
  MaxRequests      \* bound: requests

ASSUME FlashAssumption ==
  /\ FLASH_CAPACITY \in Nat \ {0} /\ BLOCK_LENGTH \in Nat \ {0}
  /\ MAX_DATA \in Nat \ {0} /\ MAX_REQUEST \in 1 .. FLASH_CAPACITY
  /\ Prompt \in BOOLEAN /\ MaxRequests \in Nat

Bits == {0, 1}
Array == [0 .. FLASH_CAPACITY - 1 -> Bits]
Idle == [op |-> "none", address |-> 0, data |-> <<>>]

VARIABLES
  array,            \* the flash
  command,          \* what the device is doing, or Idle
  cycleDone,        \* FLASH_STATUS_CYCLE_DONE
  interruptEnable,  \* FLASH_CONTROL_INTERRUPT_ENABLE
  dataRegs,         \* FLASH_DATA
  operation,        \* _flash_operation
  readWritePos, readWriteSize, startAddress, sizeWasRead,
  buffer,           \* the caller's buffer, for blocking requests
  internalBuffer,   \* _flash_internalBuffer
  flashFlag,        \* FLASH_DONE
  thread,           \* where the calling thread is
  request,          \* history: the last request, and whether internalBuffer was blank
  completed,        \* history: how often it was answered or called back
  requests          \* bounds the model

registers == <<command, cycleDone, interruptEnable, dataRegs>>
progress == <<readWritePos, readWriteSize, startAddress, sizeWasRead>>
buffers == <<buffer, internalBuffer>>
history == <<request, completed, requests>>
flashVars == <<array, registers, operation, progress, buffers, flashFlag, thread, history>>

Lesser(m, n) == IF m < n THEN m ELSE n
Zeros(n) == [k \in 1 .. n |-> 0]

FlashInit ==
  /\ array = [a \in 0 .. FLASH_CAPACITY - 1 |-> 1]
  /\ command = Idle /\ cycleDone = FALSE /\ interruptEnable = TRUE /\ dataRegs = <<>>
  /\ operation = "NONE"
  /\ readWritePos = 0 /\ readWriteSize = 0 /\ startAddress = 0 /\ sizeWasRead = 0
  /\ buffer = <<>> /\ internalBuffer = Zeros(MAX_REQUEST)
  /\ flashFlag = FALSE /\ thread = "idle"
  /\ request = [op |-> "none", address |-> 0, data |-> <<>>, clean |-> TRUE]
  /\ completed = 1 /\ requests = 0

-----------------------------------------------------------------------------
(***************************************************************************)
(* myFlushRead, myFlushWrite, copyResultToBuffer.                          *)
(***************************************************************************)

\* Mutant of Chunk: a whole request is one command.
ChunkWhole(size, pos) == size - pos

\* The bytes of the next command.
Chunk(size, pos) == Lesser(size - pos, MAX_DATA)

\* Write the command's registers, which starts it.
Go(op, address, data) ==
  /\ command' = [op |-> op, address |-> address, data |-> data]
  /\ interruptEnable' = TRUE

\* Mutant of myFlushRead: every command starts at the request's address.
myFlushReadAgain(start, size, pos) ==
  Go("read", start, Zeros(Chunk(size, pos)))

myFlushRead(start, size, pos) ==
  Go("read", start + pos, Zeros(Chunk(size, pos)))

\* The data of the command is the next part of the source.
myFlushWrite(source, start, size, pos) ==
  Go("write", start + pos, SubSeq(source, pos + 1, pos + Chunk(size, pos)))

\* What was read is ORed into the buffer.
copyResultToBuffer(target, start, size) ==
  [k \in DOMAIN target |->
     IF k \in start + 1 .. start + size /\ k - start \in DOMAIN dataRegs
       THEN Lesser(1, target[k] + dataRegs[k - start]) ELSE target[k]]

-----------------------------------------------------------------------------
(***************************************************************************)
(* The requests.                                                           *)
(***************************************************************************)
\* Mutant of flash_is_ready: only the end of a cycle is asked for.
flash_is_readyIfNotDone == ~cycleDone

flash_is_ready == command = Idle /\ ~cycleDone /\ operation = "NONE"

\* A request is accepted only when the driver is ready, and NOT_READY otherwise.
Accept(op, address, data) ==
  /\ thread = "idle" /\ flash_is_ready
  /\ requests < MaxRequests /\ requests' = requests + 1
  /\ request' = [op |-> op, address |-> address, data |-> data,
                 clean |-> internalBuffer = Zeros(MAX_REQUEST)]
  /\ completed' = 0
  /\ UNCHANGED <<array, dataRegs>>

Transfer(address, size) ==
  /\ readWritePos' = 0 /\ readWriteSize' = size /\ startAddress' = address

\* flash_read, into a buffer the caller has zeroed.
flash_read(address, size) ==
  /\ Accept("READ_BLOCKING", address, Zeros(size))
  /\ operation' = "READ_BLOCKING" /\ thread' = "readIssue"
  /\ Transfer(address, size)
  /\ buffer' = Zeros(size)
  /\ cycleDone' = FALSE
  /\ UNCHANGED <<command, interruptEnable, sizeWasRead, internalBuffer, flashFlag>>

\* flash_write.
flash_write(address, data) ==
  /\ Accept("WRITE_BLOCKING", address, data)
  /\ operation' = "WRITE_BLOCKING" /\ thread' = "writeIssue"
  /\ Transfer(address, Len(data))
  /\ buffer' = data
  /\ cycleDone' = FALSE /\ interruptEnable' = FALSE
  /\ UNCHANGED <<command, sizeWasRead, internalBuffer, flashFlag>>

\* flash_read_start, up to the command; the size of the command is stored after it.
flash_read_start(address, size) ==
  /\ Accept("READ_START", address, Zeros(size))
  /\ operation' = "READ_START" /\ thread' = "readStarted"
  /\ Transfer(address, size)
  /\ myFlushRead(address, size, 0)
  /\ UNCHANGED <<cycleDone, sizeWasRead, buffers, flashFlag>>

\* flash_write_start, up to the command; the position is advanced after it.
flash_write_start(address, data) ==
  /\ Accept("WRITE_START", address, data)
  /\ operation' = "WRITE_START" /\ thread' = "writeStarted"
  /\ Transfer(address, Len(data))
  /\ internalBuffer' = data \o SubSeq(internalBuffer, Len(data) + 1, MAX_REQUEST)
  /\ myFlushWrite(data, address, Len(data), 0)
  /\ UNCHANGED <<cycleDone, sizeWasRead, buffer, flashFlag>>

\* flash_block_erase_start and flash_bulk_erase_start, which both set BLOCK_ERASE.
flash_erase_start(op, address) ==
  /\ Accept(op, address, <<>>)
  /\ operation' = "BLOCK_ERASE"
  /\ Go(op, address, <<>>)
  /\ UNCHANGED <<cycleDone, progress, buffers, flashFlag, thread>>

Requests ==
  \E address \in 0 .. FLASH_CAPACITY - 1 :
    \/ flash_erase_start("erase", address)
    \/ flash_erase_start("eraseAll", 0)
    \/ \E size \in 1 .. Lesser(MAX_REQUEST, FLASH_CAPACITY - address) :
         \/ flash_read(address, size) \/ flash_read_start(address, size)
         \/ \E data \in [1 .. size -> Bits] :
              flash_write(address, data) \/ flash_write_start(address, data)

-----------------------------------------------------------------------------
(***************************************************************************)
(* The rest of the requests, in the calling thread.                        *)
(***************************************************************************)
ThreadStep(from, to) == thread = from /\ thread' = to /\ UNCHANGED <<array, dataRegs>>

ReadStarted ==
  /\ ThreadStep("readStarted", "idle")
  /\ sizeWasRead' = Chunk(readWriteSize, 0)
  /\ UNCHANGED <<registers, operation, readWritePos, readWriteSize, startAddress,
                 buffers, flashFlag, history>>

WriteStarted ==
  /\ ThreadStep("writeStarted", "idle")
  /\ readWritePos' = readWritePos + Chunk(readWriteSize, 0)
  /\ UNCHANGED <<registers, operation, readWriteSize, startAddress, sizeWasRead,
                 buffers, flashFlag, history>>

ReadIssue ==
  /\ ThreadStep("readIssue", "readWait")
  /\ readWriteSize > readWritePos
  /\ myFlushRead(startAddress, readWriteSize, readWritePos)
  /\ sizeWasRead' = Chunk(readWriteSize, readWritePos)
  /\ UNCHANGED <<cycleDone, operation, readWritePos, readWriteSize, startAddress,
                 buffers, flashFlag, history>>

\* The wait for the flag is over.
ReadCopy ==
  /\ ThreadStep("readWait", "readIssue")
  /\ flashFlag /\ flashFlag' = FALSE
  /\ buffer' = copyResultToBuffer(buffer, readWritePos, sizeWasRead)
  /\ readWritePos' = readWritePos + sizeWasRead
  /\ UNCHANGED <<registers, operation, readWriteSize, startAddress, sizeWasRead,
                 internalBuffer, history>>

WriteIssue ==
  /\ ThreadStep("writeIssue", "writeWait")
  /\ readWriteSize > readWritePos
  /\ myFlushWrite(buffer, startAddress, readWriteSize, readWritePos)
  /\ readWritePos' = readWritePos + Chunk(readWriteSize, readWritePos)
  /\ UNCHANGED <<cycleDone, operation, readWriteSize, startAddress, sizeWasRead,
                 buffers, flashFlag, history>>

\* Mutant of WriteWaited: the flag is left set.
WriteWaitedKeepsFlag ==
  /\ ThreadStep("writeWait", "writeIssue")
  /\ flashFlag
  /\ UNCHANGED <<registers, operation, progress, buffers, flashFlag, history>>

WriteWaited ==
  /\ ThreadStep("writeWait", "writeIssue")
  /\ flashFlag /\ flashFlag' = FALSE
  /\ UNCHANGED <<registers, operation, progress, buffers, history>>

\* The end of both blocking requests.
BlockingReturns ==
  /\ thread \in {"readIssue", "writeIssue"} /\ ThreadStep(thread, "idle")
  /\ readWriteSize <= readWritePos
  /\ operation' = "NONE"
  /\ cycleDone' = FALSE /\ interruptEnable' = TRUE
  /\ completed' = completed + 1
  /\ UNCHANGED <<command, progress, buffers, flashFlag, request, requests>>

CallingThread ==
  \/ ReadStarted \/ WriteStarted \/ ReadIssue \/ ReadCopy \/ WriteIssue \/ WriteWaited
  \/ BlockingReturns

-----------------------------------------------------------------------------
(***************************************************************************)
(* flash_interrupt.                                                        *)
(***************************************************************************)
Interrupted == cycleDone /\ interruptEnable /\ cycleDone' = FALSE

\* The request is over: the caller is called back.
CallsBack ==
  /\ operation' = "NONE" /\ interruptEnable' = TRUE
  /\ completed' = completed + 1
  /\ UNCHANGED command

InterruptRead ==
  /\ Interrupted /\ operation = "READ_START"
  /\ internalBuffer' = copyResultToBuffer(internalBuffer, readWritePos, sizeWasRead)
  /\ readWritePos' = readWritePos + sizeWasRead
  /\ IF readWriteSize > readWritePos'
       THEN /\ myFlushRead(startAddress, readWriteSize, readWritePos')
            /\ sizeWasRead' = Chunk(readWriteSize, readWritePos')
            /\ UNCHANGED <<operation, completed>>
       ELSE CallsBack /\ UNCHANGED sizeWasRead
  /\ UNCHANGED <<array, dataRegs, readWriteSize, startAddress, buffer, flashFlag, thread,
                 request, requests>>

InterruptWrite ==
  /\ Interrupted /\ operation = "WRITE_START"
  /\ IF readWriteSize > readWritePos
       THEN /\ myFlushWrite(internalBuffer, startAddress, readWriteSize, readWritePos)
            /\ readWritePos' = readWritePos + Chunk(readWriteSize, readWritePos)
            /\ UNCHANGED <<operation, completed>>
       ELSE CallsBack /\ UNCHANGED readWritePos
  /\ UNCHANGED <<array, dataRegs, readWriteSize, startAddress, sizeWasRead, buffers,
                 flashFlag, thread, request, requests>>

InterruptErase ==
  /\ Interrupted /\ operation = "BLOCK_ERASE"
  /\ CallsBack
  /\ UNCHANGED <<array, dataRegs, progress, buffers, flashFlag, thread, request, requests>>

\* Mutant of InterruptBlocking: the case of WRITE_BLOCKING is forgotten.
InterruptBlockingReadOnly ==
  /\ Interrupted /\ operation = "READ_BLOCKING"
  /\ flashFlag' = TRUE
  /\ UNCHANGED <<array, command, interruptEnable, dataRegs, operation, progress, buffers,
                 thread, history>>

InterruptBlocking ==
  /\ Interrupted /\ operation \in {"READ_BLOCKING", "WRITE_BLOCKING"}
  /\ flashFlag' = TRUE
  /\ UNCHANGED <<array, command, interruptEnable, dataRegs, operation, progress, buffers,
                 thread, history>>

flash_interrupt == InterruptRead \/ InterruptWrite \/ InterruptErase \/ InterruptBlocking

-----------------------------------------------------------------------------
(***************************************************************************)
(* The device.                                                             *)
(***************************************************************************)

\* What a command or a request leaves in the flash.
Block(address) == address \div BLOCK_LENGTH

Effect(c, flash) ==
  [a \in DOMAIN flash |->
     CASE c.op \in {"write", "WRITE_BLOCKING", "WRITE_START"}
            /\ a - c.address + 1 \in DOMAIN c.data ->
              Lesser(flash[a], c.data[a - c.address + 1])
       [] c.op = "erase" /\ Block(a) = Block(c.address) -> 1
       [] c.op = "eraseAll" -> 1
       [] OTHER -> flash[a]]

BytesOf(c, flash) == [k \in DOMAIN c.data |-> flash[c.address + k - 1]]

CommandEnds ==
  /\ command # Idle
  /\ thread \in {"readStarted", "writeStarted"} => Prompt
  /\ array' = Effect(command, array)
  /\ dataRegs' = IF command.op = "read" THEN BytesOf(command, array) ELSE dataRegs
  /\ command' = Idle /\ cycleDone' = TRUE
  /\ UNCHANGED <<interruptEnable, operation, progress, buffers, flashFlag, thread, history>>

FlashNext == Requests \/ CallingThread \/ flash_interrupt \/ CommandEnds

FlashSpec == FlashInit /\ [][FlashNext]_flashVars

\* The thread runs, the device completes its commands and the interrupt is taken.
FlashFairness ==
  /\ WF_flashVars(CallingThread) /\ WF_flashVars(flash_interrupt)
  /\ WF_flashVars(CommandEnds)

-----------------------------------------------------------------------------
(***************************************************************************)
(* Properties.                                                             *)
(***************************************************************************)
\* Every variable has its type.
FlashTypeOK ==
  /\ array \in Array
  /\ command.op \in {"none", "read", "write", "erase", "eraseAll"}
  /\ Len(command.data) <= MAX_DATA
  /\ cycleDone \in BOOLEAN /\ interruptEnable \in BOOLEAN /\ dataRegs \in Seq(Bits)
  /\ operation \in {"NONE", "READ_START", "READ_BLOCKING", "WRITE_START",
                    "WRITE_BLOCKING", "BLOCK_ERASE"}
  /\ readWritePos \in 0 .. MAX_REQUEST /\ readWriteSize \in 0 .. MAX_REQUEST
  /\ startAddress \in 0 .. FLASH_CAPACITY - 1 /\ sizeWasRead \in 0 .. MAX_DATA
  /\ buffer \in Seq(Bits) /\ internalBuffer \in [1 .. MAX_REQUEST -> Bits]
  /\ flashFlag \in BOOLEAN
  /\ thread \in {"idle", "readStarted", "writeStarted", "readIssue", "readWait",
                 "writeIssue", "writeWait"}

\* The driver is the memory it is taken for: a chain of commands writes the bytes of one
\* request and no others, in order and once, and is answered only when it is through.
\* What flash_read_start reads is ORed into a buffer nobody zeroes, so its answer counts
\* only where that buffer was still blank.
Kind == CASE request.op \in {"READ_BLOCKING", "READ_START"} -> "read"
          [] request.op \in {"WRITE_BLOCKING", "WRITE_START"} -> "write"
          [] OTHER -> request.op

Asked == IF completed # 0 THEN Idle
         ELSE [op |-> Kind, address |-> request.address, data |-> request.data]

Done == CASE completed # 0 \/ Kind = "read" -> 0
          [] completed = 0 /\ Kind = "write" ->
               IF command = Idle THEN readWritePos ELSE command.address - request.address
          [] OTHER -> IF command = Idle THEN 1 ELSE 0

Answer == CASE completed = 0 \/ Kind # "read" -> <<>>
            [] completed # 0 /\ request.op = "READ_BLOCKING" -> buffer
            [] OTHER -> IF request.clean
                          THEN SubSeq(internalBuffer, 1, Len(request.data))
                          ELSE BytesOf(request, array)

Memory == INSTANCE FlashMemory WITH
  MAX_REQUEST_BUFFER_SIZE <- MAX_REQUEST, asked <- Asked, done <- Done, answer <- Answer

ImplementsMemory == Memory!Spec

\* Every request is answered once, and then the driver is ready and no flag is left
\* that would end the next wait at once.
AnsweredOnce ==
  /\ completed <= 1
  /\ completed = 1 /\ thread = "idle" => flash_is_ready /\ ~flashFlag

\* No command is started while the device is busy with one or its end is not seen.
CommandsNotOverrun ==
  [][command' # command /\ command' # Idle => command = Idle /\ ~cycleDone']_flashVars

\* Every request is in the end answered.
EveryRequestAnswered == completed = 0 ~> completed = 1
=============================================================================
