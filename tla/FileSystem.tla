------------------------------ MODULE FileSystem ------------------------------
(***************************************************************************)
(* The flash file system of the phone (ex4/fs.c), one step per flash       *)
(* command, with the power failing between any two of them.                *)
(*                                                                         *)
(* The file system keeps two halves of flash and works in one of them.     *)
(* File headers grow up from the half's signature, data grows down from    *)
(* its end, and a file is changed by appending a new version and marking   *)
(* the old header deleted; when the two meet, the live files are copied to *)
(* the other half.  A cell of the model is the room of one header.  A flash*)
(* write only clears bits: Common is what it leaves of a field.            *)
(***************************************************************************)
EXTENDS Integers, Sequences, FiniteSets, FiniteSetsExt

CONSTANTS
  Names,          \* the file names in use
  Contents,       \* the data of files: sequences of cells
  Bytes,          \* what data reads as where a header has its name
  BlockSize,      \* cells of an erase block (4 KB)
  BlocksPerHalf,  \* blocks of a half
  FlashSize,      \* cells of the device, and of the range of uint16_t
  BatchSize,      \* headers restoreFileSystem reads at a time (12)
  FieldSize,      \* values of the length field (2^9)
  Ones,           \* an erased name
  Mixed,          \* what is left of a name written over another
  Absent,         \* no file of that name
  BeyondIsBlank,  \* whether the memory behind the header buffer is all ones
  LoseUnclaimed,  \* whether power may fail with data written and no header
  LoseDoubled,    \* whether power may fail with the new and old header USED
  MaxCalls,       \* bound: calls of the file system
  MaxCrashes      \* bound: power failures

USED == 1
UNUSED == 3
DELETED == 0
FIRST_HALF == 0
SECOND_HALF == 1
NO_HEADER == -1
HALF_SIZE == BlocksPerHalf * BlockSize
Addresses == 0 .. FlashSize - 1

Fields == Names \cup Bytes \cup {Ones, Mixed}
Headers == [valid : 0 .. 3, name : Fields, length : 0 .. FieldSize - 1]

ASSUME GeometryAssumption ==
  /\ BlockSize \in Nat \ {0} /\ BlocksPerHalf \in Nat \ {0}
  /\ HALF_SIZE > 1
  /\ FlashSize \in Nat /\ FlashSize > 2 * HALF_SIZE
  /\ BatchSize \in Nat \ {0, 1} /\ FieldSize \in Nat \ {0, 1}
ASSUME ContentsAssumption ==
  \A data \in Contents : data \in Seq(Headers) /\ Len(data) \in 1 .. FieldSize - 1

\* Where the data of n files ends if p headers more than those are phantoms, which take the
\* greatest length: restoreFileSystem makes one behind a batch.
DataEnd(size, n, p) == HALF_SIZE - (n - p) * size - p * (FieldSize - 1)
Phantoms(n) == IF n = 0 THEN 0 ELSE (n - 1) \div BatchSize

\* The UI writes files of one size, with which headers and data never fill a half to the
\* last cell, or to the last but one where a phantom may follow; and headers reach higher
\* than a phantom and a file are long before the data comes down as low.
ASSUME RoomAssumption ==
  \E size \in 1 .. FieldSize - 1 :
    /\ \A data \in Contents : Len(data) = size
    /\ \A n \in 0 .. HALF_SIZE : \A p \in 0 .. Phantoms(n) :
         /\ DataEnd(size, n, p) # n + 1
         /\ n % BatchSize = 0 => DataEnd(size, n, p) # n + 2
         /\ DataEnd(size, n, p) > n => DataEnd(size, n, p) >= size + FieldSize - 1
ASSUME OptionsAssumption ==
  /\ {Ones, Mixed} \cap Names = {} /\ Bytes \cap Names = {}
  /\ BeyondIsBlank \in BOOLEAN /\ LoseUnclaimed \in BOOLEAN /\ LoseDoubled \in BOOLEAN
  /\ Absent \notin Seq(Headers)
  /\ MaxCalls \in Nat /\ MaxCrashes \in Nat

VARIABLES
  flash,     \* address -> what the cell's bits are, read as a header
  pc,        \* where the file system is; "off" is before fs_init
  files,     \* _files
  lastFile,  \* _lastFile
  next,      \* _next_avilable_header_pos
  end,       \* _end_of_avilable_data_pos
  half,      \* _currentHalf
  request,   \* the call being carried out, with its arguments
  answer,    \* what the last call returned
  index,     \* fileHeaderIndex
  i,         \* the variable of the loop being executed
  previous,  \* previousAddressHeaderOnFlash
  copied,    \* nextHalf_next_avilable_header_pos, nextHalf_end_of_avilable_data_pos
  after,     \* what restoreFileSystem returns to
  calls, crashes  \* bound the model

table == <<files, lastFile, next, end, half>>
call == <<request, answer, index, previous>>
bounds == <<calls, crashes>>
vars == <<flash, pc, table, call, i, copied, after, bounds>>

Status(s) == [status |-> s]
NoRequest == [op |-> "none", name |-> Ones, data |-> <<>>]
NoAnswer == Status("none")
NoEntry == [valid |-> DELETED, name |-> Ones, length |-> 0, header |-> 0, start |-> 0]

\* What writing new over old leaves of a field: the bits set in both.
Common(old, new, ones, mixed) ==
  IF old = ones THEN new ELSE IF new \in {old, ones} THEN old ELSE mixed

Blank == [valid |-> UNUSED, name |-> Ones, length |-> FieldSize - 1]
Valid(status) == [Blank EXCEPT !.valid = status]

Programmed(old, new) ==
  [valid  |-> Common(old.valid, new.valid, UNUSED, DELETED),
   name   |-> Common(old.name, new.name, Ones, Mixed),
   length |-> Common(old.length, new.length, FieldSize - 1, 0)]

\* flash_write of a sequence of cells at an address.
Written(start, cells) ==
  [a \in Addresses |-> IF a \in start .. start + Len(cells) - 1
                         THEN Programmed(flash[a], cells[a - start + 1])
                         ELSE flash[a]]

\* flash_block_erase_start, and the wait for its completion.
Erased(block) ==
  [a \in Addresses |-> IF a \div BlockSize = block THEN Blank ELSE flash[a]]

\* flash_read of a file's data.
Data(entry) == [k \in 1 .. entry.length |-> flash[entry.start + k - 1]]

HalfStart(h) == h * HALF_SIZE
OtherHalf == 1 - half

\* The flash after the status of a half's signature was written.
changeHalfStatus(h, status) == Written(HalfStart(h), <<Valid(status)>>)

-----------------------------------------------------------------------------
\* The state of memory when the power comes on.
MemoryCleared ==
  /\ pc' = "off"
  /\ files' = [k \in 0 .. HALF_SIZE |-> NoEntry]
  /\ lastFile' = 0 /\ next' = 0 /\ end' = 0 /\ half' = FIRST_HALF
  /\ request' = NoRequest /\ answer' = NoAnswer /\ index' = NO_HEADER
  /\ previous' = 0 /\ i' = 0 /\ copied' = <<0, 0>> /\ after' = "idle"

Init ==
  /\ flash = [a \in Addresses |-> Blank]
  /\ pc = "off"
  /\ files = [k \in 0 .. HALF_SIZE |-> NoEntry]
  /\ lastFile = 0 /\ next = 0 /\ end = 0 /\ half = FIRST_HALF
  /\ request = NoRequest /\ answer = NoAnswer /\ index = NO_HEADER
  /\ previous = 0 /\ i = 0 /\ copied = <<0, 0>> /\ after = "idle"
  /\ calls = 0 /\ crashes = 0

Step(from, to) == pc = from /\ pc' = to /\ UNCHANGED bounds

\* Mutant of SetHalf: the end is computed from the pointer that has already passed the
\* signature.
SetHalfFromNext(h) ==
  /\ next' = HalfStart(h) + 1
  /\ end' = HalfStart(h) + 1 + HALF_SIZE

\* setHalf: the pointers of an empty half.
SetHalf(h) ==
  /\ next' = HalfStart(h) + 1
  /\ end' = HalfStart(h) + HALF_SIZE

-----------------------------------------------------------------------------
(***************************************************************************)
(* fs_init and restoreFileSystem.                                          *)
(***************************************************************************)
EnterRestore(h, to) ==
  /\ half' = h /\ lastFile' = 0 /\ i' = 0 /\ after' = to
  /\ SetHalf(h)
  /\ UNCHANGED files

\* fs_init takes the first half whose signature is USED.
InitFromHalf ==
  /\ Step("off", "restore")
  /\ \/ flash[0].valid = USED /\ EnterRestore(FIRST_HALF, "idle")
     \/ /\ flash[0].valid # USED /\ flash[HALF_SIZE].valid = USED
        /\ EnterRestore(SECOND_HALF, "idle")
  /\ UNCHANGED <<flash, call, copied>>

\* Without one it erases the whole device,
InitErases ==
  /\ Step("off", "format")
  /\ flash[0].valid # USED /\ flash[HALF_SIZE].valid # USED
  /\ flash' = [a \in Addresses |-> Blank]
  /\ UNCHANGED <<table, call, i, copied, after>>

\* and makes the first half the current one.
InitFormats ==
  /\ Step("format", "idle")
  /\ flash' = changeHalfStatus(FIRST_HALF, USED)
  /\ half' = FIRST_HALF /\ lastFile' = 0 /\ SetHalf(FIRST_HALF)
  /\ files' = [files EXCEPT ![0].valid = UNUSED, ![0].length = 0]
  /\ UNCHANGED <<call, i, copied, after>>

\* Mutant of AddHeader: the data of deleted files is not passed over.
AddHeaderSkipsDead(header) ==
  /\ flash' = IF header.valid = UNUSED THEN Written(next, <<Valid(DELETED)>>) ELSE flash
  /\ IF header.valid = USED
       THEN /\ files' = [files EXCEPT ![lastFile] =
                 [valid |-> USED, name |-> header.name, length |-> header.length,
                  header |-> next, start |-> (end - header.length) % FlashSize]]
            /\ lastFile' = lastFile + 1
       ELSE UNCHANGED <<files, lastFile>>
  /\ next' = (next + 1) % FlashSize
  /\ end' = IF header.valid = USED THEN (end - header.length) % FlashSize ELSE end
  /\ UNCHANGED half

\* addHeaderFileToMemory of the header at next.
AddHeader(header) ==
  /\ flash' = IF header.valid = UNUSED THEN Written(next, <<Valid(DELETED)>>) ELSE flash
  /\ IF header.valid = USED
       THEN /\ files' = [files EXCEPT ![lastFile] =
                 [valid |-> USED, name |-> header.name, length |-> header.length,
                  header |-> next, start |-> (end - header.length) % FlashSize]]
            /\ lastFile' = lastFile + 1
       ELSE UNCHANGED <<files, lastFile>>
  /\ next' = (next + 1) % FlashSize
  /\ end' = (end - header.length) % FlashSize
  /\ UNCHANGED half

\* The headers are read by the batch.  At the end of a batch the loop tests what
\* is behind the buffer, and if that is not all ones takes the first header of the
\* next batch untested.
BatchOver == i = BatchSize
LastHeader == IF BatchOver THEN BeyondIsBlank ELSE flash[next] = Blank

RestoreHeader ==
  /\ Step("restore", "restore")
  /\ ~LastHeader
  /\ AddHeader(flash[next])
  /\ i' = IF BatchOver THEN 1 ELSE i + 1
  /\ UNCHANGED <<call, copied, after>>

RestoreDone ==
  /\ Step("restore", after)
  /\ LastHeader
  /\ i' = 0 /\ after' = "idle"
  /\ UNCHANGED <<flash, table, call, copied>>

-----------------------------------------------------------------------------
(***************************************************************************)
(* FindFile, and removeFileHeader that it calls for older versions.        *)
(***************************************************************************)

\* fs_write, fs_erase, fs_read and fs_filesize begin with FindFile.
Call(op, name, data) ==
  /\ calls < MaxCalls /\ calls' = calls + 1
  /\ pc = "idle" /\ pc' = "find"
  /\ request' = [op |-> op, name |-> name, data |-> data]
  /\ answer' = NoAnswer /\ index' = NO_HEADER /\ i' = lastFile
  /\ UNCHANGED <<flash, table, previous, copied, after, crashes>>

Found == index # NO_HEADER

\* The entries not yet looked at that have the name.
Matches ==
  {k \in 0 .. i : files[k].valid = USED /\ files[k].name = request.name}

\* The first one found, from the end, is the file.
FindNewest ==
  /\ Step("find", "find")
  /\ ~Found /\ Matches # {}
  /\ index' = Max(Matches)
  /\ i' = Max(Matches) - 1
  /\ UNCHANGED <<flash, table, request, answer, previous, copied, after>>

\* Mark the header deleted, and close the gap in the table.
RemoveFileHeader(k) ==
  /\ flash' = Written(files[k].header, <<Valid(DELETED)>>)
  /\ files' = [j \in DOMAIN files |->
                 IF j \in k .. lastFile - 1 THEN files[j + 1] ELSE files[j]]
  /\ lastFile' = lastFile - 1
  /\ UNCHANGED <<next, end, half>>

\* An older one is removed.  The index found before is not adjusted, and the entry
\* that follows in the loop is skipped.
RemoveOlder ==
  /\ Step("find", "find")
  /\ Found /\ Matches # {}
  /\ RemoveFileHeader(Max(Matches))
  /\ i' = Max(Matches) - 2
  /\ UNCHANGED <<call, copied, after>>

\* The end of the loop, for each caller.
FindEnds(to) ==
  /\ Step("find", to)
  /\ Matches = {}
  /\ i' = 0
  /\ UNCHANGED <<request, index, previous, copied, after>>

NotFound ==
  /\ FindEnds("return")
  /\ ~Found /\ request.op # "write"
  /\ answer' = Status("FILE_NOT_FOUND")
  /\ UNCHANGED <<flash, table>>

\* fs_read returns the data, fs_filesize its length.
Read ==
  /\ FindEnds("return")
  /\ Found /\ request.op \in {"read", "filesize"}
  /\ answer' = IF request.op = "read"
                 THEN [status |-> "FS_SUCCESS", data |-> Data(files[index])]
                 ELSE [status |-> "FS_SUCCESS", size |-> files[index].length]
  /\ UNCHANGED <<flash, table>>

Erase ==
  /\ FindEnds("return")
  /\ Found /\ request.op = "erase"
  /\ RemoveFileHeader(index)
  /\ answer' = Status("FS_SUCCESS")

\* fs_count and fs_list go through the table without FindFile.  What they would do
\* with an entry that is not USED is left out: TableMatchesFlash says there is none.
List ==
  /\ calls < MaxCalls /\ calls' = calls + 1
  /\ pc = "idle" /\ pc' = "return"
  /\ request' = [op |-> "list", name |-> Ones, data |-> <<>>]
  /\ answer' = [count |-> lastFile, names |-> {files[k].name : k \in 0 .. lastFile - 1}]
  /\ UNCHANGED <<flash, table, index, previous, i, copied, after, crashes>>

Return ==
  /\ Step("return", "idle")
  /\ request' = NoRequest /\ index' = NO_HEADER /\ previous' = 0
  /\ UNCHANGED <<flash, table, answer, i, copied, after>>

-----------------------------------------------------------------------------
(***************************************************************************)
(* writeFileDataToFlash.                                                   *)
(***************************************************************************)
Length == Len(request.data)

\* Mutant of Room: the header itself is forgotten.
RoomNoHeader == end < Length \/ end - Length >= next

\* The difference is an int, what it is compared with is unsigned: when less is left than
\* the file's length, the negative difference is a great number.
Room == end < Length \/ end - Length >= next + 1

\* The entry written to: the file's, or the first free one.
Slot == IF Found THEN index ELSE lastFile

\* A new file has its name from the start, with room for it or without.
NewlyNamed ==
  IF Found THEN files ELSE [files EXCEPT ![lastFile].name = request.name]

EnterWrite ==
  /\ FindEnds("room")
  /\ request.op = "write"
  /\ files' = NewlyNamed
  /\ UNCHANGED <<flash, lastFile, next, end, half, answer>>

\* Mutant of StartWrite: the version before is deleted before the new one is written.
StartWriteDeletesFirst ==
  /\ pc \in {"room", "roomAgain"}
  /\ Step(pc, "data")
  /\ Room
  /\ end' = (end - Length) % FlashSize
  /\ flash' = IF Found THEN Written(files[index].header, <<Valid(DELETED)>>) ELSE flash
  /\ files' = NewlyNamed
  /\ previous' = IF Found THEN files[index].header ELSE 0
  /\ UNCHANGED <<lastFile, next, half, request, answer, index, i, copied, after>>

\* With room, the data is written a cell at a time.  It is called again after
\* changehalf, with the index found before.
StartWrite ==
  /\ pc \in {"room", "roomAgain"}
  /\ Step(pc, "data")
  /\ Room
  /\ end' = (end - Length) % FlashSize
  /\ files' = NewlyNamed
  /\ previous' = IF Found THEN files[index].header ELSE 0
  /\ UNCHANGED <<flash, lastFile, next, half, request, answer, index, i, copied, after>>

WriteData ==
  /\ Step("data", IF i + 1 = Length THEN "header" ELSE "data")
  /\ flash' = Written(end + i, <<request.data[i + 1]>>)
  /\ i' = IF i + 1 = Length THEN 0 ELSE i + 1
  /\ files' = IF i + 1 = Length THEN [files EXCEPT ![Slot].start = end] ELSE files
  /\ UNCHANGED <<lastFile, next, end, half, call, copied, after>>

\* The header, without its status.
WriteHeader ==
  /\ Step("header", "use")
  /\ flash' = Written(next, <<[Blank EXCEPT !.name = request.name, !.length = Length]>>)
  /\ files' = [files EXCEPT ![Slot].length = Length]
  /\ next' = next + 1
  /\ UNCHANGED <<lastFile, end, half, call, i, copied, after>>

\* Mutant of WriteUsed: the table keeps the address of the header before.
WriteUsedKeepsAddress ==
  /\ Step("use", IF Found THEN "supersede" ELSE "return")
  /\ flash' = Written(next - 1, <<Valid(USED)>>)
  /\ IF Found
       THEN /\ files' = [files EXCEPT ![index].valid = USED]
            /\ UNCHANGED <<lastFile, answer>>
       ELSE /\ files' = [files EXCEPT ![lastFile].header = next - 1, ![lastFile].valid = USED,
                                      ![lastFile + 1].valid = UNUSED]
            /\ lastFile' = lastFile + 1
            /\ answer' = Status("FS_SUCCESS")
  /\ UNCHANGED <<next, end, half, request, index, previous, i, copied, after>>

\* Set it USED.
WriteUsed ==
  /\ Step("use", IF Found THEN "supersede" ELSE "return")
  /\ flash' = Written(next - 1, <<Valid(USED)>>)
  /\ IF Found
       THEN /\ files' = [files EXCEPT ![index].header = next - 1, ![index].valid = USED]
            /\ UNCHANGED <<lastFile, answer>>
       ELSE /\ files' = [files EXCEPT ![lastFile].header = next - 1, ![lastFile].valid = USED,
                                      ![lastFile + 1].valid = UNUSED]
            /\ lastFile' = lastFile + 1
            /\ answer' = Status("FS_SUCCESS")
  /\ UNCHANGED <<next, end, half, request, index, previous, i, copied, after>>

\* Mark the header of the version before DELETED.
Supersede ==
  /\ Step("supersede", "return")
  /\ flash' = Written(previous, <<Valid(DELETED)>>)
  /\ answer' = Status("FS_SUCCESS")
  /\ UNCHANGED <<table, request, index, previous, i, copied, after>>

\* Mutant of Full: changehalf is called again for as long as there is no room.
FullRetries ==
  /\ Step("roomAgain", "eraseNext")
  /\ ~Room
  /\ copied' = <<HalfStart(OtherHalf) + 1, HalfStart(OtherHalf) + HALF_SIZE>>
  /\ UNCHANGED <<flash, table, call, i, after>>

\* Still no room after changehalf.
Full ==
  /\ Step("roomAgain", "return")
  /\ ~Room
  /\ answer' = Status("MAXIMUM_FLASH_SIZE_EXCEEDED")
  /\ UNCHANGED <<flash, table, request, index, previous, i, copied, after>>

-----------------------------------------------------------------------------
(***************************************************************************)
(* changehalf: eraseHalf, copyFilesAndDataToNextHalf and the signatures.   *)
(***************************************************************************)
EnterChangeHalf ==
  /\ Step("room", "eraseNext")
  /\ ~Room
  /\ copied' = <<HalfStart(OtherHalf) + 1, HalfStart(OtherHalf) + HALF_SIZE>>
  /\ UNCHANGED <<flash, table, call, i, after>>

EraseHalf(h, from, to) ==
  /\ Step(from, IF i + 1 = BlocksPerHalf THEN to ELSE from)
  /\ flash' = Erased(h * BlocksPerHalf + i)
  /\ i' = IF i + 1 = BlocksPerHalf THEN 0 ELSE i + 1

EraseNext ==
  /\ EraseHalf(OtherHalf, "eraseNext", "copyData")
  /\ UNCHANGED <<table, call, copied, after>>

\* Mutant of Copied: the files are copied from the last to the first.
CopiedBackwards == files[lastFile - 1 - i]

\* The file being copied, in the order of the table.
Copied == files[i]

CopyData ==
  /\ Step("copyData", "copyHeader")
  /\ i < lastFile
  /\ flash' = Written(copied[2] - Copied.length, Data(Copied))
  /\ copied' = [copied EXCEPT ![2] = @ - Copied.length]
  /\ UNCHANGED <<table, call, i, after>>

CopyHeader ==
  /\ Step("copyHeader", "copyData")
  /\ flash' = Written(copied[1], <<[valid |-> Copied.valid, name |-> Copied.name,
                                    length |-> Copied.length]>>)
  /\ copied' = [copied EXCEPT ![1] = @ + 1]
  /\ i' = i + 1
  /\ UNCHANGED <<table, call, after>>

ValidateNext ==
  /\ Step("copyData", "unvalidate")
  /\ i = lastFile
  /\ flash' = changeHalfStatus(OtherHalf, USED)
  /\ i' = 0 /\ copied' = <<0, 0>>
  /\ UNCHANGED <<table, call, after>>

UnvalidateCurrent ==
  /\ Step("unvalidate", "eraseCurrent")
  /\ flash' = changeHalfStatus(half, DELETED)
  /\ UNCHANGED <<table, call, i, copied, after>>

\* Erase the half left behind and read the new one's headers.
EraseCurrent ==
  /\ EraseHalf(half, "eraseCurrent", "restore")
  /\ IF i + 1 = BlocksPerHalf
       THEN EnterRestore(OtherHalf, "roomAgain")
       ELSE UNCHANGED <<table, after>>
  /\ UNCHANGED <<call, copied>>

ChangeHalf ==
  \/ EnterChangeHalf \/ EraseNext \/ CopyData \/ CopyHeader
  \/ ValidateNext \/ UnvalidateCurrent \/ EraseCurrent

-----------------------------------------------------------------------------
Unclaimed == (pc = "data" /\ i > 0) \/ pc = "header"
Doubled == pc = "supersede"

\* The power fails.  The file system is used only after fs_init.
PowerFails ==
  /\ pc # "off"
  /\ crashes < MaxCrashes
  /\ Unclaimed => LoseUnclaimed
  /\ Doubled => LoseDoubled
  /\ MemoryCleared
  /\ crashes' = crashes + 1
  /\ UNCHANGED <<flash, calls>>

UserCalls ==
  \/ \E name \in Names, data \in Contents : Call("write", name, data)
  \/ \E name \in Names, op \in {"read", "filesize", "erase"} : Call(op, name, <<>>)
  \/ List

Progress ==
  \/ InitFromHalf \/ InitErases \/ InitFormats \/ RestoreHeader \/ RestoreDone
  \/ FindNewest \/ RemoveOlder \/ NotFound \/ Read \/ Erase \/ Return
  \/ EnterWrite \/ StartWrite \/ WriteData \/ WriteHeader \/ WriteUsed \/ Supersede
  \/ Full \/ ChangeHalf

Next == UserCalls \/ Progress \/ PowerFails

Spec == Init /\ [][Next]_vars

\* The flash completes every command, so a call goes on while there is power.
FairSpec == Spec /\ WF_vars(Progress)

-----------------------------------------------------------------------------
(***************************************************************************)
(* Properties.                                                             *)
(***************************************************************************)
\* Every variable has its type; the pointers stay in the two halves.
TypeOK ==
  /\ flash \in [Addresses -> Headers]
  /\ pc \in {"off", "format", "restore", "idle", "find", "return", "room",
             "roomAgain", "data", "header", "use", "supersede", "eraseNext",
             "copyData", "copyHeader", "unvalidate", "eraseCurrent"}
  /\ files \in [0 .. HALF_SIZE -> [valid : 0 .. 3, name : Fields,
                  length : 0 .. FieldSize - 1, header : Addresses, start : Addresses]]
  /\ lastFile \in 0 .. HALF_SIZE
  /\ next \in 0 .. 2 * HALF_SIZE /\ end \in 0 .. 2 * HALF_SIZE
  /\ half \in {FIRST_HALF, SECOND_HALF}
  /\ index \in 0 .. HALF_SIZE \cup {NO_HEADER}
  /\ previous \in Addresses
  /\ i \in -2 .. HALF_SIZE
  /\ after \in {"idle", "roomAgain"}

\* The file system is in a half whose headers it has read.
InHalf == pc \notin {"off", "format", "restore"}

HalfOf(h) == HalfStart(h) .. HalfStart(h) + HALF_SIZE - 1

\* Between the headers and the data the half is erased: next is "the empty place on
\* the flash" and from end on "the flash is used (data is written)" (fs.c:75-76).
FreeSpaceErased ==
  InHalf /\ pc # "eraseCurrent" =>
    \A a \in HalfOf(half) :
      a >= next /\ a < end => flash[a] = Blank

\* The addresses of the headers of half h: up to the first blank one.
HeadersOf(h) ==
  LET blank == {a \in HalfOf(h) \ {HalfStart(h)} : flash[a] = Blank}
  IN HalfStart(h) + 1 .. Min(blank \cup {HalfStart(h) + HALF_SIZE}) - 1

\* Where the data of the header at a starts, each below the one before it: lengths are
\* stored, not addresses.
DataStart(h, a) ==
  LET start[b \in HalfOf(h)] ==
        IF b = HalfStart(h) THEN HalfStart(h) + HALF_SIZE ELSE start[b - 1] - flash[b].length
  IN start[a]

\* The table holds the USED headers of the half, with the address of each one and of
\* its data, when the file system is not in the middle of a write; of two headers with
\* one name the newer is the later, "the bigest index is the relavent file" (fs.c:375).
TableMatchesFlash ==
  pc \in {"idle", "find", "return", "room"} =>
    LET used == {a \in HeadersOf(half) : flash[a].valid = USED}
        entries == {files[k] : k \in 0 .. lastFile - 1}
    IN /\ lastFile = Cardinality(used)
       /\ \A j, k \in 0 .. lastFile - 1 :
            j < k /\ files[j].name = files[k].name => files[j].header < files[k].header
       /\ entries = {[valid |-> USED, name |-> flash[a].name, length |-> flash[a].length,
                      header |-> a, start |-> DataStart(half, a)] : a \in used}

\* What FindFile found stays the file asked for, whatever FindFile removes and changehalf
\* rebuilds after it: it shall "set the fileHeaderIndex to the file header index"
\* (fs.c:370).
FoundIsTheFile ==
  pc \in {"find", "room", "roomAgain"} /\ Found =>
    index < lastFile /\ files[index].valid = USED /\ files[index].name = request.name

\* Live files do not share flash, with each other or with headers.
FilesDisjoint ==
  InHalf /\ pc \notin {"data", "header", "use"} =>
    \A k \in 0 .. lastFile - 1 :
      LET extent(e) == e.start .. e.start + e.length - 1 IN
      /\ extent(files[k]) \subseteq HalfOf(half)
      /\ extent(files[k]) \cap HeadersOf(half) = {}
      /\ \A j \in 0 .. lastFile - 1 :
           j # k => extent(files[j]) \cap extent(files[k]) = {}

\* The half fs_init would find.
Valids == {h \in {FIRST_HALF, SECOND_HALF} : flash[HalfStart(h)].valid = USED}

\* What is stored in a file as far as the flash goes: the data of its last header.
StoredIn(name) ==
  IF Valids = {} THEN Absent
  ELSE LET h == Min(Valids)
           versions == {a \in HeadersOf(h) : flash[a].valid = USED /\ flash[a].name = name}
       IN IF versions = {} THEN Absent
          ELSE LET a == Max(versions)
               IN [k \in 1 .. flash[a].length |-> flash[DataStart(h, a) + k - 1]]

\* Every call takes effect at once, completely, or when the power fails perhaps not
\* at all, and reading returns what was written last.  It needs files of one size
\* that never fill a half to the last cell, and power that does not fail where
\* Unclaimed or Doubled holds: the README says what happens otherwise.
Store == INSTANCE FileStore WITH
  contents <- [name \in Names |-> StoredIn(name)],
  answer <- IF request = NoRequest THEN answer ELSE NoAnswer

ImplementsFileStore == Store!Spec

\* Every call returns, and after every power failure the file system comes back.
CallsReturn ==
  /\ request # NoRequest ~> request = NoRequest
  /\ pc = "off" ~> pc = "idle"
=============================================================================
