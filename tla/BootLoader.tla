------------------------------ MODULE BootLoader ------------------------------
(***************************************************************************)
(* The boot loader (ex4/bootLoad.c): it copies the flash to memory, a few  *)
(* bytes a command, and jumps there; it gives up when a command takes too  *)
(* long.  A byte is one bit, as bits do not affect each other.             *)
(***************************************************************************)
EXTENDS Integers

CONSTANTS
  ImageSize,   \* bytes of the flash, 65536
  DataCells,   \* bytes of a command, DATA_CELLS_NUM * DATA_CELL_SIZE_BYTE
  BootTimeout  \* polls for one command, 15000

ASSUME BootAssumption ==
  /\ ImageSize \in Nat \ {0} /\ DataCells \in Nat \ {0} /\ BootTimeout \in Nat

VARIABLES
  at,                                   \* where main is
  bytesLeft, timeout,
  currentSourcePos, currDestinationPos,
  SCIP, CYCLE_DONE,                     \* the status register
  address, byteCount, dataArray,         \* of the command
  image,                                \* the flash
  memory, memoryBefore                  \* from CODE_MEMORY_LOCATION on, now and at power on

bootCommand == <<address, byteCount>>
bootVars == <<at, bytesLeft, timeout, currentSourcePos, currDestinationPos, SCIP, CYCLE_DONE,
              bootCommand, dataArray, image, memory, memoryBefore>>

Places == 0 .. ImageSize - 1
Registers == 0 .. DataCells - 1
Contents == [Places -> {0, 1}]

BootInit ==
  /\ at = "loop" /\ bytesLeft = ImageSize /\ timeout = BootTimeout
  /\ currentSourcePos = 0 /\ currDestinationPos = 0
  /\ SCIP = FALSE /\ CYCLE_DONE = FALSE
  /\ address = 0 /\ byteCount = 0 /\ dataArray = [k \in Registers |-> 0]
  /\ image \in Contents /\ memory \in Contents /\ memoryBefore = memory

-----------------------------------------------------------------------------
byte_to_read == IF bytesLeft <= DataCells THEN bytesLeft ELSE DataCells

\* myFlashRead sets the address and the command, which begins.
StartRead ==
  /\ at = "loop" /\ bytesLeft > 0
  /\ at' = "poll"
  /\ address' = currentSourcePos /\ byteCount' = byte_to_read
  /\ SCIP' = TRUE
  /\ UNCHANGED <<bytesLeft, timeout, currentSourcePos, currDestinationPos, CYCLE_DONE, dataArray,
                 image, memory, memoryBefore>>

\* Mutant of boot_flash_is_ready: a command that was not yet done is taken for finished.
boot_flash_is_readyIfNotDone == ~CYCLE_DONE

\* flash_is_ready.
boot_flash_is_ready == ~CYCLE_DONE /\ ~SCIP

\* A poll that fails costs one of the timeout; below zero main returns.
PollFails ==
  /\ at = "poll" /\ ~boot_flash_is_ready
  /\ timeout' = timeout - 1
  /\ at' = IF timeout' < 0 THEN "ERROR" ELSE "poll"
  /\ UNCHANGED <<bytesLeft, currentSourcePos, currDestinationPos, SCIP, CYCLE_DONE, bootCommand,
                 dataArray, image, memory, memoryBefore>>

\* copyResultToBuffer ORs into what was in memory.
CopyChunk ==
  /\ at = "poll" /\ boot_flash_is_ready
  /\ at' = "loop" /\ timeout' = BootTimeout
  /\ memory' = [k \in Places |->
       IF k \in currDestinationPos .. currDestinationPos + byte_to_read - 1
         THEN IF dataArray[k - currDestinationPos] = 1 THEN 1 ELSE memory[k]
         ELSE memory[k]]
  /\ currentSourcePos' = currentSourcePos + byte_to_read
  /\ currDestinationPos' = currDestinationPos + byte_to_read
  /\ bytesLeft' = bytesLeft - byte_to_read
  /\ UNCHANGED <<SCIP, CYCLE_DONE, bootCommand, dataArray, image, memoryBefore>>

Jump ==
  /\ at = "loop" /\ bytesLeft <= 0
  /\ at' = "firmware"
  /\ UNCHANGED <<bytesLeft, timeout, currentSourcePos, currDestinationPos, SCIP, CYCLE_DONE,
                 bootCommand, dataArray, image, memory, memoryBefore>>

\* The device ends the command.  main never acknowledges CYCLE_DONE, so it gets on only
\* with a device that does not set it, or if it is cleared outside of main.
ReadEnds(sets) ==
  /\ SCIP /\ SCIP' = FALSE
  /\ CYCLE_DONE' = (CYCLE_DONE \/ sets)
  /\ dataArray' = [k \in Registers |-> IF k < byteCount THEN image[address + k] ELSE dataArray[k]]
  /\ UNCHANGED <<at, bytesLeft, timeout, currentSourcePos, currDestinationPos, bootCommand,
                 image, memory, memoryBefore>>

Acknowledged ==
  /\ CYCLE_DONE /\ CYCLE_DONE' = FALSE
  /\ UNCHANGED <<at, bytesLeft, timeout, currentSourcePos, currDestinationPos, SCIP, bootCommand,
                 dataArray, image, memory, memoryBefore>>

BootNext ==
  \/ StartRead \/ PollFails \/ CopyChunk \/ Jump
  \/ \E sets \in BOOLEAN : ReadEnds(sets)
  \/ Acknowledged

BootSpec == BootInit /\ [][BootNext]_bootVars

-----------------------------------------------------------------------------
(***************************************************************************)
(* Properties.                                                             *)
(***************************************************************************)
BootTypeOK ==
  /\ at \in {"loop", "poll", "ERROR", "firmware"}
  /\ bytesLeft \in 0 .. ImageSize /\ timeout \in -1 .. BootTimeout
  /\ currentSourcePos \in 0 .. ImageSize /\ currDestinationPos \in 0 .. ImageSize
  /\ SCIP \in BOOLEAN /\ CYCLE_DONE \in BOOLEAN
  /\ address \in Places /\ byteCount \in 0 .. DataCells
  /\ dataArray \in [Registers -> {0, 1}]
  /\ image \in Contents /\ memory \in Contents

\* The firmware is entered only when the whole image has been read to memory, whatever the
\* commands' durations: a byte is the image's where memory was blank or the image has the
\* bit.  Bytes are ORed into memory (113), so nothing is said of the rest.
ImageCopied ==
  at = "firmware" =>
    \A k \in Places : image[k] = 1 \/ memoryBefore[k] = 0 => memory[k] = image[k]
=============================================================================
