--------------------------- MODULE FlashRegisters ---------------------------
(***************************************************************************)
(* How the flash driver and the boot loader get bytes to and from the data *)
(* registers of the flash device (ex4/flash.c, ex4/bootLoad.c), which are  *)
(* words, their most significant byte first, while the device numbers the  *)
(* bytes of a word from the least significant one.                         *)
(*                                                                         *)
(* A byte is the set of its bits that are one, a word a function of the    *)
(* places of its bytes.                                                    *)
(***************************************************************************)
EXTENDS Integers

Ones == 0 .. 7
Byte == SUBSET Ones
Word == [0 .. 3 -> Byte]

MAX_DATA_READ_WRITE_SIZE == 64
DataRegs == 0 .. (MAX_DATA_READ_WRITE_SIZE \div 4) - 1  \* FLASH_DATA and those after it

\* Shifted out at the left byte by byte, and in at the left of the other word.
changeEndian(data) == [k \in 0 .. 3 |-> data[3 - k]]

\* The size rounded up to whole words.
newSizeInt(size) == IF size % 4 # 0 THEN (size \div 4 + 1) * 4 ELSE size

\* The i-th byte shifted in; the word that is not full is filled with ones.
ByteToWrite(buffer, start, size, i) == IF i < size THEN buffer[start + i] ELSE Ones

copyFromBufferToDataRegs(regs, buffer, start, size) ==
  [r \in DataRegs |->
     IF 4 * r < newSizeInt(size)
       THEN changeEndian([k \in 0 .. 3 |-> ByteToWrite(buffer, start, size, 4 * r + k)])
       ELSE regs[r]]

copyResultToBuffer(regs, buffer, start, size) ==
  [p \in DOMAIN buffer |->
     IF p - start \in 0 .. size - 1
       THEN buffer[p] \cup changeEndian(regs[(p - start) \div 4])[(p - start) % 4]
       ELSE buffer[p]]

-----------------------------------------------------------------------------
(***************************************************************************)
(* The device: it writes by clearing bits, and in the worst case whole     *)
(* words.                                                                  *)
(***************************************************************************)
RegisterByte(regs, k) == regs[k \div 4][3 - (k % 4)]

Programmed(flash, address, size, regs) ==
  [a \in DOMAIN flash |->
     IF a - address \in 0 .. newSizeInt(size) - 1
       THEN flash[a] \cap RegisterByte(regs, a - address) ELSE flash[a]]

\* What a read leaves in the registers; those beyond its size keep what they held.
Loaded(flash, address, size, regs) ==
  [r \in DataRegs |->
     [k \in 0 .. 3 |->
        IF 4 * r + (3 - k) < size THEN flash[address + 4 * r + (3 - k)] ELSE regs[r][k]]]
=============================================================================
