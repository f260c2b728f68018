----------------------------- MODULE FlashMemory -----------------------------
(***************************************************************************)
(* What the flash driver promises its caller (ex4/flash.h): one request at *)
(* a time; writing clears bits, from the first byte to the last and any    *)
(* number of them at once; erasing sets those of a block or of all; and a  *)
(* request is answered when it was carried out whole.                      *)
(***************************************************************************)
EXTENDS Integers, Sequences

CONSTANTS
  FLASH_CAPACITY, BLOCK_LENGTH, MAX_REQUEST_BUFFER_SIZE

VARIABLES
  array,    \* the flash
  asked,    \* the request being carried out, or Nothing
  done,     \* how many bytes of it are written, or 1 when it is erased
  answer    \* what the last request read

vars == <<array, asked, done, answer>>

Bits == {0, 1}
Nothing == [op |-> "none", address |-> 0, data |-> <<>>]
Addresses == 0 .. FLASH_CAPACITY - 1

Init ==
  /\ array = [a \in Addresses |-> 1]
  /\ asked = Nothing /\ done = 0 /\ answer = <<>>

Ask(op, address, data) ==
  /\ asked' = [op |-> op, address |-> address, data |-> data]
  /\ done' = 0 /\ answer' = <<>>
  /\ UNCHANGED array

\* One at a time.
Request ==
  /\ asked = Nothing /\ asked' # Nothing
  /\ \E address \in Addresses :
       \/ Ask("erase", address, <<>>) \/ Ask("eraseAll", 0, <<>>)
       \/ \E size \in 1 .. MAX_REQUEST_BUFFER_SIZE :
            /\ address + size <= FLASH_CAPACITY
            /\ \/ Ask("read", address, [k \in 1 .. size |-> 0])
               \/ \E data \in [1 .. size -> Bits] : Ask("write", address, data)

Written(from, to) ==
  [a \in Addresses |->
     IF a - asked.address \in from .. to - 1 /\ asked.data[a - asked.address + 1] = 0
       THEN 0 ELSE array[a]]

Write ==
  /\ asked.op = "write"
  /\ done' \in done + 1 .. Len(asked.data)
  /\ array' = Written(done, done')
  /\ UNCHANGED <<asked, answer>>

Erase ==
  /\ asked.op \in {"erase", "eraseAll"} /\ done = 0 /\ done' = 1
  /\ array' = [a \in Addresses |->
                 IF \/ asked.op = "eraseAll"
                    \/ a \div BLOCK_LENGTH = asked.address \div BLOCK_LENGTH
                   THEN 1 ELSE array[a]]
  /\ UNCHANGED <<asked, answer>>

Answer ==
  /\ asked # Nothing /\ asked' = Nothing /\ done' = 0
  /\ \/ /\ asked.op = "read"
        /\ answer' = [k \in DOMAIN asked.data |-> array[asked.address + k - 1]]
     \/ asked.op = "write" /\ done = Len(asked.data) /\ answer' = <<>>
     \/ asked.op \in {"erase", "eraseAll"} /\ done = 1 /\ answer' = <<>>
  /\ UNCHANGED array

Next == Request \/ Write \/ Erase \/ Answer

Spec == Init /\ [][Next]_vars
=============================================================================
