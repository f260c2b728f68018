---------------------------- MODULE MCSmsExchange ----------------------------
(* Values of the constants of SmsExchange for TLC. *)
EXTENDS SmsExchange

\* Numbers of every length, digits at both ends of their range in either half of an octet.
Id(digits) == [k \in 0 .. ID_MAX_LENGTH - 1 |->
                 IF k < Len(digits) THEN digits[k + 1] + Zero ELSE NUL]
Numbers == {Id(SubSeq(digits, 1, n)) :
              n \in 0 .. ID_MAX_LENGTH, digits \in {<<1, 2, 3, 4, 5, 6, 7, 8>>, <<9, 0, 9, 0, 0, 0, 9, 9>>}}
NotDigits == [k \in 0 .. ID_MAX_LENGTH - 1 |-> IF k = 3 THEN 97 ELSE 50]

\* Texts of every length to two octets of packing and beyond, with one septet among others.
Message(number, n, septets) == [recipient |-> number, length |-> n, text |-> septets]
Spotted(n, p, v, w) == [k \in 0 .. n - 1 |-> IF k = p THEN v ELSE w]

MCComposed ==
  {Message(number, n, Spotted(n, 0, 65, 66)) : number \in Numbers \cup {NotDigits}, n \in {0, 3, 8}}
    \cup UNION {{Message(Id(<<5, 0, 5>>), n, Spotted(n, p, v, w)) :
                   p \in 0 .. n - 1, v \in {1, 64, 85}, w \in {0, 127}} : n \in 0 .. 17}
MCDevice == Id(<<7, 7, 7, 7, 0, 0, 0, 1>>)
MCTimestamp == [k \in 0 .. TIMESTAMP_MAX_LENGTH - 1 |-> Zero + (k % 10)]
\* A digit, a terminator or neither where the number ends.
Filling(c) == [k \in 0 .. ID_MAX_LENGTH - 1 |-> c]
MCLeftovers == {Filling(57), Filling(255), Filling(NUL), [Filling(55) EXCEPT ![4] = NUL]}
=============================================================================
