----------------------------- MODULE Dictionary -----------------------------
(***************************************************************************)
(* What a map with an iterator promises: a key has the value it was given  *)
(* last, and the iterator goes through the keys in ascending order, those  *)
(* that are added ahead of it on its way included.                         *)
(***************************************************************************)
EXTENDS Integers, FiniteSets

CONSTANTS
  Keys, Values,
  Precedes(_, _),  \* a strict total order of the keys
  None             \* no key, no value

VARIABLES
  dict,    \* the map: a function from the keys that are in it
  at,      \* the iterator's key, or None at the end
  answer,  \* what was last looked up
  count    \* how many keys it says it has

vars == <<dict, at, answer, count>>

Least(S) == IF S = {} THEN None ELSE CHOOSE k \in S : \A l \in S \ {k} : Precedes(k, l)

Init == dict = [k \in {} |-> None] /\ at = None /\ answer = None /\ count = 0

Set(k, v) ==
  /\ dict' = [l \in DOMAIN dict \cup {k} |-> IF l = k THEN v ELSE dict[l]]
  /\ count' = Cardinality(DOMAIN dict')
  /\ UNCHANGED <<at, answer>>

Get(k) ==
  /\ answer' = IF k \in DOMAIN dict THEN dict[k] ELSE None
  /\ UNCHANGED <<dict, at, count>>

Begin == at' = Least(DOMAIN dict) /\ UNCHANGED <<dict, answer, count>>

GoNext ==
  /\ at # None
  /\ at' = Least({k \in DOMAIN dict : Precedes(at, k)})
  /\ UNCHANGED <<dict, answer, count>>

Next ==
  \/ \E k \in Keys : Get(k) \/ \E v \in Values : Set(k, v)
  \/ Begin \/ GoNext

Spec == Init /\ [][Next]_vars
=============================================================================
