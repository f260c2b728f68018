----------------------------- MODULE BoundedQueue -----------------------------
(***************************************************************************)
(* What a ring shared by a producer and a consumer promises: a queue of at *)
(* most Capacity items, numbered in the order they are put, taken from the *)
(* other end one at a time.                                                *)
(***************************************************************************)
EXTENDS Naturals, Sequences

CONSTANT Capacity

VARIABLES
  queue,  \* the items, oldest first
  put     \* how many were put so far

vars == <<queue, put>>

Init == queue = <<>> /\ put = 0

Put ==
  /\ Len(queue) < Capacity
  /\ put' = put + 1
  /\ queue' = Append(queue, put + 1)

Take ==
  /\ queue # <<>>
  /\ queue' = Tail(queue)
  /\ UNCHANGED put

Next == Put \/ Take

Spec == Init /\ [][Next]_vars
=============================================================================
