------------------------------- MODULE Outbox -------------------------------
(***************************************************************************)
(* What the SMS client promises the user for the messages sendMessage      *)
(* accepted: they wait in the order they were accepted, only the oldest is *)
(* being sent, it may reach the SMSC more than once, and it leaves the     *)
(* outbox only after the SMSC received it.                                 *)
(***************************************************************************)
EXTENDS Sequences

CONSTANT Messages

VARIABLES
  waiting,   \* the messages accepted and not known to be received, oldest first
  received   \* the messages the SMSC received

vars == <<waiting, received>>

Init == waiting = <<>> /\ received = {}

\* sendMessage returns SUCCESS for m, which it never accepted before.
Accept(m) ==
  /\ m \notin received
  /\ \A i \in DOMAIN waiting : waiting[i] # m
  /\ waiting' = Append(waiting, m)
  /\ UNCHANGED received

\* The oldest message reaches the SMSC, for the first time or again.
Receive ==
  /\ waiting # <<>>
  /\ received' = received \cup {Head(waiting)}
  /\ UNCHANGED waiting

\* The SMSC's acknowledgment of the oldest message reaches the phone.
Confirm ==
  /\ waiting # <<>>
  /\ Head(waiting) \in received
  /\ waiting' = Tail(waiting)
  /\ UNCHANGED received

Next == (\E m \in Messages : Accept(m)) \/ Receive \/ Confirm

Spec == Init /\ [][Next]_vars
=============================================================================
