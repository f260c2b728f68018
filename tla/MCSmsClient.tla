---------------------------- MODULE MCSmsClient ----------------------------
(* Values of the constants of SmsClient for TLC. *)
EXTENDS SmsClient, TLC

CONSTANTS a, b, c, d, d1, d2   \* model values: four numbers, two delivers

\* Two messages to one number and one to another.
MixedRecipient == (1 :> a) @@ (2 :> a) @@ (3 :> b)
OneRecipient == [m \in Messages |-> a]
DistinctRecipient == (1 :> a) @@ (2 :> b) @@ (3 :> c) @@ (4 :> d)

\* The delivers are interchangeable.
DeliverSymmetry == Permutations(Delivers)

\* What the SMSC has seen is history that no step reads: states that differ only
\* in it are one state for the invariants that do not mention it.
PhoneView == <<guiVars, ToSendQueue, netVars, wake, messageThatWasSent, txRing,
               deliverVars, receiveQueue, acks>>
=============================================================================
