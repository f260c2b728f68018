--------------------------- MODULE SmsClientProofs ---------------------------
(***************************************************************************)
(* Proofs about SmsClient, for every size of the lists and of the transmit *)
(* ring, every set of numbers and delivers, and every bound.               *)
(***************************************************************************)
EXTENDS SmsClient, SequenceTheorems, TLAPS

-----------------------------------------------------------------------------
(***************************************************************************)
(* Slots and windows of slots.                                             *)
(***************************************************************************)

\* The remainder by ListSize is zero or one subtraction on the arguments it gets.
LEMMA RemainderOnce ==
  ASSUME NEW a \in 0 .. 2 * ListSize - 1
  PROVE  a % ListSize = IF a < ListSize THEN a ELSE a - ListSize
  <1>1. CASE a < ListSize
    BY <1>1, ListSizeAssumption, SMT
  <1>2. CASE a >= ListSize
    <2>1. /\ a \in ListSize .. 2 * ListSize - 1
          /\ a - ListSize \in 0 .. ListSize - 1
      BY <1>2, ListSizeAssumption, SMT
    <2>2. a % ListSize = a - ListSize
      BY <2>1, ListSizeAssumption, SMT
    <2> QED
      BY <1>2, <2>2, ListSizeAssumption, SMT
  <1> QED
    BY <1>1, <1>2, ListSizeAssumption, SMT

\* The slot after a slot.
LEMMA AfterSlot ==
  ASSUME NEW s \in Slots
  PROVE  /\ After(s) \in Slots
         /\ After(s) = IF s + 1 = ListSize THEN 0 ELSE s + 1
  <1>1. s + 1 \in 0 .. 2 * ListSize - 1
    BY ListSizeAssumption, SMT DEF Slots
  <1> QED
    BY <1>1, RemainderOnce, ListSizeAssumption, SMT DEF Slots, After

\* The slot k places behind slot h.
Behind(h, k) == IF h >= k THEN h - k ELSE h + ListSize - k

LEMMA BehindRemainder ==
  ASSUME NEW h \in Slots, NEW k \in 1 .. ListSize
  PROVE  /\ (h + ListSize - k) % ListSize = Behind(h, k)
         /\ Behind(h, k) \in Slots
  <1>1. Behind(h, k) \in Slots
    BY ListSizeAssumption, SMT DEF Slots, Behind
  <1>2. ASSUME NEW a \in 0 .. 2 * ListSize - 1, a = h + ListSize - k
        PROVE  a % ListSize = Behind(h, k)
    <2>1. a % ListSize = IF a < ListSize THEN a ELSE a - ListSize
      BY RemainderOnce
    <2> QED
      BY <1>2, <2>1, ListSizeAssumption, SMT DEF Slots, Behind
  <1>3. h + ListSize - k \in 0 .. 2 * ListSize - 1
    BY ListSizeAssumption, SMT DEF Slots
  <1> QED
    BY <1>1, <1>2, <1>3, Zenon

\* The slots k places behind the next slot, and around the window's ends.
LEMMA BehindAfter ==
  ASSUME NEW h \in Slots, NEW k \in 1 .. ListSize
  PROVE  /\ k < ListSize => Behind(After(h), k + 1) = Behind(h, k)
         /\ Behind(After(h), 1) = h
         /\ k < ListSize => Behind(h, k) # h
         /\ Behind(h, ListSize) = h
         /\ After(Behind(h, 1)) = h
         /\ k > 1 => After(Behind(h, k)) = Behind(h, k - 1)
         /\ ListSize > 1 => After(h) # h
         /\ k < ListSize - 1 => Behind(h, k) # After(h)
  <1>1. Behind(h, k) \in Slots /\ Behind(h, 1) \in Slots
    BY BehindRemainder, ListSizeAssumption, SMT
  <1>2. /\ After(h) = IF h + 1 = ListSize THEN 0 ELSE h + 1
        /\ After(Behind(h, 1)) = IF Behind(h, 1) + 1 = ListSize THEN 0
                                                  ELSE Behind(h, 1) + 1
        /\ After(Behind(h, k)) = IF Behind(h, k) + 1 = ListSize THEN 0
                                                  ELSE Behind(h, k) + 1
    BY <1>1, AfterSlot
  <1> QED
    BY <1>2, ListSizeAssumption, SMT DEF Slots, Behind

\* A window without the remainder.
LEMMA WindowSlots ==
  ASSUME NEW q \in Seq(Slots), NEW h \in Slots
  PROVE  Window(q, h) <=>
           /\ Len(q) <= ListSize
           /\ \A i \in 1 .. Len(q) : q[i] = Behind(h, Len(q) + 1 - i)
  <1>1. ASSUME Len(q) <= ListSize, NEW i \in 1 .. Len(q)
        PROVE  (h + ListSize - (Len(q) + 1 - i)) % ListSize
                 = Behind(h, Len(q) + 1 - i)
    <2>1. Len(q) + 1 - i \in 1 .. ListSize
      BY <1>1, ListSizeAssumption, SMT
    <2> QED
      BY <2>1, BehindRemainder
  <1> QED
    BY <1>1 DEF Window

\* What the queues' operations keep of a sequence of slots.
LEMMA QueueTypes ==
  ASSUME NEW q \in Seq(Slots)
  PROVE  /\ \A s \in Slots : Append(q, s) \in Seq(Slots)
         /\ q # <<>> => Head(q) \in Slots /\ Tail(q) \in Seq(Slots)
  OBVIOUS

\* Queueing the slot at the head and advancing the head keeps a window.
LEMMA WindowAppend ==
  ASSUME NEW q \in Seq(Slots), NEW h \in Slots, Window(q, h), Len(q) < ListSize
  PROVE  Window(Append(q, h), After(h))
  <1>1. /\ Append(q, h) \in Seq(Slots)
        /\ Len(Append(q, h)) = Len(q) + 1
        /\ \A i \in 1 .. Len(q) : Append(q, h)[i] = q[i]
        /\ Append(q, h)[Len(q) + 1] = h
    OBVIOUS
  <1>2. After(h) \in Slots
    BY AfterSlot
  <1>3. \A i \in 1 .. Len(q) : q[i] = Behind(h, Len(q) + 1 - i)
    BY WindowSlots
  <1>4. ASSUME NEW i \in 1 .. Len(q) + 1
        PROVE  Append(q, h)[i] = Behind(After(h), Len(q) + 2 - i)
    <2>1. CASE i \in 1 .. Len(q)
      <3>1. Len(q) + 1 - i \in 1 .. ListSize /\ Len(q) + 1 - i < ListSize
        BY <2>1, ListSizeAssumption, SMT
      <3>2. Behind(After(h), Len(q) + 1 - i + 1) = Behind(h, Len(q) + 1 - i)
        BY <3>1, BehindAfter
      <3>3. Len(q) + 1 - i + 1 = Len(q) + 2 - i
        BY <2>1, SMT
      <3> QED
        BY <1>1, <1>3, <2>1, <3>2, <3>3
    <2>2. CASE i = Len(q) + 1
      <3>1. Behind(After(h), 1) = h
        BY BehindAfter, ListSizeAssumption, SMT
      <3>2. Len(q) + 2 - i = 1
        BY <2>2, SMT
      <3> QED
        BY <1>1, <2>2, <3>1, <3>2
    <2> QED
      BY <2>1, <2>2, SMT
  <1>5. Len(q) + 1 <= ListSize /\ Len(q) + 2 = Len(q) + 1 + 1
    BY ListSizeAssumption, SMT
  <1>6. /\ Len(Append(q, h)) <= ListSize
        /\ \A i \in 1 .. Len(Append(q, h)) :
             Append(q, h)[i] = Behind(After(h), Len(Append(q, h)) + 1 - i)
    BY <1>1, <1>4, <1>5
  <1> QED
    BY <1>1, <1>2, <1>6, WindowSlots

\* Taking the oldest slot keeps a window.
LEMMA WindowTail ==
  ASSUME NEW q \in Seq(Slots), NEW h \in Slots, Window(q, h), q # <<>>
  PROVE  Window(Tail(q), h)
  <1>1. /\ Tail(q) \in Seq(Slots)
        /\ Len(Tail(q)) = Len(q) - 1
        /\ \A i \in 1 .. Len(q) - 1 : Tail(q)[i] = q[i + 1]
    OBVIOUS
  <1>2. /\ Len(q) <= ListSize
        /\ \A i \in 1 .. Len(q) : q[i] = Behind(h, Len(q) + 1 - i)
    BY WindowSlots
  <1>3. ASSUME NEW i \in 1 .. Len(q) - 1
        PROVE  Tail(q)[i] = Behind(h, Len(q) - 1 + 1 - i)
    <2>1. i + 1 \in 1 .. Len(q) /\ Len(q) - 1 + 1 - i = Len(q) + 1 - (i + 1)
      BY SMT
    <2> QED
      BY <1>1, <1>2, <2>1
  <1>4. Len(q) - 1 <= ListSize
    BY <1>2, ListSizeAssumption, SMT
  <1> QED
    BY <1>1, <1>3, <1>4, WindowSlots

\* A slot appears once in a window, and the head is not in one that has room.
LEMMA WindowMissesHead ==
  ASSUME NEW q \in Seq(Slots), NEW h \in Slots, Window(q, h),
         NEW i \in 1 .. Len(q), Len(q) < ListSize \/ i > 1
  PROVE  q[i] # h
  <1>1. Len(q) <= ListSize /\ q[i] = Behind(h, Len(q) + 1 - i)
    BY WindowSlots
  <1>2. Len(q) + 1 - i \in 1 .. ListSize /\ Len(q) + 1 - i < ListSize
    BY <1>1, ListSizeAssumption, SMT
  <1> QED
    BY <1>1, <1>2, BehindAfter

\* The slot after the oldest one is the next in the window, or else the head.
LEMMA WindowSuccessor ==
  ASSUME NEW q \in Seq(Slots), NEW h \in Slots, Window(q, h), q # <<>>
  PROVE  After(Head(q)) = IF Tail(q) = <<>> THEN h ELSE Head(Tail(q))
  <1>1. /\ Head(q) = q[1] /\ Len(q) \in Nat /\ Len(q) >= 1
        /\ Len(q) > 1 => Tail(q) # <<>> /\ Head(Tail(q)) = q[2]
        /\ Len(q) = 1 => Tail(q) = <<>>
    <2>1. Head(q) = q[1] /\ Len(q) \in Nat /\ Len(q) >= 1
      OBVIOUS
    <2>2. /\ Tail(q) \in Seq(Slots)
          /\ Len(Tail(q)) = Len(q) - 1
          /\ \A i \in 1 .. Len(Tail(q)) : Tail(q)[i] = q[i + 1]
      BY HeadTailProperties
    <2>3. ASSUME Len(q) > 1
          PROVE  Tail(q) # <<>> /\ Head(Tail(q)) = q[2]
      <3>1. Len(Tail(q)) > 0 /\ 1 \in 1 .. Len(Tail(q)) /\ 1 + 1 = 2
        BY <2>1, <2>2, <2>3, SMT
      <3>2. \A s \in Seq(Slots) : Len(s) > 0 => s # <<>> /\ Head(s) = s[1]
        OBVIOUS
      <3> QED
        BY <2>2, <3>1, <3>2, Zenon
    <2>4. ASSUME Len(q) = 1
          PROVE  Tail(q) = <<>>
      <3>1. Len(Tail(q)) = 0 /\ 0 \notin Nat \ {0}
        BY <2>2, <2>4, SMT
      <3> QED
        BY <2>2, <3>1, EmptySeq, Zenon
    <2> QED
      BY <2>1, <2>3, <2>4
  <1>2. Len(q) <= ListSize
    BY WindowSlots
  <1>3. q[1] = Behind(h, Len(q))
    <2>1. 1 \in 1 .. Len(q) /\ Len(q) + 1 - 1 = Len(q)
      BY <1>1, SMT
    <2> QED
      BY <2>1, WindowSlots
  <1>4. CASE Len(q) = 1
    BY <1>1, <1>3, <1>4, BehindAfter, ListSizeAssumption, SMT
  <1>5. CASE Len(q) > 1
    <2>1. 2 \in 1 .. Len(q) /\ Len(q) + 1 - 2 = Len(q) - 1
      BY <1>1, <1>5, SMT
    <2>2. q[2] = Behind(h, Len(q) - 1)
      BY <2>1, WindowSlots
    <2>3. Len(q) \in 1 .. ListSize
      BY <1>1, <1>2, ListSizeAssumption, SMT
    <2>4. After(q[1]) = q[2]
      BY <1>3, <1>5, <2>2, <2>3, BehindAfter
    <2> QED
      BY <1>1, <1>5, <2>4
  <1>6. Len(q) = 1 \/ Len(q) > 1
    <2>1. Len(q) \in Nat /\ Len(q) >= 1
      BY <1>1
    <2> QED
      BY <2>1, SMT
  <1> QED
    BY <1>4, <1>5, <1>6

-----------------------------------------------------------------------------
(***************************************************************************)
(* Type correctness.  TypeOK is not inductive by itself: FillSlot stores   *)
(* the next message's number, which is a message only because no call of   *)
(* sendMessage starts past the bound.                                      *)
(***************************************************************************)

\* A call of sendMessage in progress has the number of its message left, and the
\* slot it took is the one just behind the head and holds that message.
SendInProgress ==
  /\ gpc # "idle" => accepted < MaxMessages
  /\ gpc = "put" =>
       /\ toSend \in Slots
       /\ toSendListHead = After(toSend)
       /\ toSendList[toSend] = accepted + 1

TypeInv == TypeOK /\ SendInProgress

LEMMA TypeInit == Init => TypeInv
  <1> SUFFICES ASSUME Init PROVE TypeInv
    OBVIOUS
  <1>1. 0 \in Slots
    BY ListSizeAssumption, SMT DEF Slots
  <1>2. /\ <<>> \in Seq(Slots)
        /\ <<>> \in Seq({"submit", "probe"})
        /\ Len(<<>>) < TxRingSize
    BY TxRingAssumption
  <1>3. TypeOK
    BY <1>1, <1>2, BoundsAssumption DEF Init, TypeOK
  <1>4. SendInProgress
    BY DEF Init, SendInProgress
  <1> QED
    BY <1>3, <1>4 DEF TypeInv

LEMMA TypeStep == TypeInv /\ [Next]_vars => TypeInv'
  <1> SUFFICES ASSUME TypeInv, [Next]_vars PROVE TypeInv'
    OBVIOUS
  <1> USE DEF TypeInv
  <1>1. CASE UserSends
    BY <1>1 DEF UserSends, GuiStep, TypeOK, SendInProgress, netVars,
        deliverVars, smscVars
  <1>2. CASE CheckFree
    BY <1>2 DEF CheckFree, sizeFreeToSend, GuiStep, TypeOK, SendInProgress, netVars,
        deliverVars, smscVars
  <1>3. CASE FillSlot
    <2>1. /\ After(toSendListHead) \in Slots
          /\ accepted + 1 \in Messages
      BY <1>3, AfterSlot, BoundsAssumption, SMT
      DEF FillSlot, im_put_this, GuiStep, TypeOK, SendInProgress, Messages
    <2> QED
      BY <1>3, <2>1 DEF FillSlot, im_put_this, GuiStep, TypeOK, SendInProgress, netVars,
          deliverVars, smscVars
  <1>4. CASE QueueSlot
    <2>1. accepted + 1 \in 0 .. MaxMessages
      BY <1>4, BoundsAssumption, SMT DEF QueueSlot, GuiStep, TypeOK, SendInProgress
    <2>2. ToSendQueue' \in Seq(Slots)
      BY <1>4, QueueTypes DEF QueueSlot, GuiStep, TypeOK, SendInProgress
    <2> QED
      BY <1>4, <2>1, <2>2 DEF QueueSlot, GuiStep, TypeOK, SendInProgress,
         netVars, deliverVars, smscVars
  <1>5. CASE Wait
    BY <1>5 DEF Wait, NetStep, TypeOK, SendInProgress, guiVars,
       deliverVars, smscVars
  <1>6. CASE TakeNext
    <2>1. /\ ToSendQueue' \in Seq(Slots)
          /\ messageThatWasSent' \in Slots \cup {NULL}
      BY <1>6, QueueTypes DEF TakeNext, AllAcknowledged, NetStep, TypeOK
    <2> QED
      BY <1>6, <2>1 DEF TakeNext, AllAcknowledged, NetStep, TypeOK, SendInProgress, guiVars,
          deliverVars, smscVars
  <1>7. CASE ChooseSubmit
    BY <1>7 DEF ChooseSubmit, NetStep, TypeOK, SendInProgress, guiVars,
       deliverVars, smscVars
  <1>8. CASE LoadSubmit
    BY <1>8 DEF LoadSubmit, NetStep, TypeOK, SendInProgress, guiVars,
       deliverVars, smscVars
  <1>9. CASE FillSubmit
    BY <1>9 DEF FillSubmit, NetStep, TypeOK, SendInProgress, guiVars,
       deliverVars, smscVars
  <1>10. CASE StartSubmit
    <2>1. CASE TxRoom /\ txRing' = Append(txRing, "submit")
      <3>1. /\ txRing' \in Seq({"submit", "probe"})
            /\ Len(txRing') < TxRingSize
        BY <2>1, TxRingAssumption DEF TxRoom, TypeOK
      <3> QED
        BY <1>10, <3>1 DEF StartSubmit, TryAgainLater, NetStep, TypeOK, SendInProgress, guiVars,
            deliverVars, smscVars
    <2>2. CASE txRing' = txRing
      BY <1>10, <2>2 DEF StartSubmit, TryAgainLater, NetStep, TypeOK, SendInProgress, guiVars,
          deliverVars, smscVars
    <2> QED
      BY <1>10, <2>1, <2>2 DEF StartSubmit
  <1>11. CASE ChooseProbe
    <2>1. /\ receiveQueue' \in Seq(Slots)
          /\ received_message' \in Slots \cup {NULL}
      BY <1>11, QueueTypes DEF ChooseProbe, TypeOK
    <2> QED
      BY <1>11, <2>1 DEF ChooseProbe, NetStep, TypeOK, SendInProgress, guiVars,
          deliverVars, smscVars
  <1>12. CASE FillProbe
    BY <1>12 DEF FillProbe, NetStep, TypeOK, SendInProgress, guiVars,
       deliverVars, smscVars
  <1>13. CASE StartProbe
    <2>1. /\ txRing' \in Seq({"submit", "probe"})
          /\ Len(txRing') < TxRingSize
      BY <1>13, TxRingAssumption DEF StartProbe, TxRoom, TypeOK
    <2> QED
      BY <1>13, <2>1 DEF StartProbe, NetStep, TypeOK, SendInProgress, guiVars,
          deliverVars, smscVars
  <1>14. CASE TimerExpires
    BY <1>14 DEF TimerExpires, Interrupt, TypeOK, SendInProgress, guiVars, netVars,
        deliverVars, smscVars
  <1>15. ASSUME NEW d \in Delivers, DeliverArrives(d)
         PROVE  TypeInv'
    <2>1. /\ After(recivedListHead) \in Slots
          /\ arrivals + 1 \in 0 .. MaxArrivals
      BY <1>15, AfterSlot, BoundsAssumption, SMT DEF DeliverArrives, deliverSlot, Interrupt, TypeOK
    <2>2. receiveQueue' \in Seq(Slots)
      BY <1>15, QueueTypes DEF DeliverArrives, deliverSlot, Interrupt, TypeOK
    <2>3. /\ recivedList' \in [Slots -> Delivers \cup {NoDeliver}]
          /\ stored' \in SUBSET Delivers
          /\ recivedListHead' \in Slots
          /\ wake' \in BOOLEAN
          /\ arrivals' \in 0 .. MaxArrivals
      BY <1>15, <2>1 DEF DeliverArrives, deliverSlot, Interrupt, TypeOK
    <2>4. UNCHANGED <<guiVars, ToSendQueue, netVars, messageThatWasSent,
                      txRing, smscVars>>
      BY <1>15 DEF DeliverArrives, deliverSlot, Interrupt
    <2> QED
      BY <2>2, <2>3, <2>4 DEF TypeOK, SendInProgress, guiVars, netVars,
          smscVars
  <1>16. ASSUME NEW r \in Recipients, AckArrives(r) \/ AckLost(r)
         PROVE  TypeInv'
    <2>1. acks' \in [Recipients -> 0 .. MaxAcks]
      <3>1. acks[r] > 0 /\ acks' = [acks EXCEPT ![r] = acks[r] - 1]
        BY <1>16 DEF AckArrives, AckLost
      <3>2. acks \in [Recipients -> 0 .. MaxAcks]
        BY DEF TypeOK
      <3>3. acks[r] - 1 \in 0 .. MaxAcks
        BY <3>1, <3>2, BoundsAssumption, SMT
      <3> QED
        BY <3>1, <3>2, <3>3
    <2>2. messageThatWasSent' \in Slots \cup {NULL} /\ wake' \in BOOLEAN
      BY <1>16 DEF AckArrives, AckLost, Interrupt, TypeOK
    <2> QED
      BY <1>16, <2>1, <2>2 DEF AckArrives, AckLost, Interrupt, TypeOK, SendInProgress, guiVars,
         netVars, deliverVars
  <1>17. CASE Device
    <2>1. /\ txRing' \in Seq({"submit", "probe"})
          /\ Len(txRing') < TxRingSize
      <3>1. txRing # <<>> /\ txRing' = Tail(txRing)
        BY <1>17 DEF Device, SubmitReceived, ProbeReceived, PacketLost,
           BadDescriptor, Transmitted
      <3> QED
        BY <3>1, TxRingAssumption DEF TypeOK
    <2>2. ASSUME NEW m \in Messages, SubmitReceived(m)
          PROVE  TypeInv'
      <3>1. acks' \in [Recipients -> 0 .. MaxAcks]
        BY <2>2, RecipientAssumption, BoundsAssumption, SMT
        DEF SubmitReceived, Transmitted, Interrupt, TypeOK
      <3> QED
        BY <2>1, <2>2, <3>1 DEF SubmitReceived, Transmitted, Interrupt, TypeOK, SendInProgress, guiVars,
           netVars, deliverVars
    <2>3. CASE ProbeReceived
      BY <2>1, <2>3 DEF ProbeReceived, Transmitted, Interrupt, TypeOK, SendInProgress, guiVars,
         netVars, deliverVars
    <2>4. CASE PacketLost
      BY <2>1, <2>4 DEF PacketLost, Transmitted, Interrupt, TypeOK, SendInProgress, guiVars,
         netVars, deliverVars, smscVars
    <2>5. CASE BadDescriptor
      BY <2>1, <2>5 DEF BadDescriptor, Transmitted, Interrupt, TypeOK, SendInProgress, guiVars,
         netVars, deliverVars, smscVars
    <2> QED
      BY <1>17, <2>2, <2>3, <2>4, <2>5 DEF Device
  <1>18. CASE UNCHANGED vars
    BY <1>18 DEF vars, TypeOK, SendInProgress, guiVars, netVars,
       deliverVars, smscVars
  <1> QED
    BY <1>1, <1>2, <1>3, <1>4, <1>5, <1>6, <1>7, <1>8, <1>9, <1>10, <1>11, <1>12,
       <1>13, <1>14, <1>15, <1>16, <1>17, <1>18 DEF Next, Gui, NetworkThread

\* Every reachable state of the client has the declared types.
THEOREM TypeCorrect == Spec => []TypeOK
  <1>1. TypeInv => TypeOK
    BY DEF TypeInv
  <1> QED
    BY <1>1, TypeInit, TypeStep, PTL DEF Spec

-----------------------------------------------------------------------------
(***************************************************************************)
(* The messages to send.  No conjunct of SendInv is inductive alone: that  *)
(* FillSlot leaves the waiting messages intact rests on where their slots  *)
(* are and on the room the queue still has; that the unacknowledged        *)
(* message is intact when it is taken rests on the waiting ones being so.  *)
(***************************************************************************)

SendInv ==
  /\ Window(ToSendQueue, NextQueued)
  /\ NoSlotLost
  /\ WaitingIntact
  /\ InFlightPrecedesWaiting
  /\ InFlightIntactUntilFull

\* All but sendMessage and TakeNext leave the messages to send where they are,
\* and at most forget the unacknowledged one.
SendersRest ==
  /\ UNCHANGED <<guiVars, ToSendQueue>>
  /\ messageThatWasSent' \in {messageThatWasSent, NULL}

LEMMA OthersLeaveSend ==
  [Next]_vars => \/ UserSends \/ CheckFree \/ FillSlot \/ QueueSlot \/ TakeNext
                 \/ SendersRest
  <1> SUFFICES ASSUME [Next]_vars
               PROVE  \/ UserSends \/ Gui \/ TakeNext
                      \/ SendersRest
    BY DEF Gui
  <1>1. CASE NetworkThread
    BY <1>1 DEF NetworkThread, Wait, ChooseSubmit, LoadSubmit, FillSubmit,
       StartSubmit, TryAgainLater, ChooseProbe, FillProbe, StartProbe, NetStep,
       SendersRest
  <1>2. CASE TimerExpires
    BY <1>2 DEF TimerExpires, Interrupt, SendersRest
  <1>3. CASE \E d \in Delivers : DeliverArrives(d)
    BY <1>3 DEF DeliverArrives, deliverSlot, Interrupt, SendersRest
  <1>4. CASE \E r \in Recipients : AckArrives(r) \/ AckLost(r)
    BY <1>4 DEF AckArrives, AckLost, Interrupt, SendersRest
  <1>5. CASE Device
    BY <1>5 DEF Device, SubmitReceived, ProbeReceived, PacketLost, BadDescriptor,
       Transmitted, Interrupt, SendersRest
  <1>6. CASE UNCHANGED vars
    BY <1>6 DEF vars, SendersRest
  <1> QED
    BY <1>1, <1>2, <1>3, <1>4, <1>5, <1>6 DEF Next

\* SendInv mentions no other variable than those.
LEMMA SendInvRest == SendInv /\ SendersRest => SendInv'
  BY DEF SendInv, SendersRest, guiVars, Window, NextQueued, NoSlotLost,
     WaitingIntact, InFlightPrecedesWaiting, InFlightIntactUntilFull, InFlightIntact

LEMMA SendInvFill == TypeInv /\ SendInv /\ FillSlot => SendInv'
  <1> SUFFICES ASSUME TypeInv, SendInv, FillSlot PROVE SendInv'
    OBVIOUS
  <1> DEFINE q == ToSendQueue
             h == toSendListHead
  <1>1. /\ q \in Seq(Slots) /\ h \in Slots
        /\ Window(q, h) /\ Len(q) < ListSize /\ Len(q) \in Nat
        /\ messageThatWasSent \in Slots \cup {NULL}
    BY DEF TypeInv, TypeOK, SendInv, FillSlot, im_put_this, GuiStep, NextQueued, NoSlotLost
  <1>2. /\ NextQueued = h /\ NextQueued' = h
        /\ gpc = "fill" /\ gpc' = "put"
        /\ UNCHANGED <<accepted, ToSendQueue, messageThatWasSent>>
    BY DEF FillSlot, im_put_this, GuiStep, NextQueued
  <1>3. \A s \in Slots : s # h => toSendList'[s] = toSendList[s]
    BY DEF FillSlot, im_put_this, TypeInv, TypeOK
  <1>4. Window(ToSendQueue, NextQueued)'
    BY <1>1, <1>2 DEF Window
  <1>5. NoSlotLost'
    BY <1>1, <1>2 DEF NoSlotLost
  <1>6. WaitingIntact'
    <2>1. \A i \in 1 .. Len(q) : q[i] \in Slots /\ q[i] # h
      BY <1>1, WindowMissesHead
    <2> QED
      BY <1>2, <1>3, <2>1 DEF WaitingIntact, SendInv
  <1>7. InFlightPrecedesWaiting'
    BY <1>2 DEF InFlightPrecedesWaiting, SendInv
  <1>8. InFlightIntactUntilFull'
    <2> SUFFICES ASSUME Len(q) + 1 < ListSize, messageThatWasSent # NULL
                 PROVE  toSendList'[messageThatWasSent] = accepted - Len(q)
      BY <1>2 DEF InFlightIntactUntilFull, InFlightIntact
    <2>1. messageThatWasSent \in Slots
      BY <1>1
    <2>2. toSendList[messageThatWasSent] = accepted - Len(q)
      BY <1>1, <1>2 DEF SendInv, InFlightIntactUntilFull, InFlightIntact
    <2>3. After(messageThatWasSent) = IF q = <<>> THEN h ELSE Head(q)
      BY <1>2 DEF SendInv, InFlightPrecedesWaiting
    <2>4. CASE q = <<>>
      <3>1. ListSize > 1 /\ 1 \in 1 .. ListSize
        BY <1>1, ListSizeAssumption, SMT
      <3>2. After(h) # h
        BY <1>1, <3>1, BehindAfter
      <3> QED
        BY <1>3, <2>1, <2>2, <2>3, <2>4, <3>2
    <2>5. CASE q # <<>>
      <3>1. Head(q) = q[1] /\ Len(q) >= 1
        BY <1>1, <2>5
      <3>2. 1 \in 1 .. Len(q) /\ Len(q) + 1 - 1 = Len(q) /\ Len(q) \in 1 .. ListSize
            /\ Len(q) < ListSize - 1
        BY <1>1, <3>1, ListSizeAssumption, SMT
      <3>3. q[1] = Behind(h, Len(q))
        BY <1>1, <3>2, WindowSlots
      <3>4. Behind(h, Len(q)) # After(h)
        BY <1>1, <3>2, BehindAfter
      <3> QED
        BY <1>3, <2>1, <2>2, <2>3, <2>5, <3>1, <3>3, <3>4
    <2> QED
      BY <2>4, <2>5
  <1> QED
    BY <1>4, <1>5, <1>6, <1>7, <1>8 DEF SendInv

LEMMA SendInvQueue == TypeInv /\ SendInv /\ QueueSlot => SendInv'
  <1> SUFFICES ASSUME TypeInv, SendInv, QueueSlot PROVE SendInv'
    OBVIOUS
  <1> DEFINE q == ToSendQueue
             s == toSend
  <1>1. /\ q \in Seq(Slots) /\ s \in Slots /\ Len(q) \in Nat
        /\ Window(q, s) /\ Len(q) < ListSize
        /\ toSendListHead = After(s) /\ toSendList[s] = accepted + 1
        /\ accepted \in Nat
    BY DEF TypeInv, TypeOK, SendInProgress, SendInv, QueueSlot, GuiStep, NextQueued,
       NoSlotLost
  <1>2. /\ gpc = "put" /\ gpc' = "idle"
        /\ NextQueued = s /\ NextQueued' = After(s)
        /\ ToSendQueue' = Append(q, s) /\ accepted' = accepted + 1
        /\ UNCHANGED <<toSendList, messageThatWasSent>>
    BY <1>1 DEF QueueSlot, GuiStep, NextQueued
  <1>3. /\ Len(Append(q, s)) = Len(q) + 1
        /\ \A i \in 1 .. Len(q) : Append(q, s)[i] = q[i]
        /\ Append(q, s)[Len(q) + 1] = s
        /\ Append(q, s) # <<>>
        /\ Head(Append(q, s)) = IF q = <<>> THEN s ELSE Head(q)
    BY <1>1, AppendProperties, HeadTailAppend
  <1>9. /\ Len(ToSendQueue') = Len(q) + 1
        /\ ToSendQueue' = Append(q, s)
        /\ accepted' = accepted + 1
        /\ gpc' = "idle"
        /\ UNCHANGED <<toSendList, messageThatWasSent>>
    BY <1>2, <1>3
  <1>4. Window(ToSendQueue, NextQueued)'
    <2>1. Window(Append(q, s), After(s))
      BY <1>1, WindowAppend
    <2> QED
      BY <1>2, <2>1 DEF Window
  <1>5. NoSlotLost'
    BY <1>2 DEF NoSlotLost
  <1>6. WaitingIntact'
    <2> SUFFICES ASSUME NEW i \in 1 .. Len(q) + 1
                 PROVE  toSendList[Append(q, s)[i]]
                          = accepted + 1 - (Len(q) + 1) + i
      <3>1. ASSUME NEW i \in 1 .. Len(ToSendQueue')
            PROVE  toSendList'[ToSendQueue'[i]]
                     = accepted' - Len(ToSendQueue') + i
        BY <1>1, <1>9, SMT
      <3> QED
        BY <3>1 DEF WaitingIntact
    <2>1. CASE i \in 1 .. Len(q)
      <3>1. toSendList[q[i]] = accepted - Len(q) + i
        BY <2>1 DEF SendInv, WaitingIntact
      <3>2. accepted - Len(q) + i = accepted + 1 - (Len(q) + 1) + i
        BY <1>1, SMT
      <3> QED
        BY <1>3, <2>1, <3>1, <3>2
    <2>2. CASE i = Len(q) + 1
      <3>1. accepted + 1 = accepted + 1 - (Len(q) + 1) + i
        BY <1>1, <2>2, SMT
      <3> QED
        BY <1>1, <1>3, <2>2, <3>1
    <2>3. i \in 1 .. Len(q) \/ i = Len(q) + 1
      BY <1>1, SMT
    <2> QED
      BY <2>1, <2>2, <2>3
  <1>7. InFlightPrecedesWaiting'
    BY <1>2, <1>3 DEF InFlightPrecedesWaiting, SendInv
  <1>8. InFlightIntactUntilFull'
    <2> SUFFICES ASSUME Len(q) + 1 + 0 < ListSize, messageThatWasSent # NULL
                 PROVE  toSendList[messageThatWasSent]
                          = accepted + 1 - (Len(q) + 1)
      <3>1. gpc' # "put"
        BY <1>9
      <3> QED
        <4>1. ASSUME Len(ToSendQueue') + 0 < ListSize, messageThatWasSent' # NULL
              PROVE  toSendList'[messageThatWasSent'] = accepted' - Len(ToSendQueue')
          BY <1>1, <1>9, <4>1, SMT
        <4> QED
          BY <3>1, <4>1 DEF InFlightIntactUntilFull, InFlightIntact
    <2>0. Len(q) + 1 < ListSize
      BY <1>1, SMT
    <2>1. toSendList[messageThatWasSent] = accepted - Len(q)
      BY <1>2, <2>0 DEF SendInv, InFlightIntactUntilFull, InFlightIntact
    <2>2. accepted - Len(q) = accepted + 1 - (Len(q) + 1)
      BY <1>1, SMT
    <2> QED
      BY <2>1, <2>2
  <1> QED
    BY <1>4, <1>5, <1>6, <1>7, <1>8 DEF SendInv

LEMMA SendInvTake == TypeInv /\ SendInv /\ TakeNext => SendInv'
  <1> SUFFICES ASSUME TypeInv, SendInv, TakeNext PROVE SendInv'
    OBVIOUS
  <1>1. CASE ~(messageThatWasSent = NULL /\ ToSendQueue # <<>>)
    <2>1. SendersRest
      BY <1>1 DEF TakeNext, AllAcknowledged, NetStep, SendersRest
    <2> QED
      BY <2>1, SendInvRest
  <1>2. CASE messageThatWasSent = NULL /\ ToSendQueue # <<>>
    <2> DEFINE q == ToSendQueue
    <2>1. /\ q \in Seq(Slots) /\ q # <<>> /\ Window(q, NextQueued)
          /\ NextQueued \in Slots /\ accepted \in Nat
      BY <1>2 DEF TypeInv, TypeOK, SendInProgress, SendInv, NextQueued
    <2>2. /\ messageThatWasSent' = Head(q) /\ ToSendQueue' = Tail(q)
          /\ UNCHANGED guiVars /\ NextQueued' = NextQueued
      BY <1>2 DEF TakeNext, AllAcknowledged, NetStep, guiVars, NextQueued
    <2>3. UNCHANGED <<gpc, toSendList, accepted>>
      BY <2>2 DEF guiVars
    <2>4. Len(q) \in Nat /\ Len(q) >= 1 /\ Head(q) = q[1]
      BY <2>1
    <2>5. /\ Tail(q) \in Seq(Slots)
          /\ Len(Tail(q)) = Len(q) - 1
          /\ \A i \in 1 .. Len(q) - 1 : Tail(q)[i] = q[i + 1]
      <3>1. /\ Tail(q) \in Seq(Slots)
            /\ Len(Tail(q)) = Len(q) - 1
            /\ \A i \in 1 .. Len(Tail(q)) : Tail(q)[i] = q[i + 1]
        BY <2>1, HeadTailProperties
      <3> QED
        BY <3>1
    <2>6. Window(ToSendQueue, NextQueued)'
      <3>1. Window(Tail(q), NextQueued)
        BY <2>1, WindowTail
      <3> QED
        BY <2>2, <3>1 DEF Window
    <2>7. NoSlotLost'
      <3>1. gpc \in {"fill", "put"} => Len(q) < ListSize
        BY DEF SendInv, NoSlotLost
      <3>2. Len(q) < ListSize => Len(q) - 1 < ListSize
        <4>1. Len(q) \in Nat
          BY <2>4
        <4> QED
          BY <4>1, ListSizeAssumption, SMT
      <3> QED
        BY <2>2, <2>3, <2>5, <3>1, <3>2 DEF NoSlotLost
    <2>8. WaitingIntact'
      <3> SUFFICES ASSUME NEW i \in 1 .. Len(q) - 1
                   PROVE  toSendList[Tail(q)[i]] = accepted - (Len(q) - 1) + i
        BY <2>2, <2>3, <2>5 DEF WaitingIntact
      <3>1. /\ i + 1 \in 1 .. Len(q)
            /\ accepted - Len(q) + (i + 1) = accepted - (Len(q) - 1) + i
        BY <2>1, <2>4, SMT
      <3>2. toSendList[q[i + 1]] = accepted - Len(q) + (i + 1)
        BY <3>1 DEF SendInv, WaitingIntact
      <3> QED
        BY <2>5, <3>1, <3>2
    <2>9. InFlightPrecedesWaiting'
      <3>1. After(Head(q)) = IF Tail(q) = <<>> THEN NextQueued ELSE Head(Tail(q))
        BY <2>1, WindowSuccessor
      <3> QED
        BY <2>2, <3>1 DEF InFlightPrecedesWaiting
    <2>10. InFlightIntactUntilFull'
      <3>1. /\ 1 \in 1 .. Len(q)
            /\ accepted - Len(q) + 1 = accepted - (Len(q) - 1)
        BY <2>1, <2>4, SMT
      <3>2. toSendList[Head(q)] = accepted - (Len(q) - 1)
        BY <2>4, <3>1 DEF SendInv, WaitingIntact
      <3> QED
        BY <2>2, <2>3, <2>5, <3>2 DEF InFlightIntactUntilFull, InFlightIntact
    <2> QED
      BY <2>6, <2>7, <2>8, <2>9, <2>10 DEF SendInv
  <1> QED
    BY <1>1, <1>2

LEMMA SendInvInit == Init => SendInv
  <1> SUFFICES ASSUME Init PROVE SendInv
    OBVIOUS
  <1>1. /\ ToSendQueue = <<>> /\ Len(<<>>) = 0 /\ 0 < ListSize /\ 0 <= ListSize
        /\ messageThatWasSent = NULL /\ gpc = "idle"
    BY ListSizeAssumption, EmptySeq DEF Init
  <1>2. 1 .. 0 = {}
    BY SMT
  <1> QED
    BY <1>1, <1>2 DEF SendInv, Window, NoSlotLost, WaitingIntact,
       InFlightPrecedesWaiting, InFlightIntactUntilFull, InFlightIntact

LEMMA SendInvStep == TypeInv /\ SendInv /\ [Next]_vars => SendInv'
  <1> SUFFICES ASSUME TypeInv, SendInv, [Next]_vars PROVE SendInv'
    OBVIOUS
  <1>1. CASE UserSends
    BY <1>1 DEF UserSends, GuiStep, SendInv, Window, NextQueued, NoSlotLost,
       WaitingIntact, InFlightPrecedesWaiting, InFlightIntactUntilFull,
       InFlightIntact
  <1>2. CASE CheckFree
    <2>1. /\ gpc = "check" /\ gpc' \in {"fill", "idle"}
          /\ UNCHANGED <<toSendListHead, toSendList, toSend, accepted,
                         ToSendQueue, messageThatWasSent>>
      BY <1>2 DEF CheckFree, GuiStep
    <2>2. gpc' = "fill" => sizeFreeToSend > 0
      BY <1>2 DEF CheckFree, GuiStep
    <2>3. Len(ToSendQueue) \in Nat
      BY DEF TypeInv, TypeOK
    <2>4. sizeFreeToSend > 0 => Len(ToSendQueue) < ListSize
      BY <2>3, ListSizeAssumption DEF sizeFreeToSend
    <2>5. Window(ToSendQueue, NextQueued)'
      BY <2>1 DEF SendInv, Window, NextQueued
    <2>6. NoSlotLost'
      BY <2>1, <2>2, <2>4 DEF NoSlotLost
    <2>7. WaitingIntact' /\ InFlightPrecedesWaiting' /\ InFlightIntactUntilFull'
      BY <2>1 DEF SendInv, WaitingIntact, InFlightPrecedesWaiting, NextQueued,
         InFlightIntactUntilFull, InFlightIntact
    <2> QED
      BY <2>5, <2>6, <2>7 DEF SendInv
  <1> QED
    BY <1>1, <1>2, SendInvFill, SendInvQueue, SendInvTake, SendInvRest,
       OthersLeaveSend

LEMMA SendSafe == Spec => [](TypeInv /\ SendInv)
  BY TypeInit, TypeStep, SendInvInit, SendInvStep, PTL DEF Spec

-----------------------------------------------------------------------------
(***************************************************************************)
(* The delivers to acknowledge.                                            *)
(***************************************************************************)

ReceiveInv == Window(receiveQueue, recivedListHead) /\ PendingAcksStored

LEMMA ReceiveInvArrival ==
  ASSUME TypeInv, ReceiveInv, NEW d \in Delivers, DeliverArrives(d)
  PROVE  ReceiveInv'
  <1> DEFINE q == receiveQueue
             h == recivedListHead
  <1>1. /\ q \in Seq(Slots) /\ h \in Slots /\ Len(q) \in Nat
        /\ Window(q, h) /\ Len(q) <= ListSize
    BY DEF TypeInv, TypeOK, ReceiveInv, Window
  <1>2. /\ recivedList'[h] = d
        /\ \A s \in Slots : s # h => recivedList'[s] = recivedList[s]
    BY <1>1 DEF DeliverArrives, deliverSlot, Interrupt, TypeInv, TypeOK
  <1>3. \A i \in 2 .. Len(q) : q[i] \in Slots /\ q[i] # h
    <2> SUFFICES ASSUME NEW i \in 2 .. Len(q) PROVE q[i] \in Slots /\ q[i] # h
      OBVIOUS
    <2>1. i \in 1 .. Len(q) /\ i > 1
      BY <1>1, SMT
    <2> QED
      BY <1>1, <2>1, WindowMissesHead
  <1>4. \A i \in 2 .. Len(q) : recivedList'[q[i]] \in stored
    BY <1>2, <1>3 DEF ReceiveInv, PendingAcksStored
  <1>5. CASE Len(q) < ListSize
    <2>1. /\ receiveQueue' = Append(q, h) /\ recivedListHead' = After(h)
          /\ stored' = stored \cup {d}
      BY <1>5 DEF DeliverArrives, deliverSlot, Interrupt
    <2>2. /\ Len(Append(q, h)) = Len(q) + 1
          /\ \A i \in 1 .. Len(q) : Append(q, h)[i] = q[i]
          /\ Append(q, h)[Len(q) + 1] = h
      BY <1>1, AppendProperties
    <2>3. Window(Append(q, h), After(h))
      BY <1>1, <1>5, WindowAppend
    <2>4. ASSUME NEW i \in 2 .. Len(q) + 1
          PROVE  recivedList'[Append(q, h)[i]] \in stored'
      <3>1. (i \in 2 .. Len(q) /\ i \in 1 .. Len(q)) \/ i = Len(q) + 1
        BY <1>1, SMT
      <3>2. CASE i \in 2 .. Len(q) /\ i \in 1 .. Len(q)
        BY <1>4, <2>1, <2>2, <3>2
      <3>3. CASE i = Len(q) + 1
        BY <1>2, <2>1, <2>2, <3>3
      <3> QED
        BY <3>1, <3>2, <3>3
    <2> QED
      BY <2>1, <2>2, <2>3, <2>4 DEF ReceiveInv, Window, PendingAcksStored
  <1>6. CASE ~(Len(q) < ListSize)
    <2>1. UNCHANGED <<receiveQueue, recivedListHead, stored>>
      BY <1>6 DEF DeliverArrives, deliverSlot, Interrupt
    <2> QED
      BY <1>4, <2>1 DEF ReceiveInv, Window, PendingAcksStored
  <1> QED
    BY <1>5, <1>6

LEMMA ReceiveInvProbe == TypeInv /\ ReceiveInv /\ ChooseProbe => ReceiveInv'
  <1> SUFFICES ASSUME TypeInv, ReceiveInv, ChooseProbe PROVE ReceiveInv'
    OBVIOUS
  <1> DEFINE q == receiveQueue
  <1>1. UNCHANGED <<recivedListHead, recivedList, stored>>
    BY DEF ChooseProbe, NetStep, deliverVars
  <1>2. CASE q = <<>>
    BY <1>1, <1>2 DEF ChooseProbe, ReceiveInv, Window, PendingAcksStored
  <1>3. CASE q # <<>>
    <2>1. /\ q \in Seq(Slots) /\ recivedListHead \in Slots /\ Len(q) \in Nat
          /\ Window(q, recivedListHead) /\ receiveQueue' = Tail(q)
      BY <1>3 DEF ChooseProbe, TypeInv, TypeOK, ReceiveInv
    <2>2. Window(Tail(q), recivedListHead)
      BY <1>3, <2>1, WindowTail
    <2>3. /\ Len(Tail(q)) = Len(q) - 1
          /\ \A i \in 1 .. Len(Tail(q)) : Tail(q)[i] = q[i + 1]
      BY <1>3, <2>1, HeadTailProperties
    <2>4. ASSUME NEW i \in 2 .. Len(Tail(q))
          PROVE  recivedList[Tail(q)[i]] \in stored
      <3>1. i \in 1 .. Len(Tail(q)) /\ i + 1 \in 2 .. Len(q)
        <4>1. i \in 2 .. Len(q) - 1
          BY <2>3
        <4> QED
          BY <2>1, <2>3, <4>1, SMT
      <3>2. recivedList[q[i + 1]] \in stored
        BY <3>1 DEF ReceiveInv, PendingAcksStored
      <3> QED
        BY <2>3, <3>1, <3>2
    <2> QED
      BY <1>1, <2>1, <2>2, <2>4 DEF ReceiveInv, Window, PendingAcksStored
  <1> QED
    BY <1>2, <1>3

LEMMA ReceiveInvInit == Init => ReceiveInv
  <1> SUFFICES ASSUME Init PROVE ReceiveInv
    OBVIOUS
  <1>1. receiveQueue = <<>> /\ Len(<<>>) = 0 /\ 0 <= ListSize
    BY ListSizeAssumption, EmptySeq DEF Init
  <1>2. 1 .. 0 = {} /\ 2 .. 0 = {}
    BY SMT
  <1> QED
    BY <1>1, <1>2 DEF ReceiveInv, Window, PendingAcksStored

LEMMA ReceiveInvStep == TypeInv /\ ReceiveInv /\ [Next]_vars => ReceiveInv'
  <1> SUFFICES ASSUME TypeInv, ReceiveInv, [Next]_vars PROVE ReceiveInv'
    OBVIOUS
  <1> DEFINE rest == UNCHANGED <<receiveQueue, recivedListHead, recivedList, stored>>
  <1>1. rest => ReceiveInv'
    BY DEF ReceiveInv, Window, PendingAcksStored
  <1>2. UserSends \/ Gui => rest
    BY DEF UserSends, Gui, CheckFree, FillSlot, QueueSlot, GuiStep, deliverVars
  <1>3. NetworkThread => rest \/ ChooseProbe
    BY DEF NetworkThread, Wait, TakeNext, ChooseSubmit, LoadSubmit, FillSubmit,
       StartSubmit, TryAgainLater, FillProbe, StartProbe, NetStep, deliverVars
  <1>4. TimerExpires => rest
    BY DEF TimerExpires, Interrupt, deliverVars
  <1>5. (\E r \in Recipients : AckArrives(r) \/ AckLost(r)) => rest
    BY DEF AckArrives, AckLost, Interrupt, deliverVars
  <1>6. Device => rest
    BY DEF Device, SubmitReceived, ProbeReceived, PacketLost, BadDescriptor,
       Transmitted, deliverVars
  <1>7. UNCHANGED vars => rest
    BY DEF vars, deliverVars
  <1> QED
    BY <1>1, <1>2, <1>3, <1>4, <1>5, <1>6, <1>7, ReceiveInvArrival, ReceiveInvProbe
    DEF Next

LEMMA ReceiveSafe == Spec => [](TypeInv /\ ReceiveInv)
  BY TypeInit, TypeStep, ReceiveInvInit, ReceiveInvStep, PTL DEF Spec

\* As long as the queue has room, the deliver being acknowledged is in the slot just before
\* those that wait, so that the head is not on it.
TakenPlace ==
  received_message # NULL /\ Len(receiveQueue) < ListSize =>
    received_message = Behind(recivedListHead, Len(receiveQueue) + 1)

LEMMA TakenPlaceArrival ==
  ASSUME TypeInv, ReceiveInv, TakenPlace, NEW d \in Delivers, DeliverArrives(d),
         received_message # NULL, Len(receiveQueue') < ListSize
  PROVE  TakenPlace' /\ recivedList'[received_message] = recivedList[received_message]
  <1> DEFINE q == receiveQueue
             h == recivedListHead
  <1>1. /\ q \in Seq(Slots) /\ h \in Slots /\ Len(q) \in Nat /\ Len(q) <= ListSize
        /\ received_message \in Slots
    BY DEF TypeInv, TypeOK, ReceiveInv, Window
  <1>2. Len(q) < ListSize
    BY <1>1 DEF DeliverArrives
  <1>3. /\ receiveQueue' = Append(q, h) /\ recivedListHead' = After(h)
        /\ received_message' = received_message
    BY <1>2 DEF DeliverArrives, Interrupt, netVars
  <1>4. Len(receiveQueue') = Len(q) + 1
    BY <1>1, <1>3, AppendProperties
  <1>5. Len(q) + 1 \in 1 .. ListSize /\ Len(q) + 1 < ListSize
    BY <1>1, <1>4, ListSizeAssumption
  <1>6. received_message = Behind(h, Len(q) + 1)
    BY <1>2 DEF TakenPlace
  <1>7. received_message # h /\ received_message = Behind(After(h), Len(q) + 1 + 1)
    BY <1>1, <1>5, <1>6, BehindAfter
  <1>8. recivedList'[received_message] = recivedList[received_message]
    BY <1>1, <1>7 DEF DeliverArrives, deliverSlot, TypeInv, TypeOK
  <1> QED
    BY <1>3, <1>4, <1>7, <1>8 DEF TakenPlace

LEMMA TakenPlaceProbe == ASSUME TypeInv, ReceiveInv, ChooseProbe PROVE TakenPlace'
  <1> DEFINE q == receiveQueue
  <1>1. CASE q = <<>>
    BY <1>1 DEF ChooseProbe, TakenPlace
  <1>2. CASE q # <<>>
    <2>1. /\ q \in Seq(Slots) /\ recivedListHead \in Slots /\ Window(q, recivedListHead)
      BY DEF TypeInv, TypeOK, ReceiveInv
    <2>2. /\ received_message' = q[1] /\ receiveQueue' = Tail(q)
          /\ recivedListHead' = recivedListHead
      BY <1>2, <2>1 DEF ChooseProbe, NetStep, deliverVars
    <2>3. Len(q) \in Nat /\ 1 \in 1 .. Len(q) /\ Len(Tail(q)) + 1 = Len(q)
      BY <1>2, <2>1
    <2>4. q[1] = Behind(recivedListHead, Len(q) + 1 - 1)
      BY <2>1, <2>3, WindowSlots
    <2>5. Len(q) + 1 - 1 = Len(q)
      BY <2>3
    <2> QED
      BY <2>2, <2>3, <2>4, <2>5 DEF TakenPlace
  <1> QED
    BY <1>1, <1>2

\* What a step does to the slot that was taken.
TakenStep ==
  received_message # NULL /\ Len(receiveQueue') < ListSize =>
    recivedList'[received_message] = recivedList[received_message]

LEMMA TakenPlaceStep ==
  ASSUME TypeInv, ReceiveInv, TakenPlace, [Next]_vars
  PROVE  TakenPlace' /\ TakenStep
  <1> DEFINE rest == /\ UNCHANGED <<receiveQueue, recivedListHead, recivedList>>
                     /\ received_message' \in {received_message, NULL}
  <1>1. rest => TakenPlace' /\ TakenStep
    BY DEF TakenPlace, TakenStep
  <1>2. UserSends \/ Gui => rest
    BY DEF UserSends, Gui, CheckFree, FillSlot, QueueSlot, GuiStep, deliverVars, netVars
  <1>3. NetworkThread => rest \/ ChooseProbe
    BY DEF NetworkThread, Wait, TakeNext, ChooseSubmit, LoadSubmit, FillSubmit,
       StartSubmit, TryAgainLater, FillProbe, StartProbe, NetStep, deliverVars
  <1>4. TimerExpires => rest
    BY DEF TimerExpires, Interrupt, deliverVars, netVars
  <1>5. (\E r \in Recipients : AckArrives(r) \/ AckLost(r)) => rest
    BY DEF AckArrives, AckLost, Interrupt, deliverVars, netVars
  <1>6. Device => rest
    BY DEF Device, SubmitReceived, ProbeReceived, PacketLost, BadDescriptor,
       Transmitted, Interrupt, deliverVars, netVars
  <1>7. UNCHANGED vars => rest
    BY DEF vars, deliverVars, netVars
  <1>8. ASSUME ChooseProbe PROVE TakenPlace' /\ TakenStep
    BY <1>8, TakenPlaceProbe DEF ChooseProbe, NetStep, deliverVars, TakenStep
  <1>9. ASSUME NEW d \in Delivers, DeliverArrives(d) PROVE TakenPlace' /\ TakenStep
    <2>1. received_message' = received_message
      BY <1>9 DEF DeliverArrives, Interrupt, netVars
    <2>2. CASE received_message # NULL /\ Len(receiveQueue') < ListSize
      BY <1>9, <2>2, TakenPlaceArrival DEF TakenStep
    <2>3. CASE ~(received_message # NULL /\ Len(receiveQueue') < ListSize)
      BY <2>1, <2>3 DEF TakenPlace, TakenStep
    <2> QED
      BY <2>2, <2>3
  <1> QED
    BY <1>1, <1>2, <1>3, <1>4, <1>5, <1>6, <1>7, <1>8, <1>9 DEF Next

-----------------------------------------------------------------------------
(***************************************************************************)
(* The properties.                                                         *)
(***************************************************************************)

\* Both queues are always the stretches of slots just behind their heads.
THEOREM QueuesStayWindows == Spec => []QueuesAreWindows
  <1>1. SendInv /\ ReceiveInv => QueuesAreWindows
    BY DEF SendInv, ReceiveInv, QueuesAreWindows
  <1> QED
    BY <1>1, SendSafe, ReceiveSafe, PTL

\* sendMessage never takes a slot it then cannot queue.
THEOREM NeverLosesSlot == Spec => []NoSlotLost
  <1>1. SendInv => NoSlotLost
    BY DEF SendInv
  <1> QED
    BY <1>1, SendSafe, PTL

\* Every message waiting in ToSendQueue is whole, and in the order of acceptance.
THEOREM WaitingStayIntact == Spec => []WaitingIntact
  <1>1. SendInv => WaitingIntact
    BY DEF SendInv
  <1> QED
    BY <1>1, SendSafe, PTL

\* The unacknowledged message is just before the waiting ones, and is overwritten
\* only by a message that takes the last place of ToSendQueue.
THEOREM InFlightUntilFull ==
  Spec => [](InFlightPrecedesWaiting /\ InFlightIntactUntilFull)
  <1>1. SendInv => InFlightPrecedesWaiting /\ InFlightIntactUntilFull
    BY DEF SendInv
  <1> QED
    BY <1>1, SendSafe, PTL

\* A deliver waiting behind another to be acknowledged was given to the UI.
THEOREM PendingAcksSafe == Spec => []PendingAcksStored
  <1>1. ReceiveInv => PendingAcksStored
    BY DEF ReceiveInv
  <1> QED
    BY <1>1, ReceiveSafe, PTL

\* The deliver whose acknowledgment is being filled is overwritten only by the one that takes
\* the last place of receiveQueue.
THEOREM TakenUntilFull == Spec => TakenIntactUntilFull
  <1>1. Init => TakenPlace
    BY DEF Init, TakenPlace
  <1>2. TypeInv /\ ReceiveInv /\ TakenPlace /\ [Next]_vars => TakenPlace' /\ TakenStep
    BY TakenPlaceStep
  <1>3. TypeInv /\ ReceiveInv /\ TakenPlace /\ [Next]_vars => [TakenStep]_vars
    BY <1>2
  <1>4. TakenStep <=> (received_message # NULL /\ Len(receiveQueue') < ListSize =>
                         recivedList'[received_message] = recivedList[received_message])
    BY DEF TakenStep
  <1> QED
    BY <1>1, <1>2, <1>3, <1>4, ReceiveSafe, PTL DEF Spec, TakenIntactUntilFull

\* What the user leaves unacknowledged stays within MaxOutstanding, the message
\* sendMessage is queueing included.
OutstandingInv ==
  MaxOutstanding <= ListSize =>
    Outstanding + (IF gpc = "idle" THEN 0 ELSE 1) <= MaxOutstanding

\* Taking the next message leaves as many outstanding.
LEMMA TakeKeepsOutstanding ==
  ASSUME TypeInv, TakeNext
  PROVE  Outstanding' = Outstanding
  <1>1. CASE messageThatWasSent = NULL /\ ToSendQueue # <<>>
    <2>1. /\ ToSendQueue \in Seq(Slots) /\ NULL \notin Slots /\ Len(ToSendQueue) \in Nat
      BY ListSizeAssumption, SMT DEF TypeInv, TypeOK, NULL, Slots
    <2>2. Len(Tail(ToSendQueue)) = Len(ToSendQueue) - 1 /\ Head(ToSendQueue) # NULL
      BY <1>1, <2>1, HeadTailProperties
    <2>3. /\ messageThatWasSent' # NULL
          /\ Len(ToSendQueue') = Len(ToSendQueue) - 1
      BY <1>1, <2>2 DEF TakeNext, AllAcknowledged
    <2> QED
      BY <1>1, <2>1, <2>3, SMT DEF Outstanding
  <1>2. CASE ~(messageThatWasSent = NULL /\ ToSendQueue # <<>>)
    BY <1>2 DEF TakeNext, AllAcknowledged, Outstanding
  <1> QED
    BY <1>1, <1>2

LEMMA OutstandingStep ==
  TypeInv /\ OutstandingInv /\ [Next]_vars => OutstandingInv'
  <1> SUFFICES ASSUME TypeInv, OutstandingInv, [Next]_vars, MaxOutstanding <= ListSize
               PROVE  Outstanding' + (IF gpc' = "idle" THEN 0 ELSE 1) <= MaxOutstanding
    BY DEF OutstandingInv
  <1>1. /\ Len(ToSendQueue) \in Nat /\ MaxOutstanding \in Nat
        /\ ToSendQueue \in Seq(Slots) /\ NULL \notin Slots
        /\ Outstanding \in Nat
        /\ Outstanding + (IF gpc = "idle" THEN 0 ELSE 1) <= MaxOutstanding
    <2>1. /\ Len(ToSendQueue) \in Nat /\ MaxOutstanding \in Nat
          /\ ToSendQueue \in Seq(Slots) /\ NULL \notin Slots
      BY BoundsAssumption, ListSizeAssumption DEF TypeInv, TypeOK, NULL, Slots
    <2>2. Outstanding \in Nat
      BY <2>1, SMT DEF Outstanding
    <2>3. Outstanding + (IF gpc = "idle" THEN 0 ELSE 1) <= MaxOutstanding
      BY DEF OutstandingInv
    <2> QED
      BY <2>1, <2>2, <2>3
  <1>2. CASE UserSends
    <2>1. MaxOutstanding # ListSize + 1
      BY <1>1, ListSizeAssumption, SMT
    <2>2. /\ Outstanding < MaxOutstanding /\ Outstanding' = Outstanding
          /\ gpc' = "check"
      BY <1>2, <2>1 DEF UserSends, GuiStep, Outstanding
    <2> QED
      BY <1>1, <2>2
  <1>3. CASE CheckFree \/ FillSlot
    <2>1. gpc # "idle" /\ Outstanding' = Outstanding
      BY <1>3 DEF CheckFree, FillSlot, GuiStep, Outstanding
    <2> QED
      BY <1>1, <2>1
  <1>4. CASE QueueSlot
    <2>1. /\ gpc = "put" /\ gpc' = "idle" /\ UNCHANGED messageThatWasSent
          /\ Len(ToSendQueue') <= Len(ToSendQueue) + 1
          /\ Len(ToSendQueue') \in Nat
      <3>1. \A s : Len(Append(ToSendQueue, s)) = Len(ToSendQueue) + 1
        BY <1>1
      <3> QED
        BY <1>1, <1>4, <3>1 DEF QueueSlot, GuiStep
    <2>2. Outstanding' <= Outstanding + 1 /\ Outstanding' \in Nat
      <3>1. Len(ToSendQueue) \in Nat
        BY <1>1
      <3>2. CASE messageThatWasSent = NULL
        BY <2>1, <3>1, <3>2, SMT DEF Outstanding
      <3>3. CASE messageThatWasSent # NULL
        BY <2>1, <3>1, <3>3, SMT DEF Outstanding
      <3> QED
        BY <3>2, <3>3
    <2>3. Outstanding + 1 <= MaxOutstanding
      BY <1>1, <2>1
    <2>4. Outstanding \in Nat /\ MaxOutstanding \in Nat
      BY <1>1
    <2>5. \A x, y, z \in Nat : x <= y + 1 /\ y + 1 <= z => x + 0 <= z
      BY SMT
    <2>7. Outstanding' + 0 <= MaxOutstanding
      BY <2>2, <2>3, <2>4, <2>5, Zenon
    <2>6. (IF gpc' = "idle" THEN 0 ELSE 1) = 0
      BY <2>1
    <2> QED
      BY <2>6, <2>7
  <1>5. CASE TakeNext
    <2>1. UNCHANGED gpc /\ Outstanding' = Outstanding
      BY <1>5, TakeKeepsOutstanding DEF TakeNext, NetStep, guiVars
    <2> QED
      BY <1>1, <2>1
  <1>6. CASE SendersRest
    <2>1. UNCHANGED <<gpc, ToSendQueue>>
          /\ messageThatWasSent' \in {messageThatWasSent, NULL}
      BY <1>6 DEF SendersRest, guiVars
    <2>2. Len(ToSendQueue) \in Nat /\ MaxOutstanding \in Nat
      BY <1>1
    <2>3. Outstanding' <= Outstanding /\ Outstanding' \in Nat /\ Outstanding \in Nat
      BY <2>1, <2>2, SMT DEF Outstanding
    <2>4. Outstanding + (IF gpc = "idle" THEN 0 ELSE 1) <= MaxOutstanding
      BY <1>1
    <2>6. \A x, y, z \in Nat : \A k \in {0, 1} :
            x <= y /\ y + k <= z => x + k <= z
      BY SMT
    <2>5. Outstanding' + (IF gpc = "idle" THEN 0 ELSE 1) <= MaxOutstanding
      BY <2>2, <2>3, <2>4, <2>6, Zenon
    <2> QED
      BY <2>1, <2>5
  <1> QED
    BY <1>2, <1>3, <1>4, <1>5, <1>6, OthersLeaveSend

\* So long the unacknowledged message is not overwritten.
LEMMA InFlightIs ==
  ASSUME TypeInv, SendInv, OutstandingInv, MaxOutstanding <= ListSize
  PROVE  InFlightIntact
  <1> SUFFICES ASSUME messageThatWasSent # NULL
               PROVE  toSendList[messageThatWasSent] = accepted - Len(ToSendQueue)
    BY DEF InFlightIntact
  <1>1. Len(ToSendQueue) \in Nat /\ MaxOutstanding \in Nat
    BY BoundsAssumption, ListSizeAssumption DEF TypeInv, TypeOK
  <1>2. Outstanding = Len(ToSendQueue) + 1
    BY DEF Outstanding
  <1>3. Len(ToSendQueue) + (IF gpc = "put" THEN 1 ELSE 0) < ListSize
    BY <1>1, <1>2, ListSizeAssumption, SMT DEF OutstandingInv
  <1> QED
    BY <1>3 DEF SendInv, InFlightIntactUntilFull, InFlightIntact

LEMMA OutstandingInit == Init => OutstandingInv
  <1>1. Init => Outstanding = 0 /\ gpc = "idle"
    BY EmptySeq DEF Init, Outstanding
  <1> QED
    BY <1>1, BoundsAssumption, ListSizeAssumption, SMT DEF OutstandingInv

\* With at most ListSize messages unacknowledged at a time, one less than the
\* client accepts, the unacknowledged message is never overwritten.
THEOREM InFlightStaysIntact ==
  MaxOutstanding <= ListSize => (Spec => []InFlightIntact)
  <1> SUFFICES ASSUME MaxOutstanding <= ListSize PROVE Spec => []InFlightIntact
    OBVIOUS
  <1>1. TypeInv /\ SendInv /\ OutstandingInv => InFlightIntact
    BY InFlightIs
  <1> QED
    BY <1>1, OutstandingInit, OutstandingStep, SendSafe, PTL DEF Spec

-----------------------------------------------------------------------------
(***************************************************************************)
(* The refinement of Outbox.  Its hypotheses are those under which the     *)
(* client keeps its promise; the findings show how it breaks without them. *)
(***************************************************************************)

\* The user leaves a slot free, every number is sent one message, and an acknowledgment
\* tells which; and the driver reports no bad descriptor.
OutboxHypotheses ==
  /\ MaxOutstanding < ListSize /\ Unterminated = {} /\ ~BadDescriptors
  /\ \A m, n \in Messages : Recipient[m] = Recipient[n] => m = n

\* Message m reached the SMSC, or is the unacknowledged one.
Known(m) ==
  m \in received \/ (messageThatWasSent # NULL /\ toSendList[messageThatWasSent] = m)

\* Before the fill, sendToSMSC's copy is the unacknowledged message, or the message
\* that was it: then the SMSC has it, and its slot was not taken again.
CopyGood ==
  npc = "fill" =>
    \/ mymessage = NULL /\ messageThatWasSent = NULL
    \/ /\ mymessage = Behind(NextQueued, Len(ToSendQueue) + 1)
       /\ \/ messageThatWasSent = mymessage
          \/ messageThatWasSent = NULL /\ toSendList[mymessage] \in received

\* A message that could not be copied is one nothing waits for any more.
GarbageIsOver == npc = "start" /\ sendToSMSCbuffer = Garbage => messageThatWasSent = NULL

\* What the submit buffer holds.
BufferKnown == sendToSMSCbuffer \in Messages => Known(sendToSMSCbuffer)

\* What the SMSC acknowledges.
AcksTell == \A r \in Recipients : acks[r] > 0 => \E m \in received : Recipient[m] = r

\* What was received, and what is outstanding, was accepted.
AllAccepted == received \subseteq 1 .. accepted /\ Outstanding <= accepted

SubmitInv == CopyGood /\ GarbageIsOver /\ BufferKnown /\ AcksTell /\ AllAccepted

PhoneInv == TypeInv /\ SendInv /\ OutstandingInv

\* The facts about the state that the steps need.
LEMMA PhoneIs ==
  ASSUME PhoneInv, MaxOutstanding < ListSize
  PROVE  /\ ToSendQueue \in Seq(Slots) /\ Len(ToSendQueue) \in Nat /\ NextQueued \in Slots
         /\ NULL \notin Slots /\ messageThatWasSent \in Slots \cup {NULL}
         /\ accepted \in Nat /\ MaxMessages \in Nat
         /\ Outstanding \in Nat
         /\ messageThatWasSent = NULL => Outstanding = Len(ToSendQueue)
         /\ messageThatWasSent # NULL => Outstanding = Len(ToSendQueue) + 1
         /\ Outstanding + (IF gpc = "idle" THEN 0 ELSE 1) < ListSize
         /\ Len(ToSendQueue) < ListSize
         /\ InFlightIntact /\ WaitingIntact
  <1>1. /\ ToSendQueue \in Seq(Slots) /\ Len(ToSendQueue) \in Nat /\ NextQueued \in Slots
        /\ NULL \notin Slots /\ messageThatWasSent \in Slots \cup {NULL}
        /\ accepted \in Nat /\ MaxMessages \in Nat /\ MaxOutstanding \in Nat /\ ListSize \in Nat
    BY BoundsAssumption, ListSizeAssumption
    DEF PhoneInv, TypeInv, TypeOK, SendInProgress, NextQueued, NULL, Slots
  <1>2. /\ messageThatWasSent = NULL => Outstanding = Len(ToSendQueue)
        /\ messageThatWasSent # NULL => Outstanding = Len(ToSendQueue) + 1
    BY <1>1 DEF Outstanding
  <1>3. Outstanding \in Nat /\ Outstanding >= Len(ToSendQueue)
    BY <1>1, <1>2
  <1>4. MaxOutstanding <= ListSize
    BY <1>1
  <1>5. Outstanding + (IF gpc = "idle" THEN 0 ELSE 1) <= MaxOutstanding
    BY <1>4 DEF PhoneInv, OutstandingInv
  <1>6. Outstanding + (IF gpc = "idle" THEN 0 ELSE 1) < ListSize /\ Len(ToSendQueue) < ListSize
    BY <1>1, <1>3, <1>5
  <1>7. InFlightIntact /\ WaitingIntact
    BY <1>4, InFlightIs DEF PhoneInv, SendInv
  <1> QED
    BY <1>1, <1>2, <1>3, <1>6, <1>7

\* The unacknowledged message is just behind the waiting ones.
LEMMA InFlightPlace ==
  ASSUME PhoneInv, MaxOutstanding < ListSize, messageThatWasSent # NULL
  PROVE  messageThatWasSent = Behind(NextQueued, Len(ToSendQueue) + 1)
  <1> DEFINE q == ToSendQueue
             h == NextQueued
  <1>1. /\ q \in Seq(Slots) /\ h \in Slots /\ Len(q) \in Nat /\ messageThatWasSent \in Slots
        /\ Len(q) < ListSize
    BY PhoneIs
  <1>2. After(messageThatWasSent) = IF q = <<>> THEN h ELSE Head(q)
    BY DEF PhoneInv, SendInv, InFlightPrecedesWaiting
  <1>3. ASSUME NEW s \in Slots, NEW k \in 0 .. ListSize - 1,
               After(s) = IF k = 0 THEN h ELSE Behind(h, k)
        PROVE  s = Behind(h, k + 1)
    <2>1. After(s) = IF s + 1 = ListSize THEN 0 ELSE s + 1
      BY AfterSlot
    <2>2. ASSUME NEW a \in Slots, a = IF s + 1 = ListSize THEN 0 ELSE s + 1,
                 a = IF k = 0 THEN h ELSE Behind(h, k)
          PROVE  s = Behind(h, k + 1)
      BY <1>1, <2>2, ListSizeAssumption, SMT DEF Slots, Behind
    <2>3. After(s) \in Slots
      BY AfterSlot
    <2> QED
      BY <1>3, <2>1, <2>2, <2>3, Zenon
  <1>4. CASE q = <<>>
    <2>1. Len(q) = 0 /\ 0 \in 0 .. ListSize - 1
      BY <1>4, ListSizeAssumption
    <2> QED
      BY <1>1, <1>2, <1>3, <1>4, <2>1
  <1>5. CASE q # <<>>
    <2>1. Head(q) = q[1] /\ Len(q) >= 1 /\ Len(q) \in 0 .. ListSize - 1 /\ Len(q) # 0
          /\ 1 \in 1 .. Len(q) /\ Len(q) + 1 - 1 = Len(q)
      BY <1>1, <1>5, ListSizeAssumption
    <2>2. q[1] = Behind(h, Len(q))
      BY <1>1, <2>1, WindowSlots DEF PhoneInv, SendInv
    <2>3. After(messageThatWasSent) = IF Len(q) = 0 THEN h ELSE Behind(h, Len(q))
      BY <1>2, <1>5, <2>1, <2>2
    <2> QED
      BY <1>1, <1>3, <2>1, <2>3
  <1> QED
    BY <1>4, <1>5
LEMMA InFlightIsMessage ==
  ASSUME PhoneInv, AllAccepted, MaxOutstanding < ListSize, messageThatWasSent # NULL
  PROVE  /\ toSendList[messageThatWasSent] = accepted - Len(ToSendQueue)
         /\ toSendList[messageThatWasSent] \in Messages
         /\ toSendList[messageThatWasSent] \in 1 .. accepted
         /\ Len(ToSendQueue) + 1 <= accepted
  <1>1. /\ Len(ToSendQueue) \in Nat /\ accepted \in Nat /\ MaxMessages \in Nat
        /\ Outstanding = Len(ToSendQueue) + 1
    BY PhoneIs
  <1>2. toSendList[messageThatWasSent] = accepted - Len(ToSendQueue)
    BY PhoneIs DEF InFlightIntact
  <1>3. Outstanding <= accepted /\ accepted <= MaxMessages
    BY BoundsAssumption DEF AllAccepted, PhoneInv, TypeInv, TypeOK
  <1> QED
    BY <1>1, <1>2, <1>3, SMT DEF Messages

\* The steps that touch nothing of a submission.
SubmitRest ==
  /\ UNCHANGED <<toSendList, accepted, ToSendQueue, NextQueued, messageThatWasSent,
                 sendToSMSCbuffer, received>>
  /\ npc' = "fill" => npc = "fill" /\ UNCHANGED mymessage
  /\ npc' = "start" => npc = "start"
  /\ \A r \in Recipients : acks'[r] > 0 => acks[r] > 0

LEMMA SubmitInvRest ==
  ASSUME SubmitInv, SubmitRest
  PROVE  SubmitInv'
  <1> USE DEF SubmitInv, SubmitRest
  <1>1. CopyGood'
    BY DEF CopyGood
  <1>2. GarbageIsOver'
    BY DEF GarbageIsOver
  <1>3. BufferKnown'
    BY DEF BufferKnown, Known
  <1>4. AcksTell'
    BY DEF AcksTell
  <1>5. AllAccepted'
    BY DEF AllAccepted, Outstanding
  <1> QED
    BY <1>1, <1>2, <1>3, <1>4, <1>5

LEMMA OthersLeaveSubmit ==
  ASSUME TypeInv, [Next]_vars
  PROVE  \/ FillSlot \/ QueueSlot \/ TakeNext \/ LoadSubmit \/ FillSubmit \/ StartSubmit
         \/ \E r \in Recipients : AckArrives(r)
         \/ \E m \in Messages : SubmitReceived(m)
         \/ BadDescriptor \/ SubmitRest
  <1>1. CASE UserSends \/ CheckFree
    BY <1>1 DEF UserSends, CheckFree, GuiStep, NextQueued, SubmitRest, netVars, smscVars
  <1>2. CASE Wait \/ ChooseSubmit
    BY <1>2 DEF Wait, ChooseSubmit, NetStep, NextQueued, SubmitRest, guiVars, smscVars
  <1>3. CASE ChooseProbe \/ FillProbe \/ StartProbe
    BY <1>3 DEF ChooseProbe, FillProbe, StartProbe, NetStep, NextQueued, SubmitRest, guiVars,
       smscVars
  <1>4. CASE TimerExpires \/ \E d \in Delivers : DeliverArrives(d)
    BY <1>4 DEF TimerExpires, DeliverArrives, Interrupt, NextQueued, SubmitRest, guiVars,
       netVars, smscVars
  <1>5. ASSUME NEW r \in Recipients, AckLost(r)
        PROVE  SubmitRest
    <2>1. acks \in [Recipients -> 0 .. MaxAcks] /\ acks[r] > 0
          /\ acks' = [acks EXCEPT ![r] = acks[r] - 1]
      BY <1>5 DEF AckLost, TypeInv, TypeOK
    <2>2. \A s \in Recipients : acks'[s] > 0 => acks[s] > 0
      BY <2>1
    <2> QED
      BY <1>5, <2>2 DEF AckLost, Interrupt, NextQueued, SubmitRest, guiVars, netVars
  <1>6. CASE ProbeReceived \/ PacketLost
    BY <1>6 DEF ProbeReceived, PacketLost, Transmitted, Interrupt, NextQueued, SubmitRest,
       guiVars, netVars, smscVars
  <1>7. CASE UNCHANGED vars
    BY <1>7 DEF vars, NextQueued, SubmitRest, guiVars, netVars, smscVars
  <1> QED
    BY <1>1, <1>2, <1>3, <1>4, <1>5, <1>6, <1>7 DEF Next, Gui, NetworkThread, Device

LEMMA SubmitInvFillSlot ==
  ASSUME OutboxHypotheses, PhoneInv, PhoneInv', SubmitInv, FillSlot
  PROVE  SubmitInv'
  <1> USE DEF SubmitInv
  <1> DEFINE h == toSendListHead
  <1>1. /\ Len(ToSendQueue) \in Nat /\ h \in Slots /\ accepted \in Nat
        /\ Outstanding + 1 < ListSize /\ Len(ToSendQueue) <= Outstanding /\ Outstanding \in Nat
        /\ messageThatWasSent \in Slots \cup {NULL} /\ NULL \notin Slots
    BY PhoneIs, SMT DEF OutboxHypotheses, FillSlot, GuiStep, PhoneInv, TypeInv, TypeOK
  <1>2. /\ NextQueued = h /\ NextQueued' = h
        /\ UNCHANGED <<accepted, ToSendQueue, messageThatWasSent, npc, mymessage,
                       sendToSMSCbuffer, received, acks>>
    BY DEF FillSlot, im_put_this, GuiStep, NextQueued, netVars, smscVars
  <1>3. \A s \in Slots : s # h => toSendList'[s] = toSendList[s]
    BY DEF FillSlot, im_put_this, PhoneInv, TypeInv, TypeOK
  <1>4. Behind(h, Len(ToSendQueue) + 1) \in Slots /\ Behind(h, Len(ToSendQueue) + 1) # h
    <2>1. Len(ToSendQueue) + 1 \in 1 .. ListSize /\ Len(ToSendQueue) + 1 < ListSize
      BY <1>1, ListSizeAssumption, SMT
    <2> QED
      BY <1>1, <2>1, BehindRemainder, BehindAfter
  <1>5. CopyGood'
    BY <1>2, <1>3, <1>4 DEF CopyGood
  <1>6. GarbageIsOver'
    BY <1>2 DEF GarbageIsOver
  <1>7. messageThatWasSent # NULL => toSendList'[messageThatWasSent] = toSendList[messageThatWasSent]
    BY <1>1, <1>2, <1>3, <1>4, InFlightPlace DEF OutboxHypotheses
  <1>8. BufferKnown'
    BY <1>2, <1>7 DEF BufferKnown, Known
  <1>9. AcksTell'
    BY <1>2 DEF AcksTell
  <1>10. AllAccepted'
    BY <1>2 DEF AllAccepted, Outstanding
  <1> QED
    BY <1>5, <1>6, <1>8, <1>9, <1>10

LEMMA SubmitInvQueueSlot ==
  ASSUME OutboxHypotheses, PhoneInv, PhoneInv', SubmitInv, QueueSlot
  PROVE  SubmitInv'
  <1> USE DEF SubmitInv
  <1> DEFINE h == toSend
             k == Len(ToSendQueue) + 1
  <1>1. /\ Len(ToSendQueue) \in Nat /\ h \in Slots /\ accepted \in Nat
        /\ Outstanding + 1 < ListSize /\ Len(ToSendQueue) <= Outstanding /\ Outstanding \in Nat
        /\ ToSendQueue \in Seq(Slots) /\ NextQueued = h /\ Len(ToSendQueue) < ListSize
        /\ toSendListHead = After(h)
    <2>1. gpc = "put" /\ NextQueued = toSend
      BY DEF QueueSlot, GuiStep, NextQueued
    <2>2. toSendListHead = After(toSend)
      BY <2>1 DEF PhoneInv, TypeInv, SendInProgress
    <2> QED
      BY <2>1, <2>2, PhoneIs, SMT DEF OutboxHypotheses
  <1>2. /\ NextQueued' = After(h)
        /\ ToSendQueue' = Append(ToSendQueue, h) /\ accepted' = accepted + 1
        /\ UNCHANGED <<toSendList, messageThatWasSent, npc, mymessage,
                       sendToSMSCbuffer, received, acks>>
    BY <1>1 DEF QueueSlot, GuiStep, NextQueued, netVars, smscVars
  <1>3. Len(ToSendQueue') = k
    BY <1>1, <1>2, AppendProperties
  <1>4. Behind(After(h), k + 1) = Behind(h, k)
    <2>1. k \in 1 .. ListSize /\ k < ListSize
      BY <1>1, ListSizeAssumption, SMT
    <2> QED
      BY <1>1, <2>1, BehindAfter
  <1>5. CopyGood'
    BY <1>1, <1>2, <1>3, <1>4 DEF CopyGood
  <1>6. GarbageIsOver'
    BY <1>2 DEF GarbageIsOver
  <1>7. BufferKnown'
    BY <1>2 DEF BufferKnown, Known
  <1>8. AcksTell'
    BY <1>2 DEF AcksTell
  <1>9. AllAccepted'
    <2>1. received \subseteq 1 .. accepted + 1
      BY <1>1 DEF AllAccepted
    <2>2. Outstanding' = Outstanding + 1
      BY <1>1, <1>2, <1>3 DEF Outstanding
    <2> QED
      BY <1>1, <1>2, <2>1, <2>2 DEF AllAccepted
  <1> QED
    BY <1>5, <1>6, <1>7, <1>8, <1>9

LEMMA SubmitInvTake ==
  ASSUME OutboxHypotheses, PhoneInv, PhoneInv', SubmitInv, TakeNext
  PROVE  SubmitInv'
  <1> USE DEF SubmitInv
  <1>1. /\ npc' = "choose"
        /\ UNCHANGED <<toSendList, accepted, sendToSMSCbuffer, received, acks>>
    BY DEF TakeNext, NetStep, guiVars, smscVars
  <1>2. CopyGood' /\ GarbageIsOver'
    BY <1>1 DEF CopyGood, GarbageIsOver
  <1>3. messageThatWasSent # NULL => UNCHANGED messageThatWasSent
    BY DEF TakeNext, AllAcknowledged
  <1>4. BufferKnown'
    BY <1>1, <1>3 DEF BufferKnown, Known
  <1>5. AcksTell'
    BY <1>1 DEF AcksTell
  <1>6. Outstanding' = Outstanding
    BY TakeKeepsOutstanding DEF PhoneInv
  <1>7. AllAccepted'
    BY <1>1, <1>6 DEF AllAccepted
  <1> QED
    BY <1>2, <1>4, <1>5, <1>7

LEMMA SubmitInvLoad ==
  ASSUME OutboxHypotheses, PhoneInv, SubmitInv, LoadSubmit
  PROVE  SubmitInv'
  <1> USE DEF SubmitInv
  <1>1. /\ npc' = "fill" /\ mymessage' = messageThatWasSent /\ sendToSMSCbuffer' = Blank
        /\ NextQueued' = NextQueued
        /\ UNCHANGED <<toSendList, accepted, ToSendQueue, messageThatWasSent, received, acks>>
    BY DEF LoadSubmit, NetStep, NextQueued, guiVars, smscVars
  <1>2. CopyGood'
    BY <1>1, InFlightPlace DEF CopyGood, OutboxHypotheses
  <1>3. Blank \notin Messages
    BY BoundsAssumption DEF Blank, Messages
  <1>4. GarbageIsOver' /\ BufferKnown'
    BY <1>1, <1>3 DEF GarbageIsOver, BufferKnown
  <1>5. AcksTell' /\ AllAccepted'
    BY <1>1 DEF AcksTell, AllAccepted, Outstanding
  <1> QED
    BY <1>2, <1>4, <1>5

LEMMA SubmitInvFill ==
  ASSUME OutboxHypotheses, PhoneInv, SubmitInv, FillSubmit
  PROVE  SubmitInv'
  <1> USE DEF SubmitInv
  <1>1. /\ npc = "fill" /\ npc' = "start"
        /\ sendToSMSCbuffer' = IF mymessage = NULL THEN Garbage ELSE toSendList[mymessage]
        /\ UNCHANGED <<toSendList, accepted, ToSendQueue, messageThatWasSent, received, acks>>
    BY DEF FillSubmit, NetStep, guiVars, smscVars
  <1>2. CopyGood'
    BY <1>1 DEF CopyGood
  <1>3. Garbage \notin Messages /\ mymessage \in Slots \cup {NULL}
        /\ \A s \in Slots : toSendList[s] # Garbage
    BY BoundsAssumption DEF Garbage, Blank, Messages, PhoneInv, TypeInv, TypeOK
  <1>4. GarbageIsOver'
    BY <1>1, <1>3 DEF GarbageIsOver, CopyGood
  <1>5. BufferKnown'
    BY <1>1, <1>3 DEF BufferKnown, Known, CopyGood
  <1>6. AcksTell' /\ AllAccepted'
    BY <1>1 DEF AcksTell, AllAccepted, Outstanding
  <1> QED
    BY <1>2, <1>4, <1>5, <1>6

LEMMA SubmitInvStart ==
  ASSUME SubmitInv, StartSubmit
  PROVE  SubmitInv'
  <1> USE DEF SubmitInv
  <1>1. UNCHANGED messageThatWasSent
    BY DEF StartSubmit, TryAgainLater, NetStep, GarbageIsOver
  <1>2. npc' = "wait"
        /\ UNCHANGED <<toSendList, accepted, ToSendQueue, sendToSMSCbuffer, received, acks>>
    BY DEF StartSubmit, NetStep, guiVars, smscVars
  <1> QED
    BY <1>1, <1>2 DEF CopyGood, GarbageIsOver, BufferKnown, Known, AcksTell, AllAccepted,
       Outstanding

\* An acknowledgment taken for the unacknowledged message is of that message.
LEMMA AckTold ==
  ASSUME OutboxHypotheses, PhoneInv, SubmitInv,
         NEW r \in Recipients, AckArrives(r), messageThatWasSent # NULL
  PROVE  \/ messageThatWasSent' = NULL /\ toSendList[messageThatWasSent] \in received
         \/ UNCHANGED messageThatWasSent
  <1>1. toSendList[messageThatWasSent] \in Messages
    BY InFlightIsMessage DEF OutboxHypotheses, SubmitInv
  <1>2. PICK m \in received : Recipient[m] = r
    BY DEF AckArrives, SubmitInv, AcksTell
  <1>3. m \in Messages
    BY DEF PhoneInv, TypeInv, TypeOK
  <1>4. CASE Recipient[toSendList[messageThatWasSent]] = r
    <2>1. toSendList[messageThatWasSent] = m
      BY <1>1, <1>2, <1>3, <1>4 DEF OutboxHypotheses
    <2> QED
      BY <1>2, <2>1 DEF AckArrives
  <1>5. CASE Recipient[toSendList[messageThatWasSent]] # r
    BY <1>5 DEF AckArrives, AckMatches
  <1> QED
    BY <1>4, <1>5

LEMMA SubmitInvAck ==
  ASSUME OutboxHypotheses, PhoneInv, SubmitInv, NEW r \in Recipients, AckArrives(r)
  PROVE  SubmitInv'
  <1> USE DEF SubmitInv
  <1>1. /\ acks[r] > 0 /\ acks' = [acks EXCEPT ![r] = acks[r] - 1]
        /\ acks \in [Recipients -> 0 .. MaxAcks]
        /\ NextQueued' = NextQueued
        /\ UNCHANGED <<toSendList, accepted, ToSendQueue, npc, mymessage, sendToSMSCbuffer,
                       received>>
        /\ messageThatWasSent' \in {NULL, messageThatWasSent}
    BY DEF AckArrives, Interrupt, NextQueued, guiVars, netVars, PhoneInv, TypeInv, TypeOK
  <1>2. AcksTell'
    <2>1. \A s \in Recipients : acks'[s] > 0 => acks[s] > 0
      BY <1>1
    <2> QED
      BY <1>1, <2>1 DEF AcksTell
  <1>3. AllAccepted'
    <2>1. Len(ToSendQueue) \in Nat /\ accepted \in Nat
      BY PhoneIs DEF OutboxHypotheses
    <2> QED
      BY <1>1, <2>1 DEF AllAccepted, Outstanding
  <1>4. GarbageIsOver'
    BY <1>1 DEF GarbageIsOver
  <1>5. \/ messageThatWasSent' = messageThatWasSent
        \/ /\ messageThatWasSent # NULL /\ messageThatWasSent' = NULL
           /\ toSendList[messageThatWasSent] \in received
    BY <1>1, AckTold
  <1>6. CopyGood'
    BY <1>1, <1>5 DEF CopyGood
  <1>7. BufferKnown'
    BY <1>1, <1>5 DEF BufferKnown, Known
  <1> QED
    BY <1>2, <1>3, <1>4, <1>6, <1>7

LEMMA SubmitInvReceived ==
  ASSUME OutboxHypotheses, PhoneInv, SubmitInv, NEW m \in Messages, SubmitReceived(m)
  PROVE  SubmitInv'
  <1> USE DEF SubmitInv
  <1>1. /\ sendToSMSCbuffer = m /\ received' = received \cup {m}
        /\ NextQueued' = NextQueued
        /\ UNCHANGED <<toSendList, accepted, ToSendQueue, npc, mymessage, sendToSMSCbuffer,
                       messageThatWasSent>>
    BY DEF SubmitReceived, Transmitted, Interrupt, NextQueued, guiVars, netVars
  <1>2. /\ acks \in [Recipients -> 0 .. MaxAcks] /\ Recipient[m] \in Recipients
        /\ \A s \in Recipients : s # Recipient[m] => acks'[s] = acks[s]
    BY RecipientAssumption DEF SubmitReceived, PhoneInv, TypeInv, TypeOK
  <1>3. AcksTell'
    BY <1>1, <1>2 DEF AcksTell
  <1>4. m \in 1 .. accepted
    BY <1>1, InFlightIsMessage DEF BufferKnown, Known, AllAccepted, OutboxHypotheses
  <1>5. AllAccepted'
    BY <1>1, <1>4 DEF AllAccepted, Outstanding
  <1>6. CopyGood' /\ GarbageIsOver' /\ BufferKnown'
    BY <1>1 DEF CopyGood, GarbageIsOver, BufferKnown, Known
  <1> QED
    BY <1>3, <1>5, <1>6

LEMMA SubmitInvStep ==
  ASSUME OutboxHypotheses, PhoneInv, PhoneInv', SubmitInv, [Next]_vars
  PROVE  SubmitInv'
  <1>1. ~BadDescriptor
    BY DEF BadDescriptor, OutboxHypotheses
  <1>2. TypeInv
    BY DEF PhoneInv
  <1> QED
    BY <1>1, <1>2, OthersLeaveSubmit, SubmitInvRest, SubmitInvFillSlot, SubmitInvQueueSlot,
       SubmitInvTake, SubmitInvLoad, SubmitInvFill, SubmitInvStart, SubmitInvAck,
       SubmitInvReceived, Zenon

LEMMA SubmitInvInit == Init => SubmitInv
  <1> SUFFICES ASSUME Init PROVE SubmitInv
    OBVIOUS
  <1>1. Outstanding = 0 /\ accepted = 0
    BY EmptySeq DEF Init, Outstanding
  <1> QED
    BY <1>1, BoundsAssumption DEF Init, SubmitInv, CopyGood, GarbageIsOver, BufferKnown, AcksTell,
       AllAccepted, Blank, Messages

\* The n last of the messages 1 .. a, oldest first.
Last(n, a) == [i \in 1 .. n |-> a - n + i]

LEMMA LastIs ==
  ASSUME NEW n \in Nat, NEW a \in Nat
  PROVE  /\ Last(n, a) \in Seq(Int)
         /\ Len(Last(n, a)) = n
         /\ DOMAIN Last(n, a) = 1 .. n
         /\ \A i \in 1 .. n : Last(n, a)[i] = a - n + i
         /\ n > 0 => Last(n, a) # <<>> /\ Head(Last(n, a)) = a - n + 1
  <1>1. /\ Last(n, a) \in Seq(Int) /\ Len(Last(n, a)) = n
        /\ DOMAIN Last(n, a) = 1 .. n
        /\ \A i \in 1 .. n : Last(n, a)[i] = a - n + i
    BY DEF Last
  <1>2. \A s \in Seq(Int) : Len(s) > 0 => s # <<>> /\ Head(s) = s[1]
    OBVIOUS
  <1>3. n > 0 => 1 \in 1 .. n
    OBVIOUS
  <1> QED
    BY <1>1, <1>2, <1>3

\* Two sequences of numbers of the same length and with the same elements are the same.
LEMMA SameSeq ==
  ASSUME NEW s \in Seq(Int), NEW t \in Seq(Int), Len(s) = Len(t),
         \A i \in 1 .. Len(s) : s[i] = t[i]
  PROVE  s = t
  BY SeqEqual

LEMMA LastAppend ==
  ASSUME NEW n \in Nat, NEW a \in Nat
  PROVE  Append(Last(n, a), a + 1) = Last(n + 1, a + 1)
  <1> DEFINE s == Append(Last(n, a), a + 1)
             t == Last(n + 1, a + 1)
  <1>1. /\ s \in Seq(Int) /\ Len(s) = n + 1 /\ s[n + 1] = a + 1
        /\ \A i \in 1 .. n : s[i] = a - n + i
    <2>1. Last(n, a) \in Seq(Int) /\ Len(Last(n, a)) = n /\ a + 1 \in Int
          /\ \A i \in 1 .. n : Last(n, a)[i] = a - n + i
      BY LastIs
    <2>2. \A q \in Seq(Int), e \in Int :
            /\ Append(q, e) \in Seq(Int) /\ Len(Append(q, e)) = Len(q) + 1
            /\ Append(q, e)[Len(q) + 1] = e
            /\ \A i \in 1 .. Len(q) : Append(q, e)[i] = q[i]
      BY AppendProperties
    <2> QED
      BY <2>1, <2>2
  <1>2. /\ t \in Seq(Int) /\ Len(t) = n + 1
        /\ \A i \in 1 .. n + 1 : t[i] = (a + 1) - (n + 1) + i
    BY LastIs
  <1> HIDE DEF s, t
  <1>3. \A i \in 1 .. n + 1 : s[i] = t[i]
    <2> SUFFICES ASSUME NEW i \in 1 .. n + 1 PROVE s[i] = t[i]
      OBVIOUS
    <2>1. t[i] = a - n + i
      BY <1>2
    <2>2. CASE i = n + 1
      BY <1>1, <2>1, <2>2
    <2>3. CASE i # n + 1
      BY <1>1, <2>1, <2>3
    <2> QED
      BY <2>2, <2>3
  <1> QED
    BY <1>1, <1>2, <1>3, SameSeq DEF s, t

LEMMA LastTail ==
  ASSUME NEW n \in Nat \ {0}, NEW a \in Nat
  PROVE  Tail(Last(n, a)) = Last(n - 1, a)
  <1> DEFINE s == Tail(Last(n, a))
             t == Last(n - 1, a)
  <1>1. Last(n, a) \in Seq(Int) /\ Last(n, a) # <<>> /\ Len(Last(n, a)) = n
        /\ \A i \in 1 .. n : Last(n, a)[i] = a - n + i
    BY LastIs
  <1>2. /\ s \in Seq(Int) /\ Len(s) = n - 1
        /\ \A i \in 1 .. n - 1 : s[i] = Last(n, a)[i + 1]
    BY <1>1, HeadTailProperties
  <1>3. n - 1 \in Nat
    OBVIOUS
  <1>4. /\ t \in Seq(Int) /\ Len(t) = n - 1
        /\ \A i \in 1 .. n - 1 : t[i] = a - (n - 1) + i
    BY <1>3, LastIs
  <1> HIDE DEF s, t
  <1>5. \A i \in 1 .. n - 1 : s[i] = t[i]
    <2> SUFFICES ASSUME NEW i \in 1 .. n - 1 PROVE s[i] = t[i]
      OBVIOUS
    <2>1. t[i] = a - n + (i + 1) /\ i + 1 \in 1 .. n
      BY <1>4
    <2> QED
      BY <1>1, <1>2, <2>1
  <1> QED
    BY <1>2, <1>4, <1>5, SameSeq DEF s, t

LEMMA LastBehind ==
  ASSUME NEW n \in Nat, NEW a \in Nat
  PROVE  <<a - n>> \o Last(n, a) = Last(n + 1, a)
  <1> DEFINE s == <<a - n>> \o Last(n, a)
             t == Last(n + 1, a)
  <1>1. <<a - n>> \in Seq(Int) /\ Len(<<a - n>>) = 1 /\ <<a - n>>[1] = a - n
    OBVIOUS
  <1>2. Last(n, a) \in Seq(Int) /\ Len(Last(n, a)) = n
        /\ \A i \in 1 .. n : Last(n, a)[i] = a - n + i
    BY LastIs
  <1>3. /\ s \in Seq(Int) /\ Len(s) = 1 + n
        /\ \A i \in 1 .. 1 + n : s[i] = IF i <= 1 THEN <<a - n>>[i] ELSE Last(n, a)[i - 1]
    BY <1>1, <1>2, ConcatProperties
  <1>4. /\ t \in Seq(Int) /\ Len(t) = n + 1
        /\ \A i \in 1 .. n + 1 : t[i] = a - (n + 1) + i
    BY LastIs
  <1> HIDE DEF s, t
  <1>5. \A i \in 1 .. n + 1 : s[i] = t[i]
    <2> SUFFICES ASSUME NEW i \in 1 .. n + 1 PROVE s[i] = t[i]
      OBVIOUS
    <2>1. CASE i = 1
      <3>1. s[1] = <<a - n>>[1] /\ t[1] = a - (n + 1) + 1
        BY <1>3, <1>4, <2>1
      <3> QED
        BY <1>1, <2>1, <3>1
    <2>2. CASE i # 1
      <3>1. s[i] = Last(n, a)[i - 1] /\ i - 1 \in 1 .. n
        BY <1>3, <2>2
      <3>2. t[i] = a - n + (i - 1)
        BY <1>4
      <3> QED
        BY <1>2, <3>1, <3>2
    <2> QED
      BY <2>1, <2>2
  <1>6. Len(s) = n + 1 /\ Len(s) = Len(t)
    BY <1>3, <1>4
  <1> QED
    BY <1>3, <1>4, <1>5, <1>6, SameSeq DEF s, t

\* What is pending are the last messages accepted.
LEMMA PendingIs ==
  ASSUME PhoneInv, MaxOutstanding < ListSize
  PROVE  Pending = Last(Outstanding, accepted)
  <1> DEFINE n == Len(ToSendQueue)
             w == [i \in 1 .. n |-> toSendList[ToSendQueue[i]]]
  <1>1. /\ n \in Nat /\ accepted \in Nat
        /\ messageThatWasSent = NULL => Outstanding = n
        /\ messageThatWasSent # NULL => Outstanding = n + 1
    BY PhoneIs
  <1>2. w = Last(n, accepted)
    BY PhoneIs DEF WaitingIntact, Last
  <1> HIDE DEF w, n
  <1>3. Pending = (IF messageThatWasSent = NULL THEN <<>>
                   ELSE <<toSendList[messageThatWasSent]>>) \o Last(n, accepted)
    BY <1>2 DEF Pending, w, n
  <1>4. CASE messageThatWasSent = NULL
    <2>1. <<>> \o Last(n, accepted) = Last(n, accepted)
      BY <1>1, LastIs, ConcatEmptySeq
    <2> QED
      BY <1>1, <1>3, <1>4, <2>1
  <1>5. CASE messageThatWasSent # NULL
    <2>1. toSendList[messageThatWasSent] = accepted - n
      BY <1>5, PhoneIs DEF InFlightIntact, n
    <2> QED
      BY <1>1, <1>3, <1>5, <2>1, LastBehind
  <1> QED
    BY <1>4, <1>5

LEMMA PendingFacts ==
  ASSUME PhoneInv, MaxOutstanding < ListSize
  PROVE  /\ Pending = Last(Outstanding, accepted)
         /\ Outstanding \in Nat /\ accepted \in Nat
  BY PendingIs, PhoneIs

\* The messages pending before a step and after it.
LEMMA PendingMoves ==
  ASSUME PhoneInv, PhoneInv', MaxOutstanding < ListSize
  PROVE  /\ Pending = Last(Outstanding, accepted) /\ Pending' = Last(Outstanding', accepted')
         /\ Outstanding \in Nat /\ Outstanding' \in Nat
         /\ accepted \in Nat /\ accepted' \in Nat
  <1>1. /\ Pending = Last(Outstanding, accepted)
        /\ Outstanding \in Nat /\ accepted \in Nat
    BY PendingFacts
  <1>2. (/\ Pending = Last(Outstanding, accepted)
         /\ Outstanding \in Nat /\ accepted \in Nat)'
    BY PendingFacts, PTL
  <1> QED
    BY <1>1, <1>2

\* The oldest of the last messages.
LEMMA OldestIs ==
  ASSUME NEW n \in Nat, NEW a \in Nat, n > 0
  PROVE  Last(n, a) # <<>> /\ Head(Last(n, a)) = a - n + 1
  BY LastIs

LEMMA OutboxAccepts ==
  ASSUME OutboxHypotheses, PhoneInv, PhoneInv', SubmitInv, QueueSlot
  PROVE  \E m \in Messages : OutboxPromise!Accept(m)
  <1>1. /\ Pending = Last(Outstanding, accepted) /\ Pending' = Last(Outstanding', accepted')
        /\ Outstanding \in Nat /\ accepted \in Nat
    BY PendingMoves DEF OutboxHypotheses
  <1>2. /\ accepted' = accepted + 1 /\ Outstanding' = Outstanding + 1
        /\ accepted + 1 \in Messages /\ UNCHANGED received
    <2>1. gpc = "put" /\ accepted < MaxMessages
      BY DEF QueueSlot, GuiStep, PhoneInv, TypeInv, SendInProgress
    <2>2. Len(ToSendQueue) < ListSize /\ ToSendQueue \in Seq(Slots) /\ toSend \in Slots
          /\ Len(ToSendQueue) \in Nat
      BY <2>1, PhoneIs DEF OutboxHypotheses, PhoneInv, TypeInv, SendInProgress
    <2>3. /\ accepted' = accepted + 1 /\ ToSendQueue' = Append(ToSendQueue, toSend)
          /\ UNCHANGED <<messageThatWasSent, received>>
      BY <2>2 DEF QueueSlot, GuiStep, smscVars
    <2>4. Len(ToSendQueue') = Len(ToSendQueue) + 1
      BY <2>2, <2>3, AppendProperties
    <2>5. accepted + 1 \in Messages
      BY <1>1, <2>1, BoundsAssumption DEF Messages
    <2> QED
      BY <2>2, <2>3, <2>4, <2>5 DEF Outstanding
  <1>3. Pending' = Append(Pending, accepted + 1)
    BY <1>1, <1>2, LastAppend
  <1>4. accepted + 1 \notin received
    BY <1>1 DEF SubmitInv, AllAccepted
  <1>5. \A i \in DOMAIN Pending : Pending[i] # accepted + 1
    BY <1>1, LastIs
  <1> QED
    BY <1>2, <1>3, <1>4, <1>5 DEF OutboxPromise!Accept

LEMMA OutboxConfirms ==
  ASSUME OutboxHypotheses, PhoneInv, PhoneInv', SubmitInv,
         NEW r \in Recipients, AckArrives(r)
  PROVE  OutboxPromise!Confirm \/ UNCHANGED <<Pending, received>>
  <1>1. /\ Pending = Last(Outstanding, accepted) /\ Pending' = Last(Outstanding', accepted')
        /\ Outstanding \in Nat /\ accepted \in Nat
    BY PendingMoves DEF OutboxHypotheses
  <1>2. UNCHANGED <<ToSendQueue, accepted, received>>
    BY DEF AckArrives, Interrupt, guiVars
  <1>3. CASE UNCHANGED messageThatWasSent
    BY <1>1, <1>2, <1>3 DEF Outstanding
  <1>4. CASE messageThatWasSent = NULL
    <2>1. UNCHANGED messageThatWasSent
      BY <1>4 DEF AckArrives
    <2> QED
      BY <1>3, <2>1
  <1>5. CASE /\ messageThatWasSent # NULL /\ messageThatWasSent' = NULL
             /\ toSendList[messageThatWasSent] \in received
    <2>1. /\ Outstanding = Len(ToSendQueue) + 1 /\ Len(ToSendQueue) \in Nat
          /\ Outstanding' = Len(ToSendQueue)
      BY <1>2, <1>5, PhoneIs DEF OutboxHypotheses, Outstanding
    <2>2. Outstanding - 1 = Outstanding' /\ Outstanding \in Nat \ {0}
      BY <2>1
    <2>3. Pending' = Tail(Pending)
      BY <1>1, <1>2, <2>2, LastTail
    <2>4. Pending # <<>> /\ Head(Pending) = accepted - Outstanding + 1
      BY <1>1, <2>2, OldestIs
    <2>5. toSendList[messageThatWasSent] = accepted - Len(ToSendQueue)
      BY <1>5, InFlightIsMessage DEF OutboxHypotheses, SubmitInv
    <2>6. Head(Pending) \in received
      BY <1>1, <1>5, <2>1, <2>4, <2>5
    <2> QED
      BY <1>2, <2>3, <2>4, <2>6 DEF OutboxPromise!Confirm
  <1> QED
    BY <1>3, <1>4, <1>5, AckTold

LEMMA OutboxReceives ==
  ASSUME OutboxHypotheses, PhoneInv, PhoneInv', SubmitInv,
         NEW m \in Messages, SubmitReceived(m)
  PROVE  OutboxPromise!Receive \/ UNCHANGED <<Pending, received>>
  <1>1. /\ Pending = Last(Outstanding, accepted) /\ Pending' = Last(Outstanding', accepted')
        /\ Outstanding \in Nat /\ accepted \in Nat
    BY PendingMoves DEF OutboxHypotheses
  <1>2. /\ sendToSMSCbuffer = m /\ received' = received \cup {m}
        /\ UNCHANGED <<ToSendQueue, accepted, messageThatWasSent>>
    BY DEF SubmitReceived, Transmitted, Interrupt, guiVars
  <1>3. UNCHANGED Pending
    BY <1>1, <1>2 DEF Outstanding
  <1>4. CASE m \in received
    BY <1>2, <1>3, <1>4
  <1>5. CASE messageThatWasSent # NULL /\ toSendList[messageThatWasSent] = m
    <2>1. Outstanding = Len(ToSendQueue) + 1 /\ Len(ToSendQueue) \in Nat
      BY <1>5, PhoneIs DEF OutboxHypotheses
    <2>2. Pending # <<>> /\ Head(Pending) = accepted - Outstanding + 1
      BY <1>1, <2>1, OldestIs
    <2>3. m = accepted - Len(ToSendQueue)
      BY <1>5, InFlightIsMessage DEF OutboxHypotheses, SubmitInv
    <2>4. Head(Pending) = m
      BY <1>1, <2>1, <2>2, <2>3
    <2> QED
      BY <1>2, <1>3, <2>2, <2>4 DEF OutboxPromise!Receive
  <1> QED
    BY <1>2, <1>4, <1>5 DEF SubmitInv, BufferKnown, Known

LEMMA OutboxRest ==
  ASSUME OutboxHypotheses, PhoneInv, PhoneInv', SubmitInv, [Next]_vars,
         ~QueueSlot, ~\E r \in Recipients : AckArrives(r),
         ~\E m \in Messages : SubmitReceived(m)
  PROVE  UNCHANGED <<Pending, received>>
  <1>1. /\ Pending = Last(Outstanding, accepted) /\ Pending' = Last(Outstanding', accepted')
        /\ Outstanding \in Nat /\ accepted \in Nat
    BY PendingMoves DEF OutboxHypotheses
  <1>2. UNCHANGED <<Outstanding, accepted, received>>
    <2>1. CASE FillSlot
      BY <2>1 DEF FillSlot, GuiStep, Outstanding, smscVars
    <2>2. CASE TakeNext
      BY <2>2, TakeKeepsOutstanding DEF PhoneInv, TakeNext, NetStep, guiVars, smscVars
    <2>3. CASE LoadSubmit \/ FillSubmit
      BY <2>3 DEF LoadSubmit, FillSubmit, NetStep, Outstanding, guiVars, smscVars
    <2>4. CASE StartSubmit
      BY <2>4
      DEF StartSubmit, TryAgainLater, NetStep, Outstanding, guiVars, smscVars, SubmitInv,
          GarbageIsOver
    <2>5. CASE SubmitRest
      BY <2>5 DEF SubmitRest, Outstanding
    <2>6. ~BadDescriptor /\ TypeInv
      BY DEF BadDescriptor, OutboxHypotheses, PhoneInv
    <2> QED
      BY <2>1, <2>2, <2>3, <2>4, <2>5, <2>6, OthersLeaveSubmit, Zenon
  <1> QED
    BY <1>1, <1>2

\* To different numbers, with a slot left free and a driver that reports no bad
\* descriptor, the client keeps the promise of Outbox: accepted messages reach the SMSC
\* in order and none is forgotten before the SMSC has it, whatever the interrupts do
\* between the steps of sendToSMSC.
THEOREM ClientIsAnOutbox == OutboxHypotheses => (Spec => ImplementsOutbox)
  <1> SUFFICES ASSUME OutboxHypotheses PROVE Spec => ImplementsOutbox
    OBVIOUS
  <1>1. Init => PhoneInv /\ SubmitInv /\ OutboxPromise!Init
    <2> SUFFICES ASSUME Init PROVE PhoneInv /\ SubmitInv /\ OutboxPromise!Init
      OBVIOUS
    <2>1. PhoneInv /\ SubmitInv
      BY TypeInit, SendInvInit, OutstandingInit, SubmitInvInit DEF PhoneInv
    <2>2. messageThatWasSent = NULL /\ Len(ToSendQueue) = 0 /\ received = {}
      BY EmptySeq DEF Init
    <2>3. Outstanding = 0 /\ accepted = 0
      BY <2>2 DEF Outstanding, Init
    <2>4. Pending = Last(0, 0)
      BY <2>1, <2>3, PendingIs DEF OutboxHypotheses
    <2>5. Last(0, 0) = <<>>
      <3>1. Last(0, 0) \in Seq(Int) /\ Len(Last(0, 0)) = 0
        BY LastIs
      <3> QED
        BY <3>1, EmptySeq
    <2> QED
      BY <2>1, <2>2, <2>4, <2>5 DEF OutboxPromise!Init
  <1>2. PhoneInv /\ [Next]_vars => PhoneInv'
    BY TypeStep, SendInvStep, OutstandingStep DEF PhoneInv, OutboxHypotheses
  <1>3. PhoneInv /\ PhoneInv' /\ SubmitInv /\ [Next]_vars => SubmitInv'
    BY SubmitInvStep
  <1>4. PhoneInv /\ PhoneInv' /\ SubmitInv /\ [Next]_vars =>
          [OutboxPromise!Next]_(OutboxPromise!vars)
    BY OutboxAccepts, OutboxConfirms, OutboxReceives, OutboxRest, Zenon
    DEF OutboxPromise!Next, OutboxPromise!vars
  <1> QED
    BY <1>1, <1>2, <1>3, <1>4, PTL DEF Spec, ImplementsOutbox, OutboxPromise!Spec
=============================================================================
