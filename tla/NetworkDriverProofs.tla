-------------------------- MODULE NetworkDriverProofs --------------------------
(***************************************************************************)
(* Proofs about NetworkDriver, for rings of every length and any number of *)
(* packets.                                                                *)
(***************************************************************************)
EXTENDS NetworkDriver, SequenceTheorems, TLAPS

-----------------------------------------------------------------------------
(***************************************************************************)
(* Rings.                                                                  *)
(***************************************************************************)

\* The remainder is zero or one subtraction on the arguments it gets.
LEMMA RemainderOnce ==
  ASSUME NEW n \in Nat \ {0}, NEW a \in 0 .. 2 * n - 1
  PROVE  a % n = IF a < n THEN a ELSE a - n
<1>1. CASE a < n
  BY <1>1, SMT
<1>2. CASE a >= n
  <2>1. a \in n .. 2 * n - 1 /\ a - n \in 0 .. n - 1
    BY <1>2, SMT
  <2>2. a % n = a - n
    BY <2>1, SMT
  <2> QED
    BY <1>2, <2>2, SMT
<1> QED
  BY <1>1, <1>2, SMT

\* The place k behind place s of a ring of n.
Wrapped(s, k, n) == IF s + k < n THEN s + k ELSE s + k - n

\* How far place h is behind place t.
Distance(h, t, n) == IF h >= t THEN h - t ELSE h + n - t

\* The model's remainders.
LEMMA RingRemainders ==
  ASSUME NEW n \in Nat \ {0, 1}, NEW s \in 0 .. n - 1, NEW t \in 0 .. n - 1
  PROVE  /\ (s + 1) % n = Wrapped(s, 1, n)
         /\ (s + n - t) % n = Distance(s, t, n)
         /\ \A k \in 1 .. n : (s + k - 1) % n = Wrapped(s, k - 1, n)
<1>1. ASSUME NEW a \in 0 .. 2 * n - 1
      PROVE  /\ a = s + 1 => a % n = Wrapped(s, 1, n)
             /\ a = s + n - t => a % n = Distance(s, t, n)
             /\ \A k \in 1 .. n : a = s + k - 1 => a % n = Wrapped(s, k - 1, n)
  <2>1. a % n = IF a < n THEN a ELSE a - n
    BY RemainderOnce
  <2> QED
    BY <2>1, SMT DEF Wrapped, Distance
<1>2. /\ s + 1 \in 0 .. 2 * n - 1 /\ s + n - t \in 0 .. 2 * n - 1
      /\ \A k \in 1 .. n : s + k - 1 \in 0 .. 2 * n - 1
  BY SMT
<1> QED
  BY <1>1, <1>2, Zenon

\* What advancing the head or the tail does to a ring.
LEMMA RingMoves ==
  ASSUME NEW n \in Nat \ {0, 1}, NEW h \in 0 .. n - 1, NEW t \in 0 .. n - 1
  PROVE  /\ Wrapped(h, 1, n) \in 0 .. n - 1
         /\ Distance(h, t, n) \in 0 .. n - 1
         /\ Distance(h, t, n) = 0 <=> h = t
         /\ Distance(h, t, n) = n - 1 <=> Wrapped(h, 1, n) = t
         /\ Distance(h, t, n) < n - 1 =>
              Distance(Wrapped(h, 1, n), t, n) = Distance(h, t, n) + 1
         /\ h # t => Distance(h, Wrapped(t, 1, n), n) = Distance(h, t, n) - 1
         /\ Wrapped(t, Distance(h, t, n), n) = h
         /\ Wrapped(t, 0, n) = t
         /\ \A k \in 0 .. n - 1 :
              /\ Wrapped(t, k, n) \in 0 .. n - 1
              /\ k < Distance(h, t, n) => Wrapped(t, k, n) # h
              /\ k < n - 1 => Wrapped(Wrapped(t, 1, n), k, n) = Wrapped(t, k + 1, n)
BY SMT DEF Wrapped, Distance

\* What is appended to a sequence.
LEMMA AppendIs ==
  ASSUME NEW S, NEW q \in Seq(S), NEW e \in S
  PROVE  /\ Append(q, e) \in Seq(S)
         /\ Len(Append(q, e)) = Len(q) + 1 /\ Len(q) \in Nat
         /\ \A k \in 1 .. Len(q) : Append(q, e)[k] = q[k]
         /\ Append(q, e)[Len(q) + 1] = e
OBVIOUS

-----------------------------------------------------------------------------
(***************************************************************************)
(* The invariants.                                                         *)
(***************************************************************************)
\* What NetworkTypeOK rests on: the sender's check still holds when it advances the head,
\* and the routine's copy of a descriptor is of the direction of its cause.
DriverTypes ==
  /\ NetworkTypeOK
  /\ sender # "idle" => sent < MaxSent
  /\ stored <= arrivals
  /\ isr # "out" => cause # "none"
  /\ cause \in TxCauses => descriptor \in 0 .. MaxSent
  /\ cause = "RxComplete" => descriptor \in 0 .. NRXBL - 1
  /\ isr = "ack" => cause \in NSTAT

\* The packets in the transmit ring.
Queued == Distance(NTXFH, NTXFT, NTXBL)

\* The routine is handling the end of a transmission; one waits for it.
TxHandled == isr # "out" /\ cause \in TxCauses
TxRaised == NSTAT \cap TxCauses # {} /\ ~(isr = "ack" /\ cause \in TxCauses)

\* The packets whose descriptors are free again.
Freed == Len(reported) + (IF TxHandled THEN 1 ELSE 0)

\* The ring holds the packets accepted and not yet freed, in order, and what the sender
\* does at the head is behind them.
RingHoldsWaiting ==
  /\ sent = Freed + Queued
  /\ \A k \in 1 .. Queued : NTXBP[Wrapped(NTXFT, k - 1, NTXBL)] = Freed + k
  /\ sender # "idle" => Queued < NTXBL - 1
  /\ sender = "advance" => NTXBP[NTXFH] = sent + 1

\* A transmission that ended is reported, being handled or raised, and there is at most one
\* of the latter two each.
OutcomesReported ==
  /\ Len(outcomes) = Freed + (IF TxRaised THEN 1 ELSE 0)
  /\ \A k \in 1 .. Len(outcomes) : outcomes[k][1] = k
  /\ \A k \in 1 .. Len(reported) : reported[k] = outcomes[k]
  /\ TxHandled => descriptor = Freed /\ outcomes[Freed] = <<descriptor, cause>>
  /\ isr = "ack" /\ cause \in TxCauses => NSTAT \cap TxCauses = {cause}
  /\ TxRaised => Queued > 0 /\ \A c \in NSTAT \cap TxCauses :
                                  outcomes[Len(outcomes)] = <<Len(outcomes), c>>
  /\ transmitting # NoPacket =>
       transmitting = Len(outcomes) + 1 /\ NSTAT \cap TxCauses = {} /\ Queued > 0

\* The routine is handling a received packet; one waits for it.
RxHandled == isr # "out" /\ cause = "RxComplete"
RxRaised == "RxComplete" \in NSTAT /\ ~(isr = "ack" /\ cause = "RxComplete")

\* A packet stored is delivered, in the buffer just behind the tail while it is handled, or
\* in the one at the tail while it waits: the device stores no second one meanwhile.
StoredDelivered ==
  /\ stored = Len(delivered) + (IF RxHandled THEN 1 ELSE 0) + (IF RxRaised THEN 1 ELSE 0)
  /\ \A k \in 1 .. Len(delivered) : delivered[k] = k
  /\ NRXFH = IF RxRaised THEN Wrapped(NRXFT, 1, NRXBL) ELSE NRXFT
  /\ RxRaised => NRXBP[NRXFT] = stored
  /\ RxHandled => /\ NRXBP[descriptor] = Len(delivered) + 1
                  /\ Wrapped(descriptor, 1, NRXBL) = NRXFT
-----------------------------------------------------------------------------
(***************************************************************************)
(* Types.                                                                  *)
(***************************************************************************)
\* The routine handles a cause that was raised.
LEMMA FirstIsRaised ==
  ASSUME NEW causes \in SUBSET (TxCauses \cup RxCauses), causes # {}
  PROVE  First(causes) \in causes
<1> DEFINE Asked(k) == k \in DOMAIN Priority /\ Priority[k] \in causes
<1>1. DOMAIN Priority = 1 .. 6
  BY DEF Priority
<1>2. \E k \in 1 .. 6 : Priority[k] \in causes
  <2>1. /\ Priority[1] = "TxComplete" /\ Priority[2] = "TxNetworkError"
        /\ Priority[3] = "TxBadDescriptor" /\ Priority[4] = "RxComplete"
        /\ Priority[5] = "RxBufferSmall" /\ Priority[6] = "RxBufferFull"
    BY DEF Priority
  <2>2. \A c \in TxCauses \cup RxCauses : \E k \in 1 .. 6 : Priority[k] = c
    BY <2>1 DEF TxCauses, RxCauses
  <2> QED BY <2>2
<1>3. \E k \in 1 .. 6 : Priority[k] \in causes
                        /\ \A j \in 1 .. 6 : Priority[j] \in causes => k <= j
  <2> DEFINE P(k) == Priority[k] \in causes
  <2>1. \E k \in 1 .. 6 : P(k)
    BY <1>2
  <2> HIDE DEF P
  <2>2. \E k \in 1 .. 6 : P(k) /\ \A j \in 1 .. 6 : P(j) => k <= j
    <3>1. CASE P(1)
      BY <3>1
    <3>2. CASE ~P(1) /\ P(2)
      BY <3>2
    <3>3. CASE ~P(1) /\ ~P(2) /\ P(3)
      BY <3>3
    <3>4. CASE ~P(1) /\ ~P(2) /\ ~P(3) /\ P(4)
      BY <3>4
    <3>5. CASE ~P(1) /\ ~P(2) /\ ~P(3) /\ ~P(4)
      BY <2>1, <3>5
    <3> QED BY <3>1, <3>2, <3>3, <3>4, <3>5
  <2> QED BY <2>2 DEF P
<1> QED BY <1>1, <1>3, Zenon DEF First

LEMMA TypesInit == NetworkInit => DriverTypes
<1>1. /\ <<>> \in Seq((0 .. MaxSent) \X TxCauses) /\ <<>> \in Seq(0 .. MaxArrivals)
  OBVIOUS
<1>2. /\ 0 \in 0 .. NTXBL - 1 /\ 0 \in 0 .. NRXBL - 1 /\ 0 \in 0 .. MaxSent
      /\ 0 \in 0 .. MaxArrivals /\ 0 <= 0
  BY RingsAssumption
<1>3. "none" \notin TxCauses
  BY DEF TxCauses
<1> QED
  BY <1>1, <1>2, <1>3, Zenon DEF NetworkInit, DriverTypes, NetworkTypeOK, NoPacket

\* The places behind the heads and the tails.
LEMMA NextPlaces ==
  ASSUME NetworkTypeOK
  PROVE  /\ (NTXFH + 1) % NTXBL = Wrapped(NTXFH, 1, NTXBL)
         /\ (NTXFT + 1) % NTXBL = Wrapped(NTXFT, 1, NTXBL)
         /\ (NRXFH + 1) % NRXBL = Wrapped(NRXFH, 1, NRXBL)
         /\ (NRXFT + 1) % NRXBL = Wrapped(NRXFT, 1, NRXBL)
         /\ Wrapped(NTXFH, 1, NTXBL) \in 0 .. NTXBL - 1
         /\ Wrapped(NTXFT, 1, NTXBL) \in 0 .. NTXBL - 1
         /\ Wrapped(NRXFH, 1, NRXBL) \in 0 .. NRXBL - 1
         /\ Wrapped(NRXFT, 1, NRXBL) \in 0 .. NRXBL - 1
<1>1. /\ NTXBL \in Nat \ {0, 1} /\ NRXBL \in Nat \ {0, 1}
      /\ NTXFH \in 0 .. NTXBL - 1 /\ NTXFT \in 0 .. NTXBL - 1
      /\ NRXFH \in 0 .. NRXBL - 1 /\ NRXFT \in 0 .. NRXBL - 1
  BY RingsAssumption DEF NetworkTypeOK
<1>2. /\ (NTXFH + 1) % NTXBL = Wrapped(NTXFH, 1, NTXBL)
      /\ (NTXFT + 1) % NTXBL = Wrapped(NTXFT, 1, NTXBL)
      /\ (NRXFH + 1) % NRXBL = Wrapped(NRXFH, 1, NRXBL)
      /\ (NRXFT + 1) % NRXBL = Wrapped(NRXFT, 1, NRXBL)
  BY <1>1, RingRemainders, Zenon
<1>3. /\ Wrapped(NTXFH, 1, NTXBL) \in 0 .. NTXBL - 1
      /\ Wrapped(NTXFT, 1, NTXBL) \in 0 .. NTXBL - 1
      /\ Wrapped(NRXFH, 1, NRXBL) \in 0 .. NRXBL - 1
      /\ Wrapped(NRXFT, 1, NRXBL) \in 0 .. NRXBL - 1
  BY <1>1, SMT DEF Wrapped
<1> QED BY <1>2, <1>3

\* What the routine does when it enters, by the kind of its cause.
LEMMA IsrEntersHow ==
  ASSUME NetworkTypeOK, IsrEnters
  PROVE  /\ cause' \in NSTAT /\ cause' # "none"
         /\ \/ /\ cause' \in TxCauses /\ cause' # "RxComplete"
               /\ descriptor' = NTXBP[NTXFT]
               /\ NTXFT' = Wrapped(NTXFT, 1, NTXBL) /\ UNCHANGED NRXFT
            \/ /\ cause' \notin TxCauses /\ cause' = "RxComplete"
               /\ descriptor' = NRXFT
               /\ NRXFT' = Wrapped(NRXFT, 1, NRXBL) /\ UNCHANGED NTXFT
            \/ /\ cause' \notin TxCauses /\ cause' # "RxComplete"
               /\ UNCHANGED <<descriptor, NTXFT, NRXFT>>
<1>1. cause' \in NSTAT
  BY FirstIsRaised DEF IsrEnters, NetworkTypeOK
<1>2. /\ cause' # "none"
      /\ cause' \in TxCauses => cause' # "RxComplete"
      /\ cause' = "RxComplete" => cause' \notin TxCauses
      /\ cause' \in {"RxBufferSmall", "RxBufferFull"} =>
           cause' \notin TxCauses /\ cause' # "RxComplete"
  BY <1>1 DEF NetworkTypeOK, TxCauses, RxCauses
<1> QED
  BY <1>1, <1>2, NextPlaces, Zenon DEF IsrEnters

LEMMA TypesStep == DriverTypes /\ [NetworkNext]_networkVars => DriverTypes'
<1> SUFFICES ASSUME DriverTypes, [NetworkNext]_networkVars PROVE DriverTypes'
  OBVIOUS
<1> USE DEF DriverTypes, NetworkTypeOK
<1>a. /\ NTXBL \in Nat \ {0, 1} /\ NRXBL \in Nat \ {0, 1}
      /\ MaxSent \in Nat /\ MaxArrivals \in Nat
  BY RingsAssumption
<1>1. CASE SendInvalid
  BY <1>1 DEF SendInvalid, SenderStep, deviceVars, receiveVars, isrVars
<1>2. CASE SendRefused
  BY <1>2 DEF SendRefused, SenderStep, deviceVars, receiveVars, isrVars
<1>3. CASE SendChecked
  <2>1. sender' \in {"idle", "fill", "advance"} /\ sent' < MaxSent
    BY <1>3 DEF SendChecked, SenderStep
  <2> QED
    BY <1>3, <2>1, Zenon DEF SendChecked, SenderStep, deviceVars, receiveVars, isrVars
<1>4. CASE FillDescriptor
  <2>1. NTXBP' \in [0 .. NTXBL - 1 -> 0 .. MaxSent]
    BY <1>a, <1>4 DEF FillDescriptor, SenderStep
  <2> QED
    BY <2>1, <1>4, Zenon DEF FillDescriptor, SenderStep, deviceVars, receiveVars, isrVars
<1>5. CASE AdvanceHead
  <2>1. sent' \in 0 .. MaxSent
    BY <1>a, <1>5 DEF AdvanceHead, SenderStep
  <2>2. NTXFH' \in 0 .. NTXBL - 1
    BY NextPlaces, <1>5, Zenon DEF AdvanceHead
  <2> QED
    BY <2>1, <2>2, <1>5, Zenon DEF AdvanceHead, SenderStep, deviceVars, receiveVars, isrVars
<1>6. CASE IsrEnters
  <2>1. /\ NTXFT' \in 0 .. NTXBL - 1 /\ NRXFT' \in 0 .. NRXBL - 1
        /\ cause' \in NSTAT /\ cause' # "none"
        /\ descriptor' \in 0 .. MaxSent \cup 0 .. NRXBL - 1
        /\ cause' \in TxCauses => descriptor' \in 0 .. MaxSent
        /\ cause' = "RxComplete" => descriptor' \in 0 .. NRXBL - 1
    <3>1. NTXBP[NTXFT] \in 0 .. MaxSent
      OBVIOUS
    <3> QED BY <1>6, <3>1, NextPlaces, IsrEntersHow, Zenon
  <2>2. cause' \in TxCauses \cup RxCauses
    BY <2>1
  <2> QED
    BY <1>6, <2>1, <2>2, Zenon DEF IsrEnters, IsrStep, senderVars, deviceVars, receiveVars
<1>7. CASE IsrAcknowledges
  BY <1>7 DEF IsrAcknowledges, IsrStep, senderVars, deviceVars, receiveVars
<1>8. CASE IsrCallsBack
  <2>1. reported' \in Seq((0 .. MaxSent) \X TxCauses)
    BY <1>8, AppendIs DEF IsrCallsBack, IsrStep
  <2>2. delivered' \in Seq(0 .. MaxArrivals)
    BY <1>8, AppendIs DEF IsrCallsBack, IsrStep
  <2>3. /\ 0 \in 0 .. MaxSent /\ "none" \notin TxCauses
    BY <1>a DEF TxCauses
  <2> QED
    BY <1>8, <2>1, <2>2, <2>3, Zenon
    DEF IsrCallsBack, IsrStep, senderVars, deviceVars, receiveVars, NoPacket
<1>9. CASE DeviceTransmits
  BY <1>a, <1>9 DEF DeviceTransmits, senderVars, isrVars, receiveVars
<1>10. CASE DeviceTransmitted
  <2>1. PICK c \in TxCauses : NSTAT' = NSTAT \cup {c} /\ outcomes' = Append(outcomes, <<transmitting, c>>)
    BY <1>10 DEF DeviceTransmitted
  <2>2. outcomes' \in Seq((0 .. MaxSent) \X TxCauses)
    BY <2>1, AppendIs
  <2>3. 0 \in 0 .. MaxSent
    BY <1>a
  <2> QED
    BY <1>10, <2>1, <2>2, <2>3, Zenon
    DEF DeviceTransmitted, senderVars, isrVars, receiveVars, NoPacket
<1>11. CASE PacketStored
  <2>1. stored' \in 0 .. MaxArrivals /\ arrivals' \in 0 .. MaxArrivals /\ stored' <= arrivals'
    BY <1>a, <1>11 DEF PacketStored, PacketArrives
  <2>2. NRXFH' \in 0 .. NRXBL - 1
    BY NextPlaces, <1>11, Zenon DEF PacketStored
  <2>3. NRXBP' \in [0 .. NRXBL - 1 -> 0 .. MaxArrivals]
    BY <1>11, <2>1 DEF PacketStored
  <2>4. NSTAT' \subseteq TxCauses \cup RxCauses /\ NSTAT \subseteq NSTAT'
    BY <1>11 DEF PacketStored, RxCauses
  <2> QED
    BY <1>11, <2>1, <2>2, <2>3, <2>4, Zenon
    DEF PacketStored, PacketArrives, senderVars, isrVars
<1>12. CASE PacketDropped
  <2>1. stored' \in 0 .. MaxArrivals /\ arrivals' \in 0 .. MaxArrivals /\ stored' <= arrivals'
    BY <1>a, <1>12 DEF PacketDropped, PacketArrives
  <2>2. NSTAT' \subseteq TxCauses \cup RxCauses /\ NSTAT \subseteq NSTAT'
    BY <1>12 DEF PacketDropped, RxCauses
  <2> QED
    BY <1>12, <2>1, <2>2, Zenon DEF PacketDropped, PacketArrives, senderVars, isrVars
<1>13. CASE UNCHANGED networkVars
  BY <1>13, Zenon DEF networkVars, senderVars, deviceVars, isrVars, receiveVars
<1> QED
  BY <1>1, <1>2, <1>3, <1>4, <1>5, <1>6, <1>7, <1>8, <1>9, <1>10, <1>11, <1>12, <1>13
  DEF NetworkNext, Sender, network_ISR, NetworkDevice

THEOREM NetworkTypeCorrect == NetworkSpec => []DriverTypes
BY TypesInit, TypesStep, PTL DEF NetworkSpec
-----------------------------------------------------------------------------
(***************************************************************************)
(* Sending.                                                                *)
(***************************************************************************)
TransmitInv == RingHoldsWaiting /\ OutcomesReported

LEMMA TransmitInit == NetworkInit => TransmitInv
<1> SUFFICES ASSUME NetworkInit PROVE TransmitInv
  OBVIOUS
<1>1. /\ NTXBL \in Nat \ {0, 1} /\ NTXFH = 0 /\ NTXFT = 0 /\ sender = "idle" /\ isr = "out"
      /\ NSTAT = {} /\ transmitting = NoPacket /\ sent = 0
      /\ Len(outcomes) = 0 /\ Len(reported) = 0
  BY RingsAssumption, EmptySeq DEF NetworkInit
<1>2. ~TxHandled /\ ~TxRaised /\ Freed = 0
  BY <1>1 DEF TxHandled, TxRaised, Freed
<1>3. Queued = 0
  BY <1>1 DEF Queued, Distance
<1>4. RingHoldsWaiting
  BY <1>1, <1>2, <1>3 DEF RingHoldsWaiting
<1>5. OutcomesReported
  BY <1>1, <1>2, <1>3 DEF OutcomesReported
<1> QED
  BY <1>4, <1>5 DEF TransmitInv

\* Where the transmit ring ends and what it holds.
LEMMA TransmitRing ==
  ASSUME DriverTypes
  PROVE  /\ NTXBL \in Nat \ {0, 1} /\ NTXFH \in 0 .. NTXBL - 1 /\ NTXFT \in 0 .. NTXBL - 1
         /\ Queued \in 0 .. NTXBL - 1 /\ (Queued = 0 <=> NTXFH = NTXFT)
         /\ TransmitRingFull <=> Queued = NTXBL - 1
         /\ Len(reported) \in Nat /\ Len(outcomes) \in Nat /\ Freed \in Nat /\ sent \in Nat
<1>1. /\ NTXBL \in Nat \ {0, 1} /\ NTXFH \in 0 .. NTXBL - 1 /\ NTXFT \in 0 .. NTXBL - 1
      /\ sent \in 0 .. MaxSent /\ MaxSent \in Nat
      /\ (NTXFH + 1) % NTXBL = Wrapped(NTXFH, 1, NTXBL)
  BY RingsAssumption, NextPlaces DEF DriverTypes, NetworkTypeOK
<1>2. /\ Queued \in 0 .. NTXBL - 1 /\ (Queued = 0 <=> NTXFH = NTXFT)
      /\ Queued = NTXBL - 1 <=> Wrapped(NTXFH, 1, NTXBL) = NTXFT
  BY <1>1, SMT DEF Queued, Distance, Wrapped
<1>3. Len(reported) \in Nat /\ Len(outcomes) \in Nat
  BY DEF DriverTypes, NetworkTypeOK
<1>4. Freed \in Nat /\ sent \in Nat
  BY <1>1, <1>3 DEF Freed
<1> QED
  BY <1>1, <1>2, <1>3, <1>4 DEF TransmitRingFull

\* What moving the ends does to the ring.
LEMMA TransmitPlaces ==
  ASSUME DriverTypes
  PROVE  /\ Wrapped(NTXFT, 0, NTXBL) = NTXFT /\ Wrapped(NTXFT, Queued, NTXBL) = NTXFH
         /\ \A k \in 1 .. Queued : /\ Wrapped(NTXFT, k - 1, NTXBL) \in 0 .. NTXBL - 1
                                   /\ Wrapped(NTXFT, k - 1, NTXBL) # NTXFH
         /\ Queued < NTXBL - 1 =>
              Distance(Wrapped(NTXFH, 1, NTXBL), NTXFT, NTXBL) = Queued + 1
         /\ Queued > 0 =>
              /\ Distance(NTXFH, Wrapped(NTXFT, 1, NTXBL), NTXBL) = Queued - 1
              /\ \A k \in 1 .. Queued - 1 :
                   Wrapped(Wrapped(NTXFT, 1, NTXBL), k - 1, NTXBL)
                     = Wrapped(NTXFT, (k + 1) - 1, NTXBL)
<1>1. /\ NTXBL \in Nat \ {0, 1} /\ NTXFH \in 0 .. NTXBL - 1 /\ NTXFT \in 0 .. NTXBL - 1
  BY TransmitRing
<1> QED
  BY <1>1, SMT DEF Queued, Distance, Wrapped

\* A step that neither sends nor ends a transmission, nor reports one.
LEMMA TransmitRest ==
  ASSUME DriverTypes, TransmitInv,
         UNCHANGED <<NTXFH, NTXFT, NTXBP, sent, reported, outcomes>>,
         sender' # "idle" => sender' = sender,
         NSTAT' \cap TxCauses = NSTAT \cap TxCauses,
         UNCHANGED transmitting,
         \/ UNCHANGED <<isr, cause, descriptor>>
         \/ cause \notin TxCauses /\ cause' \notin TxCauses
         \/ isr = "out" /\ cause' \notin TxCauses
         \/ cause \notin TxCauses /\ isr' = "out"
  PROVE  TransmitInv'
<1>1. TxHandled' = TxHandled /\ (TxHandled => UNCHANGED <<descriptor, cause>>)
      /\ (isr' = "ack" /\ cause' \in TxCauses <=> isr = "ack" /\ cause \in TxCauses)
  BY DEF TxHandled
<1>2. TxRaised' = TxRaised
  BY <1>1 DEF TxRaised
<1>3. Freed' = Freed /\ Queued' = Queued
  BY <1>1 DEF Freed, Queued
<1>4. RingHoldsWaiting'
  BY <1>3 DEF TransmitInv, RingHoldsWaiting
<1>5. OutcomesReported'
  BY <1>1, <1>2, <1>3 DEF TransmitInv, OutcomesReported
<1> QED
  BY <1>4, <1>5 DEF TransmitInv

\* The sender's steps.
LEMMA SenderFills ==
  ASSUME DriverTypes, TransmitInv, FillDescriptor
  PROVE  TransmitInv'
<1>1. /\ UNCHANGED <<Queued, Freed, TxHandled, TxRaised>> /\ sender' = "advance"
      /\ NTXFT' = NTXFT /\ NTXFH' = NTXFH /\ sent' = sent /\ sender # "idle"
      /\ UNCHANGED <<transmitting, outcomes, reported, descriptor, cause, isr, NSTAT>>
  BY DEF FillDescriptor, SenderStep, deviceVars, isrVars, Queued, Freed, TxHandled, TxRaised
<1>2. NTXBP' = [NTXBP EXCEPT ![NTXFH] = sent + 1] /\ NTXBP \in [0 .. NTXBL - 1 -> 0 .. MaxSent]
  BY DEF FillDescriptor, DriverTypes, NetworkTypeOK
<1>3. NTXBP'[NTXFH] = sent + 1
  BY <1>2, TransmitRing
<1>4. \A k \in 1 .. Queued : NTXBP'[Wrapped(NTXFT, k - 1, NTXBL)] = Freed + k
  <2>1. \A k \in 1 .. Queued : /\ Wrapped(NTXFT, k - 1, NTXBL) \in 0 .. NTXBL - 1
                               /\ Wrapped(NTXFT, k - 1, NTXBL) # NTXFH
    BY TransmitPlaces
  <2> QED BY <1>2, <2>1 DEF TransmitInv, RingHoldsWaiting
<1>5. RingHoldsWaiting'
  BY <1>1, <1>3, <1>4 DEF TransmitInv, RingHoldsWaiting
<1>6. OutcomesReported'
  BY <1>1 DEF TransmitInv, OutcomesReported
<1> QED BY <1>5, <1>6 DEF TransmitInv

LEMMA SenderAdvances ==
  ASSUME DriverTypes, TransmitInv, AdvanceHead
  PROVE  TransmitInv'
<1>1. /\ UNCHANGED <<Freed, TxHandled, TxRaised>> /\ sender' = "idle" /\ sender = "advance"
      /\ NTXFT' = NTXFT /\ NTXBP' = NTXBP /\ sent' = sent + 1
      /\ NTXFH' = Wrapped(NTXFH, 1, NTXBL)
      /\ UNCHANGED <<transmitting, outcomes, reported, descriptor, cause, isr, NSTAT>>
  BY NextPlaces
  DEF AdvanceHead, SenderStep, deviceVars, isrVars, Freed, TxHandled, TxRaised, DriverTypes
<1>2. Queued < NTXBL - 1
  BY <1>1 DEF TransmitInv, RingHoldsWaiting
<1>3. Queued' = Queued + 1 /\ Wrapped(NTXFT, Queued, NTXBL) = NTXFH
  <2>1. Queued' = Distance(NTXFH', NTXFT', NTXBL)
    BY DEF Queued
  <2> QED BY <1>1, <1>2, <2>1, TransmitPlaces, Zenon
<1>4. RingHoldsWaiting'
  <2>1. sent' = Freed' + Queued'
    BY <1>1, <1>3, TransmitRing DEF TransmitInv, RingHoldsWaiting
  <2>2. \A k \in 1 .. Queued + 1 : NTXBP[Wrapped(NTXFT, k - 1, NTXBL)] = Freed + k
    <3>1. \A k \in 1 .. Queued : NTXBP[Wrapped(NTXFT, k - 1, NTXBL)] = Freed + k
      BY DEF TransmitInv, RingHoldsWaiting
    <3>2. NTXBP[Wrapped(NTXFT, Queued, NTXBL)] = Freed + (Queued + 1)
      BY <1>1, <1>3, TransmitRing DEF TransmitInv, RingHoldsWaiting
    <3>3. \A k \in 1 .. Queued + 1 : k \in 1 .. Queued \/ k = Queued + 1
      BY TransmitRing
    <3>4. (Queued + 1) - 1 = Queued
      BY TransmitRing
    <3> QED BY <3>1, <3>2, <3>3, <3>4, Zenon
  <2> QED BY <1>1, <1>3, <2>1, <2>2 DEF RingHoldsWaiting
<1>5. OutcomesReported'
  <2>1. Queued' > 0
    BY <1>3, TransmitRing
  <2> QED BY <1>1, <2>1, Zenon DEF TransmitInv, OutcomesReported
<1> QED BY <1>4, <1>5 DEF TransmitInv

\* The steps of the interrupt routine.
LEMMA RoutineFrees ==
  ASSUME DriverTypes, TransmitInv, IsrEnters, cause' \in TxCauses
  PROVE  TransmitInv'
<1>1. /\ cause' \in NSTAT /\ descriptor' = NTXBP[NTXFT] /\ NTXFT' = Wrapped(NTXFT, 1, NTXBL)
      /\ isr = "out" /\ isr' = "ack"
      /\ UNCHANGED <<sender, NTXFH, NTXBP, sent, transmitting, outcomes, reported, NSTAT>>
  BY IsrEntersHow
  DEF IsrEnters, IsrStep, senderVars, deviceVars, DriverTypes
<1>2. ~TxHandled /\ TxRaised /\ TxHandled' /\ ~TxRaised'
  BY <1>1 DEF TxHandled, TxRaised
<1>3. Freed' = Freed + 1 /\ Len(outcomes) = Freed + 1 /\ Queued > 0
  BY <1>1, <1>2, TransmitRing DEF Freed, TransmitInv, OutcomesReported
<1>4. /\ Queued' = Queued - 1 /\ Wrapped(NTXFT, 0, NTXBL) = NTXFT
      /\ \A k \in 1 .. Queued - 1 :
           Wrapped(Wrapped(NTXFT, 1, NTXBL), k - 1, NTXBL) = Wrapped(NTXFT, (k + 1) - 1, NTXBL)
  <2>1. Queued' = Distance(NTXFH', NTXFT', NTXBL)
    BY DEF Queued
  <2> QED BY <1>1, <1>3, <2>1, TransmitPlaces, Zenon
<1>5. \A k \in 1 .. Queued : NTXBP[Wrapped(NTXFT, k - 1, NTXBL)] = Freed + k
  BY DEF TransmitInv, RingHoldsWaiting
<1>6. NTXBP[NTXFT] = Freed + 1
  <2>1. 1 \in 1 .. Queued /\ 1 - 1 = 0
    BY <1>3, TransmitRing
  <2> QED BY <1>4, <1>5, <2>1
<1>7. RingHoldsWaiting'
  <2>1. sent' = Freed' + Queued'
    BY <1>1, <1>3, <1>4, TransmitRing DEF TransmitInv, RingHoldsWaiting
  <2>2. ASSUME NEW k \in 1 .. Queued - 1
        PROVE  NTXBP[Wrapped(Wrapped(NTXFT, 1, NTXBL), k - 1, NTXBL)] = (Freed + 1) + k
    <3>1. k + 1 \in 1 .. Queued /\ Freed + (k + 1) = (Freed + 1) + k
      BY TransmitRing
    <3>2. NTXBP[Wrapped(NTXFT, (k + 1) - 1, NTXBL)] = Freed + (k + 1)
      BY <1>5, <3>1
    <3> QED BY <1>4, <3>1, <3>2
  <2>3. sender' # "idle" => Queued' < NTXBL - 1
    BY <1>1, <1>4, TransmitRing DEF TransmitInv, RingHoldsWaiting
  <2>4. sender' = "advance" => NTXBP'[NTXFH'] = sent' + 1
    BY <1>1 DEF TransmitInv, RingHoldsWaiting
  <2> QED BY <1>1, <1>3, <1>4, <2>1, <2>2, <2>3, <2>4, Zenon DEF RingHoldsWaiting
<1>8. OutcomesReported'
  <2>1. \A c \in NSTAT \cap TxCauses : outcomes[Freed + 1] = <<Freed + 1, c>>
    BY <1>2, <1>3 DEF TransmitInv, OutcomesReported
  <2>2. NSTAT \cap TxCauses = {cause'} /\ outcomes[Freed + 1] = <<descriptor', cause'>>
    BY <1>1, <1>6, <2>1
  <2>3. transmitting = NoPacket
    BY <2>2 DEF TransmitInv, OutcomesReported
  <2> QED
    BY <1>1, <1>2, <1>3, <1>6, <2>2, <2>3, TransmitRing DEF TransmitInv, OutcomesReported
<1> QED BY <1>7, <1>8 DEF TransmitInv

LEMMA RoutineAcknowledges ==
  ASSUME DriverTypes, TransmitInv, IsrAcknowledges, cause \in TxCauses
  PROVE  TransmitInv'
<1>1. /\ isr = "ack" /\ isr' = "call" /\ NSTAT' = NSTAT \ {cause}
      /\ UNCHANGED <<sender, NTXFH, NTXFT, NTXBP, sent, transmitting, outcomes, reported,
                     cause, descriptor>>
  BY DEF IsrAcknowledges, IsrStep, senderVars, deviceVars
<1>2. NSTAT' \cap TxCauses = {}
  BY <1>1 DEF TransmitInv, OutcomesReported
<1>3. TxHandled /\ ~TxRaised /\ TxHandled' /\ ~TxRaised'
  BY <1>1, <1>2 DEF TxHandled, TxRaised
<1>4. Freed' = Freed /\ Queued' = Queued
  BY <1>1, <1>3 DEF Freed, Queued
<1>5. RingHoldsWaiting'
  BY <1>1, <1>4 DEF TransmitInv, RingHoldsWaiting
<1>6. OutcomesReported'
  BY <1>1, <1>2, <1>3, <1>4 DEF TransmitInv, OutcomesReported
<1> QED BY <1>5, <1>6 DEF TransmitInv

LEMMA RoutineReports ==
  ASSUME DriverTypes, TransmitInv, IsrCallsBack, cause \in TxCauses
  PROVE  TransmitInv'
<1>1. /\ isr = "call" /\ isr' = "out" /\ cause' = "none"
      /\ reported' = Append(reported, <<descriptor, cause>>)
      /\ UNCHANGED <<sender, NTXFH, NTXFT, NTXBP, sent, transmitting, outcomes, NSTAT>>
  BY DEF IsrCallsBack, IsrStep, senderVars, deviceVars
<1>2. TxHandled /\ ~TxHandled' /\ TxRaised' = TxRaised
  BY <1>1 DEF TxHandled, TxRaised
<1>3. /\ reported \in Seq((0 .. MaxSent) \X TxCauses)
      /\ <<descriptor, cause>> \in (0 .. MaxSent) \X TxCauses
  BY DEF DriverTypes, NetworkTypeOK
<1>4. /\ Len(reported') = Len(reported) + 1
      /\ \A k \in 1 .. Len(reported) : reported'[k] = reported[k]
      /\ reported'[Len(reported) + 1] = <<descriptor, cause>>
  BY <1>1, <1>3, AppendIs
<1>5. Freed' = Freed /\ Queued' = Queued /\ Freed = Len(reported) + 1
  BY <1>1, <1>2, <1>4, TransmitRing DEF Freed, Queued
<1>6. RingHoldsWaiting'
  BY <1>1, <1>5 DEF TransmitInv, RingHoldsWaiting
<1>7. \A k \in 1 .. Len(reported') : reported'[k] = outcomes[k]
  BY <1>2, <1>4, <1>5, TransmitRing DEF TransmitInv, OutcomesReported
<1>8. "none" \notin TxCauses
  BY DEF TxCauses
<1>9. OutcomesReported'
  BY <1>1, <1>2, <1>5, <1>7, <1>8 DEF TransmitInv, OutcomesReported
<1> QED BY <1>6, <1>9 DEF TransmitInv

\* The steps of the device.
LEMMA DeviceTakes ==
  ASSUME DriverTypes, TransmitInv, DeviceTransmits
  PROVE  TransmitInv'
<1>1. /\ NSTAT \cap TxCauses = {} /\ NTXFT # NTXFH /\ transmitting' = NTXBP[NTXFT]
      /\ UNCHANGED <<sender, NTXFH, NTXFT, NTXBP, sent, outcomes, reported, NSTAT,
                     isr, cause, descriptor>>
  BY DEF DeviceTransmits, senderVars, isrVars
<1>2. /\ UNCHANGED <<TxHandled, TxRaised, Freed, Queued>> /\ ~TxRaised
  BY <1>1 DEF TxHandled, TxRaised, Freed, Queued
<1>3. Queued > 0 /\ 1 \in 1 .. Queued /\ Wrapped(NTXFT, 1 - 1, NTXBL) = NTXFT
  BY <1>1, TransmitRing, SMT DEF Wrapped
<1>4. NTXBP[NTXFT] = Freed + 1 /\ Len(outcomes) = Freed
  BY <1>2, <1>3, TransmitRing DEF TransmitInv, RingHoldsWaiting, OutcomesReported
<1>5. RingHoldsWaiting'
  BY <1>1, <1>2 DEF TransmitInv, RingHoldsWaiting
<1>6. OutcomesReported'
  BY <1>1, <1>2, <1>3, <1>4 DEF TransmitInv, OutcomesReported
<1> QED BY <1>5, <1>6 DEF TransmitInv

LEMMA DeviceEnds ==
  ASSUME DriverTypes, TransmitInv, DeviceTransmitted
  PROVE  TransmitInv'
<1>1. PICK c \in TxCauses :
        /\ NSTAT' = NSTAT \cup {c} /\ outcomes' = Append(outcomes, <<transmitting, c>>)
        /\ transmitting # NoPacket /\ transmitting' = NoPacket
        /\ UNCHANGED <<sender, NTXFH, NTXFT, NTXBP, sent, reported, isr, cause, descriptor>>
  BY DEF DeviceTransmitted, senderVars, isrVars
<1>2. transmitting = Len(outcomes) + 1 /\ NSTAT \cap TxCauses = {} /\ Queued > 0
  BY <1>1 DEF TransmitInv, OutcomesReported
<1>3. /\ UNCHANGED <<TxHandled, Freed, Queued>>
      /\ NSTAT' \cap TxCauses = {c} /\ ~(isr = "ack" /\ cause \in TxCauses)
  BY <1>1, <1>2 DEF TxHandled, Freed, Queued, DriverTypes
<1>4. ~TxRaised /\ TxRaised'
  BY <1>1, <1>2, <1>3 DEF TxRaised
<1>5. /\ outcomes \in Seq((0 .. MaxSent) \X TxCauses)
      /\ <<transmitting, c>> \in (0 .. MaxSent) \X TxCauses
  BY DEF DriverTypes, NetworkTypeOK
<1>6. /\ Len(outcomes') = Len(outcomes) + 1
      /\ \A k \in 1 .. Len(outcomes) : outcomes'[k] = outcomes[k]
      /\ outcomes'[Len(outcomes) + 1] = <<Len(outcomes) + 1, c>>
  BY <1>1, <1>2, <1>5, AppendIs
<1>7. Len(outcomes) = Freed /\ Len(reported) <= Freed /\ (TxHandled => Freed > 0)
  BY <1>4, TransmitRing DEF TransmitInv, OutcomesReported, Freed
<1>8. RingHoldsWaiting'
  BY <1>1, <1>3 DEF TransmitInv, RingHoldsWaiting
<1>9. OutcomesReported'
  <2>1. \A k \in 1 .. Len(outcomes') : outcomes'[k][1] = k
    <3>1. \A k \in 1 .. Len(outcomes) : outcomes'[k][1] = k
      BY <1>6 DEF TransmitInv, OutcomesReported
    <3>2. outcomes'[Len(outcomes) + 1][1] = Len(outcomes) + 1
      BY <1>6
    <3>3. \A k \in 1 .. Len(outcomes) + 1 : k \in 1 .. Len(outcomes) \/ k = Len(outcomes) + 1
      BY TransmitRing
    <3> QED BY <1>6, <3>1, <3>2, <3>3, Zenon
  <2>2. \A k \in 1 .. Len(reported) : reported[k] = outcomes'[k]
    BY <1>6, <1>7, TransmitRing DEF TransmitInv, OutcomesReported
  <2>3. TxHandled => descriptor = Freed /\ outcomes'[Freed] = <<descriptor, cause>>
    BY <1>6, <1>7, TransmitRing DEF TransmitInv, OutcomesReported
  <2>4. \A d \in NSTAT' \cap TxCauses : outcomes'[Len(outcomes')] = <<Len(outcomes'), d>>
    BY <1>3, <1>6
  <2> QED
    BY <1>1, <1>2, <1>3, <1>4, <1>6, <1>7, <2>1, <2>2, <2>3, <2>4 DEF OutcomesReported
<1> QED BY <1>8, <1>9 DEF TransmitInv

LEMMA TransmitStep == DriverTypes /\ TransmitInv /\ [NetworkNext]_networkVars => TransmitInv'
<1> SUFFICES ASSUME DriverTypes, TransmitInv, [NetworkNext]_networkVars
             PROVE  TransmitInv'
  OBVIOUS
<1>1. CASE SendInvalid \/ SendRefused \/ UNCHANGED networkVars
  BY <1>1, TransmitRest
  DEF SendInvalid, SendRefused, SenderStep, networkVars, senderVars, deviceVars, isrVars, receiveVars
<1>2. CASE SendChecked
  <2>1. ~TransmitRingFull /\ sender' = "fill"
        /\ UNCHANGED <<NTXFH, NTXFT, NTXBP, sent, transmitting, outcomes, reported, descriptor,
                       cause, isr, NSTAT>>
    BY <1>2 DEF SendChecked, SenderStep, deviceVars, isrVars
  <2>2. Queued < NTXBL - 1 /\ UNCHANGED <<Queued, Freed, TxHandled, TxRaised>>
    <3>1. Queued < NTXBL - 1
      BY <2>1, TransmitRing
    <3> QED BY <2>1, <3>1 DEF Queued, Freed, TxHandled, TxRaised
  <2>3. RingHoldsWaiting'
    BY <2>1, <2>2 DEF TransmitInv, RingHoldsWaiting
  <2>4. OutcomesReported'
    BY <2>1, <2>2 DEF TransmitInv, OutcomesReported
  <2> QED BY <2>3, <2>4 DEF TransmitInv
<1>3. CASE FillDescriptor
  BY <1>3, SenderFills
<1>4. CASE AdvanceHead
  BY <1>4, SenderAdvances
<1>5. CASE IsrEnters
  <2>1. CASE cause' \in TxCauses
    BY <1>5, <2>1, RoutineFrees
  <2>2. CASE cause' \notin TxCauses
    <3>1. NTXFT' = NTXFT
      BY <1>5, <2>2, IsrEntersHow DEF DriverTypes
    <3> QED
      BY <1>5, <2>2, <3>1, TransmitRest DEF IsrEnters, IsrStep, senderVars, deviceVars
  <2> QED BY <2>1, <2>2
<1>6. CASE IsrAcknowledges
  <2>1. CASE cause \in TxCauses
    BY <1>6, <2>1, RoutineAcknowledges
  <2>2. CASE cause \notin TxCauses
    BY <1>6, <2>2, TransmitRest DEF IsrAcknowledges, IsrStep, senderVars, deviceVars
  <2> QED BY <2>1, <2>2
<1>7. CASE IsrCallsBack
  <2>1. CASE cause \in TxCauses
    BY <1>7, <2>1, RoutineReports
  <2>2. CASE cause \notin TxCauses
    BY <1>7, <2>2, TransmitRest DEF IsrCallsBack, IsrStep, senderVars, deviceVars
  <2> QED BY <2>1, <2>2
<1>8. CASE DeviceTransmits
  BY <1>8, DeviceTakes
<1>9. CASE DeviceTransmitted
  BY <1>9, DeviceEnds
<1>10. CASE PacketStored \/ PacketDropped
  <2>1. NSTAT' \cap TxCauses = NSTAT \cap TxCauses
    BY <1>10 DEF PacketStored, PacketDropped, TxCauses
  <2> QED
    BY <1>10, <2>1, TransmitRest
    DEF PacketStored, PacketDropped, PacketArrives, senderVars, isrVars
<1> QED
  BY <1>1, <1>2, <1>3, <1>4, <1>5, <1>6, <1>7, <1>8, <1>9, <1>10
  DEF NetworkNext, Sender, network_ISR, NetworkDevice

\* The inductive invariant of sending.
THEOREM RingAndReportsCorrect == NetworkSpec => [](DriverTypes /\ TransmitInv)
<1>1. NetworkInit => DriverTypes /\ TransmitInv
  BY TypesInit, TransmitInit
<1>2. DriverTypes /\ TransmitInv /\ [NetworkNext]_networkVars => (DriverTypes /\ TransmitInv)'
  BY TypesStep, TransmitStep
<1> QED BY <1>1, <1>2, PTL DEF NetworkSpec

\* network_ISR tells the callbacks of every packet once, in the order of the requests, and
\* what became of that packet.
THEOREM ReportsCorrect == NetworkSpec => []ReportsAreTrue
<1>1. ASSUME DriverTypes, TransmitInv PROVE ReportsAreTrue
  <2>1. Len(reported) <= Freed /\ Freed <= Len(outcomes)
    <3>1. Len(reported) <= Freed
      BY <1>1, TransmitRing DEF Freed
    <3>2. Freed <= Len(outcomes)
      BY <1>1, TransmitRing DEF TransmitInv, OutcomesReported
    <3> QED BY <3>1, <3>2
  <2>2. \A k \in 1 .. Len(reported) : k \in 1 .. Len(outcomes)
    BY <1>1, <2>1, TransmitRing
  <2>3. Len(reported) <= Len(outcomes)
    BY <1>1, <2>1, TransmitRing
  <2> QED
    BY <1>1, <2>2, <2>3, Zenon DEF TransmitInv, OutcomesReported, ReportsAreTrue
<1> QED BY <1>1, RingAndReportsCorrect, PTL

-----------------------------------------------------------------------------
(***************************************************************************)
(* Receiving.                                                              *)
(***************************************************************************)
LEMMA ReceiveInit == NetworkInit => StoredDelivered
<1> SUFFICES ASSUME NetworkInit PROVE StoredDelivered
  OBVIOUS
<1>1. /\ NRXFH = 0 /\ NRXFT = 0 /\ isr = "out" /\ NSTAT = {} /\ stored = 0 /\ Len(delivered) = 0
  BY EmptySeq DEF NetworkInit
<1>2. ~RxHandled /\ ~RxRaised
  BY <1>1 DEF RxHandled, RxRaised
<1> QED BY <1>1, <1>2 DEF StoredDelivered

\* The receive ring and its buffers.
LEMMA ReceiveRing ==
  ASSUME DriverTypes
  PROVE  /\ NRXBL \in Nat \ {0, 1} /\ NRXFH \in 0 .. NRXBL - 1 /\ NRXFT \in 0 .. NRXBL - 1
         /\ Wrapped(NRXFT, 1, NRXBL) # NRXFT
         /\ NRXBP \in [0 .. NRXBL - 1 -> 0 .. MaxArrivals]
         /\ delivered \in Seq(0 .. MaxArrivals) /\ Len(delivered) \in Nat
         /\ stored \in Nat
<1>1. /\ NRXBL \in Nat \ {0, 1} /\ NRXFH \in 0 .. NRXBL - 1 /\ NRXFT \in 0 .. NRXBL - 1
      /\ NRXBP \in [0 .. NRXBL - 1 -> 0 .. MaxArrivals]
      /\ delivered \in Seq(0 .. MaxArrivals) /\ Len(delivered) \in Nat
  BY RingsAssumption DEF DriverTypes, NetworkTypeOK
<1>2. stored \in Nat
  BY RingsAssumption DEF DriverTypes, NetworkTypeOK
<1>3. Wrapped(NRXFT, 1, NRXBL) # NRXFT
  BY <1>1, SMT DEF Wrapped
<1> QED BY <1>1, <1>2, <1>3

\* A step that neither stores, frees, acknowledges nor delivers a packet.
LEMMA ReceiveRest ==
  ASSUME StoredDelivered,
         UNCHANGED <<NRXFH, NRXFT, NRXBP, stored, delivered>>,
         "RxComplete" \in NSTAT' <=> "RxComplete" \in NSTAT,
         \/ UNCHANGED <<isr, cause, descriptor>>
         \/ cause # "RxComplete" /\ cause' # "RxComplete"
         \/ isr = "out" /\ cause' # "RxComplete"
  PROVE  StoredDelivered'
<1>1. /\ RxHandled' <=> RxHandled
      /\ RxRaised' <=> RxRaised
      /\ RxHandled => UNCHANGED descriptor
  BY DEF RxHandled, RxRaised
<1>2. CASE RxHandled
  BY <1>1, <1>2 DEF StoredDelivered
<1>3. CASE ~RxHandled
  BY <1>1, <1>3 DEF StoredDelivered
<1> QED BY <1>2, <1>3

LEMMA RoutineFreesBuffer ==
  ASSUME DriverTypes, StoredDelivered, IsrEnters, cause' = "RxComplete"
  PROVE  StoredDelivered'
<1>1. /\ "RxComplete" \in NSTAT /\ descriptor' = NRXFT /\ NRXFT' = Wrapped(NRXFT, 1, NRXBL)
      /\ isr = "out" /\ isr' = "ack"
      /\ UNCHANGED <<NRXFH, NRXBP, stored, delivered, NSTAT>>
  BY IsrEntersHow DEF IsrEnters, IsrStep, deviceVars, receiveVars, DriverTypes
<1>2. ~RxHandled /\ RxRaised /\ RxHandled' /\ ~RxRaised'
  BY <1>1 DEF RxHandled, RxRaised
<1> QED BY <1>1, <1>2, ReceiveRing DEF StoredDelivered

LEMMA RoutineAcknowledgesArrival ==
  ASSUME DriverTypes, StoredDelivered, IsrAcknowledges, cause = "RxComplete"
  PROVE  StoredDelivered'
<1>1. /\ isr = "ack" /\ isr' = "call" /\ NSTAT' = NSTAT \ {"RxComplete"}
      /\ UNCHANGED <<NRXFH, NRXFT, NRXBP, stored, delivered, cause, descriptor>>
  BY DEF IsrAcknowledges, IsrStep, deviceVars, receiveVars
<1>2. RxHandled /\ ~RxRaised /\ RxHandled' /\ ~RxRaised'
  BY <1>1 DEF RxHandled, RxRaised
<1> QED BY <1>1, <1>2 DEF StoredDelivered

LEMMA RoutineDelivers ==
  ASSUME DriverTypes, StoredDelivered, IsrCallsBack, cause = "RxComplete"
  PROVE  StoredDelivered'
<1>1. /\ isr = "call" /\ isr' = "out" /\ delivered' = Append(delivered, NRXBP[descriptor])
      /\ UNCHANGED <<NRXFH, NRXFT, NRXBP, stored, NSTAT>>
  BY DEF IsrCallsBack, IsrStep, deviceVars, receiveVars
<1>2. RxHandled /\ ~RxHandled' /\ RxRaised' = RxRaised
  BY <1>1 DEF RxHandled, RxRaised
<1>3. /\ NRXBP[descriptor] \in 0 .. MaxArrivals /\ NRXBP[descriptor] = Len(delivered) + 1
  BY <1>2, ReceiveRing DEF StoredDelivered, DriverTypes
<1>4. /\ Len(delivered') = Len(delivered) + 1
      /\ \A k \in 1 .. Len(delivered) : delivered'[k] = delivered[k]
      /\ delivered'[Len(delivered) + 1] = Len(delivered) + 1
  BY <1>1, <1>3, ReceiveRing, AppendIs
<1>5. \A k \in 1 .. Len(delivered') : delivered'[k] = k
  <2>1. \A k \in 1 .. Len(delivered) + 1 : k \in 1 .. Len(delivered) \/ k = Len(delivered) + 1
    BY ReceiveRing
  <2> QED BY <1>4, <2>1, Zenon DEF StoredDelivered
<1> QED BY <1>1, <1>2, <1>4, <1>5, ReceiveRing DEF StoredDelivered

LEMMA DeviceStores ==
  ASSUME DriverTypes, StoredDelivered, PacketStored
  PROVE  StoredDelivered'
<1>1. /\ NRXBP' = [NRXBP EXCEPT ![NRXFH] = stored + 1] /\ NRXFH' = Wrapped(NRXFH, 1, NRXBL)
      /\ stored' = stored + 1 /\ NSTAT' = NSTAT \cup {"RxComplete"}
      /\ "RxComplete" \notin NSTAT
      /\ UNCHANGED <<NRXFT, delivered, isr, cause, descriptor>>
  BY NextPlaces DEF PacketStored, PacketArrives, isrVars, RxCauses, DriverTypes
<1>2. RxHandled' = RxHandled /\ ~RxRaised /\ RxRaised'
  BY <1>1 DEF RxHandled, RxRaised, DriverTypes
<1>3. NRXFH = NRXFT /\ NRXBP'[NRXFT] = stored'
  BY <1>1, <1>2, ReceiveRing DEF StoredDelivered
<1>4. RxHandled => NRXBP'[descriptor] = Len(delivered) + 1
  <2> SUFFICES ASSUME RxHandled PROVE NRXBP'[descriptor] = Len(delivered) + 1
    OBVIOUS
  <2>1. descriptor \in 0 .. NRXBL - 1 /\ Wrapped(descriptor, 1, NRXBL) = NRXFT
    BY DEF RxHandled, StoredDelivered, DriverTypes
  <2>2. descriptor # NRXFH
    BY <1>3, <2>1, ReceiveRing
  <2> QED BY <1>1, <2>1, <2>2, ReceiveRing DEF StoredDelivered
<1> QED BY <1>1, <1>2, <1>3, <1>4, ReceiveRing DEF StoredDelivered

LEMMA ReceiveStep == DriverTypes /\ StoredDelivered /\ [NetworkNext]_networkVars => StoredDelivered'
<1> SUFFICES ASSUME DriverTypes, StoredDelivered, [NetworkNext]_networkVars
             PROVE  StoredDelivered'
  OBVIOUS
<1>1. CASE Sender \/ UNCHANGED networkVars
  BY <1>1, ReceiveRest
  DEF Sender, SendInvalid, SendRefused, SendChecked, FillDescriptor, AdvanceHead, SenderStep,
      networkVars, senderVars, deviceVars, isrVars, receiveVars
<1>2. CASE IsrEnters
  <2>1. CASE cause' = "RxComplete"
    BY <1>2, <2>1, RoutineFreesBuffer
  <2>2. CASE cause' # "RxComplete"
    <3>1. NRXFT' = NRXFT
      BY <1>2, <2>2, IsrEntersHow DEF DriverTypes
    <3> QED
      BY <1>2, <2>2, <3>1, ReceiveRest DEF IsrEnters, IsrStep, deviceVars, receiveVars
  <2> QED BY <2>1, <2>2
<1>3. CASE IsrAcknowledges
  <2>1. CASE cause = "RxComplete"
    BY <1>3, <2>1, RoutineAcknowledgesArrival
  <2>2. CASE cause # "RxComplete"
    BY <1>3, <2>2, ReceiveRest DEF IsrAcknowledges, IsrStep, deviceVars, receiveVars
  <2> QED BY <2>1, <2>2
<1>4. CASE IsrCallsBack
  <2>1. CASE cause = "RxComplete"
    BY <1>4, <2>1, RoutineDelivers
  <2>2. CASE cause # "RxComplete"
    BY <1>4, <2>2, ReceiveRest DEF IsrCallsBack, IsrStep, deviceVars, receiveVars
  <2> QED BY <2>1, <2>2
<1>5. CASE DeviceTransmits \/ DeviceTransmitted
  <2>1. "RxComplete" \in NSTAT' <=> "RxComplete" \in NSTAT
    BY <1>5 DEF DeviceTransmits, DeviceTransmitted, TxCauses
  <2> QED
    BY <1>5, <2>1, ReceiveRest DEF DeviceTransmits, DeviceTransmitted, isrVars, receiveVars
<1>6. CASE PacketStored
  BY <1>6, DeviceStores
<1>7. CASE PacketDropped
  <2>1. "RxComplete" \in NSTAT' <=> "RxComplete" \in NSTAT
    BY <1>7 DEF PacketDropped
  <2> QED
    BY <1>7, <2>1, ReceiveRest DEF PacketDropped, PacketArrives, isrVars
<1> QED
  BY <1>1, <1>2, <1>3, <1>4, <1>5, <1>6, <1>7 DEF NetworkNext, network_ISR, NetworkDevice

\* The callback is given every packet the device stored, once, in order and whole, although
\* its descriptor is freed before its buffer is read.
THEOREM DeliveriesCorrect == NetworkSpec => []DeliveriesAreWhole
<1>1. NetworkInit => DriverTypes /\ StoredDelivered
  BY TypesInit, ReceiveInit
<1>2. DriverTypes /\ StoredDelivered /\ [NetworkNext]_networkVars
        => (DriverTypes /\ StoredDelivered)'
  BY TypesStep, ReceiveStep
<1>3. ASSUME DriverTypes, StoredDelivered PROVE DeliveriesAreWhole
  <2>1. NSTAT = {} /\ isr = "out" => ~RxHandled /\ ~RxRaised
    BY DEF RxHandled, RxRaised
  <2>2. NSTAT = {} /\ isr = "out" => Len(delivered) = stored
    BY <1>3, <2>1, ReceiveRing DEF StoredDelivered
  <2> QED BY <1>3, <2>2, Zenon DEF StoredDelivered, DeliveriesAreWhole
<1> QED BY <1>1, <1>2, <1>3, PTL DEF NetworkSpec

-----------------------------------------------------------------------------
(***************************************************************************)
(* The transmit ring implements a queue.                                   *)
(***************************************************************************)
\* The n packets that follow packet f.
Waiting(f, n) == [k \in 1 .. n |-> f + k]

LEMMA WaitingMoves ==
  ASSUME NEW f \in Nat, NEW n \in Nat
  PROVE  /\ Waiting(f, n) \in Seq(Nat) /\ Len(Waiting(f, n)) = n
         /\ Waiting(f, 0) = <<>>
         /\ Append(Waiting(f, n), f + n + 1) = Waiting(f, n + 1)
         /\ n > 0 => Waiting(f, n) # <<>> /\ Tail(Waiting(f, n)) = Waiting(f + 1, n - 1)
<1>1. Waiting(f, n) \in Seq(Nat) /\ Len(Waiting(f, n)) = n
  BY DEF Waiting
<1>2. Waiting(f, 0) = <<>>
  BY DEF Waiting
<1>3. Append(Waiting(f, n), f + n + 1) = Waiting(f, n + 1)
  BY DEF Waiting
<1>4. n > 0 => Waiting(f, n) # <<>> /\ Tail(Waiting(f, n)) = Waiting(f + 1, n - 1)
  BY DEF Waiting
<1> QED BY <1>1, <1>2, <1>3, <1>4

\* The queue that TransmitQueue is given.
LEMMA QueueIsWaiting ==
  ASSUME NEW n \in Nat \ {0, 1}, NEW h \in 0 .. n - 1, NEW t \in 0 .. n - 1, NEW ring,
         NEW f \in Nat,
         \A k \in 1 .. Distance(h, t, n) : ring[Wrapped(t, k - 1, n)] = f + k
  PROVE  [k \in 1 .. (h + n - t) % n |-> ring[(t + k - 1) % n]] = Waiting(f, Distance(h, t, n))
<1>1. (h + n - t) % n = Distance(h, t, n) /\ \A k \in 1 .. n : (t + k - 1) % n = Wrapped(t, k - 1, n)
  BY RingRemainders, Zenon
<1>2. Distance(h, t, n) \in 0 .. n - 1
  BY SMT DEF Distance
<1>3. \A k \in 1 .. Distance(h, t, n) : k \in 1 .. n
  BY <1>2
<1>4. \A k \in 1 .. Distance(h, t, n) : ring[(t + k - 1) % n] = f + k
  BY <1>1, <1>3, Zenon
<1> QED BY <1>1, <1>4, Zenon DEF Waiting

LEMMA ContentsWait ==
  ASSUME DriverTypes, TransmitInv
  PROVE  [k \in 1 .. (NTXFH + NTXBL - NTXFT) % NTXBL |-> NTXBP[(NTXFT + k - 1) % NTXBL]]
           = Waiting(Freed, Queued)
<1>1. /\ NTXBL \in Nat \ {0, 1} /\ NTXFH \in 0 .. NTXBL - 1 /\ NTXFT \in 0 .. NTXBL - 1
      /\ Freed \in Nat
  BY TransmitRing
<1>2. \A k \in 1 .. Queued : NTXBP[Wrapped(NTXFT, k - 1, NTXBL)] = Freed + k
  BY DEF TransmitInv, RingHoldsWaiting
<1> QED BY <1>1, <1>2, QueueIsWaiting, Zenon DEF Queued

\* What a step does to the packets freed.
LEMMA FreedStep ==
  ASSUME DriverTypes, [NetworkNext]_networkVars
  PROVE  \/ sent' = sent + 1 /\ Freed' = Freed
         \/ sent' = sent /\ Freed' = Freed
         \/ sent' = sent /\ Freed' = Freed + 1
<1>1. CASE SendInvalid \/ SendRefused \/ SendChecked \/ FillDescriptor \/ UNCHANGED networkVars
  BY <1>1
  DEF SendInvalid, SendRefused, SendChecked, FillDescriptor, SenderStep, networkVars, senderVars,
      isrVars, Freed, TxHandled
<1>2. CASE AdvanceHead
  BY <1>2 DEF AdvanceHead, SenderStep, isrVars, Freed, TxHandled
<1>3. CASE IsrEnters
  <2>1. ~TxHandled /\ UNCHANGED <<sent, reported>>
    BY <1>3 DEF IsrEnters, IsrStep, senderVars, TxHandled
  <2> QED BY <2>1, TransmitRing DEF Freed
<1>4. CASE IsrAcknowledges
  BY <1>4 DEF IsrAcknowledges, IsrStep, senderVars, Freed, TxHandled
<1>5. CASE IsrCallsBack
  <2>1. ~TxHandled' /\ sent' = sent
    BY <1>5 DEF IsrCallsBack, IsrStep, senderVars, TxHandled
  <2>2. CASE cause \in TxCauses
    <3>1. Len(reported') = Len(reported) + 1 /\ TxHandled
      BY <1>5, <2>2, AppendIs
      DEF IsrCallsBack, IsrStep, TxHandled, DriverTypes, NetworkTypeOK
    <3> QED BY <2>1, <3>1, TransmitRing DEF Freed
  <2>3. CASE cause \notin TxCauses
    <3>1. reported' = reported /\ ~TxHandled
      BY <1>5, <2>3 DEF IsrCallsBack, TxHandled
    <3> QED BY <2>1, <3>1 DEF Freed
  <2> QED BY <2>2, <2>3
<1>6. CASE NetworkDevice
  BY <1>6
  DEF NetworkDevice, DeviceTransmits, DeviceTransmitted, PacketStored, PacketDropped,
      PacketArrives, senderVars, isrVars, Freed, TxHandled
<1> QED
  BY <1>1, <1>2, <1>3, <1>4, <1>5, <1>6 DEF NetworkNext, Sender, network_ISR

\* The transmit ring, whatever the sender and the interrupt routine do to its head and its
\* tail, is a queue of at most NTXBL - 1 packets.
THEOREM TransmitRingIsAQueue == NetworkSpec => ImplementsTransmitQueue
<1> DEFINE Contents == [k \in 1 .. (NTXFH + NTXBL - NTXFT) % NTXBL |->
                          NTXBP[(NTXFT + k - 1) % NTXBL]]
<1>1. ASSUME NetworkInit PROVE TransmitQueue!Init
  <2>1. DriverTypes /\ TransmitInv
    BY <1>1, TypesInit, TransmitInit
  <2>2. Contents = Waiting(Freed, Queued)
    BY <2>1, ContentsWait
  <2>3. Queued = 0
    BY <1>1, <2>1, TransmitRing DEF NetworkInit
  <2> QED
    BY <1>1, <2>1, <2>2, <2>3, TransmitRing, WaitingMoves DEF TransmitQueue!Init, NetworkInit
<1>2. ASSUME DriverTypes, TransmitInv, DriverTypes', TransmitInv', [NetworkNext]_networkVars
      PROVE  [TransmitQueue!Next]_(TransmitQueue!vars)
  <2>1. Contents = Waiting(Freed, Queued)
    BY <1>2, ContentsWait
  <2>2. /\ NTXFH' \in 0 .. NTXBL - 1 /\ NTXFT' \in 0 .. NTXBL - 1
        /\ Queued' = Distance(NTXFH', NTXFT', NTXBL) /\ Queued' \in 0 .. NTXBL - 1
    <3>1. NTXFH' \in 0 .. NTXBL - 1 /\ NTXFT' \in 0 .. NTXBL - 1
      BY <1>2 DEF DriverTypes, NetworkTypeOK
    <3>2. Distance(NTXFH', NTXFT', NTXBL) \in 0 .. NTXBL - 1
      <4>1. NTXBL \in Nat \ {0, 1}
        BY RingsAssumption
      <4> QED BY <3>1, <4>1, RingMoves, Zenon
    <3> QED BY <3>1, <3>2 DEF Queued
  <2>3. Freed \in Nat /\ Queued \in 0 .. NTXBL - 1 /\ NTXBL \in Nat \ {0, 1} /\ sent \in Nat
    BY <1>2, TransmitRing
  <2>4. /\ sent = Freed + Queued /\ sent' = Freed' + Queued'
        /\ \/ sent' = sent + 1 /\ Freed' = Freed
           \/ sent' = sent /\ Freed' = Freed
           \/ sent' = sent /\ Freed' = Freed + 1
    BY <1>2, FreedStep DEF TransmitInv, RingHoldsWaiting
  <2>5. Contents' = Waiting(Freed', Queued')
    <3>1. Freed' \in Nat
      BY <2>3, <2>4
    <3>2. \A k \in 1 .. Distance(NTXFH', NTXFT', NTXBL) :
            NTXBP'[Wrapped(NTXFT', k - 1, NTXBL)] = Freed' + k
      BY <1>2, <2>2 DEF TransmitInv, RingHoldsWaiting
    <3> QED BY <2>2, <2>3, <3>1, <3>2, QueueIsWaiting
  <2>6. CASE sent' = sent + 1 /\ Freed' = Freed
    <3>1. Queued' = Queued + 1 /\ Queued < NTXBL - 1 /\ sent + 1 = Freed + Queued + 1
      BY <2>2, <2>3, <2>4, <2>6
    <3>2. /\ Waiting(Freed, Queued + 1) = Append(Waiting(Freed, Queued), sent + 1)
          /\ Len(Waiting(Freed, Queued)) = Queued
      <4>1. Queued \in Nat
        BY <2>3
      <4>2. /\ Append(Waiting(Freed, Queued), Freed + Queued + 1) = Waiting(Freed, Queued + 1)
            /\ Len(Waiting(Freed, Queued)) = Queued
        BY <2>3, <4>1, WaitingMoves, Zenon
      <4> QED BY <3>1, <4>2, Zenon
    <3>3. Contents' = Append(Contents, sent + 1) /\ Len(Contents) = Queued
      BY <2>1, <2>5, <2>6, <3>1, <3>2, Zenon
    <3> QED BY <2>6, <3>1, <3>3 DEF TransmitQueue!Next, TransmitQueue!Put
  <2>7. CASE sent' = sent /\ Freed' = Freed
    <3>1. Queued' = Queued
      BY <2>2, <2>3, <2>4, <2>7
    <3> QED BY <2>1, <2>5, <2>7, <3>1 DEF TransmitQueue!vars
  <2>8. CASE sent' = sent /\ Freed' = Freed + 1
    <3>1. Queued' = Queued - 1 /\ Queued > 0
      BY <2>2, <2>3, <2>4, <2>8
    <3>2. /\ Waiting(Freed + 1, Queued - 1) = Tail(Waiting(Freed, Queued))
          /\ Waiting(Freed, Queued) # <<>>
      <4>1. Queued \in Nat
        BY <2>3
      <4> QED BY <2>3, <3>1, <4>1, WaitingMoves, Zenon
    <3>3. Contents' = Tail(Contents) /\ Contents # <<>>
      BY <2>1, <2>5, <2>8, <3>1, <3>2, Zenon
    <3> QED BY <2>8, <3>3 DEF TransmitQueue!Next, TransmitQueue!Take
  <2> QED BY <2>4, <2>6, <2>7, <2>8
<1> QED
  BY <1>1, <1>2, RingAndReportsCorrect, PTL
  DEF NetworkSpec, ImplementsTransmitQueue, TransmitQueue!Spec
=============================================================================
