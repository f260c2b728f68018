---------------------------- MODULE NetworkDriver ----------------------------
(***************************************************************************)
(* The driver of the network device (ex4/network.c): two rings of          *)
(* descriptors shared with the device, and the interrupt routine, which    *)
(* handles one cause each time it runs.                                    *)
(*                                                                         *)
(* A thread sends; the routine interrupts it; the device works in between  *)
(* the steps of both.  Packets are numbered in the order they are accepted *)
(* for sending, and in the order they arrive.  The device sends the packet *)
(* at the tail, and raises no cause of a direction while one of that       *)
(* direction is not acknowledged.                                          *)
(***************************************************************************)
EXTENDS Naturals, Sequences

CONSTANTS
  NTXBL,       \* descriptors of the transmit ring
  NRXBL,       \* descriptors of the receive ring
  MaxSent,     \* bound: packets accepted for sending
  MaxArrivals  \* bound: packets that arrive

\* network_init refuses shorter rings.
ASSUME RingsAssumption ==
  /\ NTXBL \in Nat \ {0, 1} /\ NRXBL \in Nat \ {0, 1}
  /\ MaxSent \in Nat /\ MaxArrivals \in Nat

TxCauses == {"TxComplete", "TxNetworkError", "TxBadDescriptor"}
RxCauses == {"RxComplete", "RxBufferSmall", "RxBufferFull"}
NoPacket == 0

VARIABLES
  sender,        \* where the thread is in network_send_packet_start
  result,        \* what it returned last
  NTXFH, NTXFT,  \* head and tail of the transmit ring
  NTXBP,         \* its descriptors: the packet each one is for
  NRXFH, NRXFT,  \* head and tail of the receive ring
  NRXBP,         \* the packet in the buffer of each of its descriptors
  NSTAT,         \* the causes raised and not acknowledged
  isr,           \* where the interrupt routine is, "out" if not running
  cause,         \* the cause it handles
  descriptor,    \* its copy: a packet to report, or a receive buffer
  transmitting,  \* the packet the device is sending
  sent,          \* history: packets accepted for sending
  outcomes,      \* history: what became of each packet sent
  reported,      \* history: what the callbacks were told of them
  stored,        \* history: packets stored in the receive ring
  arrivals,      \* bounds the model
  delivered      \* history: packets the received callback was given

senderVars == <<sender, result, NTXFH, NTXBP, sent>>
receiveVars == <<NRXFH, NRXBP, stored, arrivals>>
deviceVars == <<transmitting, outcomes, receiveVars>>
isrVars == <<NTXFT, NRXFT, isr, cause, descriptor, reported, delivered>>
networkVars == <<senderVars, deviceVars, isrVars, NSTAT>>

NetworkInit ==
  /\ sender = "idle" /\ result = "none"
  /\ NTXFH = 0 /\ NTXFT = 0 /\ NTXBP = [s \in 0 .. NTXBL - 1 |-> NoPacket]
  /\ NRXFH = 0 /\ NRXFT = 0 /\ NRXBP = [s \in 0 .. NRXBL - 1 |-> NoPacket]
  /\ NSTAT = {} /\ isr = "out" /\ cause = "none" /\ descriptor = NoPacket
  /\ transmitting = NoPacket
  /\ sent = 0 /\ outcomes = <<>> /\ reported = <<>>
  /\ stored = 0 /\ arrivals = 0 /\ delivered = <<>>

-----------------------------------------------------------------------------
(***************************************************************************)
(* network_send_packet_start.                                              *)
(***************************************************************************)
SenderStep(from, to) ==
  /\ isr = "out"
  /\ sender = from /\ sender' = to
  /\ UNCHANGED <<deviceVars, isrVars, NSTAT>>

\* Mutant of TransmitRingFull: the ring is never full.
TransmitRingNeverFull == FALSE

TransmitRingFull == (NTXFH + 1) % NTXBL = NTXFT

\* Packets that are empty, too long or longer than their buffer are refused.
SendInvalid ==
  /\ SenderStep("idle", "idle")
  /\ result' = "INVALID_ARGUMENTS"
  /\ UNCHANGED <<NTXFH, NTXBP, sent>>

SendRefused ==
  /\ SenderStep("idle", "idle")
  /\ TransmitRingFull
  /\ result' = "NETWORK_TRANSMIT_BUFFER_FULL"
  /\ UNCHANGED <<NTXFH, NTXBP, sent>>

SendChecked ==
  /\ SenderStep("idle", "fill")
  /\ sent < MaxSent
  /\ ~TransmitRingFull
  /\ UNCHANGED <<result, NTXFH, NTXBP, sent>>

FillDescriptor ==
  /\ SenderStep("fill", "advance")
  /\ NTXBP' = [NTXBP EXCEPT ![NTXFH] = sent + 1]
  /\ UNCHANGED <<result, NTXFH, sent>>

\* Mutant of AdvanceHead: the head stays.
AdvanceHeadStays ==
  /\ SenderStep("advance", "idle")
  /\ sent' = sent + 1
  /\ result' = "OPERATION_SUCCESS"
  /\ UNCHANGED <<NTXFH, NTXBP>>

AdvanceHead ==
  /\ SenderStep("advance", "idle")
  /\ NTXFH' = (NTXFH + 1) % NTXBL
  /\ sent' = sent + 1
  /\ result' = "OPERATION_SUCCESS"
  /\ UNCHANGED NTXBP

Sender == SendInvalid \/ SendRefused \/ SendChecked \/ FillDescriptor \/ AdvanceHead

-----------------------------------------------------------------------------
(***************************************************************************)
(* network_ISR.                                                            *)
(***************************************************************************)

\* The causes in the order the routine asks for them.
Priority == <<"TxComplete", "TxNetworkError", "TxBadDescriptor",
              "RxComplete", "RxBufferSmall", "RxBufferFull">>

First(causes) ==
  Priority[CHOOSE k \in DOMAIN Priority :
             /\ Priority[k] \in causes
             /\ \A j \in DOMAIN Priority : Priority[j] \in causes => k <= j]

IsrStep(from, to) ==
  /\ isr = from /\ isr' = to
  /\ UNCHANGED <<senderVars, deviceVars>>

\* It copies the descriptor at the tail and frees it.
IsrEnters ==
  /\ IsrStep("out", "ack")
  /\ NSTAT # {}
  /\ cause' = First(NSTAT)
  /\ \/ /\ cause' \in TxCauses
        /\ descriptor' = NTXBP[NTXFT]
        /\ NTXFT' = (NTXFT + 1) % NTXBL
        /\ UNCHANGED NRXFT
     \/ /\ cause' = "RxComplete"
        /\ descriptor' = NRXFT
        /\ NRXFT' = (NRXFT + 1) % NRXBL
        /\ UNCHANGED NTXFT
     \/ /\ cause' \in {"RxBufferSmall", "RxBufferFull"}
        /\ UNCHANGED <<descriptor, NTXFT, NRXFT>>
  /\ UNCHANGED <<NSTAT, reported, delivered>>

\* Mutant of IsrAcknowledges: every cause is acknowledged.
IsrAcknowledgesAll ==
  /\ IsrStep("ack", "call")
  /\ NSTAT' = {}
  /\ UNCHANGED <<NTXFT, NRXFT, cause, descriptor, reported, delivered>>

\* It acknowledges the cause,
IsrAcknowledges ==
  /\ IsrStep("ack", "call")
  /\ NSTAT' = NSTAT \ {cause}
  /\ UNCHANGED <<NTXFT, NRXFT, cause, descriptor, reported, delivered>>

\* and calls back.  The buffer of a received packet is read only now.
IsrCallsBack ==
  /\ IsrStep("call", "out")
  /\ reported' = IF cause \in TxCauses THEN Append(reported, <<descriptor, cause>>)
                                       ELSE reported
  /\ delivered' = IF cause = "RxComplete" THEN Append(delivered, NRXBP[descriptor])
                                          ELSE delivered
  /\ cause' = "none" /\ descriptor' = NoPacket
  /\ UNCHANGED <<NSTAT, NTXFT, NRXFT>>

network_ISR == IsrEnters \/ IsrAcknowledges \/ IsrCallsBack

-----------------------------------------------------------------------------
(***************************************************************************)
(* The device.                                                             *)
(***************************************************************************)
DeviceTransmits ==
  /\ transmitting = NoPacket /\ NSTAT \cap TxCauses = {}
  /\ NTXFT # NTXFH
  /\ transmitting' = NTXBP[NTXFT]
  /\ UNCHANGED <<senderVars, isrVars, receiveVars, outcomes, NSTAT>>

DeviceTransmitted ==
  /\ transmitting # NoPacket
  /\ \E c \in TxCauses :
       /\ NSTAT' = NSTAT \cup {c}
       /\ outcomes' = Append(outcomes, <<transmitting, c>>)
  /\ transmitting' = NoPacket
  /\ UNCHANGED <<senderVars, isrVars, receiveVars>>

PacketArrives ==
  /\ arrivals < MaxArrivals /\ arrivals' = arrivals + 1
  /\ NSTAT \cap RxCauses = {}
  /\ UNCHANGED <<senderVars, isrVars, transmitting, outcomes>>

ReceiveRingFull == (NRXFH + 1) % NRXBL = NRXFT

PacketStored ==
  /\ PacketArrives
  /\ ~ReceiveRingFull
  /\ NRXBP' = [NRXBP EXCEPT ![NRXFH] = stored + 1]
  /\ NRXFH' = (NRXFH + 1) % NRXBL
  /\ stored' = stored + 1
  /\ NSTAT' = NSTAT \cup {"RxComplete"}

PacketDropped ==
  /\ PacketArrives
  /\ NSTAT' = NSTAT \cup {IF ReceiveRingFull THEN "RxBufferFull" ELSE "RxBufferSmall"}
  /\ UNCHANGED <<NRXFH, NRXBP, stored>>

NetworkDevice == DeviceTransmits \/ DeviceTransmitted \/ PacketStored \/ PacketDropped

NetworkNext == Sender \/ network_ISR \/ NetworkDevice

NetworkSpec == NetworkInit /\ [][NetworkNext]_networkVars

\* The device finishes what it sends and the interrupt is taken; the thread, once it
\* has begun to send, goes on.
NetworkFairness ==
  /\ WF_networkVars(FillDescriptor \/ AdvanceHead)
  /\ WF_networkVars(network_ISR)
  /\ WF_networkVars(DeviceTransmits \/ DeviceTransmitted)

-----------------------------------------------------------------------------
(***************************************************************************)
(* Properties.                                                             *)
(***************************************************************************)
\* Every variable has its type.
NetworkTypeOK ==
  /\ sender \in {"idle", "fill", "advance"}
  /\ result \in {"none", "INVALID_ARGUMENTS", "NETWORK_TRANSMIT_BUFFER_FULL",
                 "OPERATION_SUCCESS"}
  /\ NTXFH \in 0 .. NTXBL - 1 /\ NTXFT \in 0 .. NTXBL - 1
  /\ NTXBP \in [0 .. NTXBL - 1 -> 0 .. MaxSent]
  /\ NRXFH \in 0 .. NRXBL - 1 /\ NRXFT \in 0 .. NRXBL - 1
  /\ NRXBP \in [0 .. NRXBL - 1 -> 0 .. MaxArrivals]
  /\ NSTAT \subseteq TxCauses \cup RxCauses
  /\ isr \in {"out", "ack", "call"}
  /\ cause \in TxCauses \cup RxCauses \cup {"none"}
  /\ descriptor \in 0 .. MaxSent \cup 0 .. NRXBL - 1
  /\ transmitting \in 0 .. MaxSent
  /\ sent \in 0 .. MaxSent /\ stored \in 0 .. MaxArrivals /\ arrivals \in 0 .. MaxArrivals
  /\ outcomes \in Seq((0 .. MaxSent) \X TxCauses)
  /\ reported \in Seq((0 .. MaxSent) \X TxCauses)
  /\ delivered \in Seq(0 .. MaxArrivals)

\* The transmit ring is a queue of NTXBL - 1 packets, whatever the sender and the
\* interrupt do to its head and tail: full and empty are never confused, and no
\* descriptor is filled before the device is done with it.
TransmitQueue == INSTANCE BoundedQueue WITH
  Capacity <- NTXBL - 1,
  put <- sent,
  queue <- [k \in 1 .. (NTXFH + NTXBL - NTXFT) % NTXBL |-> NTXBP[(NTXFT + k - 1) % NTXBL]]

ImplementsTransmitQueue == TransmitQueue!Spec

\* The callbacks are told of every packet once, in order, with what really became of
\* it: "the buffer and it's size are the same values that were given during the
\* transmit request" (network.h).
ReportsAreTrue ==
  /\ Len(reported) <= Len(outcomes)
  /\ \A k \in 1 .. Len(reported) : reported[k] = outcomes[k] /\ reported[k][1] = k

\* Every packet stored is given to the callback once, in order and whole, although
\* the routine frees its descriptor before the callback has read the buffer.
DeliveriesAreWhole ==
  /\ \A k \in 1 .. Len(delivered) : delivered[k] = k
  /\ NSTAT = {} /\ isr = "out" => Len(delivered) = stored

\* Every packet accepted is in the end reported.
EveryPacketReported ==
  \A k \in 1 .. MaxSent : sent >= k ~> Len(reported) >= k
=============================================================================
