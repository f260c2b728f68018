------------------------------ MODULE SmsClient ------------------------------
(***************************************************************************)
(* The SMS client of the phone (ex4/smsClient.c) as its actors interleave: *)
(*                                                                         *)
(*  - the GUI thread, inside sendMessage;                                  *)
(*  - the network thread, inside sendReceiveLoop, sendToSMSC, sendProbe;   *)
(*  - the network interrupt, which runs the received and the transmit      *)
(*    callbacks to completion between any two steps of the threads;        *)
(*  - the ThreadX timer, whose expiry runs wakeUp;                         *)
(*  - the network device and the SMSC beyond it, which lose packets.       *)
(*                                                                         *)
(* A thread's step is what it does between two points at which another     *)
(* actor can change, or observe, what it shares with the thread.  A        *)
(* message is the number of its acceptance by sendMessage: 1, 2, 3, ...    *)
(* A local variable is NULL outside the call it belongs to.                *)
(***************************************************************************)
EXTENDS Integers, Sequences, FiniteSets

CONSTANTS
  ListSize,      \* SEND_LIST_SIZE, also the size of both queues (5 in the code)
  TxRingSize,    \* BUFF_SIZE, the descriptors of the transmit ring (5)
  Recipients,    \* the phone numbers messages are sent to
  Recipient,     \* Recipient[m]: the number message m is sent to
  Unterminated,  \* the even-length numbers of fewer than ID_MAX_LENGTH digits
  Delivers,      \* the SMS_DELIVER packets the SMSC may send
  NoDeliver,     \* an empty recivedList slot; as a probe, a plain ping
  BadDescriptors,\* whether the device may report BAD_DESCRIPTOR
  MaxOutstanding,\* messages the user lets be unacknowledged at a time; ListSize + 1,
                 \* all the lists can hold, is no restriction
  MaxMessages,   \* bound: messages accepted
  MaxArrivals,   \* bound: SMS_DELIVER packets that arrive
  MaxAcks        \* bound: SMS_SUBMIT_ACKs in flight to the phone, per number

Messages == 1 .. MaxMessages

ASSUME ListSizeAssumption == ListSize \in Nat \ {0}
ASSUME TxRingAssumption == TxRingSize \in Nat \ {0, 1}
ASSUME BoundsAssumption ==
  /\ MaxOutstanding \in 1 .. ListSize + 1
  /\ MaxMessages \in Nat
  /\ MaxArrivals \in Nat
  /\ MaxAcks \in Nat
ASSUME RecipientAssumption ==
  /\ Recipient \in [Messages -> Recipients]
  /\ Unterminated \subseteq Recipients
ASSUME DeliverAssumption == NoDeliver \notin Delivers
ASSUME BadDescriptorsAssumption == BadDescriptors \in BOOLEAN

Slots == 0 .. ListSize - 1
NULL == -1       \* the null pointer where a slot's address is expected
Blank == 0       \* a zeroed SMS_SUBMIT or a zeroed packet
Garbage == -1    \* a packet filled from memory that holds no message

VARIABLES
  gpc,                 \* where the GUI thread is in sendMessage
  toSendListHead,
  toSendList,          \* slot -> the message in it
  toSend,              \* sendMessage's local: the slot it took
  accepted,            \* messages accepted so far (history)
  ToSendQueue,         \* the slots queued for the network thread
  npc,                 \* where the network thread is in its loop
  wake,                \* whether a bit of NetworkWakeupFlag is set
  messageThatWasSent,  \* the slot of the unacknowledged message, or NULL
  mymessage,           \* sendToSMSC's local copy of it
  received_message,    \* sendReceiveLoop's local: a recivedList slot, or NULL
  txRing,              \* the descriptors queued to the device, by buffer
  sendToSMSCbuffer,    \* the message the submit buffer holds
  probeBuffer12,       \* the deliver the probe buffer acknowledges
  recivedListHead,
  recivedList,         \* slot -> the deliver in it
  receiveQueue,        \* the slots queued to be acknowledged
  stored,              \* delivers handed to the UI (history)
  arrivals,            \* delivers that arrived (bounds the model)
  received,            \* messages the SMSC received
  acks,                \* number -> SMS_SUBMIT_ACKs in flight to the phone
  acked                \* delivers whose probe-ack the SMSC received

guiVars == <<gpc, toSendListHead, toSendList, toSend, accepted>>
netVars == <<npc, mymessage, received_message, sendToSMSCbuffer, probeBuffer12>>
deliverVars == <<recivedListHead, recivedList, stored, arrivals>>
smscVars == <<received, acks, acked>>
vars == <<guiVars, ToSendQueue, netVars, wake, messageThatWasSent, txRing,
          deliverVars, receiveQueue, smscVars>>

\* Mutant of After: the index is never wrapped.
AfterNoWrap(slot) == slot + 1

After(slot) == (slot + 1) % ListSize

-----------------------------------------------------------------------------
(***************************************************************************)
(* initSmsClient, and the threads and queues tx_application_define makes.  *)
(***************************************************************************)
Init ==
  /\ gpc = "idle"
  /\ toSendListHead = 0
  /\ toSendList = [s \in Slots |-> Blank]
  /\ toSend = NULL
  /\ accepted = 0
  /\ ToSendQueue = <<>>
  /\ npc = "wait"
  /\ wake = FALSE
  /\ messageThatWasSent = NULL
  /\ mymessage = NULL
  /\ received_message = NULL
  /\ txRing = <<>>
  /\ sendToSMSCbuffer = Blank
  /\ probeBuffer12 = NoDeliver
  /\ recivedListHead = 0
  /\ recivedList = [s \in Slots |-> NoDeliver]
  /\ receiveQueue = <<>>
  /\ stored = {}
  /\ arrivals = 0
  /\ received = {}
  /\ acks = [r \in Recipients |-> 0]
  /\ acked = {}

-----------------------------------------------------------------------------
(***************************************************************************)
(* The GUI thread: sendMessage.                                            *)
(***************************************************************************)
GuiStep(from, to) ==
  /\ gpc = from /\ gpc' = to
  /\ UNCHANGED <<netVars, wake, messageThatWasSent, txRing, deliverVars,
                 receiveQueue, smscVars>>

\* The messages accepted and not acknowledged.
Outstanding == Len(ToSendQueue) + (IF messageThatWasSent = NULL THEN 0 ELSE 1)

\* The user finished a message: inputPanelLoop calls sendMessage.
UserSends ==
  /\ accepted < MaxMessages
  /\ Outstanding < MaxOutstanding \/ MaxOutstanding = ListSize + 1
  /\ GuiStep("idle", "check")
  /\ UNCHANGED <<toSendListHead, toSendList, toSend, accepted, ToSendQueue>>

\* Mutant of sizeFreeToSend: off by one.
sizeFreeOffByOne == ListSize - Len(ToSendQueue) + 1

\* What tx_queue_info_get reports.
sizeFreeToSend == ListSize - Len(ToSendQueue)

\* sizeFreeToSend>0, or return FAIL.
CheckFree ==
  /\ GuiStep("check", IF sizeFreeToSend > 0 THEN "fill" ELSE "idle")
  /\ UNCHANGED <<toSendListHead, toSendList, toSend, accepted, ToSendQueue>>

\* Mutant of im_put_this: read after the head was advanced.
im_put_next == After(toSendListHead)

im_put_this == toSendListHead

\* Take the slot at the head, advance the head and fill the slot.
FillSlot ==
  /\ GuiStep("fill", "put")
  /\ toSend' = im_put_this
  /\ toSendListHead' = After(toSendListHead)
  /\ toSendList' = [toSendList EXCEPT ![im_put_this] = accepted + 1]
  /\ UNCHANGED <<accepted, ToSendQueue>>

\* tx_queue_send of the slot: SUCCESS, or FAIL with the slot already taken.
\* sendMessage leaves NetworkWakeupFlag alone.
QueueSlot ==
  /\ GuiStep("put", "idle")
  /\ IF Len(ToSendQueue) < ListSize
       THEN /\ ToSendQueue' = Append(ToSendQueue, toSend)
            /\ accepted' = accepted + 1
       ELSE UNCHANGED <<ToSendQueue, accepted>>
  /\ toSend' = NULL
  /\ UNCHANGED <<toSendListHead, toSendList>>

-----------------------------------------------------------------------------
(***************************************************************************)
(* The network thread: sendReceiveLoop, sendToSMSC and sendProbe.          *)
(***************************************************************************)
NetStep(from, to) ==
  /\ npc = from /\ npc' = to
  /\ UNCHANGED <<guiVars, deliverVars, smscVars>>

\* Room for a descriptor: one of the ring's entries always stays free.
TxRoom == Len(txRing) < TxRingSize - 1

\* tx_event_flags_get returns: a flag is set, and is cleared, or PING_TIME is
\* over.  A timeout needs nothing else to happen, so the step is always enabled.
Wait ==
  /\ NetStep("wait", "take")
  /\ wake' = FALSE
  /\ UNCHANGED <<ToSendQueue, mymessage, received_message, messageThatWasSent,
                 txRing, sendToSMSCbuffer, probeBuffer12, receiveQueue>>

\* Mutant of AllAcknowledged: the next message does not wait for the last one's
\* acknowledgment.
NoWaitForAck == TRUE

AllAcknowledged == messageThatWasSent = NULL

\* With no message unacknowledged, the next one of ToSendQueue, if any, is it.
TakeNext ==
  /\ NetStep("take", "choose")
  /\ IF AllAcknowledged /\ ToSendQueue # <<>>
       THEN /\ messageThatWasSent' = Head(ToSendQueue)
            /\ ToSendQueue' = Tail(ToSendQueue)
       ELSE UNCHANGED <<messageThatWasSent, ToSendQueue>>
  /\ UNCHANGED <<mymessage, received_message, wake, txRing, sendToSMSCbuffer,
                 probeBuffer12, receiveQueue>>

\* A message to send comes first; only without one is a probe sent.
ChooseSubmit ==
  /\ NetStep("choose", "load")
  /\ messageThatWasSent # NULL
  /\ UNCHANGED <<ToSendQueue, mymessage, received_message, wake,
                 messageThatWasSent, txRing, sendToSMSCbuffer, probeBuffer12,
                 receiveQueue>>

\* sendToSMSC copies the pointer again and zeroes the one static buffer.
LoadSubmit ==
  /\ NetStep("load", "fill")
  /\ mymessage' = messageThatWasSent
  /\ sendToSMSCbuffer' = Blank
  /\ UNCHANGED <<ToSendQueue, received_message, wake, messageThatWasSent, txRing,
                 probeBuffer12, receiveQueue>>

\* embsys_fill_submit through that copy: an interrupt between the test of
\* messageThatWasSent and the copy makes it NULL, and the fill reads address 0.
FillSubmit ==
  /\ NetStep("fill", "start")
  /\ sendToSMSCbuffer' = IF mymessage = NULL THEN Garbage
                                             ELSE toSendList[mymessage]
  /\ UNCHANGED <<ToSendQueue, mymessage, received_message, wake,
                 messageThatWasSent, txRing, probeBuffer12, receiveQueue>>

\* Mutant of TryAgainLater: every error of the driver drops the message.
GiveUp == messageThatWasSent' = NULL

TryAgainLater == UNCHANGED messageThatWasSent

\* network_send_packet_start: queued; or NETWORK_TRANSMIT_BUFFER_FULL; or
\* another error, which drops the message.  The length of a submit built from a
\* message is always legal: only garbage can be refused.
StartSubmit ==
  /\ NetStep("start", "wait")
  /\ \/ /\ TxRoom
        /\ txRing' = Append(txRing, "submit")
        /\ UNCHANGED messageThatWasSent
     \/ /\ ~TxRoom
        /\ TryAgainLater
        /\ UNCHANGED txRing
     \/ /\ sendToSMSCbuffer = Garbage
        /\ messageThatWasSent' = NULL
        /\ UNCHANGED txRing
  /\ mymessage' = NULL
  /\ UNCHANGED <<ToSendQueue, received_message, wake, sendToSMSCbuffer,
                 probeBuffer12, receiveQueue>>

\* No message to send: the oldest deliver to acknowledge, or a plain ping.
ChooseProbe ==
  /\ NetStep("choose", "probe")
  /\ messageThatWasSent = NULL
  /\ IF receiveQueue # <<>>
       THEN /\ received_message' = Head(receiveQueue)
            /\ receiveQueue' = Tail(receiveQueue)
       ELSE /\ received_message' = NULL
            /\ UNCHANGED receiveQueue
  /\ UNCHANGED <<ToSendQueue, mymessage, wake, messageThatWasSent, txRing,
                 sendToSMSCbuffer, probeBuffer12>>

\* sendProbe fills the one probe buffer from the recivedList slot.
FillProbe ==
  /\ NetStep("probe", "startProbe")
  /\ probeBuffer12' = IF received_message = NULL
                        THEN NoDeliver ELSE recivedList[received_message]
  /\ UNCHANGED <<ToSendQueue, mymessage, received_message, wake,
                 messageThatWasSent, txRing, sendToSMSCbuffer, receiveQueue>>

\* Queue it to the device; a full ring drops it.
StartProbe ==
  /\ NetStep("startProbe", "wait")
  /\ txRing' = IF TxRoom THEN Append(txRing, "probe") ELSE txRing
  /\ received_message' = NULL
  /\ UNCHANGED <<ToSendQueue, mymessage, wake, messageThatWasSent,
                 sendToSMSCbuffer, probeBuffer12, receiveQueue>>

NetworkThread ==
  \/ Wait \/ TakeNext
  \/ ChooseSubmit \/ LoadSubmit \/ FillSubmit \/ StartSubmit
  \/ ChooseProbe \/ FillProbe \/ StartProbe

-----------------------------------------------------------------------------
(***************************************************************************)
(* The timer, and the network interrupt with the device and the SMSC.      *)
(***************************************************************************)
Interrupt == UNCHANGED <<guiVars, ToSendQueue, netVars>>

\* my_timer expires and runs wakeUp, which re-arms it.
TimerExpires ==
  /\ Interrupt
  /\ ~wake
  /\ wake' = TRUE
  /\ UNCHANGED <<messageThatWasSent, txRing, deliverVars, receiveQueue, smscVars>>

\* Mutant of deliverSlot: the slot after the one whose index is queued.
deliverNextSlot == After(recivedListHead)

deliverSlot == recivedListHead

\* The received callback on an SMS_DELIVER: the slot at the head is written
\* before tx_queue_send says whether there is room for it.
DeliverArrives(d) ==
  /\ Interrupt
  /\ arrivals < MaxArrivals
  /\ arrivals' = arrivals + 1
  /\ recivedList' = [recivedList EXCEPT ![deliverSlot] = d]
  /\ IF Len(receiveQueue) < ListSize
       THEN /\ receiveQueue' = Append(receiveQueue, recivedListHead)
            /\ recivedListHead' = After(recivedListHead)
            /\ stored' = stored \cup {d}
            /\ wake' = TRUE
       ELSE UNCHANGED <<receiveQueue, recivedListHead, stored, wake>>
  /\ UNCHANGED <<messageThatWasSent, txRing, smscVars>>

\* Mutant of AckMatches: no acknowledgment is recognised.
AckNeverMatches(r) == {FALSE}

\* Whether an SMS_SUBMIT_ACK for r is taken for the unacknowledged message: the
\* reference is never set, so the number alone decides.  The pointer is used
\* unchecked, and an even-length number is compared past its last digit with
\* bytes nobody wrote: both outcomes are possible then.
AckMatches(r) ==
  IF messageThatWasSent = NULL THEN BOOLEAN
  ELSE IF Recipient[toSendList[messageThatWasSent]] # r THEN {FALSE}
  ELSE IF r \in Unterminated THEN BOOLEAN
  ELSE {TRUE}

\* The received callback on an SMS_SUBMIT_ACK.
AckArrives(r) ==
  /\ Interrupt
  /\ acks[r] > 0
  /\ acks' = [acks EXCEPT ![r] = @ - 1]
  /\ \E match \in AckMatches(r) :
       IF match THEN messageThatWasSent' = NULL /\ wake' = TRUE
                ELSE UNCHANGED <<messageThatWasSent, wake>>
  /\ UNCHANGED <<txRing, deliverVars, receiveQueue, received, acked>>

\* The network loses an SMS_SUBMIT_ACK.
AckLost(r) ==
  /\ Interrupt
  /\ acks[r] > 0
  /\ acks' = [acks EXCEPT ![r] = @ - 1]
  /\ UNCHANGED <<wake, messageThatWasSent, txRing, deliverVars, receiveQueue,
                 received, acked>>

\* The device is done with the oldest descriptor: it sent what the buffer of
\* the descriptor holds by then.
Transmitted(kind) ==
  /\ Interrupt
  /\ txRing # <<>>
  /\ Head(txRing) = kind
  /\ txRing' = Tail(txRing)
  /\ UNCHANGED <<wake, deliverVars, receiveQueue>>

\* The SMSC receives message m, and acknowledges every copy of it.
SubmitReceived(m) ==
  /\ Transmitted("submit")
  /\ sendToSMSCbuffer = m
  /\ received' = received \cup {m}
  /\ acks' = [acks EXCEPT ![Recipient[m]] = IF @ < MaxAcks THEN @ + 1 ELSE @]
  /\ UNCHANGED <<messageThatWasSent, acked>>

\* The SMSC receives a probe: the acknowledgment of a deliver, or a ping.
ProbeReceived ==
  /\ Transmitted("probe")
  /\ acked' = acked \cup ({probeBuffer12} \cap Delivers)
  /\ UNCHANGED <<messageThatWasSent, received, acks>>

\* NETWORK_ERROR, a packet lost on the way, or one the SMSC cannot parse.
PacketLost ==
  /\ \E kind \in {"submit", "probe"} : Transmitted(kind)
  /\ UNCHANGED <<messageThatWasSent, smscVars>>

\* BAD_DESCRIPTOR drops the unacknowledged message, whatever was transmitted.
BadDescriptor ==
  /\ BadDescriptors
  /\ \E kind \in {"submit", "probe"} : Transmitted(kind)
  /\ messageThatWasSent' = NULL
  /\ UNCHANGED smscVars

Device ==
  \/ \E m \in Messages : SubmitReceived(m)
  \/ ProbeReceived \/ PacketLost \/ BadDescriptor

-----------------------------------------------------------------------------
Gui == CheckFree \/ FillSlot \/ QueueSlot

Next ==
  \/ UserSends \/ Gui
  \/ NetworkThread
  \/ TimerExpires
  \/ \E d \in Delivers : DeliverArrives(d)
  \/ \E r \in Recipients : AckArrives(r) \/ AckLost(r)
  \/ Device

Spec == Init /\ [][Next]_vars

\* Both threads have priority 16 and a time slice, so each one that can run
\* does; the device works through its ring; and the network does not lose
\* everything: of the submits sent again and again, and of the acknowledgments of
\* them, infinitely many get through.
Fairness ==
  /\ WF_vars(Gui) /\ WF_vars(NetworkThread) /\ WF_vars(Device)
  /\ SF_vars(\E m \in Messages : SubmitReceived(m))
  /\ SF_vars(\E r \in Recipients : AckArrives(r))

FairSpec == Spec /\ Fairness

-----------------------------------------------------------------------------
(***************************************************************************)
(* Properties.                                                             *)
(***************************************************************************)

\* Every variable has its type.
TypeOK ==
  /\ gpc \in {"idle", "check", "fill", "put"}
  /\ toSendListHead \in Slots
  /\ toSendList \in [Slots -> Messages \cup {Blank}]
  /\ toSend \in Slots \cup {NULL}
  /\ accepted \in 0 .. MaxMessages
  /\ ToSendQueue \in Seq(Slots)
  /\ npc \in {"wait", "take", "choose", "load", "fill", "start", "probe",
              "startProbe"}
  /\ wake \in BOOLEAN
  /\ messageThatWasSent \in Slots \cup {NULL}
  /\ mymessage \in Slots \cup {NULL}
  /\ received_message \in Slots \cup {NULL}
  /\ txRing \in Seq({"submit", "probe"}) /\ Len(txRing) < TxRingSize
  /\ sendToSMSCbuffer \in Messages \cup {Blank, Garbage}
  /\ probeBuffer12 \in Delivers \cup {NoDeliver}
  /\ recivedListHead \in Slots
  /\ recivedList \in [Slots -> Delivers \cup {NoDeliver}]
  /\ receiveQueue \in Seq(Slots)
  /\ stored \in SUBSET Delivers
  /\ arrivals \in 0 .. MaxArrivals
  /\ received \in SUBSET Messages
  /\ acks \in [Recipients -> 0 .. MaxAcks]
  /\ acked \in SUBSET Delivers

\* The slot the next message queued by the GUI thread is in: the head, or,
\* inside sendMessage, the slot it has already moved the head past.
NextQueued == IF gpc = "put" THEN toSend ELSE toSendListHead

\* queue holds the slots just behind head, oldest first, and each slot once.
Window(queue, head) ==
  /\ Len(queue) <= ListSize
  /\ \A i \in 1 .. Len(queue) :
       queue[i] = (head + ListSize - (Len(queue) + 1 - i)) % ListSize

\* Each queue is the stretch of its list just behind the list's head, although
\* the heads are moved by one actor and the queues emptied by another.
QueuesAreWindows ==
  /\ Window(ToSendQueue, NextQueued)
  /\ Window(receiveQueue, recivedListHead)

\* The room sendMessage saw is still there when it queues the slot, so its
\* tx_queue_send never fails with the slot taken and the head advanced.
NoSlotLost == gpc \in {"fill", "put"} => Len(ToSendQueue) < ListSize

\* The messages that wait in ToSendQueue are the last ones accepted, in order,
\* each one whole in its slot whatever the GUI thread has written since.
WaitingIntact ==
  \A i \in 1 .. Len(ToSendQueue) :
    toSendList[ToSendQueue[i]] = accepted - Len(ToSendQueue) + i

\* The unacknowledged message is in the slot just before the waiting ones.
InFlightPrecedesWaiting ==
  messageThatWasSent # NULL =>
    After(messageThatWasSent) =
      IF ToSendQueue = <<>> THEN NextQueued ELSE Head(ToSendQueue)

\* messageThatWasSent is "the last message that was send and we didn't get ack
\* on him" (smsClient.c:36): its slot still holds the message it held when it
\* was taken from the queue.
InFlightIntact ==
  messageThatWasSent # NULL =>
    toSendList[messageThatWasSent] = accepted - Len(ToSendQueue)

\* The unacknowledged message is intact as long as one place of ToSendQueue is
\* free: only the message that takes the last place overwrites it.
InFlightIntactUntilFull ==
  Len(ToSendQueue) + (IF gpc = "put" THEN 1 ELSE 0) < ListSize => InFlightIntact

\* A deliver that waits for its acknowledgment behind an older one was given to
\* the UI: a packet dropped for want of room overwrites the oldest slot only.
PendingAcksStored ==
  \A i \in 2 .. Len(receiveQueue) : recivedList[receiveQueue[i]] \in stored

\* The slot whose deliver sendProbe is about to acknowledge has left receiveQueue, and the
\* interrupt may take it for the next empty place (smsClient.c:30): it is rewritten by no
\* deliver but the one that takes the queue's last place, behind those that came meanwhile.
TakenIntactUntilFull ==
  [][received_message # NULL /\ Len(receiveQueue') < ListSize =>
       recivedList'[received_message] = recivedList[received_message]]_vars

\* Only messages that reached the UI are acknowledged to the SMSC: the slot at
\* recivedListHead is "the next empty place" (smsClient.c:30) when it is written.
AcksOnlyStored == acked \subseteq stored

\* A message the SMSC has not received is still waiting or unacknowledged: "if a
\* message has been send and the server didn't received with ack, we send it
\* againg after PING_TIME" (README:69).
SubmissionsKept ==
  \A m \in 1 .. accepted :
    \/ m \in received
    \/ messageThatWasSent # NULL /\ toSendList[messageThatWasSent] = m
    \/ \E i \in 1 .. Len(ToSendQueue) : toSendList[ToSendQueue[i]] = m

\* The messages accepted and not acknowledged, oldest first.
Pending ==
  (IF messageThatWasSent = NULL THEN <<>> ELSE <<toSendList[messageThatWasSent]>>)
    \o [i \in 1 .. Len(ToSendQueue) |-> toSendList[ToSendQueue[i]]]

\* The client keeps the promise of Outbox: accepted messages reach the SMSC in
\* order, each at least once, and are forgotten only then.  It needs
\* MaxOutstanding < ListSize, messages to different numbers, of odd length, and a
\* device without BAD_DESCRIPTOR.  With MaxOutstanding = ListSize the network
\* thread, stopped between its copy of messageThatWasSent and the fill, can send a
\* newer message out of turn; the findings show what else happens otherwise.
OutboxPromise == INSTANCE Outbox WITH waiting <- Pending

ImplementsOutbox == OutboxPromise!Spec

\* Every message accepted is in the end received by the SMSC and no longer kept
\* to be sent again.
EveryMessageConfirmed ==
  \A m \in Messages :
    m <= accepted ~> m \in received /\ \A i \in DOMAIN Pending : Pending[i] # m

\* Every deliver waiting to be acknowledged is in the end taken from the queue,
\* although the network thread sends no acknowledgment while a message of its own
\* is unacknowledged.
AcknowledgmentsDrain == receiveQueue # <<>> ~> receiveQueue = <<>>

=============================================================================
