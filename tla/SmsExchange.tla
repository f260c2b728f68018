----------------------------- MODULE SmsExchange -----------------------------
(***************************************************************************)
(* One message through the protocol: the client fills a submit             *)
(* (ex4/smsClient.c), the SMSC acknowledges and delivers it, and the       *)
(* client parses what comes into variables on the stack of the interrupt,  *)
(* which hold anything before.                                             *)
(***************************************************************************)
EXTENDS SmsCodec

CONSTANTS
  Device,      \* the number of the phone
  Composed,    \* messages: records of a recipient and a text
  Timestamp,   \* the SMSC's
  Leftovers    \* what an id on the stack may hold before it is parsed into

DATA_MAX_LENGTH == 160

Chars(n) == [0 .. n - 1 -> 0 .. 255]
Ids == Chars(ID_MAX_LENGTH)

\* The fields of the messages that are parsed, with n letters: of a text, those that count.
SMS_DELIVER(n) ==
  [status : {"SUCCESS"}, sender : Ids, timestamp : Chars(TIMESTAMP_MAX_LENGTH),
   data_length : {n}, data : [0 .. n - 1 -> Septet]]
SMS_SUBMIT_ACK == [status : {"SUCCESS"}, msg_reference : 0 .. 255, recipient : Ids]

\* And of the one that is filled, but for the phone's own number and the reference.
SMS_SUBMIT(n) == [recipient : Ids, length : {n}, text : [0 .. n - 1 -> Septet]]

ASSUME ExchangeAssumption ==
  /\ Device \in Ids /\ Fillable(Device) /\ Leftovers \subseteq Ids
  /\ Timestamp \in [0 .. TIMESTAMP_MAX_LENGTH - 1 -> Zero .. Zero + 9]
  /\ \A c \in Composed : c.length \in 0 .. DATA_MAX_LENGTH /\ c \in SMS_SUBMIT(c.length)

VARIABLES
  stage,      \* how far the message has come
  composed,   \* the message
  leftover,   \* what was on the stack
  packet,     \* the packet on its way, as it was filled, or Fail
  parsed      \* the fields of the last packet parsed

exchangeVars == <<stage, composed, leftover, packet, parsed>>

ExchangeInit ==
  /\ stage = "composed"
  /\ composed \in Composed /\ leftover \in Leftovers
  /\ packet = Fail /\ parsed = Fail

Stage(from, to) == stage = from /\ stage' = to /\ UNCHANGED <<composed, leftover>>

\* sendToSMSC; the reference is a byte that is never set.
SendSubmit ==
  /\ Stage("composed", "submitted")
  /\ packet' = embsys_fill_submit(Device, 0, composed.recipient, composed.text, composed.length)
  /\ UNCHANGED parsed

\* The SMSC reads the fields by their place: device, reference, recipient, text.
ReferenceAt == 4 + SemiOctets(packet.buf[2])
RecipientOctets == SubSeq(packet.buf, ReferenceAt + 1,
                          ReferenceAt + 2 + SemiOctets(packet.buf[ReferenceAt + 1]))
LengthAt == ReferenceAt + Len(RecipientOctets) + 4

\* It acknowledges with the reference and the recipient,
SmscAcknowledges ==
  /\ Stage("submitted", "acknowledged")
  /\ packet.status = "SUCCESS"
  /\ LET ack == <<SMS_SUBMIT_ACK_OCTET, packet.buf[ReferenceAt]>> \o RecipientOctets
     IN packet' = Filled(ack, Len(ack))
  /\ UNCHANGED parsed

\* or delivers the text, here to the phone itself, from the number it was for.
SmscDelivers ==
  /\ Stage("submitted", "delivered")
  /\ packet.status = "SUCCESS"
  /\ LET deliver == <<SMS_DELIVER_OCTET>> \o RecipientOctets \o <<0, 0>>
           \o fillDecimalSemiOctetsWithTrailing(TIMESTAMP_MAX_LENGTH, Timestamp)
           \o From(packet.buf, LengthAt)
     IN packet' = Filled(deliver, Len(deliver))
  /\ UNCHANGED parsed

\* network_packet_received_cb1 takes what is not a deliver for an acknowledgment.
ParseAck ==
  /\ Stage("acknowledged", "ackParsed")
  /\ embsys_parse_deliver(packet.buf, leftover, Timestamp) = Fail
  /\ parsed' = embsys_parse_submit_ack(packet.buf, leftover)
  /\ UNCHANGED packet

ParseDeliver ==
  /\ Stage("delivered", "received")
  /\ parsed' = embsys_parse_deliver(packet.buf, leftover, [k \in DOMAIN Timestamp |-> NUL])
  /\ UNCHANGED packet

\* sendProbe: the deliver is acknowledged with its time and sender, or a bare probe is sent.
SendProbe ==
  /\ Stage("received", "probed")
  /\ parsed.status = "SUCCESS"
  /\ \E is_ack \in BOOLEAN :
       packet' = embsys_fill_probe(Device, is_ack, parsed.timestamp, parsed.sender)
  /\ UNCHANGED parsed

ExchangeNext ==
  \/ SendSubmit \/ SmscAcknowledges \/ SmscDelivers
  \/ ParseAck \/ ParseDeliver \/ SendProbe

ExchangeSpec == ExchangeInit /\ [][ExchangeNext]_exchangeVars

-----------------------------------------------------------------------------
\* The client's comparison of an acknowledgment with the message it waits for.
Matches(mine, theirs) ==
  \A k \in DOMAIN mine : (\A j \in 0 .. k - 1 : theirs[j] # NUL) => mine[k] = theirs[k]

\* The parsing terminates a number of odd length, one of full length needs no terminator,
\* and in any other the stack may hold one by chance.
Terminated(id) ==
  LET n == getLen(id) IN n % 2 = 1 \/ n = ID_MAX_LENGTH \/ leftover[n] = NUL

\* What the client parsed of a number has its digits, and is told apart like it where
\* its end can be seen.
ReadsBack(number, id) ==
  /\ \A k \in 0 .. getLen(number) - 1 : id[k] = number[k]
  /\ Terminated(number) => Matches(number, id) /\ getLen(id) = getLen(number)

ExchangeTypeOK ==
  /\ stage \in {"composed", "submitted", "acknowledged", "delivered", "ackParsed",
                "received", "probed"}
  /\ packet # Fail => \A k \in DOMAIN packet.buf : packet.buf[k] \in 0 .. 255
  /\ \/ parsed = Fail \/ parsed \in SMS_SUBMIT_ACK
     \/ parsed.data_length \in 0 .. DATA_MAX_LENGTH /\ parsed \in SMS_DELIVER(parsed.data_length)

\* Text and numbers come out of the protocol as they went in, whatever their length and
\* whatever the parsing functions find in the structures they fill.  Of a number that ends
\* where nobody can see it only the digits are promised: the comparison with it (187) and
\* the acknowledgment of a deliver from it go by what follows.  *len is the length of what
\* was written.
MessagesSurvive ==
  /\ packet # Fail => packet.len = Len(packet.buf)
  /\ stage \notin {"composed", "probed"} =>
       (packet.status = "SUCCESS" <=> Fillable(composed.recipient))
  /\ stage = "probed" /\ Terminated(composed.recipient) => packet.status = "SUCCESS"
  /\ stage = "ackParsed" /\ parsed # Fail => ReadsBack(composed.recipient, parsed.recipient)
  /\ stage = "received" /\ parsed # Fail =>
       /\ ReadsBack(composed.recipient, parsed.sender)
       /\ parsed.data = composed.text /\ parsed.data_length = composed.length
       /\ parsed.timestamp = Timestamp
  /\ stage \in {"ackParsed", "received"} =>
       (parsed = Fail <=> getLen(composed.recipient) = 0)

\* "'device_id', 'sender_id', 'recipient_id' are null-terminated if shorter then 8 digits"
\* (embsys_sms_protocol.h:12), as the client finds them in the structures parsed.
IdsTerminated ==
  LET n == getLen(composed.recipient) IN
    n < ID_MAX_LENGTH /\ parsed # Fail =>
      /\ stage = "ackParsed" => parsed.recipient[n] = NUL
      /\ stage = "received" => parsed.sender[n] = NUL
=============================================================================
