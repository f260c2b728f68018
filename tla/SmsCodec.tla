------------------------------- MODULE SmsCodec -------------------------------
(***************************************************************************)
(* The packets of the SMS protocol (ex4/embsys_sms_protocol.c), octet by   *)
(* octet: numbers as decimal semi-octets, text as septets packed into      *)
(* octets.  A text is a function from 0 to septets, an array of the code.  *)
(* A char has eight bits and no sign.                                      *)
(***************************************************************************)
EXTENDS Integers, Sequences

ID_MAX_LENGTH == 8
NUL == 0
Zero == 48  \* '0'
Septet == 0 .. 127

\* 2^b for the shifts of the code.
Two(b) == <<1, 2, 4, 8, 16, 32, 64, 128, 256>>[b + 1]

-----------------------------------------------------------------------------
(***************************************************************************)
(* Numbers.  An id is an array of ID_MAX_LENGTH chars.                     *)
(***************************************************************************)

\* The chars before the terminator; a full array has none.
getLen(id) ==
  CHOOSE n \in 0 .. ID_MAX_LENGTH :
    /\ \A k \in 0 .. n - 1 : id[k] # NUL
    /\ n < ID_MAX_LENGTH => id[n] = NUL

SemiOctets(n) == (n % 2) + n \div 2

IsDigit(c) == c \in Zero .. Zero + 9

\* Two digits an octet, the first one in the low half; 15 fills the last octet.
fillDecimalSemiOctetsWithTrailing(idLen, id) ==
  [k \in 1 .. SemiOctets(idLen) |->
     (IF 2 * k - 1 < idLen THEN id[2 * k - 1] - Zero ELSE 15) * 16 + id[2 * k - 2] - Zero]

\* Only digits can be written.
Fillable(id) == \A k \in 0 .. getLen(id) - 1 : IsDigit(id[k])

\* The array after idLen digits of buf were written into it: terminated when idLen is odd.
parseDecimalSemiOctetsWithTrailing(buf, idLen, id) ==
  [k \in DOMAIN id |->
     CASE k < idLen -> Zero + (IF k % 2 = 0 THEN buf[k \div 2 + 1] % 16
                                            ELSE buf[k \div 2 + 1] \div 16)
       [] k = idLen /\ idLen % 2 = 1 -> NUL
       [] OTHER -> id[k]]

-----------------------------------------------------------------------------
(***************************************************************************)
(* Text.  In the i-th round of both loops the borrowed bits are i % 8.     *)
(***************************************************************************)

\* The octets of a text: the eighth round of each eight writes none.
PackedLength(n) == n - n \div 8

\* Mutant of Octet: the bits given to the octet before are not shifted out.
OctetUnshifted(text, data_length, i) ==
  LET brrow == (i % 8) + 1
      next == IF i < data_length - 1 THEN text[i + 1] ELSE NUL
  IN (text[i] + next * Two(8 - brrow)) % 256

\* What is left of the i-th septet, and the low bits of the next one above it.
Octet(text, data_length, i) ==
  LET brrow == (i % 8) + 1
      next == IF i < data_length - 1 THEN text[i + 1] ELSE NUL
  IN (text[i] \div Two(brrow - 1) + next * Two(8 - brrow)) % 256

\* The k-th octet is written in round k - 1 + (k - 1) \div 7.
fillBuffwithData(text, data_length) ==
  [k \in 1 .. PackedLength(data_length) |->
     Octet(text, data_length, k - 1 + (k - 1) \div 7)]

\* The octet being read in round i is i - i \div 8; the one before it lends its high bits.
parseBuffwithData(buf, data_length) ==
  [i \in 0 .. data_length - 1 |->
     LET brrow == i % 8
         at == i - i \div 8 + 1
     IN CASE brrow = 0 -> buf[at] % 128
          [] brrow = 7 -> buf[at - 1] \div 2
          [] OTHER -> (buf[at] % Two(7 - brrow)) * Two(brrow) + buf[at - 1] \div Two(8 - brrow)]

-----------------------------------------------------------------------------
(***************************************************************************)
(* Packets: sequences of octets.                                           *)
(***************************************************************************)
SMS_DELIVER_OCTET == 4
SMS_PROBE_OCTET == 2
SMS_SUBMIT_OCTET == 17
SMS_PROBE_ACK_OCTET == 18
SMS_SUBMIT_ACK_OCTET == 7
TYPE_OF_ADDRESS_OCTET == 201
SMSC_DEFAULT_VALIDITY_PERIOD == 59
TIMESTAMP_MAX_LENGTH == 14

\* Length, type and digits of an address.
Address(id) ==
  <<getLen(id), TYPE_OF_ADDRESS_OCTET>> \o fillDecimalSemiOctetsWithTrailing(getLen(id), id)

\* Status, packet and *len of the filling functions; *len is computed by itself.
Filled(buf, len) == [status |-> "SUCCESS", buf |-> buf, len |-> len]
Fail == [status |-> "FAIL"]

embsys_fill_probe(device, is_ack, timestamp, sender) ==
  LET probe == <<SMS_PROBE_OCTET>> \o Address(device)
      probeLen == 3 + SemiOctets(getLen(device))
  IN CASE ~Fillable(device) \/ (is_ack /\ ~Fillable(sender)) -> Fail
       [] ~is_ack -> Filled(probe, probeLen)
       [] OTHER ->
            Filled(<<SMS_PROBE_ACK_OCTET>> \o Tail(probe)
                     \o fillDecimalSemiOctetsWithTrailing(TIMESTAMP_MAX_LENGTH, timestamp)
                     \o Address(sender),
                   probeLen + SemiOctets(TIMESTAMP_MAX_LENGTH) + 2 + SemiOctets(getLen(sender)))

embsys_fill_submit(device, msg_reference, recipient, text, data_length) ==
  IF ~Fillable(device) \/ ~Fillable(recipient) THEN Fail
  ELSE Filled(<<SMS_SUBMIT_OCTET>> \o Address(device) \o <<msg_reference>> \o Address(recipient)
                \o <<0, 0, SMSC_DEFAULT_VALIDITY_PERIOD, data_length>>
                \o fillBuffwithData(text, data_length),
              PackedLength(data_length) + 10 + SemiOctets(getLen(device))
                + SemiOctets(getLen(recipient)))

From(buf, n) == SubSeq(buf, n, Len(buf))

LegalLength(n) == n \in 1 .. ID_MAX_LENGTH

\* The fields; recipient is what msg_fields->recipient_id held before.
embsys_parse_submit_ack(buf, recipient) ==
  IF buf[1] # SMS_SUBMIT_ACK_OCTET \/ ~LegalLength(buf[3]) \/ buf[4] # TYPE_OF_ADDRESS_OCTET
    THEN Fail
    ELSE [status |-> "SUCCESS", msg_reference |-> buf[2],
          recipient |-> parseDecimalSemiOctetsWithTrailing(From(buf, 5), buf[3], recipient)]

embsys_parse_deliver(buf, sender, timestamp) ==
  LET pid == 4 + SemiOctets(buf[2])
      length == pid + 2 + SemiOctets(TIMESTAMP_MAX_LENGTH)
  IN IF \/ buf[1] # SMS_DELIVER_OCTET \/ ~LegalLength(buf[2])
        \/ buf[3] # TYPE_OF_ADDRESS_OCTET \/ buf[pid] # 0 \/ buf[pid + 1] # 0
       THEN Fail
       ELSE [status |-> "SUCCESS",
             sender |-> parseDecimalSemiOctetsWithTrailing(From(buf, 4), buf[2], sender),
             timestamp |-> parseDecimalSemiOctetsWithTrailing(
                             From(buf, pid + 2), TIMESTAMP_MAX_LENGTH, timestamp),
             data_length |-> buf[length],
             data |-> parseBuffwithData(From(buf, length + 1), buf[length])]
=============================================================================
