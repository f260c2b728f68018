----------------------------- MODULE PackingProofs -----------------------------
(***************************************************************************)
(* Proofs about the two packings: that numbers and texts survive theirs    *)
(* into the octets of a packet, for every length, and a message the whole  *)
(* exchange; and that bytes are written to and read from the flash at      *)
(* their own place.                                                        *)
(***************************************************************************)
EXTENDS SmsExchange, FlashRegisters, SequenceTheorems, TLAPS

-----------------------------------------------------------------------------
(***************************************************************************)
(* The packets of the SMS protocol.                                        *)
(***************************************************************************)
\* The shifts of the code multiply and divide by powers of two.
LEMMA TwoValues ==
  /\ Two(0) = 1 /\ Two(1) = 2 /\ Two(2) = 4 /\ Two(3) = 8 /\ Two(4) = 16
  /\ Two(5) = 32 /\ Two(6) = 64 /\ Two(7) = 128 /\ Two(8) = 256
BY DEF Two

\* Both loops go round the borrowed bits: round i is the b-th of the a-th eight.
LEMMA Rounds ==
  ASSUME NEW i \in Nat
  PROVE  \E a \in Nat, b \in 0 .. 7 : i = 8 * a + b /\ i \div 8 = a /\ i % 8 = b
<1>1. i \div 8 \in Nat /\ i % 8 \in 0 .. 7 /\ i = 8 * (i \div 8) + (i % 8)
  OBVIOUS
<1> QED BY <1>1

\* Where fillBuffwithData puts the octet of a round: each eighth round has none.
LEMMA OctetWritten ==
  ASSUME NEW n \in Nat, NEW text, NEW a \in Nat, NEW b \in 0 .. 6, 8 * a + b < n
  PROVE  fillBuffwithData(text, n)[7 * a + b + 1] = Octet(text, n, 8 * a + b)
<1>1. 7 * a + b + 1 \in 1 .. PackedLength(n)
  BY DEF PackedLength
<1>2. (7 * a + b) \div 7 = a
  OBVIOUS
<1>3. (7 * a + b + 1) - 1 = 7 * a + b
  OBVIOUS
<1>4. 7 * a + b + a = 8 * a + b
  OBVIOUS
<1> QED BY <1>1, <1>2, <1>3, <1>4 DEF fillBuffwithData

\* The powers of two on either side of a cut through a septet.
Cut(m, p) ==
  \/ m = 2 /\ p = 64
  \/ m = 4 /\ p = 32
  \/ m = 8 /\ p = 16
  \/ m = 16 /\ p = 8
  \/ m = 32 /\ p = 4
  \/ m = 64 /\ p = 2

\* A septet y that was cut is the high bits that begin its own octet, below the low
\* bits of z, and the low bits that end the octet before, above what was left of x.
LEMMA Joined ==
  ASSUME NEW x \in Septet, NEW y \in Septet, NEW z \in Septet,
         NEW m \in Nat, NEW p \in Nat, Cut(m, p)
  PROVE  (((y \div m + z * p) % 256) % p) * m
           + ((x \div (m \div 2) + y * (2 * p)) % 256) \div (2 * p) = y
<1> USE DEF Septet, Cut
<1>1. PICK q \in 0 .. p - 1, r \in 0 .. m - 1 : y = m * q + r
  <2>1. y \div m \in 0 .. p - 1 /\ y % m \in 0 .. m - 1 /\ y = m * (y \div m) + (y % m)
    OBVIOUS
  <2> QED BY <2>1
<1>2. y \div m = q
  BY <1>1
<1>3. ((q + z * p) % 256) % p = q
  OBVIOUS
<1>4. x \div (m \div 2) \in 0 .. (2 * p - 1)
  OBVIOUS
<1>5. (x \div (m \div 2) + y * (2 * p)) % 256 = x \div (m \div 2) + (2 * p) * r
  BY <1>1, <1>4
<1>6. (x \div (m \div 2) + (2 * p) * r) \div (2 * p) = r
  BY <1>1, <1>4
<1> QED BY <1>1, <1>2, <1>3, <1>5, <1>6

\* Where no bit is borrowed, the high bit of an octet is the next septet's.
LEMMA First ==
  ASSUME NEW y \in Septet, NEW z \in Septet
  PROVE  ((y \div 1 + z * 128) % 256) % 128 = y
BY DEF Septet

\* Where all seven are, the septet is above the one bit left of the one before it.
LEMMA Eighth ==
  ASSUME NEW x \in Septet, NEW y \in Septet
  PROVE  ((x \div 64 + y * 2) % 256) \div 2 = y
BY DEF Septet

\* Parsing what was filled gives back the text, whatever its length: no septet is
\* lost, moved or mixed with its neighbours where the eighth of a group shares the
\* octet before it, nor at the end, where the last octet borrows from nothing.
THEOREM TextSurvives ==
  ASSUME NEW n \in Nat, NEW text \in [0 .. n - 1 -> Septet]
  PROVE  parseBuffwithData(fillBuffwithData(text, n), n) = text
<1> DEFINE buf == fillBuffwithData(text, n)
           next(i) == IF i < n - 1 THEN text[i + 1] ELSE NUL
<1>1. ASSUME NEW i \in 0 .. n - 1
      PROVE  parseBuffwithData(buf, n)[i] = text[i]
  <2>1. PICK a \in Nat, b \in 0 .. 7 : i = 8 * a + b /\ i \div 8 = a /\ i % 8 = b
    BY Rounds
  <2>2. i - i \div 8 + 1 = 7 * a + b + 1 /\ i - i \div 8 + 1 - 1 = 7 * a + b
    BY <2>1
  <2>3. text[i] \in Septet /\ next(i) \in Septet
    BY DEF Septet, NUL
  <2> HIDE DEF buf, next
  <2>4. parseBuffwithData(buf, n)[i]
          = CASE b = 0 -> buf[7 * a + b + 1] % 128
              [] b = 7 -> buf[7 * a + b] \div 2
              [] OTHER -> (buf[7 * a + b + 1] % Two(7 - b)) * Two(b)
                            + buf[7 * a + b] \div Two(8 - b)
    <3>1. parseBuffwithData(buf, n)[i]
            = CASE i % 8 = 0 -> buf[i - i \div 8 + 1] % 128
                [] i % 8 = 7 -> buf[i - i \div 8 + 1 - 1] \div 2
                [] OTHER -> (buf[i - i \div 8 + 1] % Two(7 - (i % 8))) * Two(i % 8)
                              + buf[i - i \div 8 + 1 - 1] \div Two(8 - (i % 8))
      BY DEF parseBuffwithData
    <3> QED BY <2>1, <2>2, <3>1
  <2>5. b # 7 => buf[7 * a + b + 1] = (text[i] \div Two(b) + next(i) * Two(7 - b)) % 256
    <3>1. SUFFICES ASSUME b \in 0 .. 6
                   PROVE  buf[7 * a + b + 1] = (text[i] \div Two(b) + next(i) * Two(7 - b)) % 256
      OBVIOUS
    <3>2. 8 * a + b < n
      BY <2>1
    <3>3. buf[7 * a + b + 1] = Octet(text, n, i)
      BY <2>1, <3>1, <3>2, OctetWritten, SMTT(30) DEF buf
    <3>4. (i % 8) + 1 - 1 = b /\ 8 - ((i % 8) + 1) = 7 - b
      BY <2>1
    <3> QED BY <3>3, <3>4 DEF Octet, next
  <2>6. b # 0 => /\ i - 1 \in 0 .. n - 1 /\ text[i - 1] \in Septet
                 /\ buf[7 * a + b] = (text[i - 1] \div Two(b - 1) + text[i] * Two(8 - b)) % 256
    <3>1. SUFFICES ASSUME b \in 1 .. 7
                   PROVE  /\ i - 1 \in 0 .. n - 1 /\ text[i - 1] \in Septet
                          /\ buf[7 * a + b]
                               = (text[i - 1] \div Two(b - 1) + text[i] * Two(8 - b)) % 256
      OBVIOUS
    <3>2. i - 1 = 8 * a + (b - 1) /\ i - 1 \in 0 .. n - 1 /\ i - 1 < n /\ b - 1 \in 0 .. 6
      BY <2>1, <3>1
    <3>3. buf[7 * a + (b - 1) + 1] = Octet(text, n, i - 1)
      <4>1. 8 * a + (b - 1) < n
        BY <3>2
      <4>2. buf[7 * a + (b - 1) + 1] = Octet(text, n, 8 * a + (b - 1))
        BY <3>2, <4>1, OctetWritten DEF buf
      <4> QED BY <3>2, <4>2
    <3>4. 7 * a + (b - 1) + 1 = 7 * a + b
      OBVIOUS
    <3>5. ((i - 1) % 8) + 1 - 1 = b - 1 /\ 8 - (((i - 1) % 8) + 1) = 8 - b
      <4>1. (i - 1) % 8 = b - 1
        BY <3>2
      <4> QED BY <4>1
    <3>6. i - 1 < n - 1 /\ i - 1 + 1 = i
      OBVIOUS
    <3> QED BY <3>2, <3>3, <3>4, <3>5, <3>6 DEF Octet
  <2>7. CASE b = 0
    <3>1. ((text[i] \div 1 + next(i) * 128) % 256) % 128 = text[i]
      BY <2>3, First
    <3> QED BY <2>4, <2>5, <2>7, <3>1, TwoValues
  <2>8. CASE b = 7
    <3>1. ((text[i - 1] \div 64 + text[i] * 2) % 256) \div 2 = text[i]
      BY <2>3, <2>6, <2>8, Eighth
    <3> QED BY <2>4, <2>6, <2>8, <3>1, TwoValues
  <2>9. CASE b \in 1 .. 6
    <3>1. /\ Cut(Two(b), Two(7 - b)) /\ Two(b) \in Nat /\ Two(7 - b) \in Nat
          /\ Two(b - 1) = Two(b) \div 2 /\ Two(8 - b) = 2 * Two(7 - b)
      BY <2>9, TwoValues DEF Cut
    <3>2. (((text[i] \div Two(b) + next(i) * Two(7 - b)) % 256) % Two(7 - b)) * Two(b)
            + ((text[i - 1] \div Two(b - 1) + text[i] * Two(8 - b)) % 256) \div Two(8 - b)
          = text[i]
      BY <2>3, <2>6, <2>9, <3>1, Joined
    <3> QED BY <2>4, <2>5, <2>6, <2>9, <3>2, SMTT(30)
  <2> QED BY <2>7, <2>8, <2>9
<1>2. parseBuffwithData(buf, n) = [i \in 0 .. n - 1 |-> parseBuffwithData(buf, n)[i]]
  BY DEF parseBuffwithData
<1> QED BY <1>1, <1>2

\* A number comes back digit by digit, whatever its length and whatever follows it in
\* the packet.  A terminator follows it only where the number of digits is odd, from the
\* filling of the last octet: after an even one the array keeps what was there, although
\* embsys_sms_protocol.h asks for a terminated string.
THEOREM NumberSurvives ==
  ASSUME NEW idLen \in Nat, NEW id, NEW old, NEW buf,
         \A k \in 0 .. idLen - 1 : IsDigit(id[k]),
         \A k \in 1 .. SemiOctets(idLen) :
           buf[k] = fillDecimalSemiOctetsWithTrailing(idLen, id)[k]
  PROVE  /\ \A k \in 0 .. idLen - 1 : k \in DOMAIN old =>
              parseDecimalSemiOctetsWithTrailing(buf, idLen, old)[k] = id[k]
         /\ idLen \in DOMAIN old =>
              parseDecimalSemiOctetsWithTrailing(buf, idLen, old)[idLen]
                = IF idLen % 2 = 1 THEN NUL ELSE old[idLen]
<1> DEFINE digits == parseDecimalSemiOctetsWithTrailing(buf, idLen, old)
<1>1. ASSUME NEW k \in 0 .. idLen - 1, k \in DOMAIN old
      PROVE  digits[k] = id[k]
  <2>1. digits[k] = Zero + (IF k % 2 = 0 THEN buf[k \div 2 + 1] % 16 ELSE buf[k \div 2 + 1] \div 16)
    BY <1>1 DEF parseDecimalSemiOctetsWithTrailing
  <2>2. PICK h \in Nat, r \in 0 .. 1 : k = 2 * h + r /\ k \div 2 = h /\ k % 2 = r
    <3>1. k \div 2 \in Nat /\ k % 2 \in 0 .. 1 /\ k = 2 * (k \div 2) + (k % 2)
      OBVIOUS
    <3> QED BY <3>1
  <2>3. 2 * h \in 0 .. idLen - 1 /\ h + 1 \in 1 .. SemiOctets(idLen)
    BY <2>2 DEF SemiOctets
  <2>4. 2 * (h + 1) - 1 = 2 * h + 1 /\ 2 * (h + 1) - 2 = 2 * h
    OBVIOUS
  <2>5. buf[h + 1] = (IF 2 * h + 1 < idLen THEN id[2 * h + 1] - Zero ELSE 15) * 16
                       + id[2 * h] - Zero
    BY <2>3, <2>4 DEF fillDecimalSemiOctetsWithTrailing
  <2> HIDE DEF digits
  <2>6. id[2 * h] \in Zero .. Zero + 9
    BY <2>3 DEF IsDigit
  <2>7. CASE r = 0
    <3>1. buf[h + 1] % 16 = id[2 * h] - Zero
      <4>1. CASE 2 * h + 1 < idLen
        <5>1. id[2 * h + 1] \in Zero .. Zero + 9
          BY <4>1 DEF IsDigit
        <5> QED BY <2>5, <2>6, <4>1, <5>1 DEF Zero
      <4>2. CASE ~(2 * h + 1 < idLen)
        BY <2>5, <2>6, <4>2 DEF Zero
      <4> QED BY <4>1, <4>2
    <3> QED BY <2>1, <2>2, <2>6, <2>7, <3>1 DEF Zero
  <2>8. CASE r = 1
    <3>1. k = 2 * h + 1 /\ 2 * h + 1 < idLen
      BY <2>2, <2>8
    <3>2. id[2 * h + 1] \in Zero .. Zero + 9
      BY <3>1 DEF IsDigit
    <3>3. buf[h + 1] \div 16 = id[k] - Zero
      BY <2>5, <2>6, <3>1, <3>2 DEF Zero
    <3> QED BY <2>1, <2>2, <2>8, <3>1, <3>2, <3>3 DEF Zero
  <2> QED BY <2>7, <2>8
<1>2. ASSUME idLen \in DOMAIN old
      PROVE  digits[idLen] = IF idLen % 2 = 1 THEN NUL ELSE old[idLen]
  <2>1. ~(idLen < idLen)
    OBVIOUS
  <2> QED BY <1>2, <2>1 DEF parseDecimalSemiOctetsWithTrailing
<1> QED BY <1>1, <1>2

-----------------------------------------------------------------------------
(***************************************************************************)
(* The packets of an exchange.                                             *)
(***************************************************************************)
Octets == 0 .. 255
Packets == Seq(Octets)

\* A sequence behind another, read from its place.
LEMMA TwoParts ==
  ASSUME NEW s \in Packets, NEW t \in Packets
  PROVE  /\ s \o t \in Packets /\ Len(s \o t) = Len(s) + Len(t)
         /\ From(s \o t, Len(s) + 1) = t
         /\ \A i \in 1 .. Len(s) : (s \o t)[i] = s[i]
         /\ \A i \in 1 .. Len(t) : (s \o t)[Len(s) + i] = t[i]
<1> USE DEF Packets
<1> DEFINE w == s \o t
           p == Len(s) + 1
           v == SubSeq(w, p, Len(w))
<1>1. /\ Len(s) \in Nat /\ Len(t) \in Nat
      /\ w \in Packets /\ Len(w) = Len(s) + Len(t)
      /\ \A i \in 1 .. Len(s) + Len(t) : w[i] = IF i <= Len(s) THEN s[i] ELSE t[i - Len(s)]
  BY ConcatProperties, LenProperties
<1> HIDE DEF w
<1>2. \A i \in 1 .. Len(s) : w[i] = s[i]
  BY <1>1
<1>3. ASSUME NEW i \in 1 .. Len(t)
      PROVE  w[Len(s) + i] = t[i]
  <2>1. Len(s) + i \in 1 .. Len(s) + Len(t) /\ ~(Len(s) + i <= Len(s)) /\ Len(s) + i - Len(s) = i
    BY <1>1
  <2> QED BY <1>1, <2>1
<1>4. \A i \in p .. Len(w) : w[i] \in Octets
  BY <1>1, LenProperties, ElementOfSeq
<1>5. p \in Int /\ Len(w) \in Int
  BY <1>1
<1>6. /\ v \in Packets
      /\ Len(v) = IF p <= Len(w) THEN Len(w) - p + 1 ELSE 0
      /\ \A i \in 1 .. Len(w) - p + 1 : v[i] = w[p + i - 1]
  <2> HIDE DEF p
  <2> QED BY <1>4, <1>5, SubSeqProperties
<1> HIDE DEF v
<1>7. Len(v) = Len(t)
  BY <1>1, <1>6
<1>8. ASSUME NEW i \in 1 .. Len(t)
      PROVE  v[i] = t[i]
  <2>1. i \in 1 .. Len(w) - p + 1 /\ p + i - 1 = Len(s) + i
    BY <1>1
  <2> QED BY <1>3, <1>6, <2>1
<1>9. v = t
  BY <1>6, <1>7, <1>8, SeqEqual
<1> QED BY <1>1, <1>2, <1>3, <1>9 DEF v, w, From

\* Parts of a sequence put together from three.
LEMMA ThreeParts ==
  ASSUME NEW s \in Packets, NEW t \in Packets, NEW u \in Packets
  PROVE  /\ s \o t \o u \in Packets
         /\ Len(s \o t \o u) = Len(s) + Len(t) + Len(u)
         /\ SubSeq(s \o t \o u, Len(s) + 1, Len(s) + Len(t)) = t
         /\ From(s \o t \o u, Len(s) + Len(t) + 1) = u
         /\ \A i \in 1 .. Len(s) : (s \o t \o u)[i] = s[i]
         /\ \A i \in 1 .. Len(t) : (s \o t \o u)[Len(s) + i] = t[i]
         /\ \A i \in 1 .. Len(u) : (s \o t \o u)[Len(s) + Len(t) + i] = u[i]
<1> USE DEF Packets
<1> DEFINE w == s \o t \o u
<1>1. /\ Len(s) \in Nat /\ Len(t) \in Nat /\ Len(u) \in Nat
      /\ s \o t \in Packets /\ Len(s \o t) = Len(s) + Len(t)
      /\ \A i \in 1 .. Len(s) + Len(t) :
           (s \o t)[i] = IF i <= Len(s) THEN s[i] ELSE t[i - Len(s)]
  BY ConcatProperties, LenProperties
<1>2. /\ w \in Packets /\ Len(w) = Len(s) + Len(t) + Len(u)
      /\ \A i \in 1 .. Len(s) + Len(t) + Len(u) :
           w[i] = IF i <= Len(s) + Len(t) THEN (s \o t)[i] ELSE u[i - (Len(s) + Len(t))]
  BY <1>1, ConcatProperties
<1> HIDE DEF w
<1>3. /\ \A i \in 1 .. Len(s) : w[i] = s[i]
      /\ \A i \in 1 .. Len(t) : w[Len(s) + i] = t[i]
      /\ \A i \in 1 .. Len(u) : w[Len(s) + Len(t) + i] = u[i]
  <2>1. \A i \in 1 .. Len(s) : w[i] = s[i]
    BY <1>1, <1>2
  <2>2. ASSUME NEW i \in 1 .. Len(t)
        PROVE  w[Len(s) + i] = t[i]
    <3>1. Len(s) + i \in 1 .. Len(s) + Len(t) /\ ~(Len(s) + i <= Len(s)) /\ Len(s) + i - Len(s) = i
      BY <1>1
    <3>2. Len(s) + i \in 1 .. Len(s) + Len(t) + Len(u) /\ Len(s) + i <= Len(s) + Len(t)
      BY <1>1
    <3> QED BY <1>1, <1>2, <3>1, <3>2
  <2>3. ASSUME NEW i \in 1 .. Len(u)
        PROVE  w[Len(s) + Len(t) + i] = u[i]
    <3>1. /\ Len(s) + Len(t) + i \in 1 .. Len(s) + Len(t) + Len(u)
          /\ ~(Len(s) + Len(t) + i <= Len(s) + Len(t))
          /\ Len(s) + Len(t) + i - (Len(s) + Len(t)) = i
      BY <1>1
    <3> QED BY <1>2, <3>1
  <2> QED BY <2>1, <2>2, <2>3
<1>4. SubSeq(w, Len(s) + 1, Len(s) + Len(t)) = t
  <2>1. \A i \in Len(s) + 1 .. Len(s) + Len(t) : w[i] \in Octets
    BY <1>1, <1>2, LenProperties, ElementOfSeq
  <2>2. /\ SubSeq(w, Len(s) + 1, Len(s) + Len(t)) \in Packets
        /\ Len(SubSeq(w, Len(s) + 1, Len(s) + Len(t)))
             = IF Len(s) + 1 <= Len(s) + Len(t) THEN Len(s) + Len(t) - (Len(s) + 1) + 1 ELSE 0
        /\ \A i \in 1 .. Len(s) + Len(t) - (Len(s) + 1) + 1 :
             SubSeq(w, Len(s) + 1, Len(s) + Len(t))[i] = w[Len(s) + 1 + i - 1]
    BY <1>1, <2>1, SubSeqProperties
  <2>3. Len(SubSeq(w, Len(s) + 1, Len(s) + Len(t))) = Len(t)
    BY <1>1, <2>2
  <2>4. \A i \in 1 .. Len(t) : SubSeq(w, Len(s) + 1, Len(s) + Len(t))[i] = t[i]
    BY <1>1, <1>3, <2>2
  <2> QED BY <2>2, <2>3, <2>4, SeqEqual
<1>5. From(w, Len(s) + Len(t) + 1) = u
  <2>1. From(s \o t \o u, Len(s \o t) + 1) = u
    BY <1>1, TwoParts
  <2> QED BY <1>1, <2>1 DEF w
<1> QED BY <1>2, <1>3, <1>4, <1>5 DEF w

LEMMA Associates ==
  ASSUME NEW s \in Packets, NEW t \in Packets, NEW u \in Packets
  PROVE  (s \o t) \o u = s \o (t \o u)
BY ConcatAssociative DEF Packets

\* The chars before the terminator are counted, and no others.
LEMMA LengthOfNumber ==
  ASSUME NEW id
  PROVE  /\ getLen(id) \in 0 .. ID_MAX_LENGTH
         /\ \A k \in 0 .. getLen(id) - 1 : id[k] # NUL
         /\ getLen(id) < ID_MAX_LENGTH => id[getLen(id)] = NUL
<1> DEFINE P(n) == /\ \A k \in 0 .. n - 1 : id[k] # NUL
                   /\ n < ID_MAX_LENGTH => id[n] = NUL
<1>1. \E n \in 0 .. ID_MAX_LENGTH : P(n)
  <2>1. CASE \A k \in 0 .. 7 : id[k] # NUL
    BY <2>1 DEF ID_MAX_LENGTH
  <2>2. CASE id[0] = NUL
    BY <2>2 DEF ID_MAX_LENGTH
  <2>3. ASSUME NEW k \in 1 .. 7, id[k] = NUL, \A j \in 0 .. k - 1 : id[j] # NUL
        PROVE  \E n \in 0 .. ID_MAX_LENGTH : P(n)
    BY <2>3 DEF ID_MAX_LENGTH
  <2>4. CASE id[0] # NUL /\ \E k \in 0 .. 7 : id[k] = NUL
    <3>1. \E k \in 1 .. 7 : id[k] = NUL /\ \A j \in 0 .. k - 1 : id[j] # NUL
      BY <2>4
    <3> QED BY <2>3, <3>1
  <2> QED BY <2>1, <2>2, <2>4
<1>2. getLen(id) = CHOOSE n \in 0 .. ID_MAX_LENGTH : P(n)
  BY DEF getLen
<1> QED BY <1>1, <1>2

LEMMA LengthIs ==
  ASSUME NEW id, NEW n \in 0 .. ID_MAX_LENGTH,
         \A k \in 0 .. n - 1 : id[k] # NUL,
         n < ID_MAX_LENGTH => id[n] = NUL
  PROVE  getLen(id) = n
BY LengthOfNumber DEF ID_MAX_LENGTH

-----------------------------------------------------------------------------
\* Digits written are octets.
LEMMA DigitsWritten ==
  ASSUME NEW n \in Nat, NEW id, \A k \in 0 .. n - 1 : IsDigit(id[k])
  PROVE  /\ fillDecimalSemiOctetsWithTrailing(n, id) \in Packets
         /\ Len(fillDecimalSemiOctetsWithTrailing(n, id)) = SemiOctets(n)
         /\ SemiOctets(n) \in Nat
<1> DEFINE fill == fillDecimalSemiOctetsWithTrailing(n, id)
           octet(k) == (IF 2 * k - 1 < n THEN id[2 * k - 1] - Zero ELSE 15) * 16
                         + id[2 * k - 2] - Zero
<1>1. SemiOctets(n) \in Nat
  BY DEF SemiOctets
<1>2. \A k \in 1 .. SemiOctets(n) : octet(k) \in Octets
  <2>1. TAKE k \in 1 .. SemiOctets(n)
  <2>2. 2 * k - 2 \in 0 .. n - 1 /\ (2 * k - 1 < n => 2 * k - 1 \in 0 .. n - 1)
    BY DEF SemiOctets
  <2>3. id[2 * k - 2] - Zero \in 0 .. 9
    BY <2>2 DEF IsDigit, Zero
  <2>4. 2 * k - 1 < n => id[2 * k - 1] - Zero \in 0 .. 9
    BY <2>2 DEF IsDigit, Zero
  <2>5. CASE 2 * k - 1 < n
    BY <2>3, <2>4, <2>5 DEF Octets, Zero
  <2>6. CASE ~(2 * k - 1 < n)
    BY <2>3, <2>6 DEF Octets, Zero
  <2> QED BY <2>5, <2>6
<1>3. fill = [k \in 1 .. SemiOctets(n) |-> octet(k)]
  BY DEF fillDecimalSemiOctetsWithTrailing
<1> HIDE DEF octet, fill
<1>4. fill \in Packets
  BY <1>1, <1>2, <1>3, IsASeq DEF Packets
<1>5. Len(fill) = SemiOctets(n)
  BY <1>1, <1>3
<1> QED BY <1>1, <1>4, <1>5 DEF fill

\* Length, type and digits of an address, at their places.
LEMMA AddressRead ==
  ASSUME NEW id, Fillable(id)
  PROVE  /\ Address(id) \in Packets
         /\ Len(Address(id)) = 2 + SemiOctets(getLen(id))
         /\ SemiOctets(getLen(id)) \in Nat
         /\ Address(id)[1] = getLen(id) /\ Address(id)[2] = TYPE_OF_ADDRESS_OCTET
         /\ \A k \in 1 .. SemiOctets(getLen(id)) :
              Address(id)[2 + k] = fillDecimalSemiOctetsWithTrailing(getLen(id), id)[k]
<1> DEFINE head == <<getLen(id), TYPE_OF_ADDRESS_OCTET>>
           digits == fillDecimalSemiOctetsWithTrailing(getLen(id), id)
<1>1. getLen(id) \in 0 .. ID_MAX_LENGTH
  BY LengthOfNumber
<1>2. head \in Packets /\ Len(head) = 2 /\ head[1] = getLen(id)
      /\ head[2] = TYPE_OF_ADDRESS_OCTET
  BY <1>1 DEF Octets, TYPE_OF_ADDRESS_OCTET, ID_MAX_LENGTH, Packets
<1>3. /\ digits \in Packets /\ Len(digits) = SemiOctets(getLen(id))
      /\ SemiOctets(getLen(id)) \in Nat
  <2>1. getLen(id) \in Nat
    BY <1>1 DEF ID_MAX_LENGTH
  <2> QED BY <2>1, DigitsWritten DEF Fillable
<1>4. Address(id) = head \o digits
  BY DEF Address
<1> HIDE DEF head, digits
<1>5. /\ head \o digits \in Packets /\ Len(head \o digits) = Len(head) + Len(digits)
      /\ \A i \in 1 .. Len(head) : (head \o digits)[i] = head[i]
      /\ \A i \in 1 .. Len(digits) : (head \o digits)[Len(head) + i] = digits[i]
  <2>1. head \in Packets /\ digits \in Packets
    BY <1>2, <1>3
  <2> QED BY <2>1, TwoParts
<1> QED BY <1>2, <1>3, <1>4, <1>5 DEF digits

\* The octets of a text.
LEMMA TextWritten ==
  ASSUME NEW n \in Nat, NEW text \in [0 .. n - 1 -> Septet]
  PROVE  /\ fillBuffwithData(text, n) \in Packets
         /\ Len(fillBuffwithData(text, n)) = PackedLength(n)
         /\ PackedLength(n) \in Nat
<1>1. PackedLength(n) \in Nat
  BY DEF PackedLength
<1>2. ASSUME NEW k \in 1 .. PackedLength(n)
      PROVE  Octet(text, n, k - 1 + (k - 1) \div 7) \in Octets
  <2> DEFINE i == k - 1 + (k - 1) \div 7
  <2>1. i \in 0 .. n - 1
    <3>1. k \in Nat /\ k >= 1 /\ k <= n - n \div 8
      BY DEF PackedLength
    <3> QED BY <3>1
  <2> HIDE DEF i
  <2>2. text[i] \in Septet /\ (IF i < n - 1 THEN text[i + 1] ELSE NUL) \in Septet
    BY <2>1 DEF Septet, NUL
  <2>3. i % 8 \in 0 .. 7 /\ (i % 8) + 1 - 1 = i % 8 /\ 8 - ((i % 8) + 1) = 7 - (i % 8)
    BY <2>1
  <2>4. Two(i % 8) \in 1 .. 128 /\ Two(7 - (i % 8)) \in 1 .. 128
    <3>1. \A b \in 0 .. 7 : Two(b) \in 1 .. 128 /\ Two(7 - b) \in 1 .. 128
      BY TwoValues
    <3> QED BY <2>3, <3>1
  <2>5. Octet(text, n, i)
          = (text[i] \div Two(i % 8) + (IF i < n - 1 THEN text[i + 1] ELSE NUL) * Two(7 - (i % 8)))
              % 256
    BY <2>3 DEF Octet
  <2>6. \A x, y \in Septet : \A p, q \in 1 .. 128 : (x \div p + y * q) % 256 \in Octets
    BY DEF Septet, Octets
  <2>7. Octet(text, n, i) \in Octets
    <3> DEFINE y == IF i < n - 1 THEN text[i + 1] ELSE NUL
               q == Two(7 - (i % 8))
               r == Two(i % 8)
    <3>1. y \in Septet /\ r \in 1 .. 128 /\ q \in 1 .. 128
          /\ Octet(text, n, i) = (text[i] \div r + y * q) % 256
      BY <2>2, <2>4, <2>5
    <3> HIDE DEF y, q, r
    <3>2. (text[i] \div r + y * q) % 256 \in Octets
      <4> DEFINE x == text[i]
      <4>1. x \in Septet
        BY <2>2
      <4> HIDE DEF x
      <4>2. (x \div r + y * q) % 256 \in Octets
        BY <2>6, <3>1, <4>1, ZenonT(30)
      <4> QED BY <4>2 DEF x
    <3> QED BY <3>1, <3>2
  <2> QED BY <2>7 DEF i
<1>3. fillBuffwithData(text, n)
        = [k \in 1 .. PackedLength(n) |-> Octet(text, n, k - 1 + (k - 1) \div 7)]
  BY DEF fillBuffwithData
<1>4. fillBuffwithData(text, n) \in Packets
  BY <1>1, <1>2, <1>3, IsASeq DEF Packets
<1> QED BY <1>1, <1>3, <1>4

\* What is read behind a place is what is there.
LEMMA FromRead ==
  ASSUME NEW w \in Packets, NEW n \in Nat \ {0}, NEW k \in 1 .. Len(w) - n + 1
  PROVE  From(w, n)[k] = w[n + k - 1]
<1>1. Len(w) \in Nat /\ \A i \in n .. Len(w) : w[i] \in Octets
  BY LenProperties, ElementOfSeq DEF Packets
<1>2. \A i \in 1 .. Len(w) - n + 1 : SubSeq(w, n, Len(w))[i] = w[n + i - 1]
  BY <1>1, SubSeqProperties
<1> QED BY <1>2 DEF From

\* What the SMSC reads of a submit by its places.
LEMMA SubmitRead ==
  ASSUME NEW id, NEW n \in 0 .. DATA_MAX_LENGTH, NEW data \in [0 .. n - 1 -> Septet],
         Fillable(id),
         packet = embsys_fill_submit(Device, 0, id, data, n)
  PROVE  /\ packet.status = "SUCCESS" /\ packet.buf \in Packets
         /\ packet.len = Len(packet.buf)
         /\ packet.buf[ReferenceAt] = 0
         /\ RecipientOctets = Address(id)
         /\ From(packet.buf, LengthAt) = <<n>> \o fillBuffwithData(data, n)
<1> DEFINE a == <<SMS_SUBMIT_OCTET>> \o Address(Device) \o <<0>>
           b == Address(id)
           z == <<0, 0, SMSC_DEFAULT_VALIDITY_PERIOD, n>>
           y == <<0, 0, SMSC_DEFAULT_VALIDITY_PERIOD>>
           t == fillBuffwithData(data, n)
           so == SemiOctets(getLen(Device))
<1>1. /\ packet.status = "SUCCESS"
      /\ packet.buf = a \o b \o z \o t
      /\ packet.len = PackedLength(n) + 10 + so + SemiOctets(getLen(id))
  BY ExchangeAssumption DEF embsys_fill_submit, Filled
<1>2. /\ b \in Packets /\ Len(b) = 2 + SemiOctets(getLen(id))
      /\ SemiOctets(getLen(id)) \in Nat /\ b[1] = getLen(id)
  BY AddressRead
<1>3. n \in Nat
  BY DEF DATA_MAX_LENGTH
<1>4. t \in Packets /\ Len(t) = PackedLength(n) /\ PackedLength(n) \in Nat
  BY <1>3, TextWritten
<1>5. /\ a \in Packets /\ Len(a) = so + 4 /\ so \in Nat
      /\ a[2] = getLen(Device) /\ a[Len(a)] = 0
  <2> DEFINE o == <<SMS_SUBMIT_OCTET>>
             d == Address(Device)
             r == <<0>>
  <2>1. /\ o \in Packets /\ Len(o) = 1 /\ r \in Packets /\ Len(r) = 1 /\ r[1] = 0
    BY DEF Octets, SMS_SUBMIT_OCTET, Packets
  <2>2. /\ d \in Packets /\ Len(d) = 2 + so /\ so \in Nat /\ d[1] = getLen(Device)
    BY ExchangeAssumption, AddressRead
  <2> HIDE DEF o, d, r
  <2>3. /\ o \o d \o r \in Packets
        /\ Len(o \o d \o r) = Len(o) + Len(d) + Len(r)
        /\ \A i \in 1 .. Len(d) : (o \o d \o r)[Len(o) + i] = d[i]
        /\ \A i \in 1 .. Len(r) : (o \o d \o r)[Len(o) + Len(d) + i] = r[i]
    BY <2>1, <2>2, ThreeParts, ZenonT(30)
  <2>4. a = o \o d \o r
    BY DEF o, d, r
  <2> HIDE DEF a, so
  <2> QED BY <2>1, <2>2, <2>3, <2>4
<1>6. /\ y \in Packets /\ Len(y) = 3 /\ z = y \o <<n>>
      /\ <<n>> \in Packets /\ Len(<<n>>) = 1
  BY DEF Octets, DATA_MAX_LENGTH, SMSC_DEFAULT_VALIDITY_PERIOD, Packets
<1> HIDE DEF a, b, z, y, t, so
<1>7. a \o b \o z \o t = a \o b \o (y \o (<<n>> \o t))
  <2> DEFINE l == <<n>>
  <2>1. l \in Packets /\ z = y \o l
    BY <1>6
  <2> HIDE DEF l
  <2>2. /\ y \o l \in Packets /\ a \o b \in Packets
    BY <1>2, <1>5, <1>6, <2>1, TwoParts
  <2>3. a \o b \o z \o t = a \o b \o ((y \o l) \o t)
    BY <1>4, <2>1, <2>2, Associates
  <2>4. (y \o l) \o t = y \o (l \o t)
    BY <1>4, <1>6, <2>1, Associates
  <2> QED BY <2>3, <2>4 DEF l
<1> DEFINE u == <<n>> \o t
<1>8. u \in Packets /\ Len(u) = 1 + PackedLength(n)
  <2> DEFINE l == <<n>>
  <2>1. l \in Packets /\ Len(l) = 1
    BY <1>6
  <2> HIDE DEF l
  <2>2. l \o t \in Packets /\ Len(l \o t) = Len(l) + Len(t)
    BY <1>4, <2>1, TwoParts
  <2> QED BY <1>4, <2>1, <2>2 DEF l
<1> HIDE DEF u
<1>9. y \o u \in Packets /\ Len(y \o u) = 4 + PackedLength(n)
  <2>1. y \o u \in Packets /\ Len(y \o u) = Len(y) + Len(u)
    BY <1>6, <1>8, TwoParts
  <2> QED BY <1>4, <1>6, <1>8, <2>1
<1>10. packet.buf = a \o b \o (y \o u)
  BY <1>1, <1>7 DEF u
<1>11. /\ packet.buf \in Packets
       /\ Len(packet.buf) = Len(a) + Len(b) + Len(y \o u)
       /\ SubSeq(packet.buf, Len(a) + 1, Len(a) + Len(b)) = b
       /\ From(packet.buf, Len(a) + Len(b) + 1) = y \o u
       /\ \A i \in 1 .. Len(a) : packet.buf[i] = a[i]
       /\ \A i \in 1 .. Len(b) : packet.buf[Len(a) + i] = b[i]
  <2> DEFINE v == y \o u
  <2>1. v \in Packets /\ packet.buf = a \o b \o v
    BY <1>9, <1>10
  <2> HIDE DEF v
  <2>2. /\ a \o b \o v \in Packets
        /\ Len(a \o b \o v) = Len(a) + Len(b) + Len(v)
        /\ SubSeq(a \o b \o v, Len(a) + 1, Len(a) + Len(b)) = b
        /\ From(a \o b \o v, Len(a) + Len(b) + 1) = v
        /\ \A i \in 1 .. Len(a) : (a \o b \o v)[i] = a[i]
        /\ \A i \in 1 .. Len(b) : (a \o b \o v)[Len(a) + i] = b[i]
    <3>1. a \in Packets /\ b \in Packets /\ v \in Packets
      BY <1>2, <1>5, <2>1
    <3>2. /\ a \o b \o v \in Packets
          /\ Len(a \o b \o v) = Len(a) + Len(b) + Len(v)
          /\ \A i \in 1 .. Len(a) : (a \o b \o v)[i] = a[i]
          /\ \A i \in 1 .. Len(b) : (a \o b \o v)[Len(a) + i] = b[i]
      BY <3>1, ThreeParts, ZenonT(30)
    <3>3. SubSeq(a \o b \o v, Len(a) + 1, Len(a) + Len(b)) = b
      BY <3>1, ThreeParts
    <3>4. From(a \o b \o v, Len(a) + Len(b) + 1) = v
      BY <3>1, ThreeParts
    <3> QED BY <3>2, <3>3, <3>4
  <2> QED BY <2>1, <2>2 DEF v
<1>12. packet.len = Len(packet.buf)
  BY <1>1, <1>2, <1>4, <1>5, <1>9, <1>11, SMTT(30)
<1>13. packet.buf[2] = getLen(Device)
  <2>1. 2 \in 1 .. Len(a)
    BY <1>5
  <2> QED BY <1>5, <1>11, <2>1
<1>14. ReferenceAt = Len(a)
  BY <1>5, <1>13 DEF ReferenceAt, so
<1>15. packet.buf[ReferenceAt] = 0
  <2>1. Len(a) \in 1 .. Len(a)
    BY <1>5
  <2> QED BY <1>5, <1>11, <1>14, <2>1
<1>16. packet.buf[ReferenceAt + 1] = getLen(id)
  <2>1. 1 \in 1 .. Len(b)
    BY <1>2
  <2> QED BY <1>2, <1>11, <1>14, <2>1
<1>17. RecipientOctets = b
  <2>1. Len(a) + 2 + SemiOctets(getLen(id)) = Len(a) + Len(b)
    BY <1>2, <1>5
  <2> QED BY <1>11, <1>14, <1>16, <2>1 DEF RecipientOctets
<1>18. LengthAt = Len(a) + Len(b) + 4
  BY <1>14, <1>17 DEF LengthAt
<1>19. From(packet.buf, LengthAt) = u
  <2> DEFINE w == a \o b \o y
  <2>1. a \o b \in Packets /\ Len(a \o b) = Len(a) + Len(b)
    BY <1>2, <1>5, TwoParts
  <2>2. w \in Packets /\ Len(w) = Len(a) + Len(b) + 3
    <3> DEFINE ab == a \o b
    <3>1. ab \in Packets /\ y \in Packets
      BY <1>6, <2>1
    <3> HIDE DEF ab
    <3>2. ab \o y \in Packets /\ Len(ab \o y) = Len(ab) + Len(y)
      BY <3>1, TwoParts
    <3> QED BY <1>6, <2>1, <3>2 DEF ab
  <2>3. packet.buf = w \o u
    BY <1>6, <1>8, <1>10, <2>1, Associates
  <2> HIDE DEF w
  <2>4. From(w \o u, Len(w) + 1) = u
    BY <1>8, <2>2, TwoParts
  <2>5. Len(w) + 1 = Len(a) + Len(b) + 4
    BY <1>2, <1>5, <2>2
  <2> QED BY <1>18, <2>3, <2>4, <2>5
<1> QED BY <1>1, <1>11, <1>12, <1>15, <1>17, <1>19 DEF u, t, b

\* The packets of the SMSC.
Ack(id) == <<SMS_SUBMIT_ACK_OCTET, 0>> \o Address(id)
Stamp == fillDecimalSemiOctetsWithTrailing(TIMESTAMP_MAX_LENGTH, Timestamp)
Deliver(id, n, data) ==
  <<SMS_DELIVER_OCTET>> \o Address(id) \o <<0, 0>> \o Stamp \o (<<n>> \o fillBuffwithData(data, n))

\* The digits of buf from a place on are those of a number.
DigitsAt(buf, n, len, id) ==
  \A k \in 1 .. SemiOctets(len) :
    From(buf, n)[k] = fillDecimalSemiOctetsWithTrailing(len, id)[k]

\* The fields of an acknowledgment are at the places they are parsed from.
LEMMA AckRead ==
  ASSUME NEW id, Fillable(id)
  PROVE  /\ Ack(id) \in Packets
         /\ Ack(id)[1] = SMS_SUBMIT_ACK_OCTET /\ Ack(id)[2] = 0
         /\ Ack(id)[3] = getLen(id) /\ Ack(id)[4] = TYPE_OF_ADDRESS_OCTET
         /\ DigitsAt(Ack(id), 5, getLen(id), id)
<1> DEFINE h == <<SMS_SUBMIT_ACK_OCTET, 0>>
           b == Address(id)
           so == SemiOctets(getLen(id))
<1>1. /\ h \in Packets /\ Len(h) = 2 /\ h[1] = SMS_SUBMIT_ACK_OCTET /\ h[2] = 0
  BY DEF Octets, SMS_SUBMIT_ACK_OCTET, Packets
<1>2. /\ b \in Packets /\ Len(b) = 2 + so /\ so \in Nat
      /\ b[1] = getLen(id) /\ b[2] = TYPE_OF_ADDRESS_OCTET
      /\ \A k \in 1 .. so : b[2 + k] = fillDecimalSemiOctetsWithTrailing(getLen(id), id)[k]
  BY AddressRead
<1>3. Ack(id) = h \o b
  BY DEF Ack
<1> HIDE DEF h, b, so
<1>4. /\ h \o b \in Packets /\ Len(h \o b) = Len(h) + Len(b)
      /\ \A i \in 1 .. Len(h) : (h \o b)[i] = h[i]
      /\ \A i \in 1 .. Len(b) : (h \o b)[Len(h) + i] = b[i]
  BY <1>1, <1>2, TwoParts
<1>5. Ack(id)[1] = SMS_SUBMIT_ACK_OCTET /\ Ack(id)[2] = 0
  BY <1>1, <1>3, <1>4
<1>6. Ack(id)[3] = getLen(id) /\ Ack(id)[4] = TYPE_OF_ADDRESS_OCTET
  BY <1>1, <1>2, <1>3, <1>4
<1>7. ASSUME NEW k \in 1 .. so
      PROVE  From(Ack(id), 5)[k] = fillDecimalSemiOctetsWithTrailing(getLen(id), id)[k]
  <2>1. k \in 1 .. Len(Ack(id)) - 5 + 1 /\ 5 + k - 1 = 2 + (2 + k) /\ 2 + k \in 1 .. Len(b)
    BY <1>1, <1>2, <1>3, <1>4
  <2>2. From(Ack(id), 5)[k] = Ack(id)[5 + k - 1]
    <3>1. Ack(id) \in Packets /\ 5 \in Nat \ {0} /\ k \in 1 .. Len(Ack(id)) - 5 + 1
      BY <1>3, <1>4, <2>1
    <3> QED BY <3>1, FromRead
  <2> QED BY <1>1, <1>2, <1>3, <1>4, <2>1, <2>2
<1> QED BY <1>3, <1>4, <1>5, <1>6, <1>7 DEF DigitsAt, so

\* The fields of a deliver are at theirs.
LEMMA DeliverRead ==
  ASSUME NEW id, Fillable(id),
         NEW n \in 0 .. DATA_MAX_LENGTH, NEW data \in [0 .. n - 1 -> Septet]
  PROVE  LET buf == Deliver(id, n, data)
             pid == 4 + SemiOctets(getLen(id))
             length == pid + 2 + SemiOctets(TIMESTAMP_MAX_LENGTH)
         IN /\ buf \in Packets
            /\ buf[1] = SMS_DELIVER_OCTET /\ buf[2] = getLen(id) /\ buf[3] = TYPE_OF_ADDRESS_OCTET
            /\ buf[pid] = 0 /\ buf[pid + 1] = 0 /\ buf[length] = n
            /\ DigitsAt(buf, 4, getLen(id), id)
            /\ DigitsAt(buf, pid + 2, TIMESTAMP_MAX_LENGTH, Timestamp)
            /\ From(buf, length + 1) = fillBuffwithData(data, n)
<1> DEFINE o == <<SMS_DELIVER_OCTET>>
           b == Address(id)
           z == <<0, 0>>
           l == <<n>>
           t == fillBuffwithData(data, n)
           so == SemiOctets(getLen(id))
           a == o \o b
           w == a \o z \o Stamp
           buf == Deliver(id, n, data)
           digits == fillDecimalSemiOctetsWithTrailing(getLen(id), id)
<1>1. /\ o \in Packets /\ Len(o) = 1 /\ o[1] = SMS_DELIVER_OCTET
      /\ z \in Packets /\ Len(z) = 2 /\ z[1] = 0 /\ z[2] = 0
      /\ l \in Packets /\ Len(l) = 1 /\ l[1] = n
  BY DEF Octets, SMS_DELIVER_OCTET, Packets, DATA_MAX_LENGTH
<1>2. /\ b \in Packets /\ Len(b) = 2 + so /\ so \in Nat
      /\ b[1] = getLen(id) /\ b[2] = TYPE_OF_ADDRESS_OCTET
      /\ \A k \in 1 .. so : b[2 + k] = digits[k]
  BY AddressRead
<1>3. t \in Packets /\ Len(t) \in Nat
  <2>1. n \in Nat
    BY DEF DATA_MAX_LENGTH
  <2> QED BY <2>1, TextWritten
<1>4. /\ Stamp \in Packets /\ Len(Stamp) = 7 /\ SemiOctets(TIMESTAMP_MAX_LENGTH) = 7
  <2>1. \A k \in 0 .. TIMESTAMP_MAX_LENGTH - 1 : IsDigit(Timestamp[k])
    BY ExchangeAssumption DEF IsDigit
  <2>2. SemiOctets(TIMESTAMP_MAX_LENGTH) = 7 /\ TIMESTAMP_MAX_LENGTH \in Nat
    BY DEF SemiOctets, TIMESTAMP_MAX_LENGTH
  <2> QED BY <2>1, <2>2, DigitsWritten DEF Stamp
<1>5. buf = w \o (l \o t)
  BY DEF Deliver
<1> HIDE DEF o, b, z, l, t, so, buf, digits
<1>6. /\ a \in Packets /\ Len(a) = 3 + so
      /\ a[1] = SMS_DELIVER_OCTET /\ a[2] = getLen(id) /\ a[3] = TYPE_OF_ADDRESS_OCTET
      /\ \A k \in 1 .. so : a[3 + k] = digits[k]
  <2>1. /\ o \o b \in Packets /\ Len(o \o b) = Len(o) + Len(b)
        /\ \A i \in 1 .. Len(o) : (o \o b)[i] = o[i]
        /\ \A i \in 1 .. Len(b) : (o \o b)[Len(o) + i] = b[i]
    BY <1>1, <1>2, TwoParts
  <2> HIDE DEF a
  <2>2. /\ a \in Packets /\ Len(a) = 3 + so
        /\ a[1] = SMS_DELIVER_OCTET
        /\ \A i \in 1 .. 2 + so : a[1 + i] = b[i]
    BY <1>1, <1>2, <2>1 DEF a
  <2>3. a[2] = getLen(id) /\ a[3] = TYPE_OF_ADDRESS_OCTET
    BY <1>2, <2>2
  <2>4. ASSUME NEW k \in 1 .. so
        PROVE  a[3 + k] = digits[k]
    <3>1. 2 + k \in 1 .. 2 + so /\ 1 + (2 + k) = 3 + k
      BY <1>2
    <3> QED BY <1>2, <2>2, <3>1
  <2> QED BY <2>2, <2>3, <2>4
<1> HIDE DEF a
<1>7. /\ w \in Packets /\ Len(w) = 12 + so
      /\ \A i \in 1 .. 3 + so : w[i] = a[i]
      /\ w[4 + so] = 0 /\ w[5 + so] = 0
      /\ \A i \in 1 .. 7 : w[5 + so + i] = Stamp[i]
  <2>1. /\ a \o z \o Stamp \in Packets
        /\ Len(a \o z \o Stamp) = Len(a) + Len(z) + Len(Stamp)
        /\ \A i \in 1 .. Len(a) : (a \o z \o Stamp)[i] = a[i]
        /\ \A i \in 1 .. Len(z) : (a \o z \o Stamp)[Len(a) + i] = z[i]
        /\ \A i \in 1 .. Len(Stamp) : (a \o z \o Stamp)[Len(a) + Len(z) + i] = Stamp[i]
    <3>1. a \in Packets /\ z \in Packets /\ Stamp \in Packets
      BY <1>1, <1>4, <1>6
    <3>2. /\ a \o z \o Stamp \in Packets
          /\ Len(a \o z \o Stamp) = Len(a) + Len(z) + Len(Stamp)
      BY <3>1, ThreeParts
    <3>3. /\ \A i \in 1 .. Len(a) : (a \o z \o Stamp)[i] = a[i]
          /\ \A i \in 1 .. Len(z) : (a \o z \o Stamp)[Len(a) + i] = z[i]
      BY <3>1, ThreeParts, ZenonT(30)
    <3>4. \A i \in 1 .. Len(Stamp) : (a \o z \o Stamp)[Len(a) + Len(z) + i] = Stamp[i]
      BY <3>1, ThreeParts
    <3> QED BY <3>2, <3>3, <3>4
  <2> HIDE DEF w
  <2>2. /\ w \in Packets /\ Len(w) = 12 + so
        /\ \A i \in 1 .. 3 + so : w[i] = a[i]
        /\ \A i \in 1 .. 2 : w[3 + so + i] = z[i]
        /\ \A i \in 1 .. 7 : w[3 + so + 2 + i] = Stamp[i]
    <3>1. Len(a) = 3 + so /\ Len(z) = 2 /\ Len(Stamp) = 7 /\ so \in Nat
      BY <1>1, <1>2, <1>4, <1>6
    <3>2. w = a \o z \o Stamp /\ w \in Packets /\ Len(w) = Len(a) + Len(z) + Len(Stamp)
      BY <2>1 DEF w
    <3>3. /\ \A i \in 1 .. Len(a) : w[i] = a[i]
          /\ \A i \in 1 .. Len(z) : w[Len(a) + i] = z[i]
          /\ \A i \in 1 .. Len(Stamp) : w[Len(a) + Len(z) + i] = Stamp[i]
      BY <2>1, <3>2
    <3>4. Len(w) = 12 + so
      BY <3>1, <3>2
    <3> QED BY <3>1, <3>2, <3>3, <3>4
  <2>3. w[4 + so] = 0 /\ w[5 + so] = 0
    <3>1. 1 \in 1 .. 2 /\ 2 \in 1 .. 2 /\ 3 + so + 1 = 4 + so /\ 3 + so + 2 = 5 + so
      BY <1>2
    <3> QED BY <1>1, <2>2, <3>1
  <2>4. 3 + so + 2 = 5 + so
    BY <1>2
  <2> QED BY <2>2, <2>3, <2>4
<1> HIDE DEF w
<1>8. l \o t \in Packets /\ Len(l \o t) = 1 + Len(t) /\ (l \o t)[1] = n
  <2>1. /\ l \o t \in Packets /\ Len(l \o t) = Len(l) + Len(t)
        /\ \A i \in 1 .. Len(l) : (l \o t)[i] = l[i]
    BY <1>1, <1>3, TwoParts
  <2> QED BY <1>1, <2>1
<1>9. /\ buf \in Packets /\ Len(buf) = 13 + so + Len(t)
      /\ \A i \in 1 .. 12 + so : buf[i] = w[i]
      /\ buf[13 + so] = n
  <2> DEFINE u == l \o t
  <2>1. u \in Packets /\ Len(u) = 1 + Len(t) /\ u[1] = n /\ buf = w \o u
    BY <1>5, <1>8
  <2> HIDE DEF u
  <2>2. /\ w \o u \in Packets /\ Len(w \o u) = Len(w) + Len(u)
        /\ \A i \in 1 .. Len(w) : (w \o u)[i] = w[i]
        /\ \A i \in 1 .. Len(u) : (w \o u)[Len(w) + i] = u[i]
    BY <1>7, <2>1, TwoParts
  <2>3. 1 \in 1 .. Len(u) /\ Len(w) + 1 = 13 + so
    BY <1>2, <1>3, <1>7, <2>1
  <2>4. Len(w) = 12 + so /\ Len(w) + Len(u) = 13 + so + Len(t)
    BY <1>2, <1>3, <1>7, <2>1
  <2>5. buf[13 + so] = n
    BY <2>1, <2>2, <2>3
  <2> QED BY <2>1, <2>2, <2>4, <2>5
<1>10. From(buf, 13 + so + 1) = t
  <2>1. buf = w \o l \o t
    BY <1>1, <1>3, <1>5, <1>7, Associates, ZenonT(30)
  <2>2. From(w \o l \o t, Len(w) + Len(l) + 1) = t
    <3>1. w \in Packets /\ l \in Packets /\ t \in Packets
      BY <1>1, <1>3, <1>7
    <3> QED BY <3>1, ThreeParts
  <2>3. Len(w) + Len(l) + 1 = 13 + so + 1
    BY <1>1, <1>2, <1>7
  <2> QED BY <2>1, <2>2, <2>3
<1>11. /\ buf[1] = SMS_DELIVER_OCTET /\ buf[2] = getLen(id) /\ buf[3] = TYPE_OF_ADDRESS_OCTET
       /\ buf[4 + so] = 0 /\ buf[5 + so] = 0
  BY <1>2, <1>6, <1>7, <1>9, SMTT(30)
<1>12. ASSUME NEW k \in 1 .. so
       PROVE  From(buf, 4)[k] = digits[k]
  <2>1. k \in 1 .. Len(buf) - 4 + 1 /\ 4 + k - 1 = 3 + k /\ 3 + k \in 1 .. 3 + so
        /\ 3 + k \in 1 .. 12 + so
    BY <1>2, <1>3, <1>9
  <2>2. From(buf, 4)[k] = buf[4 + k - 1]
    <3>1. buf \in Packets /\ 4 \in Nat \ {0} /\ k \in 1 .. Len(buf) - 4 + 1
      BY <1>9, <2>1
    <3> QED BY <3>1, FromRead
  <2> QED BY <1>6, <1>7, <1>9, <2>1, <2>2
<1>13. ASSUME NEW k \in 1 .. 7
       PROVE  From(buf, 6 + so)[k] = Stamp[k]
  <2>1. /\ k \in 1 .. Len(buf) - (6 + so) + 1 /\ 6 + so + k - 1 = 5 + so + k
        /\ 5 + so + k \in 1 .. 12 + so /\ 6 + so \in Nat \ {0}
    BY <1>2, <1>3, <1>9
  <2>2. From(buf, 6 + so)[k] = buf[6 + so + k - 1]
    BY <1>9, <2>1, FromRead
  <2> QED BY <1>7, <1>9, <2>1, <2>2
<1>14. DigitsAt(buf, 4, getLen(id), id)
  BY <1>12 DEF DigitsAt, so, digits
<1>15. DigitsAt(buf, 6 + so, TIMESTAMP_MAX_LENGTH, Timestamp)
  BY <1>4, <1>13 DEF DigitsAt, Stamp
<1>16. /\ 4 + so + 1 = 5 + so /\ 4 + so + 2 = 6 + so
       /\ 4 + so + 2 + SemiOctets(TIMESTAMP_MAX_LENGTH) = 13 + so
  BY <1>2, <1>4
<1> QED BY <1>9, <1>10, <1>11, <1>14, <1>15, <1>16 DEF buf, so, t

\* A number whose end is seen in what is parsed: terminated, full, or old ended there.
Whole(id, old) ==
  getLen(id) % 2 = 1 \/ getLen(id) = ID_MAX_LENGTH \/ old[getLen(id)] = NUL

\* ReadsBack, whatever the structure held.
ReadsLike(id, read, old) ==
  /\ \A k \in 0 .. getLen(id) - 1 : read[k] = id[k]
  /\ Whole(id, old) => Matches(id, read) /\ getLen(read) = getLen(id)

\* What a number reads as after it was parsed into what the stack held.
LEMMA NumberRead ==
  ASSUME NEW id \in Ids, Fillable(id), NEW old \in Ids, NEW buf \in Packets, NEW n \in Nat \ {0},
         DigitsAt(buf, n, getLen(id), id)
  PROVE  LET read == parseDecimalSemiOctetsWithTrailing(From(buf, n), getLen(id), old)
         IN /\ read \in Ids /\ ReadsLike(id, read, old)
            /\ Whole(id, old) => Fillable(read)
<1> DEFINE len == getLen(id)
           read == parseDecimalSemiOctetsWithTrailing(From(buf, n), len, old)
           whole == len % 2 = 1 \/ len = ID_MAX_LENGTH \/ old[len] = NUL
<1>1. /\ len \in 0 .. 8 /\ \A k \in 0 .. len - 1 : id[k] # NUL
      /\ len < 8 => id[len] = NUL
  BY LengthOfNumber DEF ID_MAX_LENGTH
<1>2. \A k \in 0 .. len - 1 : IsDigit(id[k])
  BY DEF Fillable
<1>3. DOMAIN old = 0 .. 7 /\ DOMAIN id = 0 .. 7 /\ \A k \in 0 .. 7 : old[k] \in 0 .. 255
  BY DEF Ids, Chars, ID_MAX_LENGTH
<1> HIDE DEF len
<1>4. /\ \A k \in 0 .. len - 1 : k \in DOMAIN old => read[k] = id[k]
      /\ len \in DOMAIN old => read[len] = IF len % 2 = 1 THEN NUL ELSE old[len]
  <2>1. len \in Nat
    BY <1>1
  <2>2. \A k \in 1 .. SemiOctets(len) :
          From(buf, n)[k] = fillDecimalSemiOctetsWithTrailing(len, id)[k]
    BY DEF DigitsAt, len
  <2>3. ASSUME NEW m \in Nat, NEW b,
               \A k \in 0 .. m - 1 : IsDigit(id[k]),
               \A k \in 1 .. SemiOctets(m) : b[k] = fillDecimalSemiOctetsWithTrailing(m, id)[k]
        PROVE  /\ \A k \in 0 .. m - 1 : k \in DOMAIN old =>
                    parseDecimalSemiOctetsWithTrailing(b, m, old)[k] = id[k]
               /\ m \in DOMAIN old =>
                    parseDecimalSemiOctetsWithTrailing(b, m, old)[m]
                      = IF m % 2 = 1 THEN NUL ELSE old[m]
    BY <2>3, NumberSurvives, SMT
  <2> HIDE DEF read
  <2> QED BY <1>2, <2>1, <2>2, <2>3, Zenon DEF read
<1>5. /\ DOMAIN read = 0 .. 7
      /\ \A k \in 0 .. 7 : k > len => read[k] = old[k]
  <2>1. DOMAIN read = 0 .. 7
    BY <1>3 DEF parseDecimalSemiOctetsWithTrailing
  <2>2. ASSUME NEW k \in 0 .. 7, k > len
        PROVE  read[k] = old[k]
    <3>1. k \in DOMAIN old /\ ~(k < len) /\ k # len
      BY <1>1, <1>3, <2>2
    <3> QED BY <3>1 DEF parseDecimalSemiOctetsWithTrailing
  <2> QED BY <2>1, <2>2
<1>7. read = [k \in DOMAIN read |-> read[k]]
  BY DEF parseDecimalSemiOctetsWithTrailing
<1> HIDE DEF read
<1>8. /\ \A k \in 0 .. len - 1 : read[k] = id[k]
      /\ len < 8 => read[len] = IF len % 2 = 1 THEN NUL ELSE old[len]
  BY <1>1, <1>3, <1>4
<1>9. read \in Ids
  <2>1. ASSUME NEW k \in 0 .. 7
        PROVE  read[k] \in 0 .. 255
    <3>1. CASE k < len
      <4>1. read[k] = id[k] /\ IsDigit(id[k])
        BY <1>1, <1>2, <1>8, <3>1
      <4> QED BY <4>1 DEF IsDigit, Zero
    <3>2. CASE k = len
      BY <1>1, <1>3, <1>8, <3>2 DEF NUL
    <3>3. CASE k > len
      BY <1>3, <1>5, <3>3
    <3> QED BY <1>1, <3>1, <3>2, <3>3
  <2> QED BY <1>5, <1>7, <2>1 DEF Ids, Chars, ID_MAX_LENGTH
<1>10. whole <=> (len = 8 \/ read[len] = NUL)
  BY <1>1, <1>8 DEF ID_MAX_LENGTH
<1>11. \A k \in 0 .. len - 1 : read[k] # NUL
  BY <1>1, <1>8
<1>12. whole => getLen(read) = len
  <2>1. SUFFICES ASSUME whole PROVE getLen(read) = len
    OBVIOUS
  <2>2. len \in 0 .. ID_MAX_LENGTH /\ (len < ID_MAX_LENGTH => read[len] = NUL)
    BY <1>1, <1>10, <2>1 DEF ID_MAX_LENGTH
  <2> QED BY <1>11, <2>2, LengthIs
<1>13. whole => Matches(id, read)
  <2>1. SUFFICES ASSUME whole, NEW k \in 0 .. 7, \A j \in 0 .. k - 1 : read[j] # NUL
                 PROVE  id[k] = read[k]
    BY <1>3 DEF Matches
  <2>2. CASE k < len
    BY <1>1, <1>8, <2>2
  <2>3. CASE k = len
    BY <1>1, <1>10, <2>1, <2>3
  <2>4. CASE k > len
    <3>1. len \in 0 .. k - 1 /\ len # 8
      BY <1>1, <2>4
    <3> QED BY <1>10, <2>1, <3>1
  <2> QED BY <1>1, <2>2, <2>3, <2>4
<1>14. whole => Fillable(read)
  BY <1>2, <1>8, <1>12 DEF Fillable
<1> QED BY <1>8, <1>9, <1>12, <1>13, <1>14 DEF read, len, ReadsLike, Whole

\* What the client makes of the packets of the SMSC.
LEMMA AckParsed ==
  ASSUME NEW id \in Ids, Fillable(id), NEW old \in Ids
  PROVE  LET fields == embsys_parse_submit_ack(Ack(id), old)
         IN /\ fields = Fail <=> getLen(id) = 0
            /\ fields # Fail => /\ fields \in SMS_SUBMIT_ACK
                                /\ ReadsLike(id, fields.recipient, old)
<1> DEFINE fields == embsys_parse_submit_ack(Ack(id), old)
           read == parseDecimalSemiOctetsWithTrailing(From(Ack(id), 5), getLen(id), old)
<1>1. /\ Ack(id) \in Packets
      /\ Ack(id)[1] = SMS_SUBMIT_ACK_OCTET /\ Ack(id)[2] = 0
      /\ Ack(id)[3] = getLen(id) /\ Ack(id)[4] = TYPE_OF_ADDRESS_OCTET
      /\ DigitsAt(Ack(id), 5, getLen(id), id)
  BY AckRead
<1>2. fields = IF ~LegalLength(getLen(id)) THEN Fail
               ELSE [status |-> "SUCCESS", msg_reference |-> 0, recipient |-> read]
  BY <1>1 DEF embsys_parse_submit_ack
<1>3. LegalLength(getLen(id)) <=> getLen(id) # 0
  BY LengthOfNumber DEF LegalLength, ID_MAX_LENGTH
<1>4. read \in Ids /\ ReadsLike(id, read, old)
  BY <1>1, NumberRead
<1> HIDE DEF fields, read
<1>5. CASE getLen(id) = 0
  BY <1>2, <1>3, <1>5 DEF fields
<1>6. CASE getLen(id) # 0
  <2>1. fields = [status |-> "SUCCESS", msg_reference |-> 0, recipient |-> read]
    BY <1>2, <1>3, <1>6
  <2>2. fields.status = "SUCCESS" /\ Fail.status = "FAIL" /\ fields.recipient = read
    BY <2>1 DEF Fail
  <2>3. fields # Fail
    BY <2>2
  <2>4. fields \in SMS_SUBMIT_ACK
    BY <1>4, <2>1 DEF SMS_SUBMIT_ACK
  <2> QED BY <1>4, <1>6, <2>2, <2>3, <2>4 DEF fields
<1> QED BY <1>5, <1>6

Blank == [k \in DOMAIN Timestamp |-> NUL]

\* The time of a deliver fills its array.
LEMMA StampRead ==
  ASSUME NEW buf, \A k \in 1 .. SemiOctets(TIMESTAMP_MAX_LENGTH) : buf[k] = Stamp[k]
  PROVE  /\ parseDecimalSemiOctetsWithTrailing(buf, TIMESTAMP_MAX_LENGTH, Blank) = Timestamp
         /\ Timestamp \in Chars(TIMESTAMP_MAX_LENGTH)
<1> DEFINE m == TIMESTAMP_MAX_LENGTH
           st == parseDecimalSemiOctetsWithTrailing(buf, m, Blank)
<1>1. /\ m = 14 /\ m \in Nat /\ 0 .. m - 1 = 0 .. 13
      /\ DOMAIN Timestamp = 0 .. m - 1 /\ \A k \in 0 .. m - 1 : IsDigit(Timestamp[k])
      /\ Timestamp \in [0 .. 13 -> 48 .. 57]
  BY ExchangeAssumption DEF TIMESTAMP_MAX_LENGTH, IsDigit, Zero
<1>2. DOMAIN Blank = 0 .. m - 1
  BY <1>1 DEF Blank
<1> HIDE DEF m
<1>3. ASSUME NEW len \in Nat, NEW old, NEW b,
             \A k \in 0 .. len - 1 : IsDigit(Timestamp[k]),
             \A k \in 1 .. SemiOctets(len) :
               b[k] = fillDecimalSemiOctetsWithTrailing(len, Timestamp)[k]
      PROVE  /\ \A k \in 0 .. len - 1 : k \in DOMAIN old =>
                  parseDecimalSemiOctetsWithTrailing(b, len, old)[k] = Timestamp[k]
             /\ len \in DOMAIN old =>
                  parseDecimalSemiOctetsWithTrailing(b, len, old)[len]
                    = IF len % 2 = 1 THEN NUL ELSE old[len]
  BY <1>3, NumberSurvives, SMT
<1>4. \A k \in 1 .. SemiOctets(m) : buf[k] = fillDecimalSemiOctetsWithTrailing(m, Timestamp)[k]
  BY DEF Stamp, m
<1>5. \A k \in 0 .. m - 1 : k \in DOMAIN Blank => st[k] = Timestamp[k]
  BY <1>1, <1>3, <1>4
<1>6. st = [k \in 0 .. m - 1 |-> st[k]]
  BY <1>2 DEF parseDecimalSemiOctetsWithTrailing
<1> HIDE DEF st
<1>7. st = Timestamp
  BY <1>1, <1>2, <1>5, <1>6
<1>8. Timestamp \in [0 .. m - 1 -> 0 .. 255]
  <2>1. Timestamp \in [0 .. 13 -> 0 .. 255]
    BY <1>1
  <2> QED BY <1>1, <2>1
<1> QED BY <1>7, <1>8 DEF st, m, Chars

LEMMA DeliverParsed ==
  ASSUME NEW id \in Ids, Fillable(id), NEW old \in Ids,
         NEW n \in 0 .. DATA_MAX_LENGTH, NEW data \in [0 .. n - 1 -> Septet]
  PROVE  LET fields == embsys_parse_deliver(Deliver(id, n, data), old, Blank)
         IN /\ fields = Fail <=> getLen(id) = 0
            /\ fields # Fail => /\ fields.status = "SUCCESS"
                                /\ fields.data_length = n /\ fields.data = data
                                /\ fields.timestamp = Timestamp
                                /\ fields \in SMS_DELIVER(n)
                                /\ ReadsLike(id, fields.sender, old)
                                /\ Whole(id, old) => Fillable(fields.sender)
<1> DEFINE buf == Deliver(id, n, data)
           fields == embsys_parse_deliver(buf, old, Blank)
           pid == 4 + SemiOctets(getLen(id))
           length == pid + 2 + SemiOctets(TIMESTAMP_MAX_LENGTH)
           read == parseDecimalSemiOctetsWithTrailing(From(buf, 4), getLen(id), old)
           stamp == parseDecimalSemiOctetsWithTrailing(From(buf, pid + 2), TIMESTAMP_MAX_LENGTH, Blank)
           text == parseBuffwithData(From(buf, length + 1), n)
<1>1. /\ buf \in Packets
      /\ buf[1] = SMS_DELIVER_OCTET /\ buf[2] = getLen(id) /\ buf[3] = TYPE_OF_ADDRESS_OCTET
      /\ buf[pid] = 0 /\ buf[pid + 1] = 0 /\ buf[length] = n
      /\ DigitsAt(buf, 4, getLen(id), id)
      /\ DigitsAt(buf, pid + 2, TIMESTAMP_MAX_LENGTH, Timestamp)
      /\ From(buf, length + 1) = fillBuffwithData(data, n)
  BY DeliverRead
<1> HIDE DEF buf
<1>2. fields = IF ~LegalLength(getLen(id)) THEN Fail
               ELSE [status |-> "SUCCESS", sender |-> read, timestamp |-> stamp,
                     data_length |-> n, data |-> text]
  BY <1>1 DEF embsys_parse_deliver
<1>3. LegalLength(getLen(id)) <=> getLen(id) # 0
  BY LengthOfNumber DEF LegalLength, ID_MAX_LENGTH
<1>4. /\ read \in Ids
      /\ ReadsLike(id, read, old)
      /\ Whole(id, old) => Fillable(read)
  BY <1>1, NumberRead
<1>5. stamp = Timestamp /\ stamp \in Chars(TIMESTAMP_MAX_LENGTH)
  <2>1. \A k \in 1 .. SemiOctets(TIMESTAMP_MAX_LENGTH) : From(buf, pid + 2)[k] = Stamp[k]
    BY <1>1 DEF DigitsAt, Stamp
  <2> QED BY <2>1, StampRead
<1>6. text = data
  <2>1. n \in Nat
    BY DEF DATA_MAX_LENGTH
  <2> QED BY <1>1, <2>1, TextSurvives
<1> HIDE DEF fields, read, stamp, text
<1>7. CASE getLen(id) = 0
  BY <1>2, <1>3, <1>7 DEF fields, buf
<1>8. CASE getLen(id) # 0
  <2>1. fields = [status |-> "SUCCESS", sender |-> read, timestamp |-> stamp,
                  data_length |-> n, data |-> text]
    BY <1>2, <1>3, <1>8
  <2>2. /\ fields.status = "SUCCESS" /\ Fail.status = "FAIL" /\ fields.sender = read
        /\ fields.timestamp = Timestamp /\ fields.data_length = n /\ fields.data = data
    BY <1>5, <1>6, <2>1 DEF Fail
  <2>3. fields # Fail
    BY <2>2
  <2>4. fields \in SMS_DELIVER(n)
    BY <1>4, <1>5, <1>6, <2>1 DEF SMS_DELIVER
  <2>5. /\ ReadsLike(id, fields.sender, old)
        /\ Whole(id, old) => Fillable(fields.sender)
    BY <1>4, <2>2
  <2> QED BY <1>8, <2>2, <2>3, <2>4, <2>5 DEF fields, buf
<1> QED BY <1>7, <1>8

\* A probe and an acknowledgment of a deliver are as long as is said.
LEMMA ProbeFilled ==
  ASSUME NEW is_ack \in BOOLEAN, NEW sender \in Ids
  PROVE  LET probe == embsys_fill_probe(Device, is_ack, Timestamp, sender)
         IN /\ Fillable(sender) => probe.status = "SUCCESS"
            /\ probe # Fail => probe.buf \in Packets /\ probe.len = Len(probe.buf)
<1> DEFINE o == <<SMS_PROBE_OCTET>>
           a == <<SMS_PROBE_ACK_OCTET>>
           d == Address(Device)
           s == Address(sender)
           so == SemiOctets(getLen(Device))
           ss == SemiOctets(getLen(sender))
           probe == embsys_fill_probe(Device, is_ack, Timestamp, sender)
<1>1. /\ o \in Packets /\ Len(o) = 1 /\ a \in Packets /\ Len(a) = 1
  BY DEF Octets, SMS_PROBE_OCTET, SMS_PROBE_ACK_OCTET, Packets
<1>2. d \in Packets /\ Len(d) = 2 + so /\ so \in Nat
  BY ExchangeAssumption, AddressRead
<1>3. Stamp \in Packets /\ Len(Stamp) = SemiOctets(TIMESTAMP_MAX_LENGTH)
      /\ SemiOctets(TIMESTAMP_MAX_LENGTH) \in Nat
  <2>1. \A k \in 0 .. TIMESTAMP_MAX_LENGTH - 1 : IsDigit(Timestamp[k])
    BY ExchangeAssumption DEF IsDigit
  <2>2. TIMESTAMP_MAX_LENGTH \in Nat
    BY DEF TIMESTAMP_MAX_LENGTH
  <2> QED BY <2>1, <2>2, DigitsWritten DEF Stamp
<1>4. Fillable(sender) => s \in Packets /\ Len(s) = 2 + ss /\ ss \in Nat
  BY AddressRead
<1>5. probe = CASE is_ack /\ ~Fillable(sender) -> Fail
                [] ~is_ack -> Filled(o \o d, 3 + so)
                [] OTHER -> Filled(a \o Tail(o \o d) \o Stamp \o s,
                                   3 + so + SemiOctets(TIMESTAMP_MAX_LENGTH) + 2 + ss)
  BY ExchangeAssumption DEF embsys_fill_probe, Stamp
<1> HIDE DEF o, a, d, s, so, ss, probe
<1>6. o \o d \in Packets /\ Len(o \o d) = 3 + so
  <2>1. o \o d \in Packets /\ Len(o \o d) = Len(o) + Len(d)
    BY <1>1, <1>2, TwoParts
  <2> QED BY <1>1, <1>2, <2>1
<1>7. Tail(o \o d) = d
  <2> DEFINE w == o \o d
  <2>1. w \in Seq(Octets) /\ w # <<>>
    BY <1>2, <1>6, EmptySeq DEF Packets
  <2>2. Tail(w) = SubSeq(w, 2, Len(w))
    <3> HIDE DEF w
    <3> QED BY <2>1, TailIsSubSeq
  <2>3. From(o \o d, Len(o) + 1) = d
    BY <1>1, <1>2, TwoParts
  <2> QED BY <1>1, <2>2, <2>3 DEF From
<1>8. CASE ~is_ack
  <2>1. probe = Filled(o \o d, 3 + so)
    BY <1>5, <1>8
  <2> QED BY <1>6, <2>1 DEF Filled, probe
<1>9. CASE is_ack /\ Fillable(sender)
  <2> DEFINE ad == a \o d
             ads == ad \o Stamp
  <2>1. ad \in Packets /\ Len(ad) = 3 + so
    <3>1. a \o d \in Packets /\ Len(a \o d) = Len(a) + Len(d)
      BY <1>1, <1>2, TwoParts
    <3> QED BY <1>1, <1>2, <3>1
  <2> HIDE DEF ad
  <2>2. ads \in Packets /\ Len(ads) = 3 + so + SemiOctets(TIMESTAMP_MAX_LENGTH)
    <3>1. ad \o Stamp \in Packets /\ Len(ad \o Stamp) = Len(ad) + Len(Stamp)
      BY <1>3, <2>1, TwoParts
    <3> QED BY <1>3, <2>1, <3>1
  <2> HIDE DEF ads
  <2>3. /\ ads \o s \in Packets
        /\ Len(ads \o s) = 3 + so + SemiOctets(TIMESTAMP_MAX_LENGTH) + 2 + ss
    <3>1. ads \o s \in Packets /\ Len(ads \o s) = Len(ads) + Len(s)
      BY <1>4, <1>9, <2>2, TwoParts
    <3> QED BY <1>2, <1>3, <1>4, <1>9, <2>2, <3>1
  <2>4. probe = Filled(ads \o s, 3 + so + SemiOctets(TIMESTAMP_MAX_LENGTH) + 2 + ss)
    BY <1>5, <1>7, <1>9 DEF ads, ad
  <2> QED BY <2>3, <2>4 DEF Filled, probe
<1>10. CASE is_ack /\ ~Fillable(sender)
  <2>1. probe = Fail
    BY <1>5, <1>10
  <2> QED BY <1>10, <2>1 DEF probe
<1> QED BY <1>8, <1>9, <1>10

-----------------------------------------------------------------------------
(***************************************************************************)
(* What the packet on its way is, and what was parsed of it.               *)
(***************************************************************************)
Number == composed.recipient

Submitted ==
  packet = embsys_fill_submit(Device, 0, Number, composed.text, composed.length)
Acked == Fillable(Number) /\ packet = Filled(Ack(Number), Len(Ack(Number)))
DeliverBuf == Deliver(Number, composed.length, composed.text)
Delivered == Fillable(Number) /\ packet = Filled(DeliverBuf, Len(DeliverBuf))
Received == parsed = embsys_parse_deliver(DeliverBuf, leftover, Blank)
Probed ==
  /\ Fillable(Number) /\ Received /\ parsed.status = "SUCCESS"
  /\ \E is_ack \in BOOLEAN :
       packet = embsys_fill_probe(Device, is_ack, parsed.timestamp, parsed.sender)

ExchangeInv ==
  /\ composed \in Composed /\ leftover \in Leftovers
  /\ \/ stage = "composed" /\ packet = Fail /\ parsed = Fail
     \/ stage = "submitted" /\ Submitted /\ parsed = Fail
     \/ stage = "acknowledged" /\ Acked /\ parsed = Fail
     \/ stage = "delivered" /\ Delivered /\ parsed = Fail
     \/ stage = "ackParsed" /\ Acked /\ parsed = embsys_parse_submit_ack(Ack(Number), leftover)
     \/ stage = "received" /\ Delivered /\ Received
     \/ stage = "probed" /\ Probed

LEMMA ComposedIs ==
  ASSUME composed \in Composed, leftover \in Leftovers
  PROVE  /\ Number \in Ids /\ leftover \in Ids
         /\ composed.length \in 0 .. DATA_MAX_LENGTH
         /\ composed.text \in [0 .. composed.length - 1 -> Septet]
BY ExchangeAssumption DEF SMS_SUBMIT, Number

LEMMA ExchangeInvStep == ExchangeInv /\ [ExchangeNext]_exchangeVars => ExchangeInv'
<1> SUFFICES ASSUME ExchangeInv, [ExchangeNext]_exchangeVars
             PROVE  ExchangeInv'
  OBVIOUS
<1>1. /\ composed \in Composed /\ leftover \in Leftovers
      /\ composed' = composed /\ leftover' = leftover
  BY DEF ExchangeInv, ExchangeNext, SendSubmit, SmscAcknowledges, SmscDelivers, ParseAck,
         ParseDeliver, SendProbe, Stage, exchangeVars
<1>2. /\ Number \in Ids /\ leftover \in Ids
      /\ composed.length \in 0 .. DATA_MAX_LENGTH
      /\ composed.text \in [0 .. composed.length - 1 -> Septet]
  BY <1>1, ComposedIs
<1>3. Number' = Number /\ DeliverBuf' = DeliverBuf
  BY <1>1 DEF Number, DeliverBuf
<1>4. CASE SendSubmit
  <2>1. stage = "composed" /\ stage' = "submitted" /\ parsed = Fail
        /\ packet' = embsys_fill_submit(Device, 0, Number, composed.text, composed.length)
        /\ parsed' = parsed
    BY <1>4 DEF SendSubmit, Stage, ExchangeInv, Number
  <2> QED BY <1>1, <1>3, <2>1 DEF ExchangeInv, Submitted
<1>5. ASSUME stage = "submitted", packet.status = "SUCCESS"
      PROVE  /\ Fillable(Number) /\ packet.buf[ReferenceAt] = 0
             /\ RecipientOctets = Address(Number)
             /\ From(packet.buf, LengthAt)
                  = <<composed.length>> \o fillBuffwithData(composed.text, composed.length)
             /\ parsed = Fail
  <2>1. Submitted /\ parsed = Fail
    BY <1>5 DEF ExchangeInv
  <2>2. Fillable(Number)
    <3>1. Fail.status = "FAIL"
      BY DEF Fail
    <3> QED BY <1>5, <2>1, <3>1 DEF Submitted, embsys_fill_submit
  <2> QED BY <1>2, <2>1, <2>2, SubmitRead DEF Submitted
<1>6. CASE SmscAcknowledges
  <2>1. /\ stage = "submitted" /\ stage' = "acknowledged" /\ packet.status = "SUCCESS"
        /\ parsed' = parsed
        /\ LET ack == <<SMS_SUBMIT_ACK_OCTET, packet.buf[ReferenceAt]>> \o RecipientOctets
           IN packet' = Filled(ack, Len(ack))
    BY <1>6 DEF SmscAcknowledges, Stage
  <2>2. packet' = Filled(Ack(Number), Len(Ack(Number)))
    BY <1>5, <2>1 DEF Ack
  <2>3. Acked'
    BY <1>3, <1>5, <2>1, <2>2 DEF Acked
  <2> QED BY <1>1, <1>5, <2>1, <2>3 DEF ExchangeInv
<1>7. CASE SmscDelivers
  <2>1. /\ stage = "submitted" /\ stage' = "delivered" /\ packet.status = "SUCCESS"
        /\ parsed' = parsed
        /\ LET deliver == <<SMS_DELIVER_OCTET>> \o RecipientOctets \o <<0, 0>>
                 \o fillDecimalSemiOctetsWithTrailing(TIMESTAMP_MAX_LENGTH, Timestamp)
                 \o From(packet.buf, LengthAt)
           IN packet' = Filled(deliver, Len(deliver))
    BY <1>7 DEF SmscDelivers, Stage
  <2>2. packet' = Filled(DeliverBuf, Len(DeliverBuf))
    BY <1>5, <2>1 DEF DeliverBuf, Deliver, Stamp
  <2>3. Delivered'
    BY <1>3, <1>5, <2>1, <2>2 DEF Delivered
  <2> QED BY <1>1, <1>5, <2>1, <2>3 DEF ExchangeInv
<1>8. CASE ParseAck
  <2>1. /\ stage = "acknowledged" /\ stage' = "ackParsed" /\ packet' = packet
        /\ parsed' = embsys_parse_submit_ack(packet.buf, leftover)
    BY <1>8 DEF ParseAck, Stage
  <2>2. Acked
    BY <2>1 DEF ExchangeInv
  <2>3. packet.buf = Ack(Number)
    BY <2>2 DEF Acked, Filled
  <2>4. Acked'
    BY <1>3, <2>1, <2>2 DEF Acked
  <2> QED BY <1>1, <1>3, <2>1, <2>3, <2>4 DEF ExchangeInv
<1>9. CASE ParseDeliver
  <2>1. /\ stage = "delivered" /\ stage' = "received" /\ packet' = packet
        /\ parsed' = embsys_parse_deliver(packet.buf, leftover, Blank)
    BY <1>9 DEF ParseDeliver, Stage, Blank
  <2>2. Delivered
    BY <2>1 DEF ExchangeInv
  <2>3. packet.buf = DeliverBuf
    BY <2>2 DEF Delivered, Filled
  <2>4. Delivered'
    BY <1>3, <2>1, <2>2 DEF Delivered
  <2>5. Received'
    BY <1>1, <1>3, <2>1, <2>3 DEF Received
  <2> QED BY <1>1, <2>1, <2>4, <2>5 DEF ExchangeInv
<1>10. CASE SendProbe
  <2>1. /\ stage = "received" /\ stage' = "probed" /\ parsed.status = "SUCCESS" /\ parsed' = parsed
        /\ \E is_ack \in BOOLEAN :
             packet' = embsys_fill_probe(Device, is_ack, parsed.timestamp, parsed.sender)
    BY <1>10 DEF SendProbe, Stage
  <2>2. Delivered /\ Received
    BY <2>1 DEF ExchangeInv
  <2>3. Probed'
    BY <1>1, <1>3, <2>1, <2>2 DEF Probed, Received, Delivered
  <2> QED BY <1>1, <2>1, <2>3 DEF ExchangeInv
<1>11. CASE UNCHANGED exchangeVars
  <2>1. /\ stage' = stage /\ packet' = packet /\ parsed' = parsed
    BY <1>11 DEF exchangeVars
  <2>2. /\ Submitted' = Submitted /\ Acked' = Acked /\ Delivered' = Delivered
        /\ Received' = Received /\ Probed' = Probed
    BY <1>1, <1>3, <2>1 DEF Submitted, Acked, Delivered, Received, Probed
  <2> QED BY <1>1, <1>3, <2>1, <2>2 DEF ExchangeInv
<1> QED BY <1>4, <1>6, <1>7, <1>8, <1>9, <1>10, <1>11 DEF ExchangeNext

LEMMA ExchangeInvAlways == ExchangeSpec => []ExchangeInv
<1>1. ExchangeInit => ExchangeInv
  BY DEF ExchangeInit, ExchangeInv
<1> QED BY <1>1, ExchangeInvStep, PTL DEF ExchangeSpec

\* The packet is as long as was said, and filled where it should be.
LEMMA PacketGood ==
  ASSUME ExchangeInv
  PROVE  /\ packet # Fail => packet.buf \in Packets /\ packet.len = Len(packet.buf)
         /\ stage \notin {"composed", "probed"} =>
              (packet.status = "SUCCESS" <=> Fillable(Number))
         /\ stage = "probed" /\ Terminated(Number) => packet.status = "SUCCESS"
<1>1. /\ Number \in Ids /\ leftover \in Ids
      /\ composed.length \in 0 .. DATA_MAX_LENGTH
      /\ composed.text \in [0 .. composed.length - 1 -> Septet]
  BY ComposedIs DEF ExchangeInv
<1>2. Fail.status = "FAIL"
  BY DEF Fail
<1>3. CASE stage = "composed"
  BY <1>3 DEF ExchangeInv
<1>4. CASE stage = "submitted"
  <2>1. Submitted
    BY <1>4 DEF ExchangeInv
  <2>2. CASE ~Fillable(Number)
    <3>1. packet = Fail
      BY <2>1, <2>2 DEF Submitted, embsys_fill_submit
    <3> QED BY <1>2, <1>4, <2>2, <3>1
  <2>3. CASE Fillable(Number)
    <3>1. /\ packet.status = "SUCCESS" /\ packet.buf \in Packets /\ packet.len = Len(packet.buf)
      BY <1>1, <2>1, <2>3, SubmitRead DEF Submitted
    <3> QED BY <1>4, <2>3, <3>1
  <2> QED BY <2>2, <2>3
<1>5. CASE stage \in {"acknowledged", "ackParsed"}
  <2>1. Acked
    BY <1>5 DEF ExchangeInv
  <2>2. Ack(Number) \in Packets
    BY <2>1, AckRead DEF Acked
  <2>3. packet.status = "SUCCESS" /\ packet.buf = Ack(Number) /\ packet.len = Len(Ack(Number))
    BY <2>1 DEF Acked, Filled
  <2> QED BY <1>5, <2>1, <2>2, <2>3 DEF Acked
<1>6. CASE stage \in {"delivered", "received"}
  <2>1. Delivered
    BY <1>6 DEF ExchangeInv
  <2>2. DeliverBuf \in Packets
    <3>1. Fillable(Number)
      BY <2>1 DEF Delivered
    <3> QED BY <1>1, <3>1, DeliverRead DEF DeliverBuf
  <2>3. packet.status = "SUCCESS" /\ packet.buf = DeliverBuf /\ packet.len = Len(DeliverBuf)
    BY <2>1 DEF Delivered, Filled
  <2> QED BY <1>6, <2>1, <2>2, <2>3 DEF Delivered
<1>7. CASE stage = "probed"
  <2>1. Probed
    BY <1>7 DEF ExchangeInv
  <2>2. /\ parsed.timestamp = Timestamp /\ parsed.sender \in Ids
        /\ Whole(Number, leftover) => Fillable(parsed.sender)
    <3>1. /\ Fillable(Number) /\ parsed.status = "SUCCESS"
          /\ parsed = embsys_parse_deliver(DeliverBuf, leftover, Blank)
      BY <2>1 DEF Probed, Received
    <3>2. parsed # Fail
      BY <1>2, <3>1
    <3>3. /\ parsed.timestamp = Timestamp
          /\ parsed \in SMS_DELIVER(composed.length)
          /\ Whole(Number, leftover) => Fillable(parsed.sender)
      BY <1>1, <3>1, <3>2, DeliverParsed DEF DeliverBuf
    <3> QED BY <3>3 DEF SMS_DELIVER
  <2>3. PICK is_ack \in BOOLEAN : packet = embsys_fill_probe(Device, is_ack, Timestamp, parsed.sender)
    BY <2>1, <2>2 DEF Probed
  <2>4. /\ Fillable(parsed.sender) => packet.status = "SUCCESS"
        /\ packet # Fail => packet.buf \in Packets /\ packet.len = Len(packet.buf)
    BY <2>2, <2>3, ProbeFilled
  <2>5. Terminated(Number) => Whole(Number, leftover)
    BY DEF Terminated, Whole
  <2> QED BY <1>7, <2>2, <2>4, <2>5
<1> QED BY <1>3, <1>4, <1>5, <1>6, <1>7 DEF ExchangeInv

\* Every message of every length comes out of the protocol as it went in, and every
\* packet is filled as far as is said: MessagesSurvive, whatever the texts, the numbers
\* and what the stack of the interrupt held.  A number that is not terminated keeps its
\* digits; embsys_sms_protocol.h promises a terminator, which IdsTerminated refutes.
THEOREM ExchangeSurvives == ExchangeSpec => []MessagesSurvive
<1>1. ExchangeInv => MessagesSurvive
  <2> SUFFICES ASSUME ExchangeInv
               PROVE  MessagesSurvive
    OBVIOUS
  <2>1. /\ packet # Fail => packet.len = Len(packet.buf)
        /\ stage \notin {"composed", "probed"} =>
              (packet.status = "SUCCESS" <=> Fillable(composed.recipient))
        /\ stage = "probed" /\ Terminated(composed.recipient) => packet.status = "SUCCESS"
    BY PacketGood DEF Number
  <2>2. /\ Number \in Ids /\ leftover \in Ids
        /\ composed.length \in 0 .. DATA_MAX_LENGTH
        /\ composed.text \in [0 .. composed.length - 1 -> Septet]
    BY ComposedIs DEF ExchangeInv
  <2>3. \A id : ReadsLike(Number, id, leftover) <=> ReadsBack(Number, id)
    BY DEF ReadsLike, ReadsBack, Terminated, Whole
  <2>4. ASSUME stage = "ackParsed"
        PROVE  /\ parsed = Fail <=> getLen(Number) = 0
               /\ parsed # Fail => ReadsBack(Number, parsed.recipient)
    <3>1. Fillable(Number) /\ parsed = embsys_parse_submit_ack(Ack(Number), leftover)
      BY <2>4 DEF ExchangeInv, Acked
    <3> QED BY <2>2, <2>3, <3>1, AckParsed
  <2>5. ASSUME stage = "received"
        PROVE  /\ parsed = Fail <=> getLen(Number) = 0
               /\ parsed # Fail =>
                    /\ parsed.data = composed.text /\ parsed.data_length = composed.length
                    /\ parsed.timestamp = Timestamp
                    /\ ReadsBack(Number, parsed.sender)
    <3>1. Fillable(Number) /\ parsed = embsys_parse_deliver(DeliverBuf, leftover, Blank)
      BY <2>5 DEF ExchangeInv, Delivered, Received
    <3> QED BY <2>2, <2>3, <3>1, DeliverParsed DEF DeliverBuf
  <2> QED BY <2>1, <2>4, <2>5 DEF MessagesSurvive, Number
<1> QED BY <1>1, ExchangeInvAlways, PTL

\* Packets hold octets, and what is parsed has its type: ExchangeTypeOK.
THEOREM ExchangeTypeCorrect == ExchangeSpec => []ExchangeTypeOK
<1>1. ExchangeInv => ExchangeTypeOK
  <2> SUFFICES ASSUME ExchangeInv
               PROVE  ExchangeTypeOK
    OBVIOUS
  <2>1. stage \in {"composed", "submitted", "acknowledged", "delivered", "ackParsed",
                   "received", "probed"}
    BY DEF ExchangeInv
  <2>2. packet # Fail => \A k \in DOMAIN packet.buf : packet.buf[k] \in 0 .. 255
    <3>1. packet # Fail => packet.buf \in Packets
      BY PacketGood
    <3>2. ASSUME NEW b \in Packets, NEW k \in DOMAIN b
          PROVE  b[k] \in 0 .. 255
      BY <3>2, LenProperties, ElementOfSeq DEF Packets, Octets
    <3> QED BY <3>1, <3>2
  <2>3. /\ Number \in Ids /\ leftover \in Ids
        /\ composed.length \in 0 .. DATA_MAX_LENGTH
        /\ composed.text \in [0 .. composed.length - 1 -> Septet]
    BY ComposedIs DEF ExchangeInv
  <2>4. CASE parsed = Fail
    BY <2>1, <2>2, <2>4 DEF ExchangeTypeOK
  <2>5. CASE parsed # Fail /\ stage = "ackParsed"
    <3>1. Fillable(Number) /\ parsed = embsys_parse_submit_ack(Ack(Number), leftover)
      BY <2>5 DEF ExchangeInv, Acked
    <3>2. parsed \in SMS_SUBMIT_ACK
      BY <2>3, <2>5, <3>1, AckParsed
    <3> QED BY <2>1, <2>2, <3>2 DEF ExchangeTypeOK
  <2>6. CASE parsed # Fail /\ stage \in {"received", "probed"}
    <3>1. Fillable(Number) /\ parsed = embsys_parse_deliver(DeliverBuf, leftover, Blank)
      BY <2>6 DEF ExchangeInv, Delivered, Received, Probed
    <3>2. parsed.data_length = composed.length /\ parsed \in SMS_DELIVER(composed.length)
      BY <2>3, <2>6, <3>1, DeliverParsed DEF DeliverBuf
    <3> QED BY <2>1, <2>2, <2>3, <3>2 DEF ExchangeTypeOK
  <2> QED BY <2>4, <2>5, <2>6 DEF ExchangeInv
<1> QED BY <1>1, ExchangeInvAlways, PTL

-----------------------------------------------------------------------------
(***************************************************************************)
(* The registers of the flash.                                             *)
(***************************************************************************)
Sizes == 1 .. MAX_DATA_READ_WRITE_SIZE

\* The place of a byte in the registers.
LEMMA WordAndPlace ==
  ASSUME NEW i \in 0 .. MAX_DATA_READ_WRITE_SIZE - 1
  PROVE  i \div 4 \in DataRegs /\ i % 4 \in 0 .. 3 /\ i = 4 * (i \div 4) + (i % 4)
BY DEF MAX_DATA_READ_WRITE_SIZE, DataRegs

\* The size is rounded up within the registers.
LEMMA RoundedUp ==
  ASSUME NEW size \in Sizes
  PROVE  /\ newSizeInt(size) \in size .. MAX_DATA_READ_WRITE_SIZE
         /\ newSizeInt(size) % 4 = 0
BY DEF Sizes, newSizeInt, MAX_DATA_READ_WRITE_SIZE

\* The registers hold the bytes in the order of the buffer, and ones behind them.
LEMMA RegistersFilled ==
  ASSUME NEW size \in Sizes, NEW regs, NEW buffer, NEW start,
         NEW i \in 0 .. newSizeInt(size) - 1
  PROVE  RegisterByte(copyFromBufferToDataRegs(regs, buffer, start, size), i)
           = ByteToWrite(buffer, start, size, i)
<1> DEFINE r == i \div 4
           k == i % 4
           new == copyFromBufferToDataRegs(regs, buffer, start, size)
<1>1. /\ newSizeInt(size) \in size .. MAX_DATA_READ_WRITE_SIZE
      /\ newSizeInt(size) \in Nat /\ i \in 0 .. MAX_DATA_READ_WRITE_SIZE - 1
  BY RoundedUp DEF Sizes, MAX_DATA_READ_WRITE_SIZE
<1>2. r \in DataRegs /\ k \in 0 .. 3 /\ i = 4 * r + k
  BY <1>1, WordAndPlace
<1>3. r \in Int /\ 4 * r < newSizeInt(size)
  BY <1>1, <1>2 DEF DataRegs, MAX_DATA_READ_WRITE_SIZE
<1>4. new[r] = changeEndian([j \in 0 .. 3 |-> ByteToWrite(buffer, start, size, 4 * r + j)])
  BY <1>2, <1>3 DEF copyFromBufferToDataRegs
<1>5. 3 - k \in 0 .. 3 /\ 3 - (3 - k) = k
  BY <1>2
<1>6. new[r][3 - k] = ByteToWrite(buffer, start, size, 4 * r + k)
  BY <1>2, <1>4, <1>5 DEF changeEndian
<1> QED BY <1>2, <1>6 DEF RegisterByte

\* flash_write's bytes get to the flash at their own place, and the ones that fill the
\* last word change nothing behind them, even if the device writes whole words.
THEOREM WritesOnlyItsBytes ==
  ASSUME NEW size \in Sizes, NEW regs, NEW start \in Nat, NEW buffer,
         NEW N \in Nat, NEW flash \in [0 .. N -> Byte],
         NEW address \in Nat, NEW a \in 0 .. N
  PROVE  Programmed(flash, address, size,
                    copyFromBufferToDataRegs(regs, buffer, start, size))[a]
           = IF a - address \in 0 .. size - 1
               THEN flash[a] \cap buffer[start + (a - address)] ELSE flash[a]
<1> DEFINE i == a - address
           new == copyFromBufferToDataRegs(regs, buffer, start, size)
           written == Programmed(flash, address, size, new)[a]
<1>1. /\ newSizeInt(size) \in size .. MAX_DATA_READ_WRITE_SIZE
      /\ size \in Nat /\ a \in Int /\ i \in Int
  <2>1. newSizeInt(size) \in size .. MAX_DATA_READ_WRITE_SIZE
    BY RoundedUp
  <2> QED BY <2>1 DEF Sizes, MAX_DATA_READ_WRITE_SIZE
<1>2. written = IF i \in 0 .. newSizeInt(size) - 1
                  THEN flash[a] \cap RegisterByte(new, i) ELSE flash[a]
  BY DEF Programmed
<1>3. CASE i \in 0 .. size - 1
  <2>1. i \in 0 .. newSizeInt(size) - 1 /\ i < size
    BY <1>1, <1>3 DEF MAX_DATA_READ_WRITE_SIZE
  <2>2. RegisterByte(new, i) = buffer[start + i]
    BY <2>1, RegistersFilled DEF ByteToWrite
  <2> QED BY <1>2, <1>3, <2>1, <2>2
<1>4. CASE i \in size .. newSizeInt(size) - 1
  <2>1. i \in 0 .. newSizeInt(size) - 1 /\ ~(i < size) /\ i \notin 0 .. size - 1
    BY <1>1, <1>4 DEF MAX_DATA_READ_WRITE_SIZE
  <2>2. RegisterByte(new, i) = Ones
    BY <2>1, RegistersFilled DEF ByteToWrite
  <2>3. flash[a] \cap Ones = flash[a]
    BY DEF Byte
  <2> QED BY <1>2, <2>1, <2>2, <2>3
<1>5. CASE i \notin 0 .. newSizeInt(size) - 1
  BY <1>1, <1>2, <1>5 DEF MAX_DATA_READ_WRITE_SIZE
<1> QED BY <1>1, <1>3, <1>4, <1>5 DEF MAX_DATA_READ_WRITE_SIZE

\* A read ORs the bytes of the flash into the buffer at their own place, and leaves the
\* rest of the buffer alone: whatever the registers held, and whatever the size.
THEOREM ReadsItsBytes ==
  ASSUME NEW size \in Sizes, NEW regs, NEW start \in Nat, NEW address \in Nat, NEW flash,
         NEW N \in Nat, NEW buffer \in [0 .. N -> Byte], NEW p \in 0 .. N
  PROVE  copyResultToBuffer(Loaded(flash, address, size, regs), buffer, start, size)[p]
           = IF p - start \in 0 .. size - 1
               THEN buffer[p] \cup flash[address + (p - start)] ELSE buffer[p]
<1> DEFINE i == p - start
           r == i \div 4
           k == i % 4
           new == Loaded(flash, address, size, regs)
<1>1. CASE i \in 0 .. size - 1
  <2>1. i \in 0 .. MAX_DATA_READ_WRITE_SIZE - 1 /\ i < size
    BY <1>1 DEF Sizes, MAX_DATA_READ_WRITE_SIZE
  <2>2. r \in DataRegs /\ k \in 0 .. 3 /\ i = 4 * r + k
    BY <2>1, WordAndPlace
  <2>3. r \in Int /\ 3 - k \in 0 .. 3 /\ 3 - (3 - k) = k
    BY <2>2 DEF DataRegs, MAX_DATA_READ_WRITE_SIZE
  <2>4. changeEndian(new[r])[k] = new[r][3 - k]
    BY <2>2 DEF changeEndian
  <2>5. 4 * r + (3 - (3 - k)) = i /\ address + 4 * r + (3 - (3 - k)) = address + i
    BY <2>2, <2>3
  <2>6. new[r][3 - k] = flash[address + i]
    BY <2>1, <2>2, <2>3, <2>5 DEF Loaded
  <2>7. copyResultToBuffer(new, buffer, start, size)[p]
          = buffer[p] \cup changeEndian(new[r])[k]
    BY <1>1 DEF copyResultToBuffer
  <2> QED BY <1>1, <2>4, <2>6, <2>7
<1>2. CASE i \notin 0 .. size - 1
  BY <1>2 DEF copyResultToBuffer
<1> QED BY <1>1, <1>2
=============================================================================
