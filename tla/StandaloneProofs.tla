--------------------------- MODULE StandaloneProofs ---------------------------
(***************************************************************************)
(* Proofs about the two programs that run by themselves: the boot loader,  *)
(* for images, commands and timeouts of every size, and the word count     *)
(* with its map, for every set of keys and every input.                    *)
(***************************************************************************)
EXTENDS BootLoader, WordCount, SequenceTheorems, FiniteSetTheorems, WellFoundedInduction, TLAPS

-----------------------------------------------------------------------------
(***************************************************************************)
(* The boot loader.                                                        *)
(***************************************************************************)
\* A byte of memory over which its byte of the image was copied.
Copied(k) == IF image[k] = 1 THEN 1 ELSE memoryBefore[k]

\* The positions move together.
PositionsAgree ==
  /\ currentSourcePos = currDestinationPos
  /\ currentSourcePos + bytesLeft = ImageSize

\* The command is the one main waits for, it ends within the flash, and main waits as long
\* as it runs, or gives up: when it is done its bytes are in the registers.
CommandPending ==
  /\ at # "ERROR" => timeout >= 0
  /\ address + byteCount <= ImageSize
  /\ at \in {"loop", "firmware"} => ~SCIP
  /\ at = "poll" =>
       /\ bytesLeft > 0
       /\ address = currentSourcePos /\ byteCount = byte_to_read
       /\ ~SCIP => \A k \in 0 .. byteCount - 1 : dataArray[k] = image[address + k]

\* The memory below the position is copied, the rest is as it was.
PrefixCopied ==
  \A k \in Places : memory[k] = IF k < currDestinationPos THEN Copied(k) ELSE memoryBefore[k]

BootInv ==
  /\ BootTypeOK /\ PositionsAgree /\ CommandPending /\ PrefixCopied
  /\ at = "firmware" => bytesLeft = 0

\* How much of the image a command reads.
LEMMA ByteToRead ==
  ASSUME BootTypeOK
  PROVE  /\ byte_to_read \in 0 .. bytesLeft /\ byte_to_read \in 0 .. DataCells
         /\ bytesLeft > 0 => byte_to_read > 0
BY BootAssumption DEF BootTypeOK, byte_to_read

LEMMA BootInvInit == BootInit => BootInv
<1> SUFFICES ASSUME BootInit PROVE BootInv
  OBVIOUS
<1> USE BootAssumption DEF BootInit
<1>1. BootTypeOK
  <2>1. /\ 0 \in Places /\ 0 \in 0 .. ImageSize /\ ImageSize \in 0 .. ImageSize
        /\ 0 \in 0 .. DataCells /\ BootTimeout \in -1 .. BootTimeout
    BY DEF Places
  <2>2. dataArray \in [Registers -> {0, 1}]
    OBVIOUS
  <2> QED BY <2>1, <2>2, Zenon DEF BootTypeOK
<1>2. PositionsAgree /\ CommandPending
  BY DEF PositionsAgree, CommandPending
<1>3. PrefixCopied
  BY DEF PrefixCopied, Places
<1> QED BY <1>1, <1>2, <1>3 DEF BootInv

\* The device ends the command.
LEMMA ReadEndsKeeps ==
  ASSUME BootInv, NEW sets \in BOOLEAN, ReadEnds(sets)
  PROVE  BootInv'
<1>1. /\ UNCHANGED <<at, bytesLeft, timeout, currentSourcePos, currDestinationPos, address,
                     byteCount, image, memory, memoryBefore>>
      /\ CYCLE_DONE' \in BOOLEAN /\ SCIP' = FALSE
  BY DEF ReadEnds, bootCommand, BootInv, BootTypeOK
<1>2. /\ dataArray \in [Registers -> {0, 1}] /\ image \in [0 .. ImageSize - 1 -> {0, 1}]
      /\ address \in Nat /\ byteCount \in Nat /\ address + byteCount <= ImageSize
      /\ byteCount <= DataCells /\ DataCells \in Nat /\ ImageSize \in Nat
  BY BootAssumption DEF BootInv, BootTypeOK, CommandPending, Places, Contents
<1>3. \A k \in Registers : k < byteCount => image[address + k] \in {0, 1}
  BY <1>2 DEF Registers
<1>4. dataArray' \in [Registers -> {0, 1}]
  BY <1>2, <1>3 DEF ReadEnds
<1>5. \A k \in 0 .. byteCount - 1 : dataArray'[k] = image[address + k]
  BY <1>2 DEF ReadEnds, Registers
<1>6. BootTypeOK'
  BY <1>1, <1>4 DEF BootInv, BootTypeOK
<1>7. PositionsAgree' /\ PrefixCopied' /\ (at = "firmware" => bytesLeft = 0)'
  BY <1>1 DEF BootInv, PositionsAgree, PrefixCopied, Copied
<1>8. CommandPending'
  BY <1>1, <1>5 DEF BootInv, CommandPending, byte_to_read
<1> QED BY <1>6, <1>7, <1>8 DEF BootInv

\* The bytes of the command are copied behind those of the earlier ones.
LEMMA CopyChunkKeeps ==
  ASSUME BootInv, CopyChunk
  PROVE  BootInv'
<1> DEFINE n == byte_to_read
           pos == currDestinationPos
<1>1. /\ at = "poll" /\ at' = "loop" /\ timeout' = BootTimeout /\ ~SCIP
      /\ currentSourcePos' = currentSourcePos + n /\ currDestinationPos' = pos + n
      /\ bytesLeft' = bytesLeft - n
      /\ UNCHANGED <<SCIP, CYCLE_DONE, address, byteCount, dataArray, image, memoryBefore>>
  BY DEF CopyChunk, boot_flash_is_ready, bootCommand
<1>2. /\ n \in 0 .. bytesLeft /\ n \in Nat /\ pos \in Nat /\ bytesLeft \in Nat
      /\ ImageSize \in Nat /\ pos + bytesLeft = ImageSize /\ currentSourcePos = pos
      /\ address = pos /\ byteCount = n
      /\ \A k \in 0 .. n - 1 : dataArray[k] = image[pos + k]
  BY <1>1, ByteToRead, BootAssumption
  DEF BootInv, BootTypeOK, PositionsAgree, CommandPending
<1>3. /\ memory \in [Places -> {0, 1}] /\ image \in [Places -> {0, 1}]
      /\ \A k \in Places : memory[k] = IF k < pos THEN Copied(k) ELSE memoryBefore[k]
  BY DEF BootInv, BootTypeOK, Contents, PrefixCopied
<1>4. memory' = [k \in Places |-> IF k \in pos .. pos + n - 1
                                    THEN IF dataArray[k - pos] = 1 THEN 1 ELSE memory[k]
                                    ELSE memory[k]]
  BY DEF CopyChunk
<1>5. \A k \in pos .. pos + n - 1 : dataArray[k - pos] = image[k]
  <2> TAKE k \in pos .. pos + n - 1
  <2>1. k - pos \in 0 .. n - 1 /\ pos + (k - pos) = k
    BY <1>2
  <2> QED BY <1>2, <2>1
<1>6. PrefixCopied'
  <2>1. ASSUME NEW k \in Places
        PROVE  memory'[k] = IF k < pos + n THEN Copied(k) ELSE memoryBefore[k]
    <3>1. k \in Nat
      BY DEF Places
    <3>2. CASE k < pos
      BY <1>2, <1>3, <1>4, <3>1, <3>2
    <3>3. CASE k \in pos .. pos + n - 1
      BY <1>2, <1>3, <1>4, <1>5, <3>3 DEF Copied
    <3>4. CASE k >= pos + n
      BY <1>2, <1>3, <1>4, <3>1, <3>4
    <3> QED BY <1>2, <3>1, <3>2, <3>3, <3>4
  <2> QED BY <1>1, <2>1 DEF PrefixCopied, Copied
<1>7. BootTypeOK'
  <2>1. memory' \in [Places -> {0, 1}]
    BY <1>3, <1>4
  <2>2. bytesLeft' \in 0 .. ImageSize /\ currentSourcePos' \in 0 .. ImageSize
        /\ currDestinationPos' \in 0 .. ImageSize /\ timeout' \in -1 .. BootTimeout
    BY <1>1, <1>2, BootAssumption
  <2> QED BY <1>1, <2>1, <2>2 DEF BootInv, BootTypeOK, Contents
<1>8. PositionsAgree'
  BY <1>1, <1>2 DEF PositionsAgree
<1>9. CommandPending'
  BY <1>1, BootAssumption DEF BootInv, CommandPending
<1> QED BY <1>1, <1>6, <1>7, <1>8, <1>9 DEF BootInv

LEMMA BootInvStep == BootInv /\ [BootNext]_bootVars => BootInv'
<1> SUFFICES ASSUME BootInv, [BootNext]_bootVars PROVE BootInv'
  OBVIOUS
<1>1. CASE StartRead
  <2>1. /\ at = "loop" /\ at' = "poll" /\ bytesLeft > 0 /\ SCIP' = TRUE
        /\ address' = currentSourcePos /\ byteCount' = byte_to_read
        /\ UNCHANGED <<bytesLeft, timeout, currentSourcePos, currDestinationPos, CYCLE_DONE,
                       dataArray, image, memory, memoryBefore>>
    BY <1>1 DEF StartRead
  <2>2. /\ address' \in Places /\ byteCount' \in 0 .. DataCells
        /\ address' + byteCount' <= ImageSize
    BY <2>1, ByteToRead, BootAssumption DEF BootInv, BootTypeOK, PositionsAgree, Places
  <2>3. BootTypeOK'
    BY <2>1, <2>2 DEF BootInv, BootTypeOK
  <2>4. CommandPending'
    BY <2>1, <2>2 DEF BootInv, CommandPending, byte_to_read
  <2> QED
    BY <2>1, <2>3, <2>4 DEF BootInv, PositionsAgree, PrefixCopied, Copied
<1>2. CASE PollFails
  <2>1. /\ at = "poll" /\ at' \in {"poll", "ERROR"} /\ timeout' = timeout - 1
        /\ timeout' \in -1 .. BootTimeout /\ (at' # "ERROR" => timeout' >= 0)
        /\ UNCHANGED <<bytesLeft, currentSourcePos, currDestinationPos, SCIP, CYCLE_DONE,
                       address, byteCount, dataArray, image, memory, memoryBefore>>
    BY <1>2, BootAssumption DEF PollFails, bootCommand, BootInv, BootTypeOK, CommandPending
  <2>2. BootTypeOK'
    BY <2>1 DEF BootInv, BootTypeOK
  <2>3. CommandPending'
    BY <2>1 DEF BootInv, CommandPending, byte_to_read
  <2> QED
    BY <2>1, <2>2, <2>3 DEF BootInv, PositionsAgree, PrefixCopied, Copied
<1>3. CASE CopyChunk
  BY <1>3, CopyChunkKeeps
<1>4. CASE Jump
  <2>1. at = "loop" /\ at' = "firmware" /\ bytesLeft = 0
    BY <1>4, BootAssumption DEF Jump, BootInv, BootTypeOK
  <2> QED
    BY <1>4, <2>1
    DEF Jump, bootCommand, BootInv, BootTypeOK, PositionsAgree, CommandPending, PrefixCopied,
        Copied
<1>5. CASE \E sets \in BOOLEAN : ReadEnds(sets)
  BY <1>5, ReadEndsKeeps
<1>6. CASE Acknowledged
  BY <1>6
  DEF Acknowledged, bootCommand, BootInv, BootTypeOK, PositionsAgree, CommandPending,
      PrefixCopied, Copied, byte_to_read
<1>7. CASE UNCHANGED bootVars
  BY <1>7
  DEF bootVars, bootCommand, BootInv, BootTypeOK, PositionsAgree, CommandPending, PrefixCopied,
      Copied, byte_to_read
<1> QED
  BY <1>1, <1>2, <1>3, <1>4, <1>5, <1>6, <1>7 DEF BootNext

\* The inductive invariant of the copy.
THEOREM BootInvCorrect == BootSpec => []BootInv
BY BootInvInit, BootInvStep, PTL DEF BootSpec

\* main of bootLoad.c enters the firmware only when every byte of the image was read to its
\* place, whatever the sizes of the image and of a command, and however long the commands
\* take.  Where memory was not blank the byte is ORed into it.
THEOREM BootCopiesImage == BootSpec => []ImageCopied
<1>1. ASSUME BootInv PROVE ImageCopied
  <2>1. at = "firmware" => currDestinationPos = ImageSize
    BY <1>1, BootAssumption DEF BootInv, BootTypeOK, PositionsAgree
  <2>2. \A k \in Places : k < ImageSize
    BY BootAssumption DEF Places
  <2> QED BY <1>1, <2>1, <2>2 DEF BootInv, BootTypeOK, Contents, PrefixCopied, Copied, ImageCopied
<1> QED BY <1>1, BootInvCorrect, PTL

-----------------------------------------------------------------------------
(***************************************************************************)
(* The order of the keys.                                                  *)
(***************************************************************************)
\* Every set of naturals with an element has a least one.
LEMMA LeastNatural ==
  ASSUME NEW N, N \subseteq Nat, N # {}
  PROVE  \E k \in N : \A j \in N : k <= j
<1> DEFINE Less == {ss \in Nat \X Nat : ss[1] < ss[2]}
<1>1. IsWellFoundedOn(Less, Nat)
  BY NatLessThanWellFounded, Zenon DEF OpToRel
<1> HIDE DEF Less
<1>2. PICK k \in N : \A y \in N : ~ (<<y, k>> \in Less)
  BY <1>1, WFMin
<1>3. \A y \in N : ~(y < k)
  BY <1>2 DEF Less
<1> QED BY <1>3

\* Two strings agree on n characters, and the first goes on lower or ends there.
SplitAt(k, l, n) ==
  /\ n <= Len(k) /\ n < Len(l)
  /\ \A j \in 1 .. n : k[j] = l[j]
  /\ n = Len(k) \/ k[n + 1] < l[n + 1]

LEMMA Precedence ==
  ASSUME NEW k \in Seq(Nat), NEW l \in Seq(Nat)
  PROVE  Precedes(k, l) <=> \E n \in Nat : SplitAt(k, l, n)
<1>1. ASSUME NEW n \in Nat, n <= Len(k), n < Len(l)
      PROVE  SubSeq(k, 1, n) = SubSeq(l, 1, n) <=> \A j \in 1 .. n : k[j] = l[j]
  <2>1. SubSeq(k, 1, n) = [j \in 1 .. n |-> k[j]] /\ SubSeq(l, 1, n) = [j \in 1 .. n |-> l[j]]
    BY <1>1
  <2> QED BY <2>1, Zenon
<1>2. Len(k) \in Nat /\ Len(l) \in Nat
  OBVIOUS
<1>3. \A n : n \in 0 .. Len(k) <=> n \in Nat /\ n <= Len(k)
  BY <1>2
<1> QED BY <1>1, <1>3, Zenon DEF Precedes, SplitAt

\* The keys are in a strict total order.
LEMMA KeyOrder ==
  /\ \A k \in Keys : ~Precedes(k, k)
  /\ \A k, l \in Keys : k # l => Precedes(k, l) \/ Precedes(l, k)
  /\ \A k, l, m \in Keys : Precedes(k, l) /\ Precedes(l, m) => Precedes(k, m)
<1>1. \A k \in Keys : k \in Seq(Nat)
  BY MapAssumption
<1>2. ASSUME NEW k \in Seq(Nat), NEW n \in Nat, SplitAt(k, k, n) PROVE FALSE
  <2>1. n + 1 \in 1 .. Len(k)
    BY <1>2 DEF SplitAt
  <2>2. k[n + 1] \in Nat
    BY <2>1
  <2> QED BY <1>2, <2>1, <2>2 DEF SplitAt
<1>3. ASSUME NEW k \in Seq(Nat), NEW l \in Seq(Nat), k # l
      PROVE  \E n \in Nat : SplitAt(k, l, n) \/ SplitAt(l, k, n)
  <2> DEFINE Off == {n \in Nat : \/ n = Len(k) \/ n = Len(l)
                                 \/ n < Len(k) /\ n < Len(l) /\ k[n + 1] # l[n + 1]}
  <2>1. Off \subseteq Nat /\ Len(k) \in Off /\ Len(k) \in Nat /\ Len(l) \in Nat
    OBVIOUS
  <2>2. PICK n \in Off : \A j \in Off : n <= j
    <3> HIDE DEF Off
    <3> QED BY <2>1, LeastNatural, Zenon
  <2>3. n \in Nat
    BY <2>2
  <2>4. n <= Len(k) /\ n <= Len(l)
    <3>1. Len(l) \in Off
      OBVIOUS
    <3> HIDE DEF Off
    <3> QED BY <2>1, <2>2, <3>1
  <2>5. ASSUME NEW j \in 1 .. n PROVE k[j] = l[j]
    <3>1. j - 1 \in Nat /\ j - 1 < n /\ (j - 1) + 1 = j
      BY <2>3
    <3>2. j - 1 \notin Off
      <4> HIDE DEF Off
      <4> QED BY <2>2, <2>3, <3>1
    <3> QED BY <2>1, <2>4, <3>1, <3>2
  <2>6. n < Len(k) \/ n < Len(l)
    <3> SUFFICES ASSUME n = Len(k), n = Len(l) PROVE FALSE
      BY <2>1, <2>3, <2>4
    <3>1. k = [j \in 1 .. n |-> k[j]] /\ l = [j \in 1 .. n |-> l[j]]
      <4>1. k \in [1 .. n -> Nat] /\ l \in [1 .. n -> Nat]
        BY LenProperties
      <4> QED BY <4>1, Zenon
    <3> QED BY <3>1, <2>5, <1>3, Zenon
  <2>7. CASE n = Len(k)
    BY <2>7, <2>1, <2>3, <2>4, <2>5, <2>6 DEF SplitAt
  <2>8. CASE n = Len(l)
    BY <2>8, <2>1, <2>3, <2>4, <2>5, <2>6 DEF SplitAt
  <2>9. CASE n < Len(k) /\ n < Len(l) /\ k[n + 1] # l[n + 1]
    <3>1. n + 1 \in 1 .. Len(k) /\ n + 1 \in 1 .. Len(l)
      BY <2>9, <2>1, <2>3
    <3>2. k[n + 1] \in Nat /\ l[n + 1] \in Nat
      BY <3>1
    <3>3. k[n + 1] < l[n + 1] \/ l[n + 1] < k[n + 1]
      BY <3>2, <2>9
    <3> QED BY <3>3, <2>9, <2>3, <2>4, <2>5 DEF SplitAt
  <2> QED BY <2>2, <2>7, <2>8, <2>9
<1>4. ASSUME NEW k \in Seq(Nat), NEW l \in Seq(Nat), NEW m \in Seq(Nat),
             NEW p \in Nat, NEW q \in Nat, SplitAt(k, l, p), SplitAt(l, m, q)
      PROVE  \E n \in Nat : SplitAt(k, m, n)
  <2>1. Len(k) \in Nat /\ Len(l) \in Nat /\ Len(m) \in Nat
    OBVIOUS
  <2>2. CASE p < q
    <3>1. p + 1 \in 1 .. q /\ \A j \in 1 .. p : j \in 1 .. q
      BY <2>2
    <3>2. p < Len(m) /\ p # Len(l)
      BY <2>1, <2>2, <1>4 DEF SplitAt
    <3>3. \A j \in 1 .. p : k[j] = m[j]
      BY <3>1, <1>4 DEF SplitAt
    <3>4. l[p + 1] = m[p + 1]
      BY <3>1, <1>4 DEF SplitAt
    <3> QED BY <3>2, <3>3, <3>4, <1>4 DEF SplitAt
  <2>3. CASE q < p
    <3>1. q + 1 \in 1 .. p /\ \A j \in 1 .. q : j \in 1 .. p
      BY <2>3
    <3>2. q <= Len(k) /\ q # Len(l)
      BY <2>1, <2>3, <1>4 DEF SplitAt
    <3>3. \A j \in 1 .. q : k[j] = m[j]
      BY <3>1, <1>4 DEF SplitAt
    <3>4. k[q + 1] = l[q + 1]
      BY <3>1, <1>4 DEF SplitAt
    <3> QED BY <3>2, <3>3, <3>4, <1>4 DEF SplitAt
  <2>4. CASE p = q
    <3>1. CASE p = Len(k)
      BY <3>1, <2>1, <2>4, <1>4 DEF SplitAt
    <3>2. CASE p # Len(k)
      <4>0. /\ p <= Len(k) /\ p < Len(l) /\ p < Len(m)
            /\ p = Len(k) \/ k[p + 1] < l[p + 1]
            /\ p = Len(l) \/ l[p + 1] < m[p + 1]
        BY <2>4, <1>4 DEF SplitAt
      <4>1. p + 1 \in 1 .. Len(k) /\ p + 1 \in 1 .. Len(l) /\ p + 1 \in 1 .. Len(m)
        BY <4>0, <3>2, <2>1
      <4>2. k[p + 1] \in Nat /\ l[p + 1] \in Nat /\ m[p + 1] \in Nat
        BY <4>1
      <4>3. k[p + 1] < m[p + 1]
        <5>1. p # Len(l)
          BY <4>0, <2>1
        <5>2. k[p + 1] < l[p + 1] /\ l[p + 1] < m[p + 1]
          BY <5>1, <4>0, <3>2
        <5>3. \A a, b, c \in Nat : a < b /\ b < c => a < c
          OBVIOUS
        <5> QED BY <5>2, <5>3, <4>2, Zenon
      <4> QED BY <4>3, <2>1, <2>4, <1>4 DEF SplitAt
    <3> QED BY <3>1, <3>2
  <2> QED BY <2>2, <2>3, <2>4
<1> QED BY <1>1, <1>2, <1>3, <1>4, Precedence, Zenon

-----------------------------------------------------------------------------
(***************************************************************************)
(* The loops over the nodes.  Each goes from a node to the next one until  *)
(* there is none, and a measure shows that it ends.                        *)
(***************************************************************************)
Computes(f, next, result) ==
  f = [x \in Keys |-> IF next[x] = Null THEN result[x] ELSE f[next[x]]]

Walk(next, m) ==
  /\ next \in [Keys -> Keys \cup {Null}] /\ m \in [Keys -> Nat]
  /\ \A x \in Keys : next[x] # Null => m[next[x]] < m[x]

\* What holds where a walk ends, and of a node if it holds of the next, holds of all.
LEMMA WalkInduction ==
  ASSUME NEW next, NEW m, Walk(next, m), NEW Good,
         \A x \in Keys : (next[x] # Null => next[x] \in Good) => x \in Good
  PROVE  Keys \subseteq Good
<1> DEFINE Bad == {m[x] : x \in Keys \ Good}
<1>1. Bad \subseteq Nat
  BY DEF Walk
<1>2. ASSUME Bad # {} PROVE FALSE
  <2>1. PICK k \in Bad : \A j \in Bad : k <= j
    <3> HIDE DEF Bad
    <3> QED BY <1>1, <1>2, LeastNatural, Zenon
  <2>2. PICK x \in Keys \ Good : k = m[x]
    BY <2>1
  <2>3. next[x] # Null /\ next[x] \in Keys \ Good
    BY <2>2 DEF Walk
  <2>4. m[next[x]] \in Bad
    BY <2>3
  <2>5. m[next[x]] < m[x] /\ m[next[x]] \in Nat /\ m[x] \in Nat
    BY <2>2, <2>3 DEF Walk
  <2> HIDE DEF Bad
  <2> QED BY <2>1, <2>2, <2>4, <2>5
<1> QED BY <1>2

\* Such a loop computes a function.
LEMMA WalkComputes ==
  ASSUME NEW next, NEW m, Walk(next, m), NEW result
  PROVE  \E f : Computes(f, next, result)
<1> DEFINE V == {result[x] : x \in Keys}
           Closed(R) ==
             /\ \A x \in Keys : next[x] = Null => <<x, result[x]>> \in R
             /\ \A x \in Keys, w \in V : next[x] # Null /\ <<next[x], w>> \in R => <<x, w>> \in R
           Smallest == {xw \in Keys \X V : \A R \in SUBSET (Keys \X V) : Closed(R) => xw \in R}
           One(x) == \E w \in V : <<x, w>> \in Smallest /\ \A u \in V : <<x, u>> \in Smallest => u = w
           Good == {x \in Keys : One(x)}
<1>1. Smallest \in SUBSET (Keys \X V)
  OBVIOUS
<1>2. \A x \in Keys : result[x] \in V /\ (next[x] # Null => next[x] \in Keys)
  BY DEF Walk
<1>3. \A R \in SUBSET (Keys \X V) : Closed(R) => Smallest \subseteq R
  OBVIOUS
<1>4. Closed(Smallest)
  <2>1. ASSUME NEW x \in Keys, next[x] = Null PROVE <<x, result[x]>> \in Smallest
    BY <2>1, <1>2
  <2>2. ASSUME NEW x \in Keys, NEW w \in V, next[x] # Null, <<next[x], w>> \in Smallest
        PROVE  <<x, w>> \in Smallest
    BY <2>2
  <2> QED BY <2>1, <2>2
<1> HIDE DEF Smallest
<1>5. ASSUME NEW x \in Keys, next[x] = Null PROVE One(x)
  <2> DEFINE R == {yw \in Smallest : yw[1] = x => yw[2] = result[x]}
  <2>1. Closed(R)
    <3>1. ASSUME NEW y \in Keys, next[y] = Null PROVE <<y, result[y]>> \in R
      BY <3>1, <1>4
    <3>2. ASSUME NEW y \in Keys, NEW w \in V, next[y] # Null, <<next[y], w>> \in R
          PROVE  <<y, w>> \in R
      BY <3>2, <1>4, <1>5
    <3> QED BY <3>1, <3>2
  <2>2. Smallest \subseteq R
    BY <2>1, <1>1, <1>3
  <2>3. \A u \in V : <<x, u>> \in Smallest => u = result[x]
    BY <2>2
  <2> QED BY <2>3, <1>2, <1>4, <1>5
<1>6. ASSUME NEW x \in Keys, next[x] # Null, One(next[x]) PROVE One(x)
  <2>1. PICK w \in V : <<next[x], w>> \in Smallest /\ \A u \in V : <<next[x], u>> \in Smallest => u = w
    BY <1>6
  <2> DEFINE R == {yw \in Smallest : yw[1] = x => yw[2] = w}
  <2>2. Closed(R)
    <3>1. ASSUME NEW y \in Keys, next[y] = Null PROVE <<y, result[y]>> \in R
      BY <3>1, <1>4, <1>6
    <3>2. ASSUME NEW y \in Keys, NEW u \in V, next[y] # Null, <<next[y], u>> \in R
          PROVE  <<y, u>> \in R
      BY <3>2, <1>4, <2>1
    <3> QED BY <3>1, <3>2
  <2>3. Smallest \subseteq R
    BY <2>2, <1>1, <1>3
  <2>4. \A u \in V : <<x, u>> \in Smallest => u = w
    BY <2>3
  <2>5. <<x, w>> \in Smallest
    BY <2>1, <1>4, <1>6
  <2> QED BY <2>4, <2>5
<1>7. \A x \in Keys : One(x)
  <2>1. \A x \in Keys : (next[x] # Null => next[x] \in Good) => x \in Good
    <3> HIDE DEF One
    <3> QED BY <1>5, <1>6
  <2>2. Keys \subseteq Good
    <3> HIDE DEF Good
    <3> QED BY <2>1, WalkInduction, Zenon
  <2> HIDE DEF One
  <2> QED BY <2>2
<1> DEFINE f == [x \in Keys |-> CHOOSE w \in V : <<x, w>> \in Smallest]
<1>8. \A x \in Keys : f[x] \in V /\ <<x, f[x]>> \in Smallest /\ \A u \in V : <<x, u>> \in Smallest => u = f[x]
  <2> SUFFICES ASSUME NEW x \in Keys
               PROVE  f[x] \in V /\ <<x, f[x]>> \in Smallest /\ \A u \in V : <<x, u>> \in Smallest => u = f[x]
    OBVIOUS
  <2>1. PICK w \in V : <<x, w>> \in Smallest /\ \A u \in V : <<x, u>> \in Smallest => u = w
    BY <1>7
  <2> HIDE DEF V
  <2> QED BY <2>1
<1>9. f = [x \in Keys |-> f[x]]
  <2>1. f \in [Keys -> V]
    BY <1>8
  <2> HIDE DEF f
  <2> QED BY <2>1, Zenon
<1> HIDE DEF f
<1>10. ASSUME NEW x \in Keys PROVE f[x] = IF next[x] = Null THEN result[x] ELSE f[next[x]]
  <2>1. CASE next[x] = Null
    BY <2>1, <1>2, <1>4, <1>8
  <2>2. CASE next[x] # Null
    BY <2>2, <1>2, <1>4, <1>8
  <2> QED BY <2>1, <2>2
<1>11. f = [x \in Keys |-> IF next[x] = Null THEN result[x] ELSE f[next[x]]]
  BY <1>9, <1>10
<1> QED BY <1>11 DEF Computes

-----------------------------------------------------------------------------
(***************************************************************************)
(* The tree.                                                               *)
(***************************************************************************)
InTree == {k \in Keys : value[k] # Null}

\* sub gives the nodes under and with each node; d how deep a node is.
LeftOf(sub, k) == IF left[k] = Null THEN {} ELSE sub[left[k]]
RightOf(sub, k) == IF right[k] = Null THEN {} ELSE sub[right[k]]

ChildOf(k, c, d) == c # Null => c \in InTree /\ parent[c] = k /\ d[c] = d[k] + 1

Linked(d) ==
  /\ \A k \in Keys \ InTree : left[k] = Null /\ right[k] = Null /\ parent[k] = Null
  /\ \A k \in InTree : d[k] < nodes /\ ChildOf(k, left[k], d) /\ ChildOf(k, right[k], d)
  /\ \A k \in InTree : IF parent[k] = Null THEN k = root
                       ELSE parent[k] \in InTree /\ k \in {left[parent[k]], right[parent[k]]}
  /\ IF root = Null THEN InTree = {} ELSE root \in InTree /\ parent[root] = Null

Ordered(sub) ==
  /\ \A k \in InTree : /\ sub[k] = {k} \cup LeftOf(sub, k) \cup RightOf(sub, k)
                       /\ sub[k] \subseteq InTree
                       /\ \A l \in LeftOf(sub, k) : Precedes(l, k)
                       /\ \A l \in RightOf(sub, k) : Precedes(k, l)
                       /\ \A l \in sub[k] \ {k} : parent[l] \in sub[k]
  /\ root # Null => sub[root] = InTree

Shape(sub, d) ==
  /\ sub \in [Keys -> SUBSET Keys] /\ d \in [Keys -> Nat]
  /\ Linked(d) /\ Ordered(sub)

FieldsOK ==
  /\ MapTypeOK
  /\ value \in [Keys -> Values \cup {Null}] /\ answer \in Values \cup {Null}
  /\ current \in InTree \cup {Null}
  /\ IsFiniteSet(InTree) /\ nodes = Cardinality(InTree)

MapInv == FieldsOK /\ \E sub, d : Shape(sub, d)

LEMMA LinksAre ==
  ASSUME FieldsOK
  PROVE  /\ root \in Keys \cup {Null} /\ nodes \in Nat
         /\ left \in [Keys -> Keys \cup {Null}] /\ right \in [Keys -> Keys \cup {Null}]
         /\ parent \in [Keys -> Keys \cup {Null}]
BY DEF FieldsOK, MapTypeOK

\* Down the tree, and up, the loops end.
LEMMA DownEnds ==
  ASSUME FieldsOK, NEW sub, NEW d, Shape(sub, d),
         NEW next \in [Keys -> Keys \cup {Null}], \A x \in Keys : next[x] \in {left[x], right[x], Null}
  PROVE  Walk(next, [x \in Keys |-> IF x \in InTree THEN nodes - d[x] ELSE 0])
<1> DEFINE m == [x \in Keys |-> IF x \in InTree THEN nodes - d[x] ELSE 0]
<1>1. \A x \in Keys : d[x] \in Nat
  BY DEF Shape
<1>2. \A x \in InTree : d[x] < nodes
  BY DEF Shape, Linked
<1>3. m \in [Keys -> Nat]
  BY <1>1, <1>2, LinksAre
<1>4. ASSUME NEW x \in Keys, next[x] # Null PROVE m[next[x]] < m[x]
  <2>1. x \in InTree
    BY <1>4 DEF Shape, Linked
  <2>2. next[x] \in InTree /\ d[next[x]] = d[x] + 1 /\ next[x] \in Keys
    BY <1>4, <2>1 DEF Shape, Linked, ChildOf
  <2>3. m[next[x]] = nodes - d[next[x]] /\ m[x] = nodes - d[x]
    BY <2>1, <2>2
  <2> QED BY <2>2, <2>3, <1>1, LinksAre
<1> HIDE DEF m
<1>5. Walk(next, m)
  BY <1>3, <1>4 DEF Walk
<1> QED BY <1>5 DEF m

Upward == [x \in Keys |-> IF parent[x] = Null \/ x # right[parent[x]] THEN Null ELSE parent[x]]

LEMMA UpEnds ==
  ASSUME FieldsOK, NEW sub, NEW d, Shape(sub, d),
         NEW next \in [Keys -> Keys \cup {Null}], \A x \in Keys : next[x] \in {parent[x], Null}
  PROVE  Walk(next, d)
<1>1. d \in [Keys -> Nat]
  BY DEF Shape
<1>2. ASSUME NEW x \in Keys, next[x] # Null PROVE d[next[x]] < d[x]
  <2>1. x \in InTree /\ next[x] = parent[x]
    BY <1>2 DEF Shape, Linked
  <2>2. parent[x] \in InTree /\ x \in {left[parent[x]], right[parent[x]]} /\ x # Null
    BY <1>2, <2>1, MapAssumption DEF Shape, Linked
  <2>3. d[x] = d[parent[x]] + 1
    BY <2>1, <2>2 DEF Shape, Linked, ChildOf
  <2>4. d[parent[x]] \in Nat
    BY <2>2, <1>1 DEF InTree
  <2> QED BY <2>1, <2>3, <2>4
<1> QED BY <1>1, <1>2 DEF Walk

-----------------------------------------------------------------------------
\* min goes down to the left.
LEMMA MinRule ==
  ASSUME FieldsOK, NEW sub, NEW d, Shape(sub, d), NEW x \in Keys
  PROVE  min(x) = IF left[x] = Null THEN x ELSE min(left[x])
<1> DEFINE Fn(f) == f = [y \in Keys |-> IF left[y] = Null THEN y ELSE f[left[y]]]
           down == CHOOSE f : Fn(f)
           result == [y \in Keys |-> y]
           m == [y \in Keys |-> IF y \in InTree THEN nodes - d[y] ELSE 0]
<1>1. Walk(left, m)
  BY DownEnds, LinksAre, Zenon
<1>2. \E f : Computes(f, left, result)
  <2> HIDE DEF m, result
  <2> QED BY <1>1, WalkComputes, Zenon
<1>3. \E f : Fn(f)
  BY <1>2 DEF Computes
<1>4. Fn(down)
  <2> HIDE DEF Fn
  <2> QED BY <1>3, Zenon
<1>5. \A a : min(a) = down[a]
  BY DEF min
<1>6. down[x] = IF left[x] = Null THEN x ELSE down[left[x]]
  <2> HIDE DEF down
  <2> QED BY <1>4, Zenon
<1> HIDE DEF down
<1> QED BY <1>5, <1>6

Rising(a) ==
  LET up[x \in Keys] ==
        IF parent[x] = Null \/ x # right[parent[x]] THEN parent[x] ELSE up[parent[x]]
  IN up[a]

\* succsor goes up until it comes from the left.
LEMMA SuccsorRule ==
  succsor(current) = IF right[current] # Null THEN min(right[current]) ELSE Rising(current)
BY DEF succsor, Rising

LEMMA RisingRule ==
  ASSUME FieldsOK, NEW sub, NEW d, Shape(sub, d), NEW x \in Keys
  PROVE  Rising(x) = IF parent[x] = Null \/ x # right[parent[x]] THEN parent[x] ELSE Rising(parent[x])
<1> DEFINE Fn(f) == f = [y \in Keys |-> IF parent[y] = Null \/ y # right[parent[y]] THEN parent[y]
                                        ELSE f[parent[y]]]
           up == CHOOSE f : Fn(f)
<1>1. Upward \in [Keys -> Keys \cup {Null}] /\ \A y \in Keys : Upward[y] \in {parent[y], Null}
  BY LinksAre DEF Upward
<1>2. Walk(Upward, d)
  BY <1>1, UpEnds, Zenon
<1>3. PICK f : Computes(f, Upward, parent)
  BY <1>2, WalkComputes, Zenon
<1>4. \A y \in Keys : /\ Upward[y] = Null <=> parent[y] = Null \/ y # right[parent[y]]
                      /\ Upward[y] # Null => Upward[y] = parent[y]
  BY DEF Upward
<1>5. Fn(f)
  <2>1. \A y \in Keys : (IF Upward[y] = Null THEN parent[y] ELSE f[Upward[y]])
                        = (IF parent[y] = Null \/ y # right[parent[y]] THEN parent[y] ELSE f[parent[y]])
    BY <1>4
  <2> QED BY <2>1, <1>3 DEF Computes
<1>6. Fn(up)
  <2> HIDE DEF Fn
  <2> QED BY <1>5, Zenon
<1>7. \A a : Rising(a) = up[a]
  BY DEF Rising
<1>8. up[x] = IF parent[x] = Null \/ x # right[parent[x]] THEN parent[x] ELSE up[parent[x]]
  <2> HIDE DEF up
  <2> QED BY <1>6, Zenon
<1> HIDE DEF up
<1> QED BY <1>7, <1>8

\* find goes down on the side of the key.
BelowOn(key, x) == IF Precedes(key, x) THEN left[x] ELSE right[x]
Towards(key) == [x \in Keys |-> IF x = key THEN Null ELSE BelowOn(key, x)]
Stopped(key) ==
  [x \in Keys |-> [node |-> x,
                   def |-> IF x = key THEN "HIMSELF" ELSE IF Precedes(key, x) THEN "LEFT" ELSE "RIGHT"]]

Search(key, s) ==
  LET from[x \in Keys] ==
        LET side == IF Precedes(key, x) THEN "LEFT" ELSE "RIGHT"
            below == IF side = "LEFT" THEN left[x] ELSE right[x]
        IN CASE x = key -> [node |-> x, def |-> "HIMSELF"]
             [] x # key /\ below = Null -> [node |-> x, def |-> side]
             [] OTHER -> from[below]
  IN from[s]

LEMMA FindRule == ASSUME NEW key PROVE find(key) = Search(key, root)
BY DEF find, Search

LEMMA SearchRule ==
  ASSUME FieldsOK, NEW sub, NEW d, Shape(sub, d), NEW key \in Keys, NEW x \in Keys
  PROVE  Search(key, x) = IF Towards(key)[x] = Null THEN Stopped(key)[x] ELSE Search(key, Towards(key)[x])
<1> DEFINE Fn(f) == f = [y \in Keys |-> IF Towards(key)[y] = Null THEN Stopped(key)[y]
                                        ELSE f[Towards(key)[y]]]
           from == CHOOSE f : Fn(f)
           m == [y \in Keys |-> IF y \in InTree THEN nodes - d[y] ELSE 0]
<1>1. /\ Towards(key) \in [Keys -> Keys \cup {Null}]
      /\ \A y \in Keys : Towards(key)[y] \in {left[y], right[y], Null}
  BY LinksAre DEF Towards, BelowOn
<1>2. Walk(Towards(key), m)
  BY <1>1, DownEnds, Zenon
<1>3. \E f : Fn(f)
  <2> HIDE DEF m
  <2> QED BY <1>2, WalkComputes, Zenon DEF Computes
<1>4. Fn(from)
  <2> HIDE DEF Fn
  <2> QED BY <1>3, Zenon
<1>5. \A s : Search(key, s) = from[s]
  BY DEF Search, Towards, Stopped, BelowOn
<1>6. from[x] = IF Towards(key)[x] = Null THEN Stopped(key)[x] ELSE from[Towards(key)[x]]
  <2> HIDE DEF from
  <2> QED BY <1>4, Zenon
<1> HIDE DEF from
<1> QED BY <1>5, <1>6

-----------------------------------------------------------------------------
(***************************************************************************)
(* What find and getValue return.                                          *)
(***************************************************************************)
\* The key lies on the same side of every node as x, and under x if it is in the tree.
Meets(sub, key, x) ==
  /\ \A k \in InTree : /\ x \in LeftOf(sub, k) => Precedes(key, k)
                       /\ x \in RightOf(sub, k) => Precedes(k, key)
  /\ key \in InTree => key \in sub[x]

\* Where find may end.
Landed(sub, key, r) ==
  /\ r.node \in InTree /\ Meets(sub, key, r.node)
  /\ \/ r.def = "HIMSELF" /\ r.node = key
     \/ r.def = "LEFT" /\ left[r.node] = Null /\ Precedes(key, r.node) /\ key \notin InTree
     \/ r.def = "RIGHT" /\ right[r.node] = Null /\ Precedes(r.node, key) /\ key \notin InTree

\* A child in the subtree of k is k itself or its parent is in it.
LEMMA ParentUnder ==
  ASSUME FieldsOK, NEW sub, NEW d, Shape(sub, d), NEW k \in InTree, NEW y \in InTree,
         NEW x \in InTree, parent[y] = x
  PROVE  /\ y \in LeftOf(sub, k) => (k = x /\ y = left[x]) \/ x \in LeftOf(sub, k)
         /\ y \in RightOf(sub, k) => (k = x /\ y = right[x]) \/ x \in RightOf(sub, k)
<1>1. ASSUME y \in LeftOf(sub, k) PROVE (k = x /\ y = left[x]) \/ x \in LeftOf(sub, k)
  <2>1. left[k] # Null /\ y \in sub[left[k]] /\ left[k] \in InTree /\ parent[left[k]] = k
    BY <1>1 DEF LeftOf, Shape, Linked, ChildOf
  <2>2. CASE y = left[k]
    BY <2>1, <2>2
  <2>3. CASE y # left[k]
    BY <2>1, <2>3 DEF LeftOf, Shape, Ordered
  <2> QED BY <2>2, <2>3
<1>2. ASSUME y \in RightOf(sub, k) PROVE (k = x /\ y = right[x]) \/ x \in RightOf(sub, k)
  <2>1. right[k] # Null /\ y \in sub[right[k]] /\ right[k] \in InTree /\ parent[right[k]] = k
    BY <1>2 DEF RightOf, Shape, Linked, ChildOf
  <2>2. CASE y = right[k]
    BY <2>1, <2>2
  <2>3. CASE y # right[k]
    BY <2>1, <2>3 DEF RightOf, Shape, Ordered
  <2> QED BY <2>2, <2>3
<1> QED BY <1>1, <1>2

\* A node is in its own subtree, and not under itself; the left is not the right.
LEMMA Sides ==
  ASSUME FieldsOK, NEW sub, NEW d, Shape(sub, d), NEW k \in InTree
  PROVE  /\ k \in sub[k] /\ k \notin LeftOf(sub, k) /\ k \notin RightOf(sub, k)
         /\ LeftOf(sub, k) \cap RightOf(sub, k) = {} /\ sub[k] \subseteq InTree
         /\ LeftOf(sub, k) \subseteq sub[k] /\ RightOf(sub, k) \subseteq sub[k]
         /\ left[k] # Null => left[k] \in LeftOf(sub, k) /\ left[k] \in InTree /\ parent[left[k]] = k
         /\ right[k] # Null => right[k] \in RightOf(sub, k) /\ right[k] \in InTree /\ parent[right[k]] = k
<1>1. /\ sub[k] = {k} \cup LeftOf(sub, k) \cup RightOf(sub, k) /\ sub[k] \subseteq InTree
      /\ \A l \in LeftOf(sub, k) : Precedes(l, k)
      /\ \A l \in RightOf(sub, k) : Precedes(k, l)
  BY DEF Shape, Ordered
<1>2. \A l \in sub[k] : l \in Keys
  BY <1>1 DEF InTree
<1>3. k \notin LeftOf(sub, k) /\ k \notin RightOf(sub, k) /\ LeftOf(sub, k) \cap RightOf(sub, k) = {}
  BY <1>1, <1>2, KeyOrder
<1>4. \A c \in InTree : c \in sub[c]
  BY DEF Shape, Ordered
<1>5. left[k] # Null => left[k] \in LeftOf(sub, k) /\ left[k] \in InTree /\ parent[left[k]] = k
  BY <1>4 DEF LeftOf, Shape, Linked, ChildOf
<1>6. right[k] # Null => right[k] \in RightOf(sub, k) /\ right[k] \in InTree /\ parent[right[k]] = k
  BY <1>4 DEF RightOf, Shape, Linked, ChildOf
<1> QED BY <1>1, <1>3, <1>5, <1>6

\* From a node the key meets, the search ends where the key is or belongs.
LEMMA SearchLands ==
  ASSUME FieldsOK, NEW sub, NEW d, Shape(sub, d), NEW key \in Keys,
         NEW s \in InTree, Meets(sub, key, s)
  PROVE  Landed(sub, key, Search(key, s))
<1> DEFINE Good == {x \in Keys : x \in InTree /\ Meets(sub, key, x) => Landed(sub, key, Search(key, x))}
           m == [y \in Keys |-> IF y \in InTree THEN nodes - d[y] ELSE 0]
<1>1. /\ Towards(key) \in [Keys -> Keys \cup {Null}]
      /\ \A y \in Keys : Towards(key)[y] \in {left[y], right[y], Null}
  BY LinksAre DEF Towards, BelowOn
<1>2. Walk(Towards(key), m)
  BY <1>1, DownEnds, Zenon
<1>3. ASSUME NEW x \in Keys, Towards(key)[x] # Null => Towards(key)[x] \in Good
      PROVE  x \in Good
  <2> SUFFICES ASSUME x \in InTree, Meets(sub, key, x) PROVE Landed(sub, key, Search(key, x))
    OBVIOUS
  <2>1. Search(key, x) = IF Towards(key)[x] = Null THEN Stopped(key)[x] ELSE Search(key, Towards(key)[x])
    BY SearchRule
  <2>2. x # key => Precedes(key, x) \/ Precedes(x, key)
    BY KeyOrder
  <2>3. /\ sub[x] = {x} \cup LeftOf(sub, x) \cup RightOf(sub, x)
        /\ \A l \in LeftOf(sub, x) : Precedes(l, x)
        /\ \A l \in RightOf(sub, x) : Precedes(x, l)
    BY DEF Shape, Ordered
  <2>4. ~(Precedes(key, x) /\ Precedes(x, key))
    BY KeyOrder
  <2>5. CASE Towards(key)[x] = Null
    <3>1. Search(key, x).node = x /\ Search(key, x).def = IF x = key THEN "HIMSELF" ELSE
                                           IF Precedes(key, x) THEN "LEFT" ELSE "RIGHT"
      BY <2>1, <2>5 DEF Stopped
    <3>2. CASE x = key
      BY <3>1, <3>2 DEF Landed
    <3>3. CASE x # key /\ Precedes(key, x)
      <4>1. left[x] = Null
        BY <2>5, <3>3 DEF Towards, BelowOn
      <4>2. key \notin InTree
        BY <4>1, <3>3, <2>3, <2>4 DEF Meets, LeftOf
      <4> QED BY <3>1, <3>3, <4>1, <4>2 DEF Landed
    <3>4. CASE x # key /\ ~Precedes(key, x)
      <4>1. right[x] = Null
        BY <2>5, <3>4 DEF Towards, BelowOn
      <4>2. key \notin InTree
        BY <4>1, <3>4, <2>3, <2>4 DEF Meets, RightOf
      <4> QED BY <3>1, <3>4, <4>1, <4>2, <2>2 DEF Landed
    <3> QED BY <3>2, <3>3, <3>4
  <2>6. CASE Towards(key)[x] # Null
    <3> DEFINE y == Towards(key)[x]
    <3>1. x # key /\ y = BelowOn(key, x)
      BY <2>6 DEF Towards
    <3>2. y \in InTree /\ parent[y] = x
      BY <2>6, <3>1, Sides DEF BelowOn
    <3>3. Meets(sub, key, y)
      <4>1. ASSUME NEW k \in InTree, y \in LeftOf(sub, k) PROVE Precedes(key, k)
        <5>1. CASE x \in LeftOf(sub, k)
          BY <5>1 DEF Meets
        <5>2. CASE k = x /\ y = left[x]
          <6> SUFFICES ASSUME ~Precedes(key, x) PROVE FALSE
            BY <5>2
          <6>1. y = right[x] /\ y # Null
            BY <2>6, <3>1 DEF BelowOn
          <6> QED BY <6>1, <5>2, <4>1, Sides
        <5> HIDE DEF y
        <5> QED BY <4>1, <5>1, <5>2, <3>2, ParentUnder
      <4>2. ASSUME NEW k \in InTree, y \in RightOf(sub, k) PROVE Precedes(k, key)
        <5>1. CASE x \in RightOf(sub, k)
          BY <5>1 DEF Meets
        <5>2. CASE k = x /\ y = right[x]
          <6> SUFFICES ASSUME Precedes(key, x) PROVE FALSE
            BY <5>2, <2>2, <3>1
          <6>1. y = left[x] /\ y # Null
            BY <2>6, <3>1 DEF BelowOn
          <6> QED BY <6>1, <5>2, <4>2, Sides
        <5> HIDE DEF y
        <5> QED BY <4>2, <5>1, <5>2, <3>2, ParentUnder
      <4>3. key \in InTree => key \in sub[y]
        <5> SUFFICES ASSUME key \in InTree PROVE key \in sub[y]
          OBVIOUS
        <5>1. key \in LeftOf(sub, x) \cup RightOf(sub, x)
          BY <3>1, <2>3 DEF Meets
        <5>2. CASE Precedes(key, x)
          <6>1. key \in LeftOf(sub, x) /\ y = left[x]
            BY <5>1, <5>2, <2>3, <2>4, <3>1 DEF BelowOn
          <6> QED BY <6>1 DEF LeftOf
        <5>3. CASE ~Precedes(key, x)
          <6>1. key \in RightOf(sub, x) /\ y = right[x]
            BY <5>1, <5>3, <2>3, <2>4, <3>1 DEF BelowOn
          <6> QED BY <6>1 DEF RightOf
        <5> QED BY <5>2, <5>3
      <4> HIDE DEF y
      <4> QED BY <4>1, <4>2, <4>3 DEF Meets
    <3>4. y \in Good
      BY <1>3, <2>6
    <3> HIDE DEF y
    <3>5. Landed(sub, key, Search(key, y))
      BY <3>2, <3>3, <3>4
    <3> QED BY <3>5, <2>1, <2>6 DEF y
  <2> QED BY <2>5, <2>6
<1>4. Keys \subseteq Good
  <2> HIDE DEF Good, m
  <2> QED BY <1>2, <1>3, WalkInduction, Zenon
<1>5. s \in Keys
  BY DEF InTree
<1> QED BY <1>4, <1>5

\* find(key), in a tree that has a root.
LEMMA FindLands ==
  ASSUME FieldsOK, NEW sub, NEW d, Shape(sub, d), NEW key \in Keys, root # Null
  PROVE  Landed(sub, key, find(key)) /\ (find(key).def = "HIMSELF" <=> key \in InTree)
<1>1. root \in InTree /\ sub[root] = InTree /\ parent[root] = Null
  BY DEF Shape, Linked, Ordered
<1>2. Meets(sub, key, root)
  <2>1. ASSUME NEW k \in InTree PROVE root \notin LeftOf(sub, k) /\ root \notin RightOf(sub, k)
    <3>1. k \in sub[k] /\ k \notin LeftOf(sub, k) /\ k \notin RightOf(sub, k)
      BY Sides
    <3>2. root \in sub[k] => root = k
      <4>1. root \in sub[k] \ {k} => Null \in sub[k]
        BY <1>1 DEF Shape, Ordered
      <4>2. Null \notin sub[k]
        BY Sides, MapAssumption DEF InTree
      <4> QED BY <4>1, <4>2
    <3> QED BY <3>1, <3>2, Sides
  <2> QED BY <2>1, <1>1 DEF Meets
<1>3. Landed(sub, key, find(key))
  BY <1>1, <1>2, SearchLands, FindRule
<1> QED BY <1>3 DEF Landed

\* What getValue looks up is what the key was given.
LEMMA LookupIs ==
  ASSUME MapInv, NEW key \in Keys
  PROVE  Lookup(key) = IF key \in InTree THEN value[key] ELSE Null
<1>1. PICK sub, d : Shape(sub, d)
  BY DEF MapInv
<1>2. CASE root = Null
  BY <1>1, <1>2 DEF Lookup, Shape, Linked
<1>3. CASE root # Null
  <2>1. Landed(sub, key, find(key)) /\ (find(key).def = "HIMSELF" <=> key \in InTree)
    BY <1>1, <1>3, FindLands DEF MapInv
  <2>2. find(key).def = "HIMSELF" => find(key).node = key
    BY <2>1 DEF Landed
  <2> QED BY <1>3, <2>1, <2>2 DEF Lookup
<1> QED BY <1>2, <1>3

-----------------------------------------------------------------------------
(***************************************************************************)
(* What setValue does to the tree.                                         *)
(***************************************************************************)
\* What setValue does to the fields: a key that is in the tree gets its value, another is
\* attached as the child of where find ends, or as the root.
LEMMA SetValueFields ==
  ASSUME FieldsOK, NEW key \in Keys, NEW v \in Values, setValue(key, v)
  PROVE  /\ value' = [value EXCEPT ![key] = v] /\ InTree' = InTree \cup {key}
         /\ root' \in Keys \cup {Null}
         /\ left' \in [Keys -> Keys \cup {Null}] /\ right' \in [Keys -> Keys \cup {Null}]
         /\ value' \in [Keys -> Values \cup {Null}]
<1>1. value' = [value EXCEPT ![key] = v]
  BY DEF setValue, FirstNode, Update, Attach, NewNode
<1>2. InTree' = InTree \cup {key} /\ value' \in [Keys -> Values \cup {Null}]
  BY <1>1, MapAssumption DEF InTree, FieldsOK
<1>3. /\ root' \in Keys \cup {Null}
      /\ left' \in [Keys -> Keys \cup {Null}] /\ right' \in [Keys -> Keys \cup {Null}]
  BY LinksAre DEF setValue, FirstNode, Update, Attach
<1> QED BY <1>1, <1>2, <1>3

\* The first node.
LEMMA FirstShaped ==
  ASSUME FieldsOK, NEW sub, NEW d, Shape(sub, d), NEW key \in Keys, NEW v \in Values, FirstNode(key, v)
  PROVE  /\ parent' \in [Keys -> Keys \cup {Null}] /\ nodes' = nodes + 1 /\ key \notin InTree
         /\ \E s, e : Shape(s, e)'
<1> DEFINE s == [k \in Keys |-> {k}]
           e == [k \in Keys |-> 0]
<1>1. /\ root = Null /\ root' = key /\ nodes' = nodes + 1 /\ UNCHANGED <<left, right, parent>>
      /\ value' = [value EXCEPT ![key] = v]
  BY DEF FirstNode
<1>2. InTree = {} /\ InTree' = {key} /\ \A k \in Keys : left[k] = Null /\ right[k] = Null /\ parent[k] = Null
  BY <1>1, MapAssumption DEF Shape, Linked, InTree, FieldsOK
<1>3. s \in [Keys -> SUBSET Keys] /\ e \in [Keys -> Nat]
  OBVIOUS
<1>4. \A k \in Keys : s[k] = {k} /\ e[k] = 0
  OBVIOUS
<1> HIDE DEF s, e
<1>5. Linked(e)'
  <2>1. nodes + 1 > 0 /\ key # Null
    BY LinksAre, MapAssumption
  <2> QED BY <2>1, <1>1, <1>2, <1>4 DEF Linked, ChildOf
<1>6. Ordered(s)'
  <2>1. LeftOf(s, key)' = {} /\ RightOf(s, key)' = {}
    BY <1>1, <1>2 DEF LeftOf, RightOf
  <2> QED BY <2>1, <1>1, <1>2, <1>4 DEF Ordered
<1>7. Shape(s, e)'
  BY <1>3, <1>5, <1>6 DEF Shape
<1> QED BY <1>1, <1>2, <1>7, LinksAre

\* A new value.
LEMMA UpdateShaped ==
  ASSUME FieldsOK, NEW sub, NEW d, Shape(sub, d), NEW key \in Keys, NEW v \in Values, Update(key, v)
  PROVE  /\ UNCHANGED <<parent, nodes>> /\ key \in InTree
         /\ \E s, e : Shape(s, e)'
<1>1. /\ root # Null /\ find(key).def = "HIMSELF" /\ value' = [value EXCEPT ![key] = v]
      /\ UNCHANGED <<root, left, right, parent, nodes>>
  BY DEF Update
<1>2. key \in InTree
  BY <1>1, FindLands
<1>3. InTree' = InTree
  BY <1>1, <1>2, MapAssumption DEF InTree, FieldsOK
<1>4. Shape(sub, d)'
  BY <1>1, <1>3 DEF Shape, Linked, Ordered, ChildOf, LeftOf, RightOf
<1> QED BY <1>1, <1>2, <1>4

\* A new node.
LEMMA AttachShaped ==
  ASSUME FieldsOK, NEW sub, NEW d, Shape(sub, d), NEW key \in Keys, NEW v \in Values, Attach(key, v)
  PROVE  /\ parent' \in [Keys -> Keys \cup {Null}] /\ nodes' = nodes + 1 /\ key \notin InTree
         /\ \E s, e : Shape(s, e)'
<1> DEFINE above == find(key).node
           onRight == find(key).def = "RIGHT"
<1>1. /\ root # Null /\ find(key).def # "HIMSELF" /\ nodes' = nodes + 1 /\ root' = root
      /\ value' = [value EXCEPT ![key] = v] /\ parent' = [parent EXCEPT ![key] = above]
      /\ IF onRight THEN right' = [right EXCEPT ![above] = key] /\ left' = left
                    ELSE left' = [left EXCEPT ![above] = key] /\ right' = right
  BY DEF Attach, NewNode
<1>2. Landed(sub, key, find(key)) /\ key \notin InTree
  BY <1>1, FindLands
<1>3. /\ above \in InTree /\ above \in Keys /\ above # key /\ Meets(sub, key, above)
      /\ IF onRight THEN right[above] = Null /\ Precedes(above, key)
                    ELSE left[above] = Null /\ Precedes(key, above)
  BY <1>1, <1>2 DEF Landed, InTree
<1>4. InTree' = InTree \cup {key} /\ InTree \subseteq Keys /\ key # Null
  BY <1>1, MapAssumption DEF InTree, FieldsOK
<1>5. /\ sub \in [Keys -> SUBSET Keys] /\ d \in [Keys -> Nat] /\ nodes \in Nat
      /\ left \in [Keys -> Keys \cup {Null}] /\ right \in [Keys -> Keys \cup {Null}]
      /\ parent \in [Keys -> Keys \cup {Null}]
  BY LinksAre DEF Shape
<1>6. PICK s \in [Keys -> SUBSET Keys], e \in [Keys -> Nat] :
        /\ s = [k \in Keys |-> IF k = key THEN {key}
                               ELSE IF above \in sub[k] THEN sub[k] \cup {key} ELSE sub[k]]
        /\ e = [d EXCEPT ![key] = d[above] + 1]
  <2>1. [k \in Keys |-> IF k = key THEN {key} ELSE IF above \in sub[k] THEN sub[k] \cup {key} ELSE sub[k]]
          \in [Keys -> SUBSET Keys]
    BY <1>5
  <2>2. [d EXCEPT ![key] = d[above] + 1] \in [Keys -> Nat]
    BY <1>3, <1>5
  <2> QED BY <2>1, <2>2
<1>7. /\ s[key] = {key} /\ e[key] = d[above] + 1 /\ parent'[key] = above
      /\ \A k \in Keys : k # key => /\ s[k] = IF above \in sub[k] THEN sub[k] \cup {key} ELSE sub[k]
                                    /\ e[k] = d[k] /\ parent'[k] = parent[k]
      /\ \A k \in Keys : k # above => left'[k] = left[k] /\ right'[k] = right[k]
      /\ left'[above] = IF onRight THEN left[above] ELSE key
      /\ right'[above] = IF onRight THEN key ELSE right[above]
  BY <1>1, <1>3, <1>5, <1>6
<1>8. /\ left[key] = Null /\ right[key] = Null /\ parent[key] = Null
      /\ \A k \in InTree : left[k] # key /\ right[k] # key
  BY <1>2, <1>4 DEF Shape, Linked, ChildOf
<1>9. parent' \in [Keys -> Keys \cup {Null}]
  BY <1>1, <1>3, <1>5
<1> HIDE DEF above, onRight
<1>10. Linked(e)'
  <2>1. \A k \in Keys \ InTree' : left'[k] = Null /\ right'[k] = Null /\ parent'[k] = Null
    BY <1>3, <1>4, <1>7 DEF Shape, Linked
  <2>2. ASSUME NEW k \in InTree'
        PROVE  e[k] < nodes' /\ ChildOf(k, left[k], e)' /\ ChildOf(k, right[k], e)'
    <3>1. CASE k = key
      <4>1. left'[key] = Null /\ right'[key] = Null
        BY <1>3, <1>7, <1>8
      <4>2. d[above] < nodes /\ d[above] \in Nat
        BY <1>3, <1>5 DEF Shape, Linked
      <4> QED BY <3>1, <4>1, <4>2, <1>1, <1>5, <1>7 DEF ChildOf
    <3>2. CASE k # key
      <4>1. k \in InTree /\ k \in Keys
        BY <3>2, <1>4
      <4>2. e[k] < nodes'
        <5>1. d[k] < nodes /\ d[k] \in Nat
          BY <4>1, <1>5 DEF Shape, Linked
        <5> QED BY <5>1, <4>1, <3>2, <1>1, <1>5, <1>7
      <4>3. ASSUME NEW c \in InTree, parent[c] = k, d[c] = d[k] + 1
            PROVE  c \in InTree' /\ parent'[c] = k /\ e[c] = e[k] + 1
        BY <4>3, <4>1, <3>2, <1>2, <1>4, <1>7
      <4>4. k = above => key \in InTree' /\ parent'[key] = k /\ e[key] = e[k] + 1
        BY <3>2, <1>3, <1>4, <1>7
      <4>5. ChildOf(k, left[k], d) /\ ChildOf(k, right[k], d)
        BY <4>1 DEF Shape, Linked
      <4>6. /\ left'[k] = left[k] \/ (k = above /\ left'[k] = key)
            /\ right'[k] = right[k] \/ (k = above /\ right'[k] = key)
        BY <4>1, <1>7
      <4> QED BY <4>2, <4>3, <4>4, <4>5, <4>6 DEF ChildOf
    <3> QED BY <3>1, <3>2
  <2>3. ASSUME NEW k \in InTree'
        PROVE  IF parent'[k] = Null THEN k = root'
               ELSE parent'[k] \in InTree' /\ k \in {left'[parent'[k]], right'[parent'[k]]}
    <3>1. CASE k = key
      <4>1. above # Null /\ key \in {left'[above], right'[above]}
        BY <1>3, <1>7, MapAssumption
      <4> QED BY <4>1, <3>1, <1>3, <1>4, <1>7
    <3>2. CASE k # key
      <4>1. k \in InTree /\ k \in Keys /\ parent'[k] = parent[k]
        BY <3>2, <1>4, <1>7
      <4>2. CASE parent[k] = Null
        BY <4>1, <4>2, <1>1 DEF Shape, Linked
      <4>3. CASE parent[k] # Null
        <5>1. /\ parent[k] \in InTree /\ parent[k] \in Keys
              /\ k \in {left[parent[k]], right[parent[k]]} /\ k # Null
          BY <4>1, <4>3, <1>4, MapAssumption DEF Shape, Linked
        <5>2. k \in {left'[parent[k]], right'[parent[k]]}
          BY <5>1, <1>3, <1>7
        <5> QED BY <5>1, <5>2, <4>1, <4>3, <1>4
      <4> QED BY <4>2, <4>3
    <3> QED BY <3>1, <3>2
  <2>4. IF root' = Null THEN InTree' = {} ELSE root' \in InTree' /\ parent'[root'] = Null
    <3>1. root \in InTree /\ parent[root] = Null
      BY <1>1 DEF Shape, Linked
    <3> QED BY <3>1, <1>1, <1>2, <1>4, <1>7
  <2> QED BY <2>1, <2>2, <2>3, <2>4 DEF Linked
<1>11. ASSUME NEW k \in InTree
       PROVE  /\ LeftOf(s, k)' = LeftOf(sub, k) \cup
                   (IF above \in LeftOf(sub, k) \/ (k = above /\ ~onRight) THEN {key} ELSE {})
              /\ RightOf(s, k)' = RightOf(sub, k) \cup
                   (IF above \in RightOf(sub, k) \/ (k = above /\ onRight) THEN {key} ELSE {})
  <2>1. k \in Keys /\ k # key /\ above \notin LeftOf(sub, above) /\ above \notin RightOf(sub, above)
    BY <1>2, <1>3, <1>4, Sides
  <2>2. \A c \in Keys : c # key => s[c] = IF above \in sub[c] THEN sub[c] \cup {key} ELSE sub[c]
    BY <1>7
  <2>3. LeftOf(s, k)' = LeftOf(sub, k) \cup
                   (IF above \in LeftOf(sub, k) \/ (k = above /\ ~onRight) THEN {key} ELSE {})
    <3>1. CASE k = above /\ ~onRight
      BY <3>1, <1>3, <1>4, <1>7 DEF LeftOf
    <3>2. CASE ~(k = above /\ ~onRight)
      <4>1. left'[k] = left[k]
        BY <2>1, <3>2, <1>7
      <4>2. left[k] # Null => left[k] \in Keys /\ left[k] # key
        BY <2>1, <1>5, <1>8
      <4> QED BY <4>1, <4>2, <2>2, <3>2 DEF LeftOf
    <3> QED BY <3>1, <3>2
  <2>4. RightOf(s, k)' = RightOf(sub, k) \cup
                   (IF above \in RightOf(sub, k) \/ (k = above /\ onRight) THEN {key} ELSE {})
    <3>1. CASE k = above /\ onRight
      BY <3>1, <1>3, <1>4, <1>7 DEF RightOf
    <3>2. CASE ~(k = above /\ onRight)
      <4>1. right'[k] = right[k]
        BY <2>1, <3>2, <1>7
      <4>2. right[k] # Null => right[k] \in Keys /\ right[k] # key
        BY <2>1, <1>5, <1>8
      <4> QED BY <4>1, <4>2, <2>2, <3>2 DEF RightOf
    <3> QED BY <3>1, <3>2
  <2> QED BY <2>3, <2>4
<1>12. Ordered(s)'
  <2>1. ASSUME NEW k \in InTree'
        PROVE  /\ s[k] = {k} \cup LeftOf(s, k)' \cup RightOf(s, k)'
               /\ s[k] \subseteq InTree'
               /\ \A l \in LeftOf(s, k)' : Precedes(l, k)
               /\ \A l \in RightOf(s, k)' : Precedes(k, l)
               /\ \A l \in s[k] \ {k} : parent'[l] \in s[k]
    <3>1. CASE k = key
      <4>1. LeftOf(s, key)' = {} /\ RightOf(s, key)' = {}
        BY <1>3, <1>7, <1>8 DEF LeftOf, RightOf
      <4> QED BY <3>1, <4>1, <1>4, <1>7
    <3>2. CASE k # key
      <4>1. k \in InTree /\ k \in Keys
        BY <3>2, <1>4
      <4>2. /\ sub[k] = {k} \cup LeftOf(sub, k) \cup RightOf(sub, k) /\ sub[k] \subseteq InTree
            /\ \A l \in LeftOf(sub, k) : Precedes(l, k)
            /\ \A l \in RightOf(sub, k) : Precedes(k, l)
            /\ \A l \in sub[k] \ {k} : parent[l] \in sub[k]
        BY <4>1 DEF Shape, Ordered
      <4>3. s[k] = IF above \in sub[k] THEN sub[k] \cup {key} ELSE sub[k]
        BY <4>1, <3>2, <1>7
      <4>4. s[k] = {k} \cup LeftOf(s, k)' \cup RightOf(s, k)'
        BY <4>1, <4>2, <4>3, <1>11
      <4>5. s[k] \subseteq InTree'
        BY <4>2, <4>3, <1>4
      <4>6. above \in LeftOf(sub, k) => Precedes(key, k)
        BY <4>1, <1>3 DEF Meets
      <4>7. above \in RightOf(sub, k) => Precedes(k, key)
        BY <4>1, <1>3 DEF Meets
      <4>8. ASSUME NEW l \in LeftOf(s, k)' PROVE Precedes(l, k)
        BY <4>1, <4>2, <4>6, <1>3, <1>11
      <4>9. ASSUME NEW l \in RightOf(s, k)' PROVE Precedes(k, l)
        BY <4>1, <4>2, <4>7, <1>3, <1>11
      <4>10. ASSUME NEW l \in s[k] \ {k} PROVE parent'[l] \in s[k]
        <5>1. CASE l = key
          BY <5>1, <4>2, <4>3, <1>2, <1>7
        <5>2. CASE l # key
          <6>1. l \in sub[k] \ {k} /\ l \in Keys
            BY <5>2, <4>2, <4>3, <1>4
          <6> QED BY <6>1, <5>2, <4>2, <4>3, <1>7
        <5> QED BY <5>1, <5>2
      <4> QED BY <4>4, <4>5, <4>8, <4>9, <4>10
    <3> QED BY <3>1, <3>2
  <2>2. s[root'] = InTree'
    <3>1. sub[root] = InTree /\ root \in InTree
      BY <1>1 DEF Shape, Ordered, Linked
    <3> QED BY <3>1, <1>1, <1>2, <1>3, <1>4, <1>7
  <2> QED BY <2>1, <2>2 DEF Ordered
<1>13. Shape(s, e)'
  BY <1>6, <1>10, <1>12 DEF Shape
<1> QED BY <1>1, <1>2, <1>9, <1>13

LEMMA SetValueStep ==
  ASSUME MapInv, NEW key \in Keys, NEW v \in Values, setValue(key, v), UNCHANGED <<current, answer>>
  PROVE  MapInv' /\ InTree' = InTree \cup {key} /\ value' = [value EXCEPT ![key] = v]
<1>1. FieldsOK
  BY DEF MapInv
<1>2. PICK sub, d : Shape(sub, d)
  BY DEF MapInv
<1>3. /\ \E s, e : Shape(s, e)'
      /\ parent' \in [Keys -> Keys \cup {Null}]
      /\ nodes' = IF key \in InTree THEN nodes ELSE nodes + 1
  BY <1>1, <1>2, FirstShaped, UpdateShaped, AttachShaped, LinksAre DEF setValue
<1>4. /\ value' = [value EXCEPT ![key] = v] /\ InTree' = InTree \cup {key}
      /\ root' \in Keys \cup {Null}
      /\ left' \in [Keys -> Keys \cup {Null}] /\ right' \in [Keys -> Keys \cup {Null}]
      /\ value' \in [Keys -> Values \cup {Null}]
  BY <1>1, SetValueFields
<1>5. IsFiniteSet(InTree') /\ nodes' = Cardinality(InTree') /\ nodes' \in Nat
  <2>1. IsFiniteSet(InTree) /\ nodes = Cardinality(InTree) /\ nodes \in Nat
    BY <1>1, LinksAre DEF FieldsOK
  <2> QED BY <2>1, <1>3, <1>4, FS_AddElement
<1>6. current' \in InTree' \cup {Null} /\ answer' \in Values \cup {Null}
  BY <1>1, <1>4 DEF FieldsOK
<1>7. MapTypeOK'
  <2>1. current' \in Keys \cup {Null}
    BY <1>1 DEF FieldsOK, MapTypeOK
  <2> QED BY <2>1, <1>3, <1>4, <1>5 DEF MapTypeOK
<1> QED BY <1>3, <1>4, <1>5, <1>6, <1>7 DEF MapInv, FieldsOK

-----------------------------------------------------------------------------
(***************************************************************************)
(* Where the iterator goes.                                                *)
(***************************************************************************)
\* The least key of a set, if it has any.
IsLeast(T, k) == \/ T = {} /\ k = Null
                 \/ k \in T /\ \A l \in T \ {k} : Precedes(k, l)

LEMMA LeastIs ==
  ASSUME NEW T, T \subseteq Keys, NEW k, IsLeast(T, k)
  PROVE  Map!Least(T) = k
<1>1. CASE T = {}
  BY <1>1 DEF Map!Least, IsLeast
<1>2. CASE T # {}
  <2>1. k \in T /\ \A l \in T \ {k} : Precedes(k, l)
    BY <1>2 DEF IsLeast
  <2>2. \A j \in T : (\A l \in T \ {j} : Precedes(j, l)) => j = k
    BY <2>1, KeyOrder
  <2> QED BY <2>1, <2>2 DEF Map!Least
<1> QED BY <1>1, <1>2

\* min(x) is the least node of the subtree of x.
LEMMA MinIsLeast ==
  ASSUME FieldsOK, NEW sub, NEW d, Shape(sub, d), NEW s \in InTree
  PROVE  min(s) \in sub[s] /\ \A l \in sub[s] \ {min(s)} : Precedes(min(s), l)
<1> DEFINE Is(x) == min(x) \in sub[x] /\ \A l \in sub[x] \ {min(x)} : Precedes(min(x), l)
           Good == {x \in Keys : x \in InTree => Is(x)}
           m == [y \in Keys |-> IF y \in InTree THEN nodes - d[y] ELSE 0]
<1>1. Walk(left, m)
  BY DownEnds, LinksAre, Zenon
<1>2. ASSUME NEW x \in Keys, left[x] # Null => left[x] \in Good PROVE x \in Good
  <2> SUFFICES ASSUME x \in InTree PROVE Is(x)
    OBVIOUS
  <2>1. min(x) = IF left[x] = Null THEN x ELSE min(left[x])
    BY MinRule
  <2>2. /\ sub[x] = {x} \cup LeftOf(sub, x) \cup RightOf(sub, x)
        /\ \A l \in LeftOf(sub, x) : Precedes(l, x)
        /\ \A l \in RightOf(sub, x) : Precedes(x, l)
        /\ sub[x] \subseteq InTree
    BY DEF Shape, Ordered
  <2>3. CASE left[x] = Null
    BY <2>1, <2>2, <2>3 DEF LeftOf
  <2>4. CASE left[x] # Null
    <3>1. left[x] \in InTree
      BY <2>4 DEF Shape, Linked, ChildOf
    <3>2. Is(left[x]) /\ LeftOf(sub, x) = sub[left[x]]
      BY <3>1, <2>4, <1>2 DEF LeftOf
    <3>3. \A l \in sub[x] : l \in Keys
      BY <2>2 DEF InTree
    <3>4. min(x) \in LeftOf(sub, x) /\ min(x) \in sub[x]
      BY <3>2, <2>1, <2>2, <2>4
    <3>5. ASSUME NEW l \in sub[x] \ {min(x)} PROVE Precedes(min(x), l)
      <4>1. CASE l \in LeftOf(sub, x)
        BY <4>1, <3>2, <2>1, <2>4
      <4>2. CASE l = x
        BY <4>2, <3>4, <2>2
      <4>3. CASE l \in RightOf(sub, x)
        <5>1. Precedes(min(x), x) /\ Precedes(x, l)
          BY <4>3, <3>4, <2>2
        <5> QED BY <5>1, <3>3, <3>4, KeyOrder
      <4> QED BY <4>1, <4>2, <4>3, <2>2
    <3> QED BY <3>4, <3>5
  <2> QED BY <2>3, <2>4
<1>3. Keys \subseteq Good
  <2> HIDE DEF Good, m
  <2> QED BY <1>1, <1>2, WalkInduction, Zenon
<1>4. s \in Keys
  BY DEF InTree
<1> HIDE DEF Is
<1>5. Is(s)
  BY <1>3, <1>4
<1> QED BY <1>5 DEF Is

\* A node outside a subtree comes before all of it or after all of it.
Apart(sub, x) ==
  \A k \in InTree \ sub[x] : (\A l \in sub[x] : Precedes(k, l)) \/ (\A l \in sub[x] : Precedes(l, k))

LEMMA SubtreesApart ==
  ASSUME FieldsOK, NEW sub, NEW d, Shape(sub, d), NEW s \in InTree
  PROVE  Apart(sub, s)
<1> DEFINE Good == {x \in Keys : x \in InTree => Apart(sub, x)}
<1>1. Walk(parent, d)
  BY UpEnds, LinksAre
<1>2. ASSUME NEW x \in Keys, parent[x] # Null => parent[x] \in Good PROVE x \in Good
  <2> SUFFICES ASSUME x \in InTree, NEW k \in InTree \ sub[x]
               PROVE  (\A l \in sub[x] : Precedes(k, l)) \/ (\A l \in sub[x] : Precedes(l, k))
    BY DEF Apart
  <2>1. CASE parent[x] = Null
    BY <2>1 DEF Shape, Linked, Ordered
  <2>2. CASE parent[x] # Null
    <3> DEFINE p == parent[x]
    <3>1. p \in InTree /\ p \in Keys /\ x \in {left[p], right[p]} /\ x # Null
      BY <2>2, MapAssumption DEF Shape, Linked, InTree
    <3>2. Apart(sub, p)
      BY <3>1, <2>2, <1>2
    <3>3. /\ sub[p] = {p} \cup LeftOf(sub, p) \cup RightOf(sub, p)
          /\ \A l \in LeftOf(sub, p) : Precedes(l, p)
          /\ \A l \in RightOf(sub, p) : Precedes(p, l)
          /\ sub[p] \subseteq Keys
      BY <3>1 DEF Shape, Ordered, InTree
    <3> HIDE DEF p
    <3>4. CASE k \notin sub[p]
      <4>1. sub[x] \subseteq sub[p]
        BY <3>1, <3>3 DEF LeftOf, RightOf
      <4> QED BY <4>1, <3>2, <3>4 DEF Apart
    <3>5. CASE k \in sub[p] /\ x = left[p]
      <4>1. LeftOf(sub, p) = sub[x]
        BY <3>1, <3>5 DEF LeftOf
      <4>2. k = p \/ k \in RightOf(sub, p)
        BY <4>1, <3>3, <3>5
      <4> QED BY <4>1, <4>2, <3>1, <3>3, KeyOrder
    <3>6. CASE k \in sub[p] /\ x = right[p]
      <4>1. RightOf(sub, p) = sub[x]
        BY <3>1, <3>6 DEF RightOf
      <4>2. k = p \/ k \in LeftOf(sub, p)
        BY <4>1, <3>3, <3>6
      <4> QED BY <4>1, <4>2, <3>1, <3>3, KeyOrder
    <3> QED BY <3>1, <3>4, <3>5, <3>6
  <2> QED BY <2>1, <2>2
<1>3. Keys \subseteq Good
  <2> HIDE DEF Good
  <2> QED BY <1>1, <1>2, WalkInduction, Zenon
<1> QED BY <1>3 DEF InTree

After(a) == {k \in InTree : Precedes(a, k)}

\* From the top of a subtree that ends with a, going up finds the least node after it.
LEMMA RisingIs ==
  ASSUME FieldsOK, NEW sub, NEW d, Shape(sub, d), NEW a \in InTree, right[a] = Null
  PROVE  IsLeast(After(a), Rising(a))
<1> DEFINE Last(x) == a \in sub[x] /\ \A l \in sub[x] \ {a} : Precedes(l, a)
           Good == {x \in Keys : x \in InTree /\ Last(x) => IsLeast(After(a), Rising(x))}
<1>1. Upward \in [Keys -> Keys \cup {Null}] /\ \A y \in Keys : Upward[y] \in {parent[y], Null}
  BY LinksAre DEF Upward
<1>2. Walk(Upward, d)
  BY <1>1, UpEnds, Zenon
<1>3. ASSUME NEW x \in Keys, Upward[x] # Null => Upward[x] \in Good PROVE x \in Good
  <2> SUFFICES ASSUME x \in InTree, Last(x) PROVE IsLeast(After(a), Rising(x))
    OBVIOUS
  <2>1. Rising(x) = IF parent[x] = Null \/ x # right[parent[x]] THEN parent[x] ELSE Rising(parent[x])
    BY RisingRule
  <2>2. a \in Keys /\ \A l \in After(a) : l \notin sub[x] /\ l \in Keys /\ l \in InTree /\ Precedes(a, l)
    BY KeyOrder DEF After, InTree
  <2>3. CASE parent[x] = Null
    <3>1. After(a) = {}
      BY <2>2, <2>3 DEF Shape, Linked, Ordered
    <3> QED BY <3>1, <2>1, <2>3 DEF IsLeast
  <2>4. CASE parent[x] # Null
    <3> DEFINE p == parent[x]
    <3>1. p \in InTree /\ p \in Keys /\ x \in {left[p], right[p]} /\ x # Null /\ x \in sub[x]
      BY <2>4, Sides, MapAssumption DEF Shape, Linked, InTree
    <3>2. /\ sub[p] = {p} \cup LeftOf(sub, p) \cup RightOf(sub, p)
          /\ \A l \in LeftOf(sub, p) : Precedes(l, p)
          /\ \A l \in RightOf(sub, p) : Precedes(p, l)
          /\ sub[p] \subseteq Keys
      BY <3>1 DEF Shape, Ordered, InTree
    <3>3. Apart(sub, p)
      BY <3>1, SubtreesApart
    <3>4. CASE x # right[p]
      <4> HIDE DEF p
      <4>1. LeftOf(sub, p) = sub[x]
        BY <3>1, <3>4 DEF LeftOf
      <4>2. p \in After(a)
        BY <4>1, <3>1, <3>2 DEF After
      <4>3. ASSUME NEW l \in After(a) \ {p} PROVE Precedes(p, l)
        <5>1. CASE l \in sub[p]
          BY <5>1, <4>1, <4>3, <3>2, <2>2
        <5>2. CASE l \notin sub[p]
          <6>1. a \in sub[p] /\ p \in sub[p] /\ ~Precedes(l, a)
            BY <4>1, <3>2, <2>2, KeyOrder
          <6> QED BY <6>1, <5>2, <3>3, <2>2 DEF Apart
        <5> QED BY <5>1, <5>2
      <4>5. IsLeast(After(a), p)
        BY <4>2, <4>3 DEF IsLeast
      <4> QED BY <4>5, <3>4, <2>1, <2>4 DEF p
    <3>5. CASE x = right[p]
      <4>1. Upward[x] = p
        BY <3>5, <2>4 DEF Upward
      <4>2. p \in Good
        BY <4>1, <2>4, <1>3
      <4> HIDE DEF p
      <4>3. RightOf(sub, p) = sub[x]
        BY <3>1, <3>5 DEF RightOf
      <4>4. Last(p)
        <5>1. ASSUME NEW l \in sub[p] \ {a} PROVE Precedes(l, a)
          <6>1. CASE l \in RightOf(sub, p)
            BY <6>1, <5>1, <4>3
          <6>2. CASE l = p
            BY <6>2, <4>3, <3>2
          <6>3. CASE l \in LeftOf(sub, p)
            <7>1. Precedes(l, p) /\ Precedes(p, a) /\ l \in Keys
              BY <6>3, <4>3, <3>2
            <7> QED BY <7>1, <3>1, <2>2, KeyOrder
          <6> QED BY <6>1, <6>2, <6>3, <3>2
        <5> QED BY <5>1, <4>3, <3>2
      <4>5. IsLeast(After(a), Rising(p))
        BY <4>2, <4>4, <3>1
      <4> QED BY <4>5, <3>5, <2>1, <2>4 DEF p
    <3> QED BY <3>4, <3>5
  <2> QED BY <2>3, <2>4
<1>4. Keys \subseteq Good
  <2> HIDE DEF Good
  <2> QED BY <1>2, <1>3, WalkInduction, Zenon
<1>5. a \in Keys
  BY DEF InTree
<1>6. Last(a)
  <2>1. /\ sub[a] = {a} \cup LeftOf(sub, a) \cup RightOf(sub, a) /\ RightOf(sub, a) = {}
        /\ \A l \in LeftOf(sub, a) : Precedes(l, a)
    BY DEF Shape, Ordered, RightOf
  <2> QED BY <2>1
<1> QED BY <1>4, <1>5, <1>6

\* The iterator goes on to the least key after its own.
LEMMA SuccsorIs ==
  ASSUME MapInv, current # Null
  PROVE  IsLeast(After(current), succsor(current))
<1>1. PICK sub, d : Shape(sub, d)
  BY DEF MapInv
<1>2. FieldsOK /\ current \in InTree
  BY DEF MapInv, FieldsOK
<1>3. succsor(current) = IF right[current] # Null THEN min(right[current]) ELSE Rising(current)
  BY SuccsorRule
<1>4. CASE right[current] = Null
  BY <1>1, <1>2, <1>3, <1>4, RisingIs
<1>5. CASE right[current] # Null
  <2> DEFINE r == right[current]
  <2>1. r \in InTree /\ RightOf(sub, current) = sub[r]
    BY <1>1, <1>2, <1>5, Sides DEF RightOf
  <2>2. min(r) \in sub[r] /\ \A l \in sub[r] \ {min(r)} : Precedes(min(r), l)
    BY <2>1, <1>1, <1>2, MinIsLeast
  <2>3. /\ sub[current] = {current} \cup LeftOf(sub, current) \cup RightOf(sub, current)
        /\ \A l \in LeftOf(sub, current) : Precedes(l, current)
        /\ \A l \in RightOf(sub, current) : Precedes(current, l)
        /\ sub[current] \subseteq InTree
    BY <1>1, <1>2 DEF Shape, Ordered
  <2>4. InTree \subseteq Keys
    BY DEF InTree
  <2>5. min(r) \in After(current)
    BY <2>1, <2>2, <2>3 DEF After
  <2>6. ASSUME NEW l \in After(current) \ {min(r)} PROVE Precedes(min(r), l)
    <3>1. l \in InTree /\ Precedes(current, l) /\ l \in Keys /\ current \in Keys
      BY <1>2, <2>4 DEF After
    <3>2. CASE l \in sub[current]
      <4>1. l \in sub[r]
        BY <3>1, <3>2, <2>1, <2>3, KeyOrder
      <4> QED BY <4>1, <2>2, <2>6
    <3>3. CASE l \notin sub[current]
      <4>1. Apart(sub, current)
        BY <1>1, <1>2, SubtreesApart
      <4>2. ~Precedes(l, current)
        BY <3>1, KeyOrder
      <4> QED BY <4>1, <4>2, <3>1, <3>3, <2>1, <2>2, <2>3 DEF Apart
    <3> QED BY <3>2, <3>3
  <2> HIDE DEF r
  <2>8. IsLeast(After(current), min(r))
    BY <2>5, <2>6 DEF IsLeast
  <2> QED BY <2>8, <1>3, <1>5 DEF r
<1> QED BY <1>4, <1>5

\* and begins with the least of all.
LEMMA BeginIs ==
  ASSUME MapInv
  PROVE  IsLeast(InTree, IF root = Null THEN Null ELSE min(root))
<1>1. PICK sub, d : Shape(sub, d)
  BY DEF MapInv
<1>2. FieldsOK
  BY DEF MapInv
<1>3. CASE root = Null
  BY <1>1, <1>3 DEF IsLeast, Shape, Linked
<1>4. CASE root # Null
  <2>1. root \in InTree /\ sub[root] = InTree
    BY <1>1, <1>4 DEF Shape, Linked, Ordered
  <2>2. min(root) \in InTree /\ \A l \in InTree \ {min(root)} : Precedes(min(root), l)
    BY <2>1, <1>1, <1>2, MinIsLeast
  <2> QED BY <2>2, <1>4 DEF IsLeast
<1> QED BY <1>3, <1>4

-----------------------------------------------------------------------------
(***************************************************************************)
(* The map is a dictionary.                                                *)
(***************************************************************************)
LEMMA MapInvInit == ASSUME MapInit PROVE MapInv
<1>1. /\ root = Null /\ nodes = 0 /\ current = Null /\ answer = Null
      /\ left = NoFields /\ right = NoFields /\ parent = NoFields /\ value = NoFields
  BY DEF MapInit
<1>2. InTree = {}
  BY <1>1 DEF InTree, NoFields
<1>3. NoFields \in [Keys -> Keys \cup {Null}] /\ NoFields \in [Keys -> Values \cup {Null}]
      /\ \A k \in Keys : NoFields[k] = Null
  BY DEF NoFields
<1>4. FieldsOK
  <2>1. IsFiniteSet(InTree) /\ Cardinality(InTree) = 0
    BY <1>2, FS_EmptySet
  <2>2. MapTypeOK
    BY <1>1, <1>3 DEF MapTypeOK
  <2> QED BY <2>1, <2>2, <1>1, <1>3 DEF FieldsOK
<1>5. Shape([k \in Keys |-> {}], [k \in Keys |-> 0])
  BY <1>1, <1>2, <1>3 DEF Shape, Linked, Ordered
<1> QED BY <1>4, <1>5 DEF MapInv

LEMMA DictIs == DOMAIN [k \in {l \in Keys : value[l] # Null} |-> value[k]] = InTree
BY DEF InTree

\* A new value is one of the dictionary.
LEMMA SetRefines ==
  ASSUME MapInv, NEW key \in Keys, NEW v \in Values, setValue(key, v), UNCHANGED <<current, answer>>
  PROVE  Map!Set(key, v)
<1> DEFINE dict == [k \in {l \in Keys : value[l] # Null} |-> value[k]]
<1>1. MapInv' /\ InTree' = InTree \cup {key} /\ value' = [value EXCEPT ![key] = v]
  BY SetValueStep
<1>2. dict = [k \in InTree |-> value[k]]
  BY DEF InTree
<1>3. dict' = [k \in InTree' |-> value'[k]]
  BY DEF InTree
<1>4. nodes' = Map!Cardinality(InTree')
  <2>1. nodes' = Cardinality(InTree')
    BY <1>1 DEF MapInv, FieldsOK
  <2>2. \A T : Map!Cardinality(T) = Cardinality(T)
    BY Zenon DEF Map!Cardinality, Cardinality
  <2> QED BY <2>1, <2>2, Zenon
<1>5. value \in [Keys -> Values \cup {Null}] /\ InTree \subseteq Keys
  BY DEF MapInv, FieldsOK, InTree
<1>6. \A k \in InTree \cup {key} : value'[k] = IF k = key THEN v ELSE dict[k]
  BY <1>1, <1>2, <1>5
<1>7. dict' = [k \in InTree \cup {key} |-> IF k = key THEN v ELSE dict[k]]
  BY <1>1, <1>3, <1>6
<1>8. DOMAIN dict = InTree /\ DOMAIN dict' = InTree'
  BY <1>2, <1>3
<1> HIDE DEF dict
<1>9. /\ dict' = [k \in DOMAIN dict \cup {key} |-> IF k = key THEN v ELSE dict[k]]
      /\ nodes' = Map!Cardinality(DOMAIN dict')
  BY <1>4, <1>7, <1>8
<1> QED BY <1>9 DEF Map!Set, dict

\* Every operation is one of the dictionary, and keeps the tree in order.
LEMMA GetValueStep ==
  ASSUME MapInv, NEW key \in Keys, getValue(key)
  PROVE  MapInv' /\ Map!Get(key)
<1>1. answer' = Lookup(key) /\ UNCHANGED <<root, left, right, parent, value, nodes, current>>
  BY DEF getValue, tree
<1>2. Lookup(key) = IF key \in InTree THEN value[key] ELSE Null
  BY LookupIs
<1>3. answer' \in Values \cup {Null}
  BY <1>1, <1>2 DEF MapInv, FieldsOK
<1>4. InTree' = InTree
  BY <1>1 DEF InTree
<1>5. MapInv'
  BY <1>1, <1>3, <1>4 DEF MapInv, FieldsOK, MapTypeOK, Shape, Linked, Ordered, ChildOf, LeftOf, RightOf
<1>6. Map!Get(key)
  BY <1>1, <1>2 DEF Map!Get, InTree
<1> QED BY <1>5, <1>6

\* An iterator moves: to a node of the tree, or to the end.
LEMMA MoveKeeps ==
  ASSUME MapInv, UNCHANGED <<tree, answer>>, NEW T, T \subseteq InTree, IsLeast(T, current')
  PROVE  MapInv' /\ current' = Map!Least(T)
<1>1. UNCHANGED <<root, left, right, parent, value, nodes, answer>>
  BY DEF tree
<1>2. InTree' = InTree /\ InTree \subseteq Keys
  BY <1>1 DEF InTree
<1>3. current' \in InTree \cup {Null}
  BY DEF IsLeast
<1>4. MapInv'
  BY <1>1, <1>2, <1>3 DEF MapInv, FieldsOK, MapTypeOK, Shape, Linked, Ordered, ChildOf, LeftOf, RightOf
<1> QED BY <1>2, <1>4, LeastIs

LEMMA GetIteratorStep ==
  ASSUME MapInv, getIterator
  PROVE  MapInv' /\ Map!Begin /\ IsLeast(InTree, current')
<1>1. UNCHANGED <<tree, answer>> /\ IsLeast(InTree, current')
  BY BeginIs DEF getIterator
<1>2. MapInv' /\ current' = Map!Least(InTree)
  BY <1>1, MoveKeeps
<1>3. Map!Begin
  BY <1>1, <1>2 DEF Map!Begin, InTree, tree
<1> QED BY <1>1, <1>2, <1>3

LEMMA GoNextStep ==
  ASSUME MapInv, goNext
  PROVE  MapInv' /\ Map!GoNext /\ IsLeast(After(current), current')
<1>1. UNCHANGED <<tree, answer>> /\ current # Null /\ current' = succsor(current)
  BY DEF goNext, atEnd
<1>2. IsLeast(After(current), current') /\ After(current) \subseteq InTree
  BY <1>1, SuccsorIs DEF After
<1>3. MapInv' /\ current' = Map!Least(After(current))
  BY <1>1, <1>2, MoveKeeps
<1>4. Map!GoNext
  BY <1>1, <1>3 DEF Map!GoNext, After, InTree, tree
<1> QED BY <1>2, <1>3, <1>4

LEMMA MapIdle ==
  ASSUME MapInv, UNCHANGED mapVars
  PROVE  MapInv' /\ UNCHANGED Map!vars
<1>1. UNCHANGED <<root, left, right, parent, value, nodes, answer, current>>
  BY DEF mapVars, tree
<1>2. InTree' = InTree
  BY <1>1 DEF InTree
<1>3. MapInv'
  BY <1>1, <1>2 DEF MapInv, FieldsOK, MapTypeOK, Shape, Linked, Ordered, ChildOf, LeftOf, RightOf
<1>4. UNCHANGED Map!vars
  BY <1>1 DEF Map!vars
<1> QED BY <1>3, <1>4

LEMMA MapInitRefines == ASSUME MapInit PROVE Map!Init
<1>1. \A k \in Keys : value[k] = Null
  BY DEF MapInit, NoFields
<1>2. [k \in {l \in Keys : value[l] # Null} |-> value[k]] = [k \in {} |-> Null]
  BY <1>1
<1> QED BY <1>2 DEF MapInit, Map!Init

LEMMA MapStep ==
  ASSUME MapInv, [MapNext]_mapVars
  PROVE  MapInv' /\ [Map!Next]_(Map!vars)
<1>1. ASSUME NEW key \in Keys, getValue(key) PROVE MapInv' /\ Map!Next
  BY <1>1, GetValueStep DEF Map!Next
<1>2. ASSUME NEW key \in Keys, NEW v \in Values, setValue(key, v), UNCHANGED <<current, answer>>
      PROVE  MapInv' /\ Map!Next
  BY <1>2, SetValueStep, SetRefines DEF Map!Next
<1>3. ASSUME getIterator PROVE MapInv' /\ Map!Next
  BY <1>3, GetIteratorStep DEF Map!Next
<1>4. ASSUME goNext PROVE MapInv' /\ Map!Next
  BY <1>4, GoNextStep DEF Map!Next
<1>5. ASSUME UNCHANGED mapVars PROVE MapInv' /\ UNCHANGED Map!vars
  BY <1>5, MapIdle
<1> QED BY <1>1, <1>2, <1>3, <1>4, <1>5 DEF MapNext

\* The nodes of the map of cp2 are always a search tree, with parent pointers that agree
\* with the children, and _size is their number.
THEOREM TreeStaysInOrder == MapSpec => []MapInv
<1>1. MapInit => MapInv
  BY MapInvInit
<1>2. MapInv /\ [MapNext]_mapVars => MapInv'
  BY MapStep
<1> QED BY <1>1, <1>2, PTL DEF MapSpec

\* StringMap.cpp is a dictionary with an ordered iterator, whatever the keys, the order they
\* come in and the moment the iterator is moved.
THEOREM MapIsADictionary == MapSpec => ImplementsDictionary
<1>1. MapInit => Map!Init
  BY MapInitRefines
<1>2. MapInv /\ [MapNext]_mapVars => [Map!Next]_(Map!vars)
  BY MapStep
<1> QED BY <1>1, <1>2, TreeStaysInOrder, PTL DEF MapSpec, ImplementsDictionary, Map!Spec

-----------------------------------------------------------------------------
(***************************************************************************)
(* The word count.                                                         *)
(***************************************************************************)
Word(j) == chkMakeLegall(text[j])
Hits(w, n) == {j \in 1 .. n : Word(j) = w}

\* How many tokens were read, and how many of them were looked at: the last one read is not,
\* until the loop comes round.
Taken == Len(text) - Len(input)
Processed == IF eof THEN Len(Counted) ELSE IF Taken = 0 THEN 0 ELSE Taken - 1

Reading ==
  /\ text \in Seq(Tokens) /\ Len(text) <= MaxTokens /\ newline \in BOOLEAN /\ eof \in BOOLEAN
  /\ input \in Seq(Tokens) /\ Len(input) <= Len(text)
  /\ \A j \in 1 .. Len(input) : input[j] = text[Taken + j]
  /\ str = IF Taken = 0 THEN <<>> ELSE text[Taken]
  /\ ~eof /\ ~newline => input # <<>> \/ text = <<>>

\* The map has the count of every word among the first n tokens.
Tallied(n) ==
  /\ InTree = {w \in Keys : w # <<>> /\ Hits(w, n) # {}}
  /\ \A w \in InTree : value[w] = Cardinality(Hits(w, n))
  /\ numOfWords = n - Cardinality(Hits(<<>>, n))

\* What is printed is what comes before the iterator, in order.
Printing ==
  /\ printing \in BOOLEAN /\ printed \in Seq(Keys \X Values \X Nat)
  /\ ~printing => printed = <<>>
  /\ printing =>
       /\ eof
       /\ {printed[n][1] : n \in DOMAIN printed} =
            IF current = Null THEN InTree ELSE {k \in InTree : Precedes(k, current)}
       /\ \A n \in DOMAIN printed : printed[n][2] = value[printed[n][1]] /\ printed[n][3] = numOfWords
       /\ \A n \in DOMAIN printed : n > 1 => Precedes(printed[n - 1][1], printed[n][1])

WordsInv == MapInv /\ Reading /\ Tallied(Processed) /\ Printing

LEMMA HitsFinite ==
  ASSUME NEW w, NEW n \in Nat
  PROVE  IsFiniteSet(Hits(w, n)) /\ Cardinality(Hits(w, n)) \in 0 .. n
<1>1. IsFiniteSet(1 .. n) /\ Cardinality(1 .. n) = n
  BY FS_Interval
<1>2. Hits(w, n) \subseteq 1 .. n
  BY DEF Hits
<1>3. IsFiniteSet(Hits(w, n)) /\ Cardinality(Hits(w, n)) <= n
  BY <1>1, <1>2, FS_Subset
<1> QED BY <1>3, FS_CardinalityType

\* One more token.
LEMMA OneMoreHit ==
  ASSUME NEW w, NEW n \in Nat
  PROVE  /\ Hits(w, n + 1) = IF Word(n + 1) = w THEN Hits(w, n) \cup {n + 1} ELSE Hits(w, n)
         /\ Cardinality(Hits(w, n + 1)) = IF Word(n + 1) = w THEN Cardinality(Hits(w, n)) + 1
                                          ELSE Cardinality(Hits(w, n))
<1>1. Hits(w, n + 1) = IF Word(n + 1) = w THEN Hits(w, n) \cup {n + 1} ELSE Hits(w, n)
  BY DEF Hits
<1>2. n + 1 \notin Hits(w, n) /\ IsFiniteSet(Hits(w, n))
  <2>1. n + 1 \notin 1 .. n
    OBVIOUS
  <2> QED BY <2>1, HitsFinite DEF Hits
<1>3. Cardinality(Hits(w, n) \cup {n + 1}) = Cardinality(Hits(w, n)) + 1
  BY <1>2, FS_AddElement
<1> QED BY <1>1, <1>3

LEMMA NothingRead ==
  /\ chkMakeLegall(<<>>) = <<>>
  /\ \A w : Hits(w, 0) = {} /\ Cardinality(Hits(w, 0)) = 0
<1>1. chkMakeLegall(<<>>) = <<>>
  BY DEF chkMakeLegall
<1>2. \A w : Hits(w, 0) = {}
  BY DEF Hits
<1> QED BY <1>1, <1>2, FS_EmptySet

LEMMA CountedIs ==
  ASSUME Reading
  PROVE  /\ Len(Counted) = (IF newline \/ text = <<>> THEN Len(text) ELSE Len(text) - 1)
         /\ Len(Counted) \in Nat /\ Len(Counted) <= Len(text)
         /\ DOMAIN Counted = 1 .. Len(Counted)
         /\ \A j \in DOMAIN Counted : Counted[j] = text[j] /\ j \in DOMAIN text
<1>1. text \in Seq(Tokens) /\ Len(text) \in Nat /\ newline \in BOOLEAN
  BY DEF Reading
<1>2. CASE newline
  BY <1>1, <1>2 DEF Counted
<1>3. CASE ~newline /\ text = <<>>
  <2>1. Counted = <<>>
    BY <1>3 DEF Counted
  <2> QED BY <2>1, <1>3
<1>4. CASE ~newline /\ text # <<>>
  <2>1. Len(text) - 1 \in Nat
    BY <1>1, <1>4
  <2>2. Counted = SubSeq(text, 1, Len(text) - 1)
    BY <1>4 DEF Counted
  <2>3. Len(Counted) = Len(text) - 1 /\ DOMAIN Counted = 1 .. Len(Counted)
    <3>1. \A j \in 1 .. Len(text) - 1 : text[j] \in Tokens
      BY <1>1
    <3>2. /\ SubSeq(text, 1, Len(text) - 1) \in Seq(Tokens)
          /\ Len(SubSeq(text, 1, Len(text) - 1)) =
               IF 1 <= Len(text) - 1 THEN (Len(text) - 1) - 1 + 1 ELSE 0
      BY <3>1, <2>1, SubSeqProperties
    <3>3. Len(Counted) = Len(text) - 1
      <4> DEFINE m == Len(text) - 1
      <4>1. m \in Nat /\ Len(Counted) = IF 1 <= m THEN m - 1 + 1 ELSE 0
        BY <3>2, <2>1, <2>2
      <4> HIDE DEF m
      <4>2. Len(Counted) = m
        BY <4>1
      <4> QED BY <4>2 DEF m
    <3>4. DOMAIN Counted = 1 .. Len(Counted)
      BY <3>2, <2>2
    <3> QED BY <3>3, <3>4
  <2>4. \A j \in 1 .. Len(text) - 1 : Counted[j] = text[j]
    BY <2>1, <2>2, <1>1
  <2> QED BY <2>1, <2>3, <2>4, <1>1, <1>4
<1> QED BY <1>2, <1>3, <1>4

\* A round of the loop looks at the token read last.
LEMMA ExtractStep ==
  ASSUME Reading, ~eof, Extract, UNCHANGED <<newline, text>>
  PROVE  /\ Reading' /\ Processed' = Taken /\ Taken \in Nat /\ Taken <= MaxTokens
         /\ Processed = IF Taken = 0 THEN 0 ELSE Taken - 1
         /\ Taken = 0 => chkMakeLegall(str) = <<>>
         /\ Taken > 0 => chkMakeLegall(str) = Word(Taken) /\ chkMakeLegall(str) \in Keys \cup {<<>>}
<1>1. /\ text \in Seq(Tokens) /\ input \in Seq(Tokens) /\ Len(text) \in Nat /\ Len(input) \in Nat
      /\ Taken \in Nat /\ Taken <= Len(text) /\ Len(text) <= MaxTokens /\ MaxTokens \in Nat
  BY WordsAssumption DEF Reading, Taken
<1>2. Len(Counted') = Len(Counted)
  BY DEF Counted
<1>3. /\ Processed = IF Taken = 0 THEN 0 ELSE Taken - 1
      /\ Taken = 0 => chkMakeLegall(str) = <<>>
      /\ Taken > 0 => chkMakeLegall(str) = Word(Taken) /\ chkMakeLegall(str) \in Keys \cup {<<>>}
  <2>1. Taken > 0 => str = text[Taken] /\ text[Taken] \in Tokens
    BY <1>1 DEF Reading
  <2>2. Taken = 0 => str = <<>>
    BY DEF Reading
  <2> QED BY <2>1, <2>2, <1>1, NothingRead, WordsAssumption DEF Processed, Word
<1>4. CASE input = <<>>
  <2>1. input' = input /\ str' = str /\ eof' = TRUE /\ Taken' = Taken
    BY <1>4 DEF Extract, Taken
  <2>2. Reading'
    BY <2>1 DEF Reading, Taken
  <2>3. newline \/ text = <<>>
    BY <1>4 DEF Reading
  <2>4. Len(Counted) = Len(text) /\ Taken = Len(text)
    BY <2>3, <1>1, <1>4, CountedIs DEF Taken
  <2> QED BY <2>1, <2>2, <2>4, <1>1, <1>2, <1>3 DEF Processed
<1>5. CASE input # <<>>
  <2>1. /\ input' = Tail(input) /\ str' = Head(input) /\ eof' = (Len(input) = 1 /\ ~newline)
    BY <1>5 DEF Extract
  <2>2. /\ Len(input) > 0 /\ Len(input') = Len(input) - 1 /\ input' \in Seq(Tokens)
        /\ \A j \in 1 .. Len(input') : input'[j] = input[j + 1]
        /\ str' = input[1]
    BY <2>1, <1>1, <1>5
  <2>3. Taken' = Taken + 1
    BY <2>2, <1>1 DEF Taken
  <2>4. str' = text[Taken + 1]
    BY <2>2, <1>1 DEF Reading
  <2>5. \A j \in 1 .. Len(input') : input'[j] = text[(Taken + 1) + j]
    <3>1. ASSUME NEW j \in 1 .. Len(input') PROVE input'[j] = text[(Taken + 1) + j]
      <4>1. j + 1 \in 1 .. Len(input) /\ Taken + (j + 1) = (Taken + 1) + j
        BY <2>2, <1>1
      <4> QED BY <4>1, <2>2 DEF Reading
    <3> QED BY <3>1
  <2>6. eof' \in BOOLEAN /\ (~eof' /\ ~newline => input' # <<>>)
    <3>1. eof' <=> Len(input) = 1 /\ ~newline
      BY <2>1, Zenon
    <3>2. eof' \in BOOLEAN
      BY <2>1, Zenon
    <3>3. Len(input) # 1 => Len(input') > 0
      BY <2>2, <1>1
    <3>4. Len(input') > 0 => input' # <<>>
      OBVIOUS
    <3> QED BY <3>1, <3>2, <3>3, <3>4
  <2>7. Reading'
    BY <2>2, <2>3, <2>4, <2>5, <2>6, <1>1 DEF Reading
  <2>8. Processed' = Taken
    <3>1. CASE eof'
      <4>1. Len(input) = 1 /\ ~newline
        BY <3>1, <2>1
      <4>2. text # <<>>
        BY <2>2, <1>1 DEF Reading
      <4>3. Len(Counted) = Len(text) - 1 /\ Taken = Len(text) - 1
        BY <4>1, <4>2, <1>1, CountedIs DEF Taken
      <4> QED BY <4>3, <3>1, <1>2 DEF Processed
    <3>2. CASE ~eof'
      BY <3>2, <2>3, <1>1 DEF Processed
    <3> QED BY <3>1, <3>2
  <2> QED BY <2>7, <2>8, <1>1, <1>3
<1> QED BY <1>4, <1>5

LEMMA WordsInvInit == ASSUME MapInit, WordsInit PROVE WordsInv
<1>1. MapInv
  BY MapInvInit
<1>2. /\ input = text /\ newline \in BOOLEAN /\ eof = FALSE /\ str = <<>> /\ numOfWords = 0
      /\ printing = FALSE /\ printed = <<>>
  BY DEF WordsInit
<1>3. text \in Seq(Tokens) /\ Len(text) <= MaxTokens
  <2>1. PICK n \in 0 .. MaxTokens : text \in [1 .. n -> Tokens]
    BY DEF WordsInit
  <2>2. n \in Nat /\ n <= MaxTokens
    BY WordsAssumption
  <2> QED BY <2>1, <2>2
<1>4. Taken = 0
  BY <1>2, <1>3 DEF Taken
<1>5. Reading
  <2>1. \A j \in 1 .. Len(text) : 0 + j = j
    BY <1>3
  <2>2. \A j \in 1 .. Len(input) : input[j] = text[Taken + j]
    BY <2>1, <1>2, <1>4
  <2>3. eof \in BOOLEAN /\ (input # <<>> \/ text = <<>>)
    BY <1>2
  <2> QED BY <2>2, <2>3, <1>2, <1>3, <1>4 DEF Reading
<1>6. Processed = 0
  BY <1>2, <1>4 DEF Processed
<1>7. Tallied(0)
  <2>1. InTree = {}
    BY DEF MapInit, NoFields, InTree
  <2> QED BY <2>1, <1>2, NothingRead DEF Tallied
<1>8. Printing
  <2>1. <<>> \in Seq(Keys \X Values \X Nat)
    BY EmptySeq
  <2> QED BY <2>1, <1>2 DEF Printing
<1> QED BY <1>1, <1>5, <1>6, <1>7, <1>8 DEF WordsInv

\* A round of the loop: the word of the token read last is counted.
LEMMA ReadWordStep ==
  ASSUME WordsInv, ReadWord
  PROVE  WordsInv' /\ [Map!Next]_(Map!vars)
<1> DEFINE word == chkMakeLegall(str)
           n == Lookup(word)
           now == IF n = Null THEN 1 ELSE n + 1
<1>1. /\ ~eof /\ ~printing /\ Extract /\ UNCHANGED <<newline, text, current, answer, printing, printed>>
      /\ IF word = <<>> THEN UNCHANGED <<numOfWords, tree>>
                        ELSE numOfWords' = numOfWords + 1 /\ setValue(word, now)
  BY DEF ReadWord
<1>2. MapInv /\ Reading /\ Tallied(Processed) /\ printed = <<>> /\ printing = FALSE
  BY <1>1 DEF WordsInv, Printing
<1>3. /\ Reading' /\ Processed' = Taken /\ Taken \in Nat /\ Taken <= MaxTokens
      /\ Processed = IF Taken = 0 THEN 0 ELSE Taken - 1
      /\ Taken = 0 => word = <<>>
      /\ Taken > 0 => word = Word(Taken) /\ word \in Keys \cup {<<>>}
  BY <1>1, <1>2, ExtractStep
<1>4. ASSUME InTree' = {w \in Keys : w # <<>> /\ Hits(w, Taken) # {}},
             \A w \in InTree' : value'[w] = Cardinality(Hits(w, Taken)),
             numOfWords' = Taken - Cardinality(Hits(<<>>, Taken))
      PROVE  Tallied(Processed)'
  <2>1. \A w : Hits(w, Processed)' = Hits(w, Taken)
    BY <1>1, <1>3 DEF Hits, Word
  <2> QED BY <2>1, <1>3, <1>4 DEF Tallied
<1>5. Printing'
  BY <1>1, <1>2, EmptySeq DEF Printing
<1> HIDE DEF word
<1>6. CASE Taken = 0
  <2>1. UNCHANGED mapVars /\ numOfWords' = numOfWords
    BY <1>1, <1>3, <1>6 DEF mapVars
  <2>2. MapInv' /\ UNCHANGED Map!vars
    BY <2>1, <1>2, MapIdle
  <2>3. Tallied(Processed)'
    <3>1. /\ InTree = {w \in Keys : w # <<>> /\ Hits(w, Taken) # {}}
          /\ \A w \in InTree : value[w] = Cardinality(Hits(w, Taken))
          /\ numOfWords = Taken - Cardinality(Hits(<<>>, Taken))
      BY <1>2, <1>3, <1>6 DEF Tallied
    <3>2. InTree' = InTree /\ value' = value
      BY <2>1 DEF InTree, mapVars, tree
    <3> QED BY <3>1, <3>2, <2>1, <1>4
  <2> QED BY <2>2, <2>3, <1>3, <1>5 DEF WordsInv
<1>7. CASE Taken > 0
  <2> DEFINE p == Taken - 1
  <2>1. p \in Nat /\ Processed = p /\ Taken = p + 1 /\ word = Word(p + 1) /\ word \in Keys \cup {<<>>}
    BY <1>3, <1>7
  <2> HIDE DEF p
  <2>2. \A w : /\ Hits(w, Taken) = IF word = w THEN Hits(w, p) \cup {p + 1} ELSE Hits(w, p)
               /\ Cardinality(Hits(w, Taken)) =
                    IF word = w THEN Cardinality(Hits(w, p)) + 1 ELSE Cardinality(Hits(w, p))
               /\ Cardinality(Hits(w, p)) \in 0 .. p
    BY <2>1, OneMoreHit, HitsFinite
  <2>3. /\ InTree = {w \in Keys : w # <<>> /\ Hits(w, p) # {}}
        /\ \A w \in InTree : value[w] = Cardinality(Hits(w, p))
        /\ numOfWords = p - Cardinality(Hits(<<>>, p))
    BY <2>1, <1>2 DEF Tallied
  <2>4. CASE word = <<>>
    <3>1. UNCHANGED mapVars /\ numOfWords' = numOfWords
      BY <1>1, <2>4 DEF mapVars
    <3>2. MapInv' /\ UNCHANGED Map!vars
      BY <3>1, <1>2, MapIdle
    <3>3. InTree' = InTree /\ value' = value
      BY <3>1 DEF InTree, mapVars, tree
    <3>4. InTree' = {w \in Keys : w # <<>> /\ Hits(w, Taken) # {}}
      BY <3>3, <2>2, <2>3, <2>4
    <3>5. \A w \in InTree' : value'[w] = Cardinality(Hits(w, Taken))
      BY <3>3, <2>2, <2>3, <2>4
    <3>6. numOfWords' = Taken - Cardinality(Hits(<<>>, Taken))
      BY <3>1, <2>1, <2>2, <2>3, <2>4
    <3>7. Tallied(Processed)'
      BY <3>4, <3>5, <3>6, <2>1, <1>4
    <3> QED BY <3>2, <3>7, <1>3, <1>5 DEF WordsInv
  <2>5. CASE word # <<>>
    <3>1. word \in Keys
      BY <2>1, <2>5
    <3>2. n = IF word \in InTree THEN value[word] ELSE Null
      BY <3>1, <1>2, LookupIs
    <3>3. now = Cardinality(Hits(word, p)) + 1
      <4>1. CASE word \in InTree
        <5>1. n = Cardinality(Hits(word, p)) /\ n # Null
          BY <4>1, <3>2, <2>3 DEF InTree
        <5> HIDE DEF n
        <5> QED BY <5>1
      <4>2. CASE word \notin InTree
        <5>1. Hits(word, p) = {} /\ n = Null
          BY <4>2, <3>1, <3>2, <2>3, <2>5
        <5> HIDE DEF n
        <5> QED BY <5>1, FS_EmptySet
      <4> QED BY <4>1, <4>2
    <3> HIDE DEF n, now
    <3>4. now \in Values
      <4>1. now \in 1 .. MaxTokens
        BY <3>3, <2>1, <2>2, <1>3, WordsAssumption
      <4> QED BY <4>1, WordsAssumption
    <3>5. setValue(word, now) /\ numOfWords' = numOfWords + 1
      BY <1>1, <2>5 DEF n, now
    <3>6. PICK w0 \in Keys, v0 \in Values : w0 = word /\ v0 = now
      BY <3>1, <3>4
    <3>7. setValue(w0, v0) /\ UNCHANGED <<current, answer>>
      BY <3>5, <3>6, <1>1
    <3>8. MapInv' /\ InTree' = InTree \cup {w0} /\ value' = [value EXCEPT ![w0] = v0]
      BY <3>7, <1>2, SetValueStep
    <3>9. Map!Next
      BY <3>7, <1>2, SetRefines DEF Map!Next
    <3>10. InTree' = {w \in Keys : w # <<>> /\ Hits(w, Taken) # {}}
      BY <3>6, <3>8, <2>2, <2>3, <2>5
    <3>11. \A w \in InTree' : value'[w] = Cardinality(Hits(w, Taken))
      <4>1. value \in [Keys -> Values \cup {Null}] /\ InTree \subseteq Keys
        BY <1>2 DEF MapInv, FieldsOK, InTree
      <4> QED BY <4>1, <3>3, <3>6, <3>8, <2>2, <2>3
    <3>12. numOfWords' = Taken - Cardinality(Hits(<<>>, Taken))
      BY <3>5, <2>1, <2>2, <2>3, <2>5
    <3>13. Tallied(Processed)'
      BY <3>10, <3>11, <3>12, <2>1, <1>4
    <3> QED BY <3>8, <3>9, <3>13, <1>3, <1>5 DEF WordsInv
  <2> QED BY <2>4, <2>5
<1> QED BY <1>3, <1>6, <1>7

\* The reading is done.
LEMMA ReadingDone ==
  ASSUME WordsInv, UNCHANGED <<input, newline, eof, str, numOfWords, text, tree>>
  PROVE  Reading' /\ Tallied(Processed)' /\ InTree' = InTree /\ value' = value
<1>1. Taken' = Taken /\ Processed' = Processed /\ InTree' = InTree /\ value' = value
  BY DEF Taken, Processed, Counted, InTree, tree
<1>2. \A w, j : (Hits(w, j))' = Hits(w, j)
  BY DEF Hits, Word
<1>3. Reading'
  BY <1>1 DEF WordsInv, Reading
<1>4. Tallied(Processed)'
  BY <1>1, <1>2 DEF WordsInv, Tallied
<1> QED BY <1>1, <1>3, <1>4

LEMMA StartPrintStep ==
  ASSUME WordsInv, StartPrint
  PROVE  WordsInv' /\ [Map!Next]_(Map!vars)
<1>1. /\ eof /\ printing = FALSE /\ printed = <<>> /\ printing' = TRUE /\ getIterator
      /\ UNCHANGED <<input, newline, eof, str, numOfWords, printed, text>>
  BY DEF WordsInv, Printing, StartPrint
<1>2. MapInv' /\ Map!Begin /\ IsLeast(InTree, current')
  BY <1>1, GetIteratorStep DEF WordsInv
<1>3. Reading' /\ Tallied(Processed)' /\ InTree' = InTree /\ value' = value
  BY <1>1, ReadingDone DEF getIterator
<1>4. {} = IF current' = Null THEN InTree ELSE {k \in InTree : Precedes(k, current')}
  <2>1. InTree \subseteq Keys /\ Null \notin InTree
    BY MapAssumption DEF InTree
  <2> QED BY <2>1, <1>2, KeyOrder DEF IsLeast
<1>5. Printing'
  <2>1. DOMAIN printed' = {} /\ printed' \in Seq(Keys \X Values \X Nat)
    BY <1>1, EmptySeq
  <2>2. {printed'[n][1] : n \in DOMAIN printed'} = {}
    BY <2>1
  <2>3. /\ \A n \in DOMAIN printed' : printed'[n][2] = value'[printed'[n][1]] /\ printed'[n][3] = numOfWords'
        /\ \A n \in DOMAIN printed' : n > 1 => Precedes(printed'[n - 1][1], printed'[n][1])
    BY <2>1
  <2> QED BY <2>1, <2>2, <2>3, <1>1, <1>3, <1>4 DEF Printing
<1> QED BY <1>2, <1>3, <1>5 DEF WordsInv, Map!Next

LEMMA PrintLineStep ==
  ASSUME WordsInv, PrintLine
  PROVE  WordsInv' /\ [Map!Next]_(Map!vars)
<1> DEFINE line == <<current, value[current], numOfWords>>
<1>1. /\ printing = TRUE /\ current # Null /\ printed' = Append(printed, line) /\ goNext
      /\ UNCHANGED <<input, newline, eof, str, numOfWords, printing, text>>
  BY DEF WordsInv, Printing, PrintLine, atEnd, KeyAt, ValueAt
<1>2. MapInv' /\ Map!GoNext /\ IsLeast(After(current), current')
  BY <1>1, GoNextStep DEF WordsInv
<1>3. Reading' /\ Tallied(Processed)' /\ InTree' = InTree /\ value' = value
  BY <1>1, ReadingDone DEF goNext
<1>4. /\ printed \in Seq(Keys \X Values \X Nat) /\ eof
      /\ {printed[n][1] : n \in DOMAIN printed} = {k \in InTree : Precedes(k, current)}
      /\ \A n \in DOMAIN printed : printed[n][2] = value[printed[n][1]] /\ printed[n][3] = numOfWords
      /\ \A n \in DOMAIN printed : n > 1 => Precedes(printed[n - 1][1], printed[n][1])
  BY <1>1 DEF WordsInv, Printing
<1>5. current \in InTree /\ InTree \subseteq Keys /\ Null \notin InTree
  BY <1>1, MapAssumption DEF WordsInv, MapInv, FieldsOK, InTree
<1>6. line \in Keys \X Values \X Nat
  <2>1. current \in Keys /\ value[current] \in Values
    BY <1>5 DEF WordsInv, MapInv, FieldsOK, InTree
  <2>2. numOfWords \in Nat
    <3>1. Len(Counted) \in Nat
      BY CountedIs DEF WordsInv
    <3>2. Processed \in Nat
      BY <3>1, <1>4 DEF Processed
    <3>3. Cardinality(Hits(<<>>, Processed)) \in 0 .. Processed
      BY <3>2, HitsFinite
    <3> QED BY <3>2, <3>3 DEF WordsInv, Tallied
  <2> QED BY <2>1, <2>2
<1> HIDE DEF line
<1>7. /\ printed' \in Seq(Keys \X Values \X Nat) /\ Len(printed) \in Nat
      /\ DOMAIN printed = 1 .. Len(printed) /\ DOMAIN printed' = 1 .. Len(printed) + 1
      /\ printed'[Len(printed) + 1] = line
      /\ \A n \in 1 .. Len(printed) : printed'[n] = printed[n]
  BY <1>1, <1>4, <1>6
<1>8. line[1] = current /\ line[2] = value[current] /\ line[3] = numOfWords
  BY DEF line
<1>9. {printed'[n][1] : n \in DOMAIN printed'} = {k \in InTree : Precedes(k, current)} \cup {current}
  <2>1. {printed'[n][1] : n \in DOMAIN printed'} = {printed[n][1] : n \in DOMAIN printed} \cup {current}
    <3>1. ASSUME NEW n \in DOMAIN printed' 
          PROVE  printed'[n][1] \in {printed[k][1] : k \in DOMAIN printed} \cup {current}
      <4>1. n \in 1 .. Len(printed) \/ n = Len(printed) + 1
        BY <1>7
      <4> QED BY <4>1, <1>7, <1>8
    <3>2. ASSUME NEW n \in DOMAIN printed PROVE n \in DOMAIN printed' /\ printed[n][1] = printed'[n][1]
      BY <1>7
    <3>3. Len(printed) + 1 \in DOMAIN printed' /\ printed'[Len(printed) + 1][1] = current
      BY <1>7, <1>8
    <3> QED BY <3>1, <3>2, <3>3
  <2> QED BY <2>1, <1>4
<1>10. {k \in InTree : Precedes(k, current)} \cup {current} =
         IF current' = Null THEN InTree' ELSE {k \in InTree' : Precedes(k, current')}
  <2>1. \A k \in InTree : k = current \/ Precedes(k, current) \/ k \in After(current)
    BY <1>5, KeyOrder DEF After
  <2>2. CASE current' = Null
    <3>1. After(current) = {}
      BY <2>2, <1>2, <1>5 DEF IsLeast, After
    <3> QED BY <3>1, <2>1, <2>2, <1>3, <1>5
  <2>3. CASE current' # Null
    <3>1. /\ current' \in InTree /\ Precedes(current, current')
          /\ \A l \in After(current) \ {current'} : Precedes(current', l)
      BY <2>3, <1>2 DEF IsLeast, After
    <3>2. \A k \in InTree : Precedes(k, current') <=> k = current \/ Precedes(k, current)
      BY <3>1, <2>1, <1>5, KeyOrder
    <3> QED BY <3>2, <2>3, <1>3, <1>5
  <2> QED BY <2>2, <2>3
<1>11. ASSUME NEW n \in DOMAIN printed'
       PROVE  /\ printed'[n][2] = value'[printed'[n][1]] /\ printed'[n][3] = numOfWords'
              /\ n > 1 => Precedes(printed'[n - 1][1], printed'[n][1])
  <2>1. CASE n = Len(printed) + 1
    <3>1. ASSUME n > 1 PROVE Precedes(printed'[n - 1][1], current)
      <4>1. n - 1 \in DOMAIN printed /\ n - 1 \in 1 .. Len(printed)
        BY <3>1, <2>1, <1>7
      <4>2. printed[n - 1][1] \in {k \in InTree : Precedes(k, current)}
        BY <4>1, <1>4
      <4> QED BY <4>1, <4>2, <1>7
    <3> QED BY <3>1, <2>1, <1>1, <1>3, <1>7, <1>8
  <2>2. CASE n # Len(printed) + 1
    <3>1. n \in 1 .. Len(printed) /\ n \in DOMAIN printed /\ (n > 1 => n - 1 \in 1 .. Len(printed))
      BY <2>2, <1>7
    <3> QED BY <3>1, <1>1, <1>3, <1>4, <1>7
  <2> QED BY <2>1, <2>2
<1>12. Printing'
  BY <1>1, <1>4, <1>7, <1>9, <1>10, <1>11 DEF Printing
<1> QED BY <1>2, <1>3, <1>12 DEF WordsInv, Map!Next

LEMMA WordsStep ==
  ASSUME WordsInv, [WordsNext]_<<mapVars, wordVars>>
  PROVE  WordsInv' /\ [Map!Next]_(Map!vars)
<1>1. ASSUME UNCHANGED <<mapVars, wordVars>> PROVE WordsInv' /\ UNCHANGED Map!vars
  <2>1. MapInv' /\ UNCHANGED Map!vars
    BY <1>1, MapIdle DEF WordsInv
  <2>2. Reading' /\ Tallied(Processed)' /\ InTree' = InTree /\ value' = value
    BY <1>1, ReadingDone DEF mapVars, wordVars
  <2>3. Printing'
    BY <1>1, <2>2 DEF WordsInv, Printing, mapVars, wordVars
  <2> QED BY <2>1, <2>2, <2>3 DEF WordsInv
<1> QED BY <1>1, ReadWordStep, StartPrintStep, PrintLineStep DEF WordsNext

LEMMA PrintedAreCounted ==
  ASSUME WordsInv
  PROVE  WordsCounted
<1> SUFFICES ASSUME printing, current = Null
             PROVE  /\ {printed[n][1] : n \in DOMAIN printed} = CountedWords
                    /\ \A n \in DOMAIN printed :
                         /\ printed[n][2] = Cardinality(Occurrences(printed[n][1]))
                         /\ printed[n][3] = Len(Counted) - Cardinality(Occurrences(<<>>))
                         /\ n > 1 => Precedes(printed[n - 1][1], printed[n][1])
  BY DEF WordsCounted
<1>1. /\ Processed = Len(Counted) /\ {printed[n][1] : n \in DOMAIN printed} = InTree
      /\ \A n \in DOMAIN printed : printed[n][2] = value[printed[n][1]] /\ printed[n][3] = numOfWords
      /\ \A n \in DOMAIN printed : n > 1 => Precedes(printed[n - 1][1], printed[n][1])
  BY DEF WordsInv, Printing, Processed
<1>2. /\ DOMAIN Counted = 1 .. Len(Counted)
      /\ \A j \in DOMAIN Counted : Counted[j] = text[j] /\ j \in DOMAIN text
  BY CountedIs DEF WordsInv
<1>3. \A w : Occurrences(w) = Hits(w, Len(Counted))
  BY <1>2 DEF Occurrences, Hits, Word
<1>4. /\ InTree = {w \in Keys : w # <<>> /\ Hits(w, Len(Counted)) # {}}
      /\ \A w \in InTree : value[w] = Cardinality(Hits(w, Len(Counted)))
      /\ numOfWords = Len(Counted) - Cardinality(Hits(<<>>, Len(Counted)))
  BY <1>1 DEF WordsInv, Tallied
<1>5. CountedWords = InTree
  <2>1. \A j \in DOMAIN Counted : chkMakeLegall(Counted[j]) \in Keys \cup {<<>>}
    BY <1>2, WordsAssumption DEF WordsInv, Reading
  <2>2. ASSUME NEW w \in CountedWords PROVE w \in InTree
    <3>1. PICK j \in DOMAIN Counted : w = chkMakeLegall(Counted[j])
      BY DEF CountedWords
    <3>2. j \in Hits(w, Len(Counted))
      BY <3>1, <1>2 DEF Hits, Word
    <3> QED BY <3>1, <3>2, <2>1, <1>4 DEF CountedWords
  <2>3. ASSUME NEW w \in InTree PROVE w \in CountedWords
    <3>1. PICK j \in Hits(w, Len(Counted)) : TRUE
      BY <1>4
    <3>2. j \in DOMAIN Counted /\ chkMakeLegall(Counted[j]) = w
      BY <3>1, <1>2 DEF Hits, Word
    <3> QED BY <3>2, <1>4 DEF CountedWords
  <2> QED BY <2>2, <2>3
<1>6. \A n \in DOMAIN printed : printed[n][1] \in InTree
  BY <1>1
<1> QED BY <1>1, <1>3, <1>4, <1>5, <1>6

\* The inductive invariant of word_count.cpp: its map counts what it has looked at, and the
\* lines printed are the words before the iterator.
THEOREM WordsAreInMap == WordsSpec => []WordsInv
<1>1. MapInit /\ WordsInit => WordsInv
  BY WordsInvInit
<1>2. WordsInv /\ [WordsNext]_<<mapVars, wordVars>> => WordsInv'
  BY WordsStep
<1> QED BY <1>1, <1>2, PTL DEF WordsSpec

\* The variables of the word count and its map have their types, whatever the input.
THEOREM WordsTypeCorrect == WordsSpec => [](MapTypeOK /\ WordsTypeOK)
<1>1. WordsInv => MapTypeOK /\ WordsTypeOK
  <2> SUFFICES ASSUME WordsInv PROVE MapTypeOK /\ WordsTypeOK
    OBVIOUS
  <2>1. MapTypeOK
    BY DEF WordsInv, MapInv, FieldsOK
  <2>2. /\ text \in Seq(Tokens) /\ Len(text) \in Nat /\ Len(text) <= MaxTokens /\ MaxTokens \in Nat
        /\ input \in Seq(Tokens) /\ newline \in BOOLEAN /\ eof \in BOOLEAN /\ printing \in BOOLEAN
    BY WordsAssumption DEF WordsInv, Reading, Printing
  <2>3. Len(input) \in Nat /\ Taken \in 0 .. Len(text)
    BY <2>2 DEF WordsInv, Reading, Taken
  <2>4. str \in Tokens \cup {<<>>}
    BY <2>2, <2>3 DEF WordsInv, Reading
  <2>5. Processed \in 0 .. MaxTokens
    <3>1. Len(Counted) \in Nat /\ Len(Counted) <= Len(text)
      BY CountedIs DEF WordsInv
    <3> QED BY <3>1, <2>2, <2>3 DEF Processed
  <2>6. numOfWords \in 0 .. MaxTokens
    <3>1. Cardinality(Hits(<<>>, Processed)) \in 0 .. Processed
      BY <2>5, HitsFinite
    <3>2. numOfWords = Processed - Cardinality(Hits(<<>>, Processed))
      BY DEF WordsInv, Tallied
    <3> HIDE DEF Processed
    <3>3. Processed - Cardinality(Hits(<<>>, Processed)) \in 0 .. MaxTokens
      BY <3>1, <2>2, <2>5
    <3> QED BY <3>2, <3>3
  <2> QED BY <2>1, <2>2, <2>4, <2>6 DEF WordsTypeOK
<1> QED BY <1>1, WordsAreInMap, PTL

\* word_count.cpp prints every word of the input once, in ascending order, with how often it
\* came and with the number of all words, but for a last word that nothing follows.
\* The input has no capitals (WordsAssumption).
THEOREM WordsAreCounted == WordsSpec => []WordsCounted
<1>1. WordsInv => WordsCounted
  BY PrintedAreCounted
<1> QED BY <1>1, WordsAreInMap, PTL

\* What word_count.cpp does with its map, setting and getting values and then moving an
\* iterator through all of it, is what a dictionary allows.
THEOREM WordsUseADictionary == WordsSpec => ImplementsDictionary
<1>1. MapInit => Map!Init
  BY MapInitRefines
<1>2. WordsInv /\ [WordsNext]_<<mapVars, wordVars>> => [Map!Next]_(Map!vars)
  BY WordsStep
<1> QED BY <1>1, <1>2, WordsAreInMap, PTL DEF WordsSpec, ImplementsDictionary, Map!Spec
=============================================================================
