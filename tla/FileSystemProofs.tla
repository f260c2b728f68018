-------------------------- MODULE FileSystemProofs --------------------------
(***************************************************************************)
(* Proofs about FileSystem.                                                *)
(***************************************************************************)
EXTENDS FileSystem, FiniteSetTheorems, WellFoundedInduction, TLAPS

-----------------------------------------------------------------------------
(***************************************************************************)
(* The inductive invariant.  What it says of a half and of the table is    *)
(* said of a flash fl, a table tb and its length last, so that it can be   *)
(* said of those before a step and after it.                               *)
(***************************************************************************)
F == FieldSize - 1

\* What RoomAssumption says of a size, and the one it is true of.
Fits(size) ==
  /\ \A data \in Contents : Len(data) = size
  /\ \A n \in 0 .. HALF_SIZE : \A p \in 0 .. Phantoms(n) :
       /\ DataEnd(size, n, p) # n + 1
       /\ n % BatchSize = 0 => DataEnd(size, n, p) # n + 2
       /\ DataEnd(size, n, p) > n => DataEnd(size, n, p) >= size + F
S == CHOOSE size \in 1 .. F : Fits(size)

\* The n-th header of half h, from 1 on, and where its data starts.
Cell(fl, h, n) == fl[HalfStart(h) + n]
StartsOf(fl, h) ==
  LET start[b \in HalfOf(h)] ==
        IF b = HalfStart(h) THEN HalfStart(h) + HALF_SIZE ELSE start[b - 1] - fl[b].length
  IN start
Starts(fl, h, n) == StartsOf(fl, h)[HalfStart(h) + n]

IsPhantom(fl, h, n) ==
  /\ n > 1 /\ (n - 1) % BatchSize = 0
  /\ Cell(fl, h, n).valid = DELETED /\ Cell(fl, h, n).length = F
IsHeader(fl, h, n) ==
  /\ Cell(fl, h, n) # Blank
  /\ \/ /\ Cell(fl, h, n).length = S
        /\ Cell(fl, h, n).valid = USED => Cell(fl, h, n).name \in Names
     \/ IsPhantom(fl, h, n)

BlankFrom(fl, from, to) == \A a \in Addresses : from <= a /\ a < to => fl[a] = Blank

\* m headers, of which some are phantoms, and where their data starts.
Chained(fl, h, n) ==
  \E p \in 0 .. Phantoms(n) : Starts(fl, h, n) = HalfStart(h) + DataEnd(S, n, p)
HeadersGood(fl, h, m) ==
  /\ \A n \in 0 .. m : Chained(fl, h, n)
  /\ \A n \in 1 .. m : IsHeader(fl, h, n)

\* Above the m headers the flash is erased up to the data of the d-th: the last one, or the
\* last but one if the last is a phantom, which may have taken all that is left.
Space(fl, h, m, d) ==
  /\ d \in {m, m - 1} /\ d >= 0 /\ (d = m - 1 => IsPhantom(fl, h, m))
  /\ Starts(fl, h, d) > HalfStart(h) + m + 1
  /\ BlankFrom(fl, HalfStart(h) + m + 1, Starts(fl, h, d))
HalfGood(fl, h, m) ==
  m \in 0 .. HALF_SIZE - 1 /\ HeadersGood(fl, h, m) /\ \E d \in {m, m - 1} : Space(fl, h, m, d)

UsedIn(fl, h, m) == {n \in 1 .. m : Cell(fl, h, n).valid = USED}
OneOfEach(fl, h, U) == \A n, k \in U : Cell(fl, h, n).name = Cell(fl, h, k).name => n = k
Stored(fl, h) ==
  \E m \in 0 .. HALF_SIZE - 1 : HalfGood(fl, h, m) /\ OneOfEach(fl, h, UsedIn(fl, h, m))

\* The table holds the headers U, each once.
Entries(fl, tb, last, h, U) ==
  /\ \A k \in 0 .. last - 1 :
       /\ tb[k].valid = USED
       /\ \E n \in U : tb[k].header = HalfStart(h) + n /\ tb[k].name = Cell(fl, h, n).name
  /\ \A j, k \in 0 .. last - 1 : tb[j].header = tb[k].header => j = k
  /\ \A n \in U : \E k \in 0 .. last - 1 : tb[k].header = HalfStart(h) + n
Extents(fl, tb, h, K) ==
  \A k \in K : /\ tb[k].length = fl[tb[k].header].length
               /\ tb[k].start = StartsOf(fl, h)[tb[k].header]
Table(fl, tb, last, h, U) ==
  /\ last \in 0 .. HALF_SIZE - 1
  /\ Entries(fl, tb, last, h, U) /\ Extents(fl, tb, h, 0 .. last - 1)

\* The entry behind the table is none that FindFile would take for a file.
NoMore == lastFile \in 0 .. HALF_SIZE - 1 /\ files[lastFile].valid # USED

\* The half in use is the one that fs_init would find.
InUse(fl, h) == fl[HalfStart(h)].valid = USED /\ (h = SECOND_HALF => fl[0].valid # USED)

\* The number of headers read or written.
M == next - HalfStart(half) - 1

\* The request, and what is known of the file that it is about.
Requested ==
  /\ request.op \in {"write", "read", "filesize", "erase"}
  /\ request.name \in Names
  /\ request.op = "write" => request.data \in Contents
FileFound == index \in 0 .. lastFile - 1 /\ files[index].name = request.name
NewName == \A k \in 0 .. lastFile - 1 : files[k].name # request.name
Writes == Requested /\ request.op = "write" /\ (Found => FileFound) /\ (~Found => NewName)

\* Without power: the half that fs_init will find is good.
FlashKept(fl) ==
  /\ fl[0].valid = USED => Stored(fl, FIRST_HALF)
  /\ fl[0].valid # USED /\ fl[HALF_SIZE].valid = USED => Stored(fl, SECOND_HALF)
NoneUsed == \A k \in 0 .. HALF_SIZE : files[k].valid # USED
OffGood == FlashKept(flash) /\ NoneUsed
FormatGood == NoneUsed /\ \A a \in Addresses : flash[a] = Blank

\* While the headers are read: after changehalf they are the table's that was, in order.
Rebuilt(m) ==
  \E l \in {m, m - 1} :
    /\ l \in 0 .. HALF_SIZE /\ (l = m - 1 => IsPhantom(flash, half, m))
    /\ \A n \in 1 .. l : Cell(flash, half, n).valid = USED
    /\ lastFile = (IF M > l THEN l ELSE M)
    /\ \A k \in 0 .. lastFile - 1 : files[k].header = HalfStart(half) + k + 1
    /\ files[l].valid # USED
    /\ Requested /\ request.op = "write"
    /\ Found => index \in 0 .. l - 1 /\ Cell(flash, half, index + 1).name = request.name
    /\ ~Found => \A n \in 1 .. l : Cell(flash, half, n).name # request.name
Restoring(m) ==
  /\ HalfGood(flash, half, m) /\ OneOfEach(flash, half, UsedIn(flash, half, m))
  /\ M \in 0 .. m /\ end = Starts(flash, half, M)
  /\ i = IF M = 0 THEN 0 ELSE ((M - 1) % BatchSize) + 1
  /\ Table(flash, files, lastFile, half, UsedIn(flash, half, M))
  /\ after = "idle" => \A k \in lastFile .. HALF_SIZE : files[k].valid # USED
  /\ after = "roomAgain" => Rebuilt(m)
RestoreGood == InUse(flash, half) /\ \E m \in 0 .. HALF_SIZE : Restoring(m)

\* Between calls, and in them until they write.
Settled ==
  /\ InUse(flash, half) /\ HalfGood(flash, half, M) /\ end = Starts(flash, half, M)
  /\ OneOfEach(flash, half, UsedIn(flash, half, M))
  /\ Table(flash, files, lastFile, half, UsedIn(flash, half, M)) /\ NoMore
FindGood ==
  /\ Settled /\ Requested
  /\ i \in -1 .. lastFile
  /\ IF Found THEN FileFound /\ i < index ELSE i = lastFile
RoomGood == Settled /\ Writes /\ i = 0

\* While a file is written its entry is not that of a header.
Overwriting ==
  /\ InUse(flash, half) /\ OneOfEach(flash, half, UsedIn(flash, half, M))
  /\ Entries(flash, files, lastFile, half, UsedIn(flash, half, M))
  /\ Extents(flash, files, half, (0 .. lastFile - 1) \ {index})
  /\ NoMore /\ Writes
  /\ Found => previous = files[index].header
  /\ files[Slot].name = request.name
DataGood ==
  /\ Overwriting /\ M \in 0 .. HALF_SIZE - 1 /\ HeadersGood(flash, half, M)
  /\ Starts(flash, half, M) = end + S /\ end > next + 1
  /\ BlankFrom(flash, next, end)
  /\ pc = "data" => i \in 0 .. S - 1
  /\ pc = "data" /\ i = 0 => BlankFrom(flash, next, end + S)
  /\ pc = "header" => i = 0 /\ files[Slot].start = end
UseGood ==
  /\ Overwriting /\ HalfGood(flash, half, M) /\ M > 0 /\ end = Starts(flash, half, M) /\ i = 0
  /\ Cell(flash, half, M) = [valid |-> UNUSED, name |-> request.name, length |-> S]
  /\ files[Slot].start = end /\ files[Slot].length = S
SupersedeGood ==
  /\ InUse(flash, half) /\ HalfGood(flash, half, M) /\ end = Starts(flash, half, M)
  /\ Requested /\ request.op = "write" /\ NoMore /\ Found /\ FileFound
  /\ \E q \in UsedIn(flash, half, M) :
       /\ previous = HalfStart(half) + q /\ Cell(flash, half, q).name = request.name
       /\ Table(flash, files, lastFile, half, UsedIn(flash, half, M) \ {q})
       /\ OneOfEach(flash, half, UsedIn(flash, half, M) \ {q})

\* changehalf: the other half is erased and filled, and then the half in use erased.
OtherStart == HalfStart(OtherHalf)
Moving == Settled /\ Writes
EraseNextGood ==
  /\ Moving /\ i \in 0 .. BlocksPerHalf - 1
  /\ copied = <<OtherStart + 1, OtherStart + HALF_SIZE>>
  /\ BlankFrom(flash, OtherStart, OtherStart + i * BlockSize)
Replica(fl, h, tb, l) ==
  \A n \in 1 .. l : Cell(fl, h, n) = [valid |-> USED, name |-> tb[n - 1].name, length |-> S]
CopyGood ==
  /\ Moving /\ i \in 0 .. lastFile
  /\ copied = <<OtherStart + 1 + i, Starts(flash, OtherHalf, i)
                                      - (IF pc = "copyHeader" THEN S ELSE 0)>>
  /\ pc = "copyHeader" => i < lastFile
  /\ Replica(flash, OtherHalf, files, i)
  /\ \A n \in 0 .. i : Starts(flash, OtherHalf, n) = OtherStart + DataEnd(S, n, 0)
  /\ flash[OtherStart] = Blank
  /\ BlankFrom(flash, OtherStart + 1 + i, copied[2])
OtherGood ==
  /\ flash[OtherStart].valid = USED /\ HalfGood(flash, OtherHalf, lastFile)
  /\ Replica(flash, OtherHalf, files, lastFile)
  /\ \A j, k \in 0 .. lastFile - 1 : files[j].name = files[k].name => j = k
UnvalidateGood ==
  /\ flash[HalfStart(half)].valid = USED
  /\ HalfGood(flash, half, M) /\ end = Starts(flash, half, M)
  /\ OneOfEach(flash, half, UsedIn(flash, half, M))
  /\ Table(flash, files, lastFile, half, UsedIn(flash, half, M)) /\ NoMore
  /\ Writes /\ OtherGood /\ i = 0
Apart(tb, last, from, to) ==
  /\ \A k \in 0 .. last - 1 : tb[k].start > from /\ tb[k].start + tb[k].length <= to
  /\ \A j, k \in 0 .. last - 1 :
       j # k => \/ tb[j].start + tb[j].length <= tb[k].start
                \/ tb[k].start + tb[k].length <= tb[j].start
EraseCurrentGood ==
  /\ flash[HalfStart(half)].valid # USED /\ NoMore /\ Writes /\ OtherGood
  /\ i \in 0 .. BlocksPerHalf - 1
  /\ Apart(files, lastFile, next, HalfStart(half) + HALF_SIZE)
  /\ flash[next] = Blank /\ M \in 0 .. HALF_SIZE - 2

Phases ==
  /\ pc = "off" => OffGood
  /\ pc = "format" => FormatGood
  /\ pc = "restore" => RestoreGood
  /\ pc \in {"idle", "return"} => Settled
  /\ pc = "find" => FindGood
  /\ pc \in {"room", "roomAgain"} => RoomGood
  /\ pc \in {"data", "header"} => DataGood
  /\ pc = "use" => UseGood
  /\ pc = "supersede" => SupersedeGood
  /\ pc = "eraseNext" => EraseNextGood
  /\ pc \in {"copyData", "copyHeader"} => CopyGood
  /\ pc = "unvalidate" => UnvalidateGood
  /\ pc = "eraseCurrent" => EraseCurrentGood
FilesInv == TypeOK /\ Phases

-----------------------------------------------------------------------------
(***************************************************************************)
(* The constants.                                                          *)
(***************************************************************************)
LEMMA Geometry ==
  /\ HALF_SIZE \in Nat /\ HALF_SIZE > 1 /\ FlashSize \in Nat /\ FlashSize > 2 * HALF_SIZE
  /\ BatchSize \in Nat /\ BatchSize > 1 /\ F \in Nat /\ F > 0 /\ FieldSize = F + 1
  /\ Addresses = 0 .. FlashSize - 1
BY GeometryAssumption DEF HALF_SIZE, F, Addresses

LEMMA SizeFits == S \in 1 .. F /\ Fits(S)
<1>1. \E size \in 1 .. F : Fits(size)
  BY RoomAssumption, Zenon DEF Fits, F
<1> QED BY <1>1, Zenon DEF S

\* Data comes down by the size of a file, or of a phantom.
LEMMA DataEnds ==
  /\ DataEnd(S, 0, 0) = HALF_SIZE
  /\ \A n, p \in Int : /\ DataEnd(S, n, p) \in Int
                       /\ DataEnd(S, n + 1, p) = DataEnd(S, n, p) - S
                       /\ DataEnd(S, n + 1, p + 1) = DataEnd(S, n, p) - F
<1>1. S \in Int /\ F \in Int /\ HALF_SIZE \in Int /\ FieldSize - 1 = F
  BY SizeFits, Geometry
<1>2. \A a, b, c \in Int : ((a + 1) - b) * c = (a - b) * c + c /\ (a + 1) * c = a * c + c
  BY SMT
<1>3. ASSUME NEW n \in Int, NEW p \in Int
      PROVE  /\ DataEnd(S, n, p) \in Int
             /\ DataEnd(S, n + 1, p) = DataEnd(S, n, p) - S
             /\ DataEnd(S, n + 1, p + 1) = DataEnd(S, n, p) - F
  <2> DEFINE x == (n - p) * S
             y == p * F
  <2>1. x \in Int /\ y \in Int
    BY <1>1
  <2>2. ((n + 1) - p) * S = x + S /\ (p + 1) * F = y + F
    BY <1>1, <1>2
  <2>3. (n + 1) - (p + 1) = n - p
    OBVIOUS
  <2>4. \A a, b : DataEnd(S, a, b) = HALF_SIZE - (a - b) * S - b * F
    BY Zenon DEF DataEnd, F
  <2> HIDE DEF x, y
  <2>5. ((n + 1) - (p + 1)) * S = x
    BY <2>3 DEF x
  <2>6. /\ DataEnd(S, n, p) = HALF_SIZE - x - y
        /\ DataEnd(S, n + 1, p) = HALF_SIZE - (x + S) - y
        /\ DataEnd(S, n + 1, p + 1) = HALF_SIZE - x - (y + F)
    <3>1. DataEnd(S, n, p) = HALF_SIZE - x - y
      BY <2>4, Zenon DEF x, y
    <3>2. DataEnd(S, n + 1, p) = HALF_SIZE - (x + S) - y
      BY <2>2, <2>4, Zenon DEF y
    <3>3. DataEnd(S, n + 1, p + 1) = HALF_SIZE - x - (y + F)
      BY <2>2, <2>4, <2>5, Zenon
    <3> QED BY <3>1, <3>2, <3>3
  <2> QED BY <1>1, <2>1, <2>6
<1>4. DataEnd(S, 0, 0) = HALF_SIZE
  BY <1>1 DEF DataEnd
<1> QED BY <1>3, <1>4

\* What the half leaves room for.
LEMMA RoomLeft ==
  ASSUME NEW n \in 0 .. HALF_SIZE, NEW p \in 0 .. Phantoms(n)
  PROVE  /\ DataEnd(S, n, p) # n + 1
         /\ n % BatchSize = 0 => DataEnd(S, n, p) # n + 2
         /\ DataEnd(S, n, p) > n => DataEnd(S, n, p) >= S + F
BY SizeFits, Zenon DEF Fits

LEMMA PhantomCount ==
  /\ Phantoms(0) = 0
  /\ \A n \in Nat : Phantoms(n) \in Nat /\ Phantoms(n + 1) >= Phantoms(n)
  /\ \A n \in Nat : n > 0 /\ n % BatchSize = 0 => Phantoms(n + 1) = Phantoms(n) + 1
<1> USE Geometry
<1>1. \A n, b \in Nat : b > 1 => /\ n \div b \in Nat /\ (n + 1) \div b >= n \div b
                                 /\ (n + 1) % b = 0 => (n + 1) \div b = n \div b + 1
  <2> SUFFICES ASSUME NEW n \in Nat, NEW b \in Nat, b > 1
               PROVE  /\ n \div b \in Nat /\ (n + 1) \div b >= n \div b
                      /\ (n + 1) % b = 0 => (n + 1) \div b = n \div b + 1
    OBVIOUS
  <2> QED BY SMT
<1>2. ASSUME NEW n \in Nat PROVE Phantoms(n) \in Nat /\ Phantoms(n + 1) = n \div BatchSize
  BY <1>1 DEF Phantoms
<1>3. Phantoms(0) = 0
  BY DEF Phantoms
<1>4. ASSUME NEW n \in Nat PROVE Phantoms(n + 1) >= Phantoms(n)
  <2>1. CASE n = 0
    BY <2>1, <1>2, <1>3
  <2>2. CASE n > 0
    <3>1. PICK k \in Nat : n = k + 1
      BY <2>2
    <3>2. Phantoms(n + 1) = n \div BatchSize /\ Phantoms(k + 1) = k \div BatchSize
      BY <1>2, <3>1
    <3>3. (k + 1) \div BatchSize >= k \div BatchSize
      BY <1>1
    <3> QED BY <3>1, <3>2, <3>3
  <2> QED BY <2>1, <2>2
<1>5. ASSUME NEW n \in Nat, n > 0, n % BatchSize = 0 PROVE Phantoms(n + 1) = Phantoms(n) + 1
  <2>1. PICK k \in Nat : n = k + 1
    BY <1>5
  <2> QED BY <2>1, <1>1, <1>2, <1>5, ZenonT(30)
<1> QED BY <1>2, <1>3, <1>4, <1>5

BothHalves == {0, 1}
Flashes == [Addresses -> Headers]

LEMMA Halves ==
  /\ 0 \in BothHalves /\ 1 \in BothHalves /\ \A h \in BothHalves : 1 - h \in BothHalves
  /\ HalfStart(0) = 0 /\ HalfStart(1) = HALF_SIZE
  /\ \A h \in BothHalves : /\ HalfStart(h) \in Nat /\ HalfStart(h) + HALF_SIZE <= 2 * HALF_SIZE
                       /\ HalfStart(h) + HALF_SIZE < FlashSize
                       /\ \/ HalfStart(h) = HalfStart(1 - h) + HALF_SIZE
                          \/ HalfStart(1 - h) = HalfStart(h) + HALF_SIZE
                       /\ HalfOf(h) = HalfStart(h) .. HalfStart(h) + HALF_SIZE - 1
                       /\ HalfOf(h) \subseteq Addresses
BY Geometry DEF HalfStart, HalfOf, BothHalves

LEMMA SmallMod == \A x, n \in Int : 0 <= x /\ x < n => x % n = x
OBVIOUS

-----------------------------------------------------------------------------
(***************************************************************************)
(* Where the data of the headers starts.                                   *)
(***************************************************************************)
\* Every set of naturals with an element has a least one.
LEMMA LeastNatural ==
  ASSUME NEW N, N \subseteq Nat, N # {}
  PROVE  \E k \in N : \A j \in N : k <= j
<1> DEFINE Less == {ss \in Nat \X Nat : ss[1] < ss[2]}
<1>1. IsWellFoundedOn(Less, Nat)
  BY NatLessThanWellFounded, Zenon DEF OpToRel
<1> HIDE DEF Less
<1>2. PICK k \in N : \A y \in N : ~ (<<y, k>> \in Less)
  BY <1>1, WFMin
<1>3. \A y \in N : ~(y < k)
  BY <1>2 DEF Less
<1> QED BY <1>3

\* The recursive definition of DataStart defines a function.
LEMMA StartExists ==
  ASSUME NEW A \in Nat, NEW len, \A b \in A .. A + HALF_SIZE - 1 : len[b] \in Int
  PROVE  \E s \in [A .. A + HALF_SIZE - 1 -> Int] :
           /\ s[A] = A + HALF_SIZE
           /\ \A b \in A + 1 .. A + HALF_SIZE - 1 : s[b] = s[b - 1] - len[b]
<1> DEFINE Upto(n, s) == /\ s[A] = A + HALF_SIZE
                         /\ \A b \in A + 1 .. A + n : s[b] = s[b - 1] - len[b]
           Has(n) == \E s \in [A .. A + n -> Int] : Upto(n, s)
           Bad == {n \in 0 .. HALF_SIZE - 1 : ~Has(n)}
<1>1. ASSUME Bad # {} PROVE FALSE
  <2>0. Bad \subseteq Nat
    BY Geometry
  <2>1. PICK k \in Bad : \A j \in Bad : k <= j
    <3> HIDE DEF Bad
    <3> QED BY <1>1, <2>0, LeastNatural, Zenon
  <2>2. CASE k = 0
    <3> DEFINE s == [b \in A .. A |-> A + HALF_SIZE]
    <3>1. s \in [A .. A + 0 -> Int] /\ Upto(0, s)
      BY Geometry
    <3> QED BY <3>1, <2>2
  <2>3. CASE k > 0
    <3>0. k \in 0 .. HALF_SIZE - 1
      BY <2>1
    <3>1. k - 1 \in 0 .. HALF_SIZE - 1 /\ k - 1 \notin Bad /\ k \in Nat
      <4> HIDE DEF Bad
      <4> QED BY <3>0, <2>1, <2>3, Geometry
    <3>2. PICK s \in [A .. A + (k - 1) -> Int] : Upto(k - 1, s)
      BY <3>1, Zenon
    <3> DEFINE t == [b \in A .. A + k |-> IF b = A + k THEN s[A + (k - 1)] - len[A + k] ELSE s[b]]
    <3>3. A + k \in A .. A + HALF_SIZE - 1
      BY <2>1, Geometry
    <3>4. t \in [A .. A + k -> Int]
      <4>1. ASSUME NEW b \in A .. A + k
            PROVE (IF b = A + k THEN s[A + (k - 1)] - len[A + k] ELSE s[b]) \in Int
        <5>1. CASE b = A + k
          <6>1. s[A + (k - 1)] \in Int
            BY <3>1, <3>2
          <6> QED BY <5>1, <6>1, <3>3
        <5>2. CASE b # A + k
          BY <5>2, <3>1
        <5> QED BY <5>1, <5>2
      <4> QED BY <4>1
    <3>5. ASSUME NEW b \in A .. A + k, b # A + k PROVE t[b] = s[b]
      BY <3>5
    <3>6. t[A + k] = s[A + (k - 1)] - len[A + k]
      BY <3>1
    <3> HIDE DEF t
    <3>7. t[A] = A + HALF_SIZE
      BY <3>1, <3>2, <3>5, <2>3
    <3>8. ASSUME NEW b \in A + 1 .. A + k PROVE t[b] = t[b - 1] - len[b]
      <4>1. CASE b = A + k
        <5>1. b - 1 = A + (k - 1) /\ b - 1 \in A .. A + k /\ b - 1 # A + k
          BY <4>1, <3>1, <2>3
        <5> QED BY <5>1, <4>1, <3>5, <3>6
      <4>2. CASE b # A + k
        <5>1. b - 1 \in A .. A + k /\ b - 1 # A + k /\ b \in A .. A + k /\ b \in A + 1 .. A + (k - 1)
          BY <4>2, <3>1, <2>3
        <5> QED BY <5>1, <4>2, <3>2, <3>5
      <4> QED BY <4>1, <4>2
    <3> QED BY <3>4, <3>7, <3>8, <2>1
  <2> QED BY <2>1, <2>2, <2>3, Geometry
<1>2. HALF_SIZE - 1 \in 0 .. HALF_SIZE - 1
  BY Geometry
<1>3. Has(HALF_SIZE - 1)
  BY <1>1, <1>2
<1>4. A + (HALF_SIZE - 1) = A + HALF_SIZE - 1
  BY Geometry
<1> QED BY <1>3, <1>4

LEMMA LengthsAre ==
  ASSUME NEW fl \in Flashes, NEW a \in Addresses
  PROVE  /\ fl[a] \in Headers /\ fl[a].length \in 0 .. F /\ fl[a].length \in Int
         /\ fl[a].valid \in 0 .. 3 /\ fl[a].name \in Fields
BY Geometry DEF Headers, F, Flashes

LEMMA StartRule ==
  ASSUME NEW fl \in Flashes, NEW h \in BothHalves
  PROVE  /\ Starts(fl, h, 0) = HalfStart(h) + HALF_SIZE
         /\ \A n \in 0 .. HALF_SIZE - 1 : Starts(fl, h, n) \in Int
         /\ \A n \in 1 .. HALF_SIZE - 1 : Starts(fl, h, n) = Starts(fl, h, n - 1) - Cell(fl, h, n).length
<1> DEFINE A == HalfStart(h)
           D == A .. A + HALF_SIZE - 1
           len == [b \in D |-> fl[b].length]
           Rule(s) == s = [b \in HalfOf(h) |-> IF b = HalfStart(h) THEN HalfStart(h) + HALF_SIZE
                                               ELSE s[b - 1] - fl[b].length]
           s0 == StartsOf(fl, h)
<1>1. A \in Nat /\ HalfOf(h) = D /\ D \subseteq Addresses
  BY Halves
<1>2. \A b \in D : len[b] \in Int /\ len[b] = fl[b].length
  BY <1>1, LengthsAre
<1> HIDE DEF len, A
<1>3. PICK s \in [D -> Int] : s[A] = A + HALF_SIZE /\ \A b \in A + 1 .. A + HALF_SIZE - 1 : s[b] = s[b - 1] - len[b]
  BY <1>1, <1>2, StartExists
<1>4. Rule(s)
  <2>1. \A b \in D : s[b] = IF b = A THEN A + HALF_SIZE ELSE s[b - 1] - fl[b].length
    <3> TAKE b \in D
    <3>1. b # A => b \in A + 1 .. A + HALF_SIZE - 1
      BY <1>1
    <3> QED BY <3>1, <1>2, <1>3
  <2>2. s = [b \in D |-> s[b]]
    BY <1>3
  <2>3. s = [b \in D |-> IF b = A THEN A + HALF_SIZE ELSE s[b - 1] - fl[b].length]
    BY <2>1, <2>2
  <2> QED BY <2>3, <1>1, Zenon DEF A
<1>5. Rule(s0)
  BY <1>4, Zenon DEF StartsOf
<1>6. \A b \in D : s0[b] = IF b = A THEN A + HALF_SIZE ELSE s0[b - 1] - fl[b].length
  BY <1>5, <1>1 DEF A
<1>7. \A n \in 0 .. HALF_SIZE - 1 : A + n \in D /\ (n # 0 => A + n # A /\ A + n - 1 = A + (n - 1))
  BY <1>1, Geometry
<1>8. \A n \in 1 .. HALF_SIZE - 1 : s0[A + n] = s0[A + (n - 1)] - fl[A + n].length
  <2> TAKE n \in 1 .. HALF_SIZE - 1
  <2>1. n \in 0 .. HALF_SIZE - 1 /\ n # 0
    BY Geometry
  <2>2. A + n \in D /\ A + n # A /\ A + n - 1 = A + (n - 1)
    BY <2>1, <1>7
  <2> HIDE DEF s0, D
  <2>3. s0[A + n] = s0[(A + n) - 1] - fl[A + n].length
    BY <1>6, <2>2
  <2>4. (A + n) - 1 = A + (n - 1)
    BY <1>1
  <2> QED BY <2>3, <2>4
<1>9. s0[A + 0] = A + HALF_SIZE
  BY <1>1, <1>6, <1>7, Geometry
<1>10. \A n \in 0 .. HALF_SIZE - 1 : s0[A + n] \in Int
  \* The least place where it is none would follow one where it is.
  <2> DEFINE Bad == {n \in 0 .. HALF_SIZE - 1 : s0[A + n] \notin Int}
  <2> HIDE DEF s0
  <2> SUFFICES ASSUME Bad # {} PROVE FALSE
    OBVIOUS
  <2>0. Bad \subseteq Nat
    BY Geometry
  <2>1. PICK k \in Bad : \A j \in Bad : k <= j
    <3> HIDE DEF Bad
    <3> QED BY <2>0, LeastNatural, Zenon
  <2>2. k \in 0 .. HALF_SIZE - 1 /\ s0[A + k] \notin Int
    BY <2>1
  <2>3. k # 0
    BY <2>2, <1>9, <1>1, Geometry
  <2>4. k - 1 \in 0 .. HALF_SIZE - 1 /\ k - 1 \notin Bad
    BY <2>1, <2>2, <2>3, Geometry
  <2>5. s0[A + (k - 1)] \in Int
    BY <2>4
  <2>6. A + k \in D /\ fl[A + k].length \in Int
    BY <2>2, <1>1, <1>7, LengthsAre
  <2>7. s0[A + k] = s0[A + (k - 1)] - fl[A + k].length
    BY <2>2, <2>3, <1>8, Geometry
  <2> QED BY <2>2, <2>5, <2>6, <2>7
<1> QED BY <1>8, <1>9, <1>10, Zenon DEF A, Starts, Cell

\* DataStart is the function of the invariant.
LEMMA StartIsData == \A h, a : DataStart(h, a) = StartsOf(flash, h)[a]
BY Zenon DEF DataStart, StartsOf

LEMMA StartsSame ==
  ASSUME NEW fl \in Flashes, NEW gl \in Flashes, NEW h \in BothHalves,
         NEW m \in 0 .. HALF_SIZE - 1,
         \A n \in 1 .. m : Cell(gl, h, n).length = Cell(fl, h, n).length
  PROVE  \A n \in 0 .. m : Starts(gl, h, n) = Starts(fl, h, n)
<1> DEFINE Bad == {n \in 0 .. m : Starts(gl, h, n) # Starts(fl, h, n)}
<1> SUFFICES ASSUME Bad # {} PROVE FALSE
  OBVIOUS
<1>0. Bad \subseteq Nat
  OBVIOUS
<1>1. PICK k \in Bad : \A j \in Bad : k <= j
  <2> HIDE DEF Bad
  <2> QED BY <1>0, LeastNatural, Zenon
<1>2. k \in 0 .. m /\ Starts(gl, h, k) # Starts(fl, h, k)
  BY <1>1
<1>3. k # 0
  BY <1>2, StartRule
<1>4. k - 1 \in 0 .. m /\ k - 1 \notin Bad
  <2> HIDE DEF Bad
  <2> QED BY <1>1, <1>2, <1>3
<1>5. Starts(gl, h, k - 1) = Starts(fl, h, k - 1)
  BY <1>4
<1>6. k \in 1 .. HALF_SIZE - 1 /\ k \in 1 .. m
  BY <1>2, <1>3, Geometry
<1>7. /\ Starts(fl, h, k) = Starts(fl, h, k - 1) - Cell(fl, h, k).length
      /\ Starts(gl, h, k) = Starts(gl, h, k - 1) - Cell(gl, h, k).length
  BY <1>6, StartRule, Zenon
<1> QED BY <1>2, <1>5, <1>6, <1>7

LEMMA CellsAre ==
  ASSUME NEW fl \in Flashes, NEW h \in BothHalves, NEW n \in 0 .. HALF_SIZE - 1
  PROVE  /\ HalfStart(h) + n \in Addresses /\ Cell(fl, h, n) \in Headers
         /\ Cell(fl, h, n).length \in 0 .. F /\ Cell(fl, h, n).valid \in 0 .. 3
<1>1. HalfStart(h) + n \in Addresses
  <2>1. HalfStart(h) \in Nat /\ HalfStart(h) + HALF_SIZE < FlashSize
    BY Halves
  <2> QED BY <2>1, Geometry
<1> QED BY <1>1, LengthsAre DEF Cell

\* The data of a header is below that of those before it.
LEMMA StartsDescend ==
  ASSUME NEW fl \in Flashes, NEW h \in BothHalves
  PROVE  /\ \A j, k \in 0 .. HALF_SIZE - 1 : j <= k => Starts(fl, h, k) <= Starts(fl, h, j)
         /\ \A j, k \in 0 .. HALF_SIZE - 1 :
              j < k => Starts(fl, h, k) + Cell(fl, h, k).length <= Starts(fl, h, j)
<1>1. ASSUME NEW j \in 0 .. HALF_SIZE - 1
      PROVE  \A k \in 0 .. HALF_SIZE - 1 : j <= k => Starts(fl, h, k) <= Starts(fl, h, j)
  <2> DEFINE Bad == {k \in 0 .. HALF_SIZE - 1 : j <= k /\ ~(Starts(fl, h, k) <= Starts(fl, h, j))}
  <2> SUFFICES ASSUME Bad # {} PROVE FALSE
    OBVIOUS
  <2>0. Bad \subseteq Nat
    BY Geometry
  <2>1. PICK k \in Bad : \A l \in Bad : k <= l
    <3> HIDE DEF Bad
    <3> QED BY <2>0, LeastNatural, Zenon
  <2>2. k \in 0 .. HALF_SIZE - 1 /\ j <= k /\ ~(Starts(fl, h, k) <= Starts(fl, h, j))
    BY <2>1
  <2>3. k # j /\ Starts(fl, h, j) \in Int /\ Starts(fl, h, k) \in Int
    BY <2>2, StartRule
  <2>4. k - 1 \in 0 .. HALF_SIZE - 1 /\ j <= k - 1 /\ k - 1 \notin Bad
    <3>1. k \in Int /\ j \in Int /\ k - 1 \in 0 .. HALF_SIZE - 1 /\ j <= k - 1
      BY <2>2, <2>3, Geometry
    <3> HIDE DEF Bad
    <3> QED BY <3>1, <2>1
  <2>5. Starts(fl, h, k - 1) <= Starts(fl, h, j) /\ Starts(fl, h, k - 1) \in Int
    BY <2>4, StartRule
  <2>6. k \in 1 .. HALF_SIZE - 1
    BY <2>2, <2>4, Geometry
  <2>7. Starts(fl, h, k) = Starts(fl, h, k - 1) - Cell(fl, h, k).length
    BY <2>6, StartRule, Zenon
  <2>8. Cell(fl, h, k).length \in 0 .. F
    BY <2>2, CellsAre
  <2> QED BY <2>2, <2>3, <2>5, <2>7, <2>8, Geometry
<1>2. ASSUME NEW j \in 0 .. HALF_SIZE - 1, NEW k \in 0 .. HALF_SIZE - 1, j < k
      PROVE  Starts(fl, h, k) + Cell(fl, h, k).length <= Starts(fl, h, j)
  <2>1. k \in 1 .. HALF_SIZE - 1 /\ k - 1 \in 0 .. HALF_SIZE - 1 /\ j <= k - 1
    BY <1>2, Geometry
  <2>2. Starts(fl, h, k) = Starts(fl, h, k - 1) - Cell(fl, h, k).length
    BY <2>1, StartRule, Zenon
  <2>3. Starts(fl, h, k - 1) <= Starts(fl, h, j)
    BY <2>1, <1>1
  <2>4. Starts(fl, h, k - 1) \in Int /\ Starts(fl, h, j) \in Int /\ Cell(fl, h, k).length \in Int
    BY <2>1, StartRule, CellsAre
  <2> QED BY <2>2, <2>3, <2>4
<1> QED BY <1>1, <1>2

-----------------------------------------------------------------------------
(***************************************************************************)
(* Halves.                                                                 *)
(***************************************************************************)
LEMMA HalfFacts ==
  ASSUME NEW fl \in Flashes, NEW h \in BothHalves, NEW m, HalfGood(fl, h, m)
  PROVE  /\ m \in 0 .. HALF_SIZE - 2 /\ Cell(fl, h, m + 1) = Blank
         /\ \A n \in 0 .. m : Starts(fl, h, n) \in HalfStart(h) + S .. HalfStart(h) + HALF_SIZE
         /\ Starts(fl, h, m) > HalfStart(h) + m + 1 =>
              BlankFrom(fl, HalfStart(h) + m + 1, Starts(fl, h, m))
         /\ \A n \in UsedIn(fl, h, m) :
              /\ Cell(fl, h, n).length = S /\ Cell(fl, h, n).name \in Names
              /\ Starts(fl, h, n) > HalfStart(h) + m + 1
<1> USE Geometry
<1>1. PICK d \in {m, m - 1} : Space(fl, h, m, d)
  BY DEF HalfGood
<1>2. m \in 0 .. HALF_SIZE - 1 /\ HeadersGood(fl, h, m)
  BY DEF HalfGood
<1>3. HalfStart(h) \in Nat /\ S \in 1 .. F /\ HalfStart(h) + HALF_SIZE < FlashSize
  BY Halves, SizeFits
<1>4. d \in 0 .. HALF_SIZE - 1 /\ d \in 0 .. m
  BY <1>1, <1>2 DEF Space
<1>5. /\ Starts(fl, h, d) \in Int /\ Starts(fl, h, m) \in Int
      /\ Starts(fl, h, d) <= HalfStart(h) + HALF_SIZE /\ Starts(fl, h, m) <= Starts(fl, h, d)
  <2>1. 0 \in 0 .. HALF_SIZE - 1 /\ 0 <= d /\ d <= m
    BY <1>4, <1>2
  <2> QED BY <2>1, <1>2, <1>4, StartRule, StartsDescend
<1>6. m + 1 \in 0 .. HALF_SIZE - 1 /\ m \in 0 .. HALF_SIZE - 2
  BY <1>1, <1>2, <1>3, <1>5 DEF Space
<1>7. Cell(fl, h, m + 1) = Blank
  <2>1. HalfStart(h) + (m + 1) \in Addresses
    BY <1>6, CellsAre
  <2>2. HalfStart(h) + m + 1 = HalfStart(h) + (m + 1)
    BY <1>2, <1>3
  <2> QED BY <1>1, <1>2, <1>3, <2>1, <2>2 DEF Space, BlankFrom, Cell
<1>8. Starts(fl, h, m) >= HalfStart(h) + S
  <2>1. PICK p \in 0 .. Phantoms(d) : Starts(fl, h, d) = HalfStart(h) + DataEnd(S, d, p)
    BY <1>2, <1>4, Zenon DEF HeadersGood, Chained
  <2>2. p \in Int /\ DataEnd(S, d, p) \in Int
    BY <1>4, DataEnds
  <2>3. DataEnd(S, d, p) > d
    BY <1>1, <1>2, <1>3, <1>4, <2>1, <2>2 DEF Space
  <2>4. DataEnd(S, d, p) >= S + F
    <3>1. d \in 0 .. HALF_SIZE
      BY <1>4
    <3> QED BY <3>1, <2>3, RoomLeft
  <2>5. CASE d = m
    BY <2>5, <2>1, <2>2, <2>4, <1>3
  <2>6. CASE d # m
    <3>1. d = m - 1 /\ m \in 1 .. HALF_SIZE - 1 /\ Cell(fl, h, m).length = F
      BY <2>6, <1>1, <1>2, <1>4 DEF Space, IsPhantom
    <3>2. Starts(fl, h, m) = Starts(fl, h, m - 1) - Cell(fl, h, m).length
      BY <3>1, StartRule, Zenon
    <3> QED BY <3>1, <3>2, <2>1, <2>2, <2>4, <1>3
  <2> QED BY <2>5, <2>6
<1>9. \A n \in 0 .. m : Starts(fl, h, n) \in HalfStart(h) + S .. HalfStart(h) + HALF_SIZE
  <2> TAKE n \in 0 .. m
  <2>1. n \in 0 .. HALF_SIZE - 1 /\ n <= m /\ 0 <= n /\ 0 \in 0 .. HALF_SIZE - 1
    BY <1>2
  <2>2. /\ Starts(fl, h, n) \in Int /\ Starts(fl, h, n) >= Starts(fl, h, m)
        /\ Starts(fl, h, n) <= Starts(fl, h, 0) /\ Starts(fl, h, 0) = HalfStart(h) + HALF_SIZE
    BY <2>1, <1>2, StartRule, StartsDescend
  <2> QED BY <2>2, <1>3, <1>5, <1>8
<1>10. ASSUME Starts(fl, h, m) > HalfStart(h) + m + 1
       PROVE  BlankFrom(fl, HalfStart(h) + m + 1, Starts(fl, h, m))
  <2>1. ASSUME NEW a \in Addresses, HalfStart(h) + m + 1 <= a, a < Starts(fl, h, m) PROVE fl[a] = Blank
    <3>1. a < Starts(fl, h, d)
      BY <2>1, <1>5
    <3> QED BY <3>1, <2>1, <1>1 DEF Space, BlankFrom
  <2> QED BY <2>1 DEF BlankFrom
<1>11. ASSUME NEW n \in UsedIn(fl, h, m)
       PROVE  /\ Cell(fl, h, n).length = S /\ Cell(fl, h, n).name \in Names
              /\ Starts(fl, h, n) > HalfStart(h) + m + 1
  <2>1. n \in 1 .. m /\ Cell(fl, h, n).valid = USED /\ IsHeader(fl, h, n)
    BY <1>2 DEF UsedIn, HeadersGood
  <2>2. ~IsPhantom(fl, h, n)
    BY <2>1 DEF IsPhantom, USED, DELETED
  <2>3. n <= d
    BY <2>1, <2>2, <1>1, <1>2 DEF Space
  <2>4. Starts(fl, h, d) <= Starts(fl, h, n) /\ Starts(fl, h, n) \in Int
    <3>1. n \in 0 .. HALF_SIZE - 1
      BY <2>1, <1>2
    <3> QED BY <3>1, <2>3, <1>4, StartRule, StartsDescend
  <2>5. Starts(fl, h, d) > HalfStart(h) + m + 1
    BY <1>1 DEF Space
  <2> QED BY <2>1, <2>2, <2>4, <2>5, <1>2, <1>3, <1>5 DEF IsHeader
<1> QED BY <1>6, <1>7, <1>9, <1>10, <1>11

\* Headers change, but not their length: only bits of their status are cleared.
LEMMA HalfMarked ==
  ASSUME NEW fl \in Flashes, NEW gl \in Flashes, NEW h \in BothHalves,
         NEW m, HalfGood(fl, h, m),
         \A n \in 1 .. m : /\ IsHeader(gl, h, n) /\ Cell(gl, h, n).length = Cell(fl, h, n).length
                           /\ IsPhantom(fl, h, n) => IsPhantom(gl, h, n),
         \A n \in m + 1 .. HALF_SIZE - 1 : Cell(gl, h, n) = Cell(fl, h, n)
  PROVE  HalfGood(gl, h, m) /\ \A n \in 0 .. m : Starts(gl, h, n) = Starts(fl, h, n)
<1> USE Geometry
<1>1. m \in 0 .. HALF_SIZE - 1 /\ HeadersGood(fl, h, m)
  BY DEF HalfGood
<1>2. PICK d \in {m, m - 1} : Space(fl, h, m, d)
  BY DEF HalfGood
<1>3. \A n \in 0 .. m : Starts(gl, h, n) = Starts(fl, h, n)
  BY <1>1, StartsSame
<1>4. HeadersGood(gl, h, m)
  <2>1. ASSUME NEW n \in 0 .. m PROVE Chained(gl, h, n)
    <3>1. Chained(fl, h, n)
      BY <1>1 DEF HeadersGood
    <3> QED BY <3>1, <1>3, Zenon DEF Chained
  <2> QED BY <2>1 DEF HeadersGood
<1>5. d \in 0 .. m
  BY <1>1, <1>2 DEF Space
<1>6. Space(gl, h, m, d)
  <2>1. d = m - 1 => IsPhantom(gl, h, m)
    BY <1>1, <1>2 DEF Space
  <2>2. BlankFrom(gl, HalfStart(h) + m + 1, Starts(fl, h, d))
    <3> SUFFICES ASSUME NEW a \in Addresses, HalfStart(h) + m + 1 <= a, a < Starts(fl, h, d)
                 PROVE  gl[a] = Blank
      BY DEF BlankFrom
    <3>1. fl[a] = Blank
      BY <1>2 DEF Space, BlankFrom
    <3>2. Starts(fl, h, d) <= HalfStart(h) + HALF_SIZE
      BY <1>5, HalfFacts
    <3>3. HalfStart(h) \in Nat /\ a \in Nat /\ Starts(fl, h, d) \in Int
      <4>1. d \in 0 .. HALF_SIZE - 1
        BY <1>1, <1>5
      <4>2. Starts(fl, h, d) \in Int
        BY <4>1, StartRule
      <4>3. HalfStart(h) \in Nat
        BY Halves
      <4> QED BY <4>2, <4>3, Geometry
    <3> DEFINE n == a - HalfStart(h)
    <3>4. n \in m + 1 .. HALF_SIZE - 1 /\ HalfStart(h) + n = a
      BY <3>2, <3>3, <1>1
    <3>5. gl[HalfStart(h) + n] = fl[HalfStart(h) + n]
      <4> HIDE DEF n
      <4> QED BY <3>4 DEF Cell
    <3> QED BY <3>1, <3>4, <3>5
  <2>3. Starts(gl, h, d) = Starts(fl, h, d)
    BY <1>3, <1>5
  <2> QED BY <1>2, <2>1, <2>2, <2>3 DEF Space
<1> QED BY <1>1, <1>3, <1>4, <1>6 DEF HalfGood

\* The half is not written to, but for its signature.
LEMMA HalfSame ==
  ASSUME NEW fl \in Flashes, NEW gl \in Flashes, NEW h \in BothHalves,
         NEW m, HalfGood(fl, h, m),
         \A n \in 1 .. HALF_SIZE - 1 : Cell(gl, h, n) = Cell(fl, h, n)
  PROVE  /\ HalfGood(gl, h, m) /\ \A n \in 0 .. m : Starts(gl, h, n) = Starts(fl, h, n)
         /\ \A n \in 1 .. m : Cell(gl, h, n) = Cell(fl, h, n)
         /\ UsedIn(gl, h, m) = UsedIn(fl, h, m)
<1>1. m \in 0 .. HALF_SIZE - 1 /\ HeadersGood(fl, h, m)
  BY DEF HalfGood
<1>2. \A n \in 1 .. m : Cell(gl, h, n) = Cell(fl, h, n)
  BY <1>1, Geometry
<1>3. \A n \in m + 1 .. HALF_SIZE - 1 : Cell(gl, h, n) = Cell(fl, h, n)
  BY <1>1, Geometry
<1>4. \A n \in 1 .. m : /\ IsHeader(gl, h, n)
                        /\ IsPhantom(fl, h, n) => IsPhantom(gl, h, n)
  BY <1>1, <1>2 DEF HeadersGood, IsHeader, IsPhantom
<1>5. UsedIn(gl, h, m) = UsedIn(fl, h, m)
  BY <1>2 DEF UsedIn
<1> QED BY <1>2, <1>3, <1>4, <1>5, HalfMarked

-----------------------------------------------------------------------------
(***************************************************************************)
(* Flash commands.                                                         *)
(***************************************************************************)
\* gl is fl but for the cell at x, which is c.
Puts(fl, gl, x, c) ==
  /\ gl \in Flashes /\ gl[x] = c
  /\ \A a \in Addresses : a # x => gl[a] = fl[a]

LEMMA StatusIs ==
  /\ Blank = [valid |-> UNUSED, name |-> Ones, length |-> F] /\ Blank \in Headers
  /\ \A status \in 0 .. 3 : /\ Valid(status) = [valid |-> status, name |-> Ones, length |-> F]
                            /\ Valid(status) \in Headers
<1>1. Blank = [valid |-> UNUSED, name |-> Ones, length |-> F]
  BY DEF Blank, F
<1>2. UNUSED \in 0 .. 3 /\ Ones \in Fields /\ F \in 0 .. FieldSize - 1
  BY Geometry DEF UNUSED, Fields
<1>3. ASSUME NEW status \in 0 .. 3
      PROVE  Valid(status) = [valid |-> status, name |-> Ones, length |-> F]
  BY <1>1 DEF Valid
<1> QED BY <1>1, <1>2, <1>3 DEF Headers

LEMMA ProgrammedIs ==
  ASSUME NEW old \in Headers, NEW new \in Headers
  PROVE  /\ Programmed(old, new) \in Headers
         /\ Programmed(old, new).valid = Common(old.valid, new.valid, UNUSED, DELETED)
         /\ Programmed(Blank, new) = new
         /\ new.name = Ones /\ new.length = F =>
              Programmed(old, new) =
                [valid |-> Common(old.valid, new.valid, UNUSED, DELETED),
                 name |-> old.name, length |-> old.length]
<1> DEFINE v == Common(old.valid, new.valid, UNUSED, DELETED)
           n == Common(old.name, new.name, Ones, Mixed)
           l == Common(old.length, new.length, F, 0)
<1>1. Programmed(old, new) = [valid |-> v, name |-> n, length |-> l]
  BY DEF Programmed, F
<1>2. /\ old.valid \in 0 .. 3 /\ new.valid \in 0 .. 3 /\ old.name \in Fields /\ new.name \in Fields
      /\ old.length \in 0 .. FieldSize - 1 /\ new.length \in 0 .. FieldSize - 1
  BY DEF Headers
<1>3. v \in 0 .. 3
  BY <1>2 DEF Common, DELETED
<1>4. n \in Fields
  BY <1>2 DEF Common, Fields
<1>5. l \in 0 .. FieldSize - 1
  BY <1>2, Geometry DEF Common
<1>6. Programmed(Blank, new) = new
  <2>1. Programmed(Blank, new) = [valid |-> new.valid, name |-> new.name, length |-> new.length]
    BY StatusIs DEF Programmed, Common, F
  <2>2. new = [valid |-> new.valid, name |-> new.name, length |-> new.length]
    BY DEF Headers
  <2> QED BY <2>1, <2>2
<1>7. ASSUME new.name = Ones, new.length = F PROVE n = old.name /\ l = old.length
  BY <1>7 DEF Common
<1> HIDE DEF v, n, l
<1>8. Programmed(old, new) \in Headers /\ Programmed(old, new).valid = v
  BY <1>1, <1>3, <1>4, <1>5 DEF Headers
<1> QED BY <1>1, <1>6, <1>7, <1>8 DEF v

\* A blank cell takes what is written; a status clears only bits of the status.
LEMMA OneWritten ==
  ASSUME flash \in Flashes, NEW x \in Addresses, NEW c \in Headers
  PROVE  /\ flash[x] = Blank => Puts(flash, Written(x, <<c>>), x, c)
         /\ c.name = Ones /\ c.length = F =>
              Puts(flash, Written(x, <<c>>), x,
                   [valid |-> Common(flash[x].valid, c.valid, UNUSED, DELETED),
                    name |-> flash[x].name, length |-> flash[x].length])
<1> DEFINE gl == Written(x, <<c>>)
<1>1. x \in Int /\ Len(<<c>>) = 1 /\ \A a \in Addresses : a \in x .. x + 1 - 1 <=> a = x
  BY Geometry
<1>2. x - x + 1 = 1 /\ <<c>>[1] = c
  BY <1>1
<1>3. \A a \in Addresses : gl[a] = IF a = x THEN Programmed(flash[x], c) ELSE flash[a]
  BY <1>1, <1>2 DEF Written
<1>4. Programmed(flash[x], c) \in Headers /\ flash[x] \in Headers
  <2>1. flash[x] \in Headers
    BY LengthsAre
  <2> QED BY <2>1, ProgrammedIs
<1>5. gl \in Flashes
  <2>1. gl = [a \in Addresses |-> gl[a]]
    BY DEF Written
  <2>2. \A a \in Addresses : gl[a] \in Headers
    BY <1>3, <1>4, LengthsAre
  <2> HIDE DEF gl
  <2> QED BY <2>1, <2>2 DEF Flashes
<1> HIDE DEF gl
<1>6. gl[x] = Programmed(flash[x], c) /\ \A a \in Addresses : a # x => gl[a] = flash[a]
  BY <1>3
<1>7. ASSUME flash[x] = Blank PROVE gl[x] = c
  BY <1>7, <1>6, ProgrammedIs
<1>8. ASSUME c.name = Ones, c.length = F
      PROVE  gl[x] = [valid |-> Common(flash[x].valid, c.valid, UNUSED, DELETED),
                      name |-> flash[x].name, length |-> flash[x].length]
  BY <1>4, <1>6, <1>8, ProgrammedIs
<1> QED BY <1>5, <1>6, <1>7, <1>8, Zenon DEF Puts, gl

PutsAt(fl, gl, h, n, c) == Puts(fl, gl, HalfStart(h) + n, c)

\* Only the status of the cell at x changes, to v.
Marks(fl, gl, x, v) ==
  /\ gl \in Flashes /\ \A a \in Addresses : a # x => gl[a] = fl[a]
  /\ gl[x].valid = v /\ gl[x].name = fl[x].name /\ gl[x].length = fl[x].length

MarksAt(fl, gl, h, n, v) == Marks(fl, gl, HalfStart(h) + n, v)

LEMMA StatusWritten ==
  ASSUME flash \in Flashes, NEW x \in Addresses
  PROVE  /\ Marks(flash, Written(x, <<Valid(DELETED)>>), x, DELETED)
         /\ flash[x].valid \in {USED, UNUSED} => Marks(flash, Written(x, <<Valid(USED)>>), x, USED)
         /\ flash[x] = Blank => /\ Puts(flash, Written(x, <<Valid(DELETED)>>), x, Valid(DELETED))
                                /\ Puts(flash, Written(x, <<Valid(USED)>>), x, Valid(USED))
<1>1. ASSUME NEW status \in {USED, DELETED}
      PROVE  LET v == Common(flash[x].valid, status, UNUSED, DELETED)
                 gl == Written(x, <<Valid(status)>>)
             IN /\ Puts(flash, gl, x, [valid |-> v, name |-> flash[x].name, length |-> flash[x].length])
                /\ flash[x] = Blank => Puts(flash, gl, x, Valid(status))
  <2>1. status \in 0 .. 3
    BY DEF USED, DELETED
  <2>2. /\ Valid(status) \in Headers /\ Valid(status).valid = status
        /\ Valid(status).name = Ones /\ Valid(status).length = F
    BY <2>1, StatusIs
  <2> DEFINE c == Valid(status)
             gl == Written(x, <<Valid(status)>>)
  <2>3. c \in Headers /\ c.valid = status /\ c.name = Ones /\ c.length = F /\ gl = Written(x, <<c>>)
    BY <2>2
  <2> HIDE DEF c, gl
  <2>4. /\ Puts(flash, gl, x, [valid |-> Common(flash[x].valid, status, UNUSED, DELETED),
                               name |-> flash[x].name, length |-> flash[x].length])
        /\ flash[x] = Blank => Puts(flash, gl, x, c)
    BY <2>3, OneWritten, Zenon
  <2> QED BY <2>4, Zenon DEF c, gl
<1>2. /\ Common(flash[x].valid, DELETED, UNUSED, DELETED) = DELETED
      /\ flash[x].valid \in {USED, UNUSED} => Common(flash[x].valid, USED, UNUSED, DELETED) = USED
  BY DEF Common, USED, DELETED, UNUSED
<1>3. ASSUME NEW gl, NEW v,
             Puts(flash, gl, x, [valid |-> v, name |-> flash[x].name, length |-> flash[x].length])
      PROVE  Marks(flash, gl, x, v)
  BY <1>3 DEF Puts, Marks
<1> QED BY <1>1, <1>2, <1>3, Zenon

\* A block of a half is erased.
LEMMA BlockErased ==
  ASSUME flash \in Flashes, NEW h \in BothHalves, NEW k \in 0 .. BlocksPerHalf - 1
  PROVE  LET gl == Erased(h * BlocksPerHalf + k) IN
         /\ gl \in Flashes
         /\ \A a \in Addresses : HalfStart(h) + k * BlockSize <= a
                                   /\ a < HalfStart(h) + (k + 1) * BlockSize => gl[a] = Blank
         /\ \A a \in Addresses : ~(HalfStart(h) + k * BlockSize <= a
                                   /\ a < HalfStart(h) + (k + 1) * BlockSize) => gl[a] = flash[a]
         /\ 0 <= k * BlockSize /\ (k + 1) * BlockSize <= HALF_SIZE
         /\ k * BlockSize \in Nat /\ (k + 1) * BlockSize = k * BlockSize + BlockSize
         /\ k + 1 = BlocksPerHalf => (k + 1) * BlockSize = HALF_SIZE
<1> DEFINE q == h * BlocksPerHalf + k
           gl == Erased(q)
<1>1. BlockSize \in Nat /\ BlockSize > 0 /\ BlocksPerHalf \in Nat /\ k \in Nat /\ HALF_SIZE \in Nat
  BY Geometry, GeometryAssumption
<1>2. \A a, n, b \in Nat : b > 0 => (a \div b = n <=> n * b <= a /\ a < n * b + b)
  BY SMT
<1>3. \A x, y, b \in Nat : (x + 1) * b = x * b + b /\ x * b \in Nat /\ (x + y) * b = x * b + y * b
                           /\ (x <= y => x * b <= y * b)
  BY SMT
<1>4. /\ (k + 1) * BlockSize = k * BlockSize + BlockSize /\ k * BlockSize \in Nat
      /\ (k + 1) * BlockSize <= HALF_SIZE
      /\ k + 1 = BlocksPerHalf => (k + 1) * BlockSize = HALF_SIZE
  <2>1. k + 1 \in Nat /\ k + 1 <= BlocksPerHalf
    BY <1>1
  <2>2. (k + 1) * BlockSize <= BlocksPerHalf * BlockSize
    BY <2>1, <1>1, <1>3
  <2> QED BY <2>2, <1>1, <1>3 DEF HALF_SIZE
<1>5. q \in Nat /\ q * BlockSize = HalfStart(h) + k * BlockSize
  <2>1. CASE h = 0
    BY <2>1, <1>1, <1>3, Halves
  <2>2. CASE h = 1
    <3>1. q = BlocksPerHalf + k
      BY <2>2, <1>1
    <3>2. (BlocksPerHalf + k) * BlockSize = BlocksPerHalf * BlockSize + k * BlockSize
      BY <1>1, <1>3
    <3>3. HalfStart(h) = BlocksPerHalf * BlockSize
      BY <2>2, Halves DEF HALF_SIZE
    <3> QED BY <3>1, <3>2, <3>3, <1>1
  <2> QED BY <2>1, <2>2 DEF BothHalves
<1>6. gl = [a \in Addresses |-> IF a \div BlockSize = q THEN Blank ELSE flash[a]]
  BY DEF Erased
<1> HIDE DEF q, gl
<1>7. ASSUME NEW a \in Addresses
      PROVE  a \div BlockSize = q <=> /\ HalfStart(h) + k * BlockSize <= a
                                      /\ a < HalfStart(h) + (k + 1) * BlockSize
  <2>1. a \in Nat
    BY Geometry
  <2>2. a \div BlockSize = q <=> q * BlockSize <= a /\ a < q * BlockSize + BlockSize
    BY <2>1, <1>1, <1>2, <1>5
  <2>3. HalfStart(h) \in Nat
    BY Halves
  <2>4. q * BlockSize + BlockSize = HalfStart(h) + (k + 1) * BlockSize
    BY <2>3, <1>1, <1>4, <1>5
  <2> QED BY <2>2, <2>4, <1>5
<1>8. gl \in Flashes
  BY <1>6, StatusIs DEF Flashes
<1>9. \A a \in Addresses : gl[a] = IF a \div BlockSize = q THEN Blank ELSE flash[a]
  BY <1>6
<1>10. /\ \A a \in Addresses : HalfStart(h) + k * BlockSize <= a
                                 /\ a < HalfStart(h) + (k + 1) * BlockSize => gl[a] = Blank
       /\ \A a \in Addresses : ~(HalfStart(h) + k * BlockSize <= a
                                 /\ a < HalfStart(h) + (k + 1) * BlockSize) => gl[a] = flash[a]
  BY <1>7, <1>9, Zenon
<1>11. 0 <= k * BlockSize
  BY <1>4
<1> QED BY <1>4, <1>8, <1>10, <1>11, Zenon DEF gl, q
-----------------------------------------------------------------------------
(***************************************************************************)
(* Headers are appended.                                                   *)
(***************************************************************************)
LEMMA PutInHalf ==
  ASSUME NEW fl \in Flashes, NEW gl, NEW h \in BothHalves, NEW m \in 0 .. HALF_SIZE - 1,
         NEW c, PutsAt(fl, gl, h, m, c)
  PROVE  /\ gl \in Flashes /\ Cell(gl, h, m) = c
         /\ \A n \in 0 .. HALF_SIZE - 1 : n # m => Cell(gl, h, n) = Cell(fl, h, n)
         /\ \A n \in 0 .. HALF_SIZE - 1 : Cell(gl, 1 - h, n) = Cell(fl, 1 - h, n)
<1>1. gl \in Flashes /\ Cell(gl, h, m) = c
  BY DEF PutsAt, Puts, Cell
<1>2. ASSUME NEW n \in 0 .. HALF_SIZE - 1, n # m PROVE Cell(gl, h, n) = Cell(fl, h, n)
  <2>1. HalfStart(h) + n \in Addresses
    BY CellsAre
  <2>2. HalfStart(h) + n # HalfStart(h) + m
    <3>1. HalfStart(h) \in Nat
      BY Halves
    <3> QED BY <3>1, <1>2
  <2> QED BY <2>1, <2>2 DEF PutsAt, Puts, Cell
<1>3. ASSUME NEW n \in 0 .. HALF_SIZE - 1 PROVE Cell(gl, 1 - h, n) = Cell(fl, 1 - h, n)
  <2>1. 1 - h \in BothHalves
    BY Halves
  <2>2. HalfStart(1 - h) + n \in Addresses
    BY <2>1, CellsAre
  <2>3. /\ HalfStart(h) \in Nat /\ HalfStart(1 - h) \in Nat
        /\ \/ HalfStart(h) = HalfStart(1 - h) + HALF_SIZE
           \/ HalfStart(1 - h) = HalfStart(h) + HALF_SIZE
    BY <2>1, Halves
  <2>4. HalfStart(1 - h) + n # HalfStart(h) + m
    BY <2>3, Geometry
  <2> QED BY <2>2, <2>4 DEF PutsAt, Puts, Cell
<1> QED BY <1>1, <1>2, <1>3

LEMMA ChainNext ==
  ASSUME NEW fl, NEW gl, NEW h \in BothHalves, NEW n \in 0 .. HALF_SIZE - 1, Chained(fl, h, n),
         NEW l, Starts(gl, h, n + 1) = Starts(fl, h, n) - l,
         l = S \/ (l = F /\ n > 0 /\ n % BatchSize = 0)
  PROVE  Chained(gl, h, n + 1)
<1>1. PICK p \in 0 .. Phantoms(n) : Starts(fl, h, n) = HalfStart(h) + DataEnd(S, n, p)
  BY Zenon DEF Chained
<1>2. n \in Nat /\ Phantoms(n) \in Nat /\ Phantoms(n + 1) \in Nat /\ Phantoms(n + 1) >= Phantoms(n)
  BY PhantomCount
<1>3. p \in Int /\ n \in Int /\ HalfStart(h) \in Int /\ S \in Int /\ F \in Int
  <2>1. p \in Int /\ n \in Int
    BY <1>2
  <2>2. HalfStart(h) \in Int
    BY Halves
  <2>3. S \in Int /\ F \in Int
    BY SizeFits, Geometry
  <2> QED BY <2>1, <2>2, <2>3
<1>4. /\ DataEnd(S, n, p) \in Int /\ DataEnd(S, n + 1, p) = DataEnd(S, n, p) - S
      /\ DataEnd(S, n + 1, p + 1) = DataEnd(S, n, p) - F
  BY <1>3, DataEnds
<1>5. CASE l = S
  <2>1. p \in 0 .. Phantoms(n + 1)
    BY <1>2
  <2>2. Starts(gl, h, n + 1) = HalfStart(h) + DataEnd(S, n + 1, p)
    BY <1>1, <1>3, <1>4, <1>5
  <2> QED BY <2>1, <2>2, Zenon DEF Chained
<1>6. CASE l = F /\ n > 0 /\ n % BatchSize = 0
  <2>1. Phantoms(n + 1) = Phantoms(n) + 1
    BY <1>2, <1>6, PhantomCount
  <2>2. p + 1 \in 0 .. Phantoms(n + 1)
    BY <2>1, <1>2
  <2>3. Starts(gl, h, n + 1) = HalfStart(h) + DataEnd(S, n + 1, p + 1)
    BY <1>1, <1>3, <1>4, <1>6
  <2> QED BY <2>2, <2>3, Zenon DEF Chained
<1> QED BY <1>5, <1>6

\* The flash with one header more.
Grown(fl, gl, h, m, c) ==
  /\ gl \in Flashes
  /\ \A n \in 0 .. m : Starts(gl, h, n) = Starts(fl, h, n)
  /\ \A n \in 1 .. m : Cell(gl, h, n) = Cell(fl, h, n)
  /\ Cell(gl, h, m + 1) = c /\ Starts(gl, h, m + 1) = Starts(fl, h, m) - c.length
  /\ IsHeader(gl, h, m + 1) /\ Chained(gl, h, m + 1) => HeadersGood(gl, h, m + 1)
  /\ c.valid # USED => UsedIn(gl, h, m + 1) = UsedIn(fl, h, m)

Higher(fl, gl, h, m, c) ==
  /\ gl \in Flashes
  /\ \A n \in 0 .. m : Starts(gl, h, n) = Starts(fl, h, n)
  /\ \A n \in 0 .. m : Cell(gl, h, n) = Cell(fl, h, n)
  /\ Cell(gl, h, m + 1) = c /\ Starts(gl, h, m + 1) = Starts(fl, h, m) - c.length

LEMMA StartsGrow ==
  ASSUME NEW fl \in Flashes, NEW gl, NEW h \in BothHalves, NEW m \in 0 .. HALF_SIZE - 2,
         NEW c, NEW k, k = m + 1, PutsAt(fl, gl, h, k, c)
  PROVE  Higher(fl, gl, h, m, c)
<1>1. m + 1 \in 0 .. HALF_SIZE - 1 /\ m + 1 \in 1 .. HALF_SIZE - 1 /\ m \in 0 .. HALF_SIZE - 1
  BY Geometry
<1>2. /\ gl \in Flashes /\ Cell(gl, h, m + 1) = c
      /\ \A n \in 0 .. HALF_SIZE - 1 : n # m + 1 => Cell(gl, h, n) = Cell(fl, h, n)
  BY <1>1, PutInHalf
<1>3. \A n \in 0 .. m : Cell(gl, h, n) = Cell(fl, h, n)
  <2> TAKE n \in 0 .. m
  <2>1. n \in 0 .. HALF_SIZE - 1 /\ n # m + 1
    BY <1>1, Geometry
  <2> QED BY <2>1, <1>2
<1>4. \A n \in 0 .. m : Starts(gl, h, n) = Starts(fl, h, n)
  <2>1. \A n \in 1 .. m : Cell(gl, h, n).length = Cell(fl, h, n).length
    BY <1>3
  <2> QED BY <2>1, <1>1, <1>2, StartsSame
<1>5. Starts(gl, h, m + 1) = Starts(fl, h, m) - c.length
  <2>1. Starts(gl, h, m + 1) = Starts(gl, h, (m + 1) - 1) - Cell(gl, h, m + 1).length
    BY <1>1, <1>2, StartRule, Zenon
  <2>2. (m + 1) - 1 = m /\ m \in 0 .. m
    BY <1>1
  <2> QED BY <2>1, <2>2, <1>2, <1>4
<1> QED BY <1>2, <1>3, <1>4, <1>5 DEF Higher

LEMMA HeadersGrow ==
  ASSUME NEW fl \in Flashes, NEW gl, NEW h \in BothHalves, NEW m \in 0 .. HALF_SIZE - 2,
         HeadersGood(fl, h, m), NEW c, NEW k, k = m + 1, PutsAt(fl, gl, h, k, c)
  PROVE  Grown(fl, gl, h, m, c)
<1>1. m + 1 \in 0 .. HALF_SIZE - 1 /\ m + 1 \in 1 .. HALF_SIZE - 1 /\ m \in 0 .. HALF_SIZE - 1
  BY Geometry
<1>2. Higher(fl, gl, h, m, c)
  BY StartsGrow
<1>3. \A n \in 1 .. m : Cell(gl, h, n) = Cell(fl, h, n)
  BY <1>2 DEF Higher
<1>4. \A n \in 0 .. m : Starts(gl, h, n) = Starts(fl, h, n)
  BY <1>2, Zenon DEF Higher
<1>5. gl \in Flashes /\ Cell(gl, h, m + 1) = c /\ Starts(gl, h, m + 1) = Starts(fl, h, m) - c.length
  BY <1>2, Zenon DEF Higher
<1>6. ASSUME IsHeader(gl, h, m + 1), Chained(gl, h, m + 1) PROVE HeadersGood(gl, h, m + 1)
  <2>1. ASSUME NEW n \in 0 .. m + 1 PROVE Chained(gl, h, n)
    <3>1. CASE n = m + 1
      BY <3>1, <1>6
    <3>2. CASE n # m + 1
      <4>1. n \in 0 .. m
        BY <3>2, <1>1
      <4>2. Chained(fl, h, n)
        BY <4>1 DEF HeadersGood
      <4> QED BY <4>1, <4>2, <1>4, Zenon DEF Chained
    <3> QED BY <3>1, <3>2
  <2>2. ASSUME NEW n \in 1 .. m + 1 PROVE IsHeader(gl, h, n)
    <3>1. CASE n = m + 1
      BY <3>1, <1>6
    <3>2. CASE n # m + 1
      <4>1. n \in 1 .. m
        BY <3>2, <1>1
      <4>2. IsHeader(fl, h, n)
        BY <4>1 DEF HeadersGood
      <4> QED BY <4>1, <4>2, <1>3, Zenon DEF IsHeader, IsPhantom
    <3> QED BY <3>1, <3>2
  <2> QED BY <2>1, <2>2 DEF HeadersGood
<1>7. ASSUME c.valid # USED PROVE UsedIn(gl, h, m + 1) = UsedIn(fl, h, m)
  <2>1. \A n \in 1 .. m + 1 : n = m + 1 \/ n \in 1 .. m
    BY <1>1
  <2>2. \A n \in 1 .. m : n \in 1 .. m + 1
    BY <1>1
  <2> QED BY <2>1, <2>2, <1>3, <1>5, <1>7 DEF UsedIn
<1> QED BY <1>3, <1>4, <1>5, <1>6, <1>7 DEF Grown

\* A header that claims data written below that of the headers before.
Appended(fl, gl, h, m, e, v) ==
  /\ m + 1 \in 0 .. HALF_SIZE - 2 /\ HalfGood(gl, h, m + 1) /\ Starts(gl, h, m + 1) = e
  /\ \A n \in 0 .. m : Starts(gl, h, n) = Starts(fl, h, n)
  /\ \A n \in 1 .. m : Cell(gl, h, n) = Cell(fl, h, n)
  /\ v = UNUSED => UsedIn(gl, h, m + 1) = UsedIn(fl, h, m)

LEMMA HeaderAppended ==
  ASSUME NEW fl \in Flashes, NEW gl, NEW h \in BothHalves, NEW m \in 0 .. HALF_SIZE - 1,
         HeadersGood(fl, h, m), NEW e \in Int, Starts(fl, h, m) = e + S,
         NEW a, a = HalfStart(h) + m + 1, e > a + 1, BlankFrom(fl, a, e),
         NEW name \in Names, NEW v, v = UNUSED \/ v = USED,
         NEW k, k = m + 1, NEW c, c = [valid |-> v, name |-> name, length |-> S],
         PutsAt(fl, gl, h, k, c)
  PROVE  Appended(fl, gl, h, m, e, v)
<1> USE Geometry
<1>1. HalfStart(h) \in Nat /\ S \in 1 .. F
  BY Halves, SizeFits
<1>2. m \in 0 .. HALF_SIZE - 2 /\ m + 1 \in 0 .. HALF_SIZE - 2
  <2>1. Starts(fl, h, 0) = HalfStart(h) + HALF_SIZE
    BY StartRule
  <2>2. Starts(fl, h, m) <= Starts(fl, h, 0) /\ Starts(fl, h, m) \in Int
    <3>1. 0 \in 0 .. HALF_SIZE - 1 /\ 0 <= m
      OBVIOUS
    <3> QED BY <3>1, StartRule, StartsDescend
  <2> QED BY <2>1, <2>2, <1>1
<1>3. c.length = S /\ c.valid = v /\ c.name = name
  OBVIOUS
<1>4. /\ gl \in Flashes
      /\ \A n \in 0 .. m : Starts(gl, h, n) = Starts(fl, h, n)
      /\ \A n \in 1 .. m : Cell(gl, h, n) = Cell(fl, h, n)
      /\ Cell(gl, h, m + 1) = c /\ Starts(gl, h, m + 1) = Starts(fl, h, m) - c.length
      /\ IsHeader(gl, h, m + 1) /\ Chained(gl, h, m + 1) => HeadersGood(gl, h, m + 1)
      /\ c.valid # USED => UsedIn(gl, h, m + 1) = UsedIn(fl, h, m)
  <2>1. Grown(fl, gl, h, m, c)
    BY <1>2, HeadersGrow
  <2> QED BY <2>1 DEF Grown
<1>5. IsHeader(gl, h, m + 1)
  <2>1. c # Blank
    BY <1>3, StatusIs, OptionsAssumption
  <2> QED BY <2>1, <1>3, <1>4 DEF IsHeader
<1>6. Chained(gl, h, m + 1)
  <2>1. Chained(fl, h, m)
    BY <1>2 DEF HeadersGood
  <2>2. Starts(gl, h, m + 1) = Starts(fl, h, m) - S
    BY <1>3, <1>4
  <2> QED BY <2>1, <2>2, ChainNext
<1>7. Starts(gl, h, m + 1) = e
  BY <1>1, <1>3, <1>4
<1>8. Space(gl, h, m + 1, m + 1)
  <2>1. BlankFrom(gl, HalfStart(h) + (m + 1) + 1, e)
    <3> SUFFICES ASSUME NEW b \in Addresses, HalfStart(h) + (m + 1) + 1 <= b, b < e PROVE gl[b] = Blank
      BY DEF BlankFrom
    <3>1. a <= b /\ b # HalfStart(h) + (m + 1)
      BY <1>1
    <3> QED BY <3>1 DEF BlankFrom, PutsAt, Puts
  <2>2. m + 1 \in Int /\ m + 1 >= 0 /\ m + 1 # (m + 1) - 1
    OBVIOUS
  <2>3. e > HalfStart(h) + (m + 1) + 1
    BY <1>1
  <2> QED BY <2>1, <2>2, <2>3, <1>7 DEF Space
<1>9. HalfGood(gl, h, m + 1)
  <2>1. m + 1 \in 0 .. HALF_SIZE - 1
    BY <1>2
  <2> QED BY <2>1, <1>4, <1>5, <1>6, <1>8 DEF HalfGood
<1>10. v = UNUSED => c.valid # USED
  BY <1>3 DEF USED, UNUSED
<1> QED BY <1>2, <1>4, <1>7, <1>9, <1>10 DEF Appended

BatchFull(m) == m > 0 /\ m % BatchSize = 0

\* The phantom that restoreFileSystem makes of the place behind a batch.
LEMMA PhantomAppended ==
  ASSUME NEW fl \in Flashes, NEW gl, NEW h \in BothHalves, NEW m \in 0 .. HALF_SIZE - 2,
         HalfGood(fl, h, m), BatchFull(m),
         NEW k, k = m + 1, NEW c, c.valid = DELETED, c.length = F, PutsAt(fl, gl, h, k, c)
  PROVE  /\ HalfGood(gl, h, m + 1) /\ Starts(gl, h, m + 1) = Starts(fl, h, m) - F
         /\ IsPhantom(gl, h, m + 1)
         /\ \A n \in 0 .. m : Starts(gl, h, n) = Starts(fl, h, n)
         /\ \A n \in 1 .. m : Cell(gl, h, n) = Cell(fl, h, n)
         /\ UsedIn(gl, h, m + 1) = UsedIn(fl, h, m)
<1> USE Geometry
<1>1. HalfStart(h) \in Nat /\ S \in 1 .. F
  BY Halves, SizeFits
<1>2. m \in 0 .. HALF_SIZE - 2 /\ HeadersGood(fl, h, m) /\ m \in 0 .. HALF_SIZE - 1
  BY HalfFacts DEF HalfGood
<1>3. c.length = F /\ c.valid = DELETED
  OBVIOUS
<1>4. c # Blank
  BY <1>3, StatusIs DEF DELETED, UNUSED
<1>6. /\ gl \in Flashes
      /\ \A n \in 0 .. m : Starts(gl, h, n) = Starts(fl, h, n)
      /\ \A n \in 1 .. m : Cell(gl, h, n) = Cell(fl, h, n)
      /\ Cell(gl, h, m + 1) = c /\ Starts(gl, h, m + 1) = Starts(fl, h, m) - c.length
      /\ IsHeader(gl, h, m + 1) /\ Chained(gl, h, m + 1) => HeadersGood(gl, h, m + 1)
      /\ c.valid # USED => UsedIn(gl, h, m + 1) = UsedIn(fl, h, m)
  <2>1. Grown(fl, gl, h, m, c)
    BY <1>2, HeadersGrow
  <2> QED BY <2>1 DEF Grown
<1>7. IsPhantom(gl, h, m + 1)
  <2>1. (m + 1) - 1 = m /\ m + 1 > 1
    BY <1>2 DEF BatchFull
  <2> QED BY <2>1, <1>3, <1>6 DEF IsPhantom, BatchFull
<1>8. IsHeader(gl, h, m + 1)
  BY <1>4, <1>6, <1>7 DEF IsHeader
<1>9. Chained(gl, h, m + 1)
  <2>1. Chained(fl, h, m)
    BY <1>2 DEF HeadersGood
  <2>2. Starts(gl, h, m + 1) = Starts(fl, h, m) - F
    BY <1>3, <1>6
  <2> QED BY <2>1, <2>2, <1>2, ChainNext DEF BatchFull
<1>10. PICK d \in {m, m - 1} : Space(fl, h, m, d)
  BY DEF HalfGood
<1>11. d = m
  <2> SUFFICES ASSUME d = m - 1 PROVE FALSE
    BY <1>10
  <2>1. (m - 1) % BatchSize = 0
    BY <1>2, <1>10 DEF Space, IsPhantom
  <2>2. \A x, b \in Nat : x > 0 /\ b > 1 /\ x % b = 0 => (x - 1) % b # 0
    BY SMT
  <2>3. m \in Nat /\ m > 0 /\ m % BatchSize = 0
    BY <1>2 DEF BatchFull
  <2>4. BatchSize \in Nat /\ BatchSize > 1
    OBVIOUS
  <2> QED BY <2>1, <2>2, <2>3, <2>4, Zenon
<1>12. Starts(fl, h, m) > HalfStart(h) + m + 1 /\ Starts(fl, h, m) \in Int
  BY <1>2, <1>10, <1>11, StartRule DEF Space
<1>13. Starts(fl, h, m) > HalfStart(h) + m + 2
  <2>1. PICK p \in 0 .. Phantoms(m) : Starts(fl, h, m) = HalfStart(h) + DataEnd(S, m, p)
    <3>1. Chained(fl, h, m)
      BY <1>2 DEF HeadersGood
    <3> QED BY <3>1, Zenon DEF Chained
  <2>2. p \in Int /\ DataEnd(S, m, p) \in Int
    BY <1>2, DataEnds
  <2>3. DataEnd(S, m, p) # m + 2
    <3>1. m \in 0 .. HALF_SIZE
      BY <1>2
    <3> QED BY <3>1, RoomLeft DEF BatchFull
  <2> QED BY <2>1, <2>2, <2>3, <1>1, <1>2, <1>12
<1>14. Space(gl, h, m + 1, m)
  <2>1. BlankFrom(gl, HalfStart(h) + (m + 1) + 1, Starts(fl, h, m))
    <3> SUFFICES ASSUME NEW a \in Addresses, HalfStart(h) + (m + 1) + 1 <= a, a < Starts(fl, h, m)
                 PROVE  gl[a] = Blank
      BY DEF BlankFrom
    <3>1. HalfStart(h) + m + 1 <= a /\ a # HalfStart(h) + (m + 1)
      BY <1>1, <1>2
    <3> QED BY <3>1, <1>10, <1>11 DEF BlankFrom, PutsAt, Puts, Space
  <2>2. m = (m + 1) - 1 /\ m >= 0 /\ m \in {m + 1, (m + 1) - 1}
    BY <1>2
  <2>3. Starts(gl, h, m) = Starts(fl, h, m)
    BY <1>2, <1>6
  <2>4. Starts(gl, h, m) > HalfStart(h) + (m + 1) + 1
    BY <2>3, <1>1, <1>2, <1>13
  <2> QED BY <2>1, <2>2, <2>3, <2>4, <1>7 DEF Space
<1>15. HalfGood(gl, h, m + 1)
  <2>1. m + 1 \in 0 .. HALF_SIZE - 1 /\ m = (m + 1) - 1
    BY <1>2
  <2> QED BY <2>1, <1>6, <1>8, <1>9, <1>14 DEF HalfGood
<1> QED BY <1>3, <1>6, <1>7, <1>15 DEF DELETED, USED
-----------------------------------------------------------------------------
(***************************************************************************)
(* The status of a header changes.                                         *)
(***************************************************************************)
LEMMA MarkIsPut ==
  \A fl, gl, h, n, v : MarksAt(fl, gl, h, n, v) => PutsAt(fl, gl, h, n, gl[HalfStart(h) + n])
BY Zenon, SMTT(30) DEF Marks, Puts, MarksAt, PutsAt

\* The half is as good with the status of its header q changed to v.
Marked(fl, gl, h, m, q, v) ==
  /\ HalfGood(gl, h, m) /\ \A n \in 0 .. m : Starts(gl, h, n) = Starts(fl, h, n)
  /\ \A n \in 1 .. m : /\ Cell(gl, h, n).length = Cell(fl, h, n).length
                       /\ Cell(gl, h, n).name = Cell(fl, h, n).name
                       /\ n # q => Cell(gl, h, n) = Cell(fl, h, n)
  /\ v = USED => UsedIn(gl, h, m) = UsedIn(fl, h, m) \cup {q}
  /\ v = DELETED => UsedIn(gl, h, m) = UsedIn(fl, h, m) \ {q}

LEMMA HeaderMarked ==
  ASSUME NEW fl \in Flashes, NEW gl, NEW h \in BothHalves, NEW m, HalfGood(fl, h, m),
         NEW q \in 1 .. m, NEW v, v = USED \/ v = DELETED, MarksAt(fl, gl, h, q, v),
         v = USED => /\ Cell(fl, h, q).valid = UNUSED /\ Cell(fl, h, q).length = S
                     /\ Cell(fl, h, q).name \in Names
  PROVE  Marked(fl, gl, h, m, q, v)
<1>1. m \in 0 .. HALF_SIZE - 1 /\ HeadersGood(fl, h, m)
  BY DEF HalfGood
<1>2. q \in 0 .. HALF_SIZE - 1 /\ PutsAt(fl, gl, h, q, gl[HalfStart(h) + q])
  <2>1. q \in 0 .. HALF_SIZE - 1
    BY <1>1, Geometry
  <2> QED BY <2>1, MarkIsPut, Zenon
<1>3. /\ gl \in Flashes
      /\ \A n \in 0 .. HALF_SIZE - 1 : n # q => Cell(gl, h, n) = Cell(fl, h, n)
  <2>1. ASSUME NEW c, PutsAt(fl, gl, h, q, c)
        PROVE  /\ gl \in Flashes
               /\ \A n \in 0 .. HALF_SIZE - 1 : n # q => Cell(gl, h, n) = Cell(fl, h, n)
    BY <2>1, <1>2, PutInHalf
  <2> QED BY <2>1, <1>2, Zenon
<1>4. /\ Cell(gl, h, q).valid = v /\ Cell(gl, h, q).name = Cell(fl, h, q).name
      /\ Cell(gl, h, q).length = Cell(fl, h, q).length
  BY Zenon DEF MarksAt, Marks, Cell
<1>5. \A n \in 1 .. m : n \in 0 .. HALF_SIZE - 1
  BY <1>1, Geometry
<1>6. \A n \in 1 .. m : /\ Cell(gl, h, n).length = Cell(fl, h, n).length
                        /\ Cell(gl, h, n).name = Cell(fl, h, n).name
                        /\ n # q => Cell(gl, h, n) = Cell(fl, h, n)
  BY <1>3, <1>4, <1>5
<1>7. ASSUME NEW n \in 1 .. m
      PROVE  IsHeader(gl, h, n) /\ (IsPhantom(fl, h, n) => IsPhantom(gl, h, n))
  <2>1. IsHeader(fl, h, n)
    BY <1>1 DEF HeadersGood
  <2>2. CASE n # q
    BY <2>1, <2>2, <1>6, Zenon DEF IsHeader, IsPhantom
  <2>3. CASE n = q /\ v = DELETED
    <3>1. Cell(gl, h, n) # Blank
      BY <2>3, <1>4, StatusIs DEF UNUSED, DELETED
    <3>2. DELETED # USED
      BY DEF DELETED, USED
    <3> QED BY <2>1, <2>3, <3>1, <3>2, <1>4 DEF IsHeader, IsPhantom
  <2>4. CASE n = q /\ v = USED
    <3>1. Cell(gl, h, n) # Blank
      BY <2>4, <1>4, StatusIs DEF UNUSED, USED
    <3>2. ~IsPhantom(fl, h, n)
      BY <2>4 DEF IsPhantom, UNUSED, DELETED
    <3> QED BY <2>4, <3>1, <3>2, <1>4 DEF IsHeader
  <2> QED BY <2>2, <2>3, <2>4
<1>8. \A n \in m + 1 .. HALF_SIZE - 1 : Cell(gl, h, n) = Cell(fl, h, n)
  <2> TAKE n \in m + 1 .. HALF_SIZE - 1
  <2>1. n \in 0 .. HALF_SIZE - 1 /\ n # q
    BY <1>1, Geometry
  <2> QED BY <2>1, <1>3
<1>9. HalfGood(gl, h, m) /\ \A n \in 0 .. m : Starts(gl, h, n) = Starts(fl, h, n)
  BY <1>3, <1>6, <1>7, <1>8, HalfMarked
<1>10. v = USED => UsedIn(gl, h, m) = UsedIn(fl, h, m) \cup {q}
  BY <1>4, <1>6 DEF UsedIn
<1>11. v = DELETED => UsedIn(gl, h, m) = UsedIn(fl, h, m) \ {q}
  BY <1>4, <1>6 DEF UsedIn, USED, DELETED
<1> QED BY <1>6, <1>9, <1>10, <1>11 DEF Marked

\* The flash as fs_init finds it.
LEMMA KeptIs ==
  ASSUME NEW fl \in Flashes, NEW h \in BothHalves, NEW m, InUse(fl, h), HalfGood(fl, h, m),
         OneOfEach(fl, h, UsedIn(fl, h, m))
  PROVE  FlashKept(fl)
<1>1. Stored(fl, h)
  <2>1. m \in 0 .. HALF_SIZE - 1
    BY DEF HalfGood
  <2> QED BY <2>1 DEF Stored
<1>2. CASE h = 0
  BY <1>1, <1>2, Halves DEF InUse, FlashKept, FIRST_HALF
<1>3. CASE h = 1
  BY <1>1, <1>3, Halves DEF InUse, FlashKept, SECOND_HALF
<1> QED BY <1>2, <1>3 DEF BothHalves
-----------------------------------------------------------------------------
(***************************************************************************)
(* The table.                                                              *)
(***************************************************************************)
\* The entry of the n-th header.
EntryOf(fl, entry, h, n) ==
  /\ entry.valid = USED /\ entry.header = HalfStart(h) + n /\ entry.name = Cell(fl, h, n).name
  /\ entry.length = Cell(fl, h, n).length /\ entry.start = Starts(fl, h, n)

LEMMA TableForm ==
  \A fl, tb, last, h, U :
    Table(fl, tb, last, h, U) <=>
      /\ last \in 0 .. HALF_SIZE - 1
      /\ \A k \in 0 .. last - 1 : \E n \in U : EntryOf(fl, tb[k], h, n)
      /\ \A j, k \in 0 .. last - 1 : tb[j].header = tb[k].header => j = k
      /\ \A n \in U : \E k \in 0 .. last - 1 : tb[k].header = HalfStart(h) + n
<1> SUFFICES ASSUME NEW fl, NEW tb, NEW last, NEW h, NEW U
             PROVE  Table(fl, tb, last, h, U) <=>
                      /\ last \in 0 .. HALF_SIZE - 1
                      /\ \A k \in 0 .. last - 1 : \E n \in U : EntryOf(fl, tb[k], h, n)
                      /\ \A j, k \in 0 .. last - 1 : tb[j].header = tb[k].header => j = k
                      /\ \A n \in U : \E k \in 0 .. last - 1 : tb[k].header = HalfStart(h) + n
  OBVIOUS
<1>1. ASSUME Table(fl, tb, last, h, U), NEW k \in 0 .. last - 1
      PROVE  \E n \in U : EntryOf(fl, tb[k], h, n)
  <2>1. PICK n \in U : tb[k].header = HalfStart(h) + n /\ tb[k].name = Cell(fl, h, n).name
    BY <1>1, Zenon DEF Table, Entries
  <2>2. /\ tb[k].length = fl[tb[k].header].length /\ tb[k].start = StartsOf(fl, h)[tb[k].header]
        /\ tb[k].valid = USED
    BY <1>1, Zenon DEF Table, Extents, Entries
  <2>3. tb[k].length = Cell(fl, h, n).length /\ tb[k].start = Starts(fl, h, n)
    BY <2>1, <2>2, Zenon DEF Cell, Starts
  <2> QED BY <2>1, <2>2, <2>3, Zenon DEF EntryOf
<1>2. ASSUME \A k \in 0 .. last - 1 : \E n \in U : EntryOf(fl, tb[k], h, n)
      PROVE  Extents(fl, tb, h, 0 .. last - 1)
  <2> SUFFICES ASSUME NEW k \in 0 .. last - 1
               PROVE  /\ tb[k].length = fl[tb[k].header].length
                      /\ tb[k].start = StartsOf(fl, h)[tb[k].header]
    BY Zenon DEF Extents
  <2>1. PICK n \in U : EntryOf(fl, tb[k], h, n)
    BY <1>2
  <2> QED BY <2>1, Zenon DEF EntryOf, Cell, Starts
<1>3. ASSUME \A k \in 0 .. last - 1 : \E n \in U : EntryOf(fl, tb[k], h, n)
      PROVE  \A k \in 0 .. last - 1 :
               /\ tb[k].valid = USED
               /\ \E n \in U : tb[k].header = HalfStart(h) + n /\ tb[k].name = Cell(fl, h, n).name
  BY <1>3, Zenon DEF EntryOf
<1>4. Table(fl, tb, last, h, U) =>
        /\ last \in 0 .. HALF_SIZE - 1
        /\ \A j, k \in 0 .. last - 1 : tb[j].header = tb[k].header => j = k
        /\ \A n \in U : \E k \in 0 .. last - 1 : tb[k].header = HalfStart(h) + n
  BY Zenon DEF Table, Entries
<1>5. ASSUME last \in 0 .. HALF_SIZE - 1,
             \A k \in 0 .. last - 1 : \E n \in U : EntryOf(fl, tb[k], h, n),
             \A j, k \in 0 .. last - 1 : tb[j].header = tb[k].header => j = k,
             \A n \in U : \E k \in 0 .. last - 1 : tb[k].header = HalfStart(h) + n
      PROVE  Table(fl, tb, last, h, U)
  <2>1. Entries(fl, tb, last, h, U)
    BY <1>5, <1>3, Zenon DEF Entries
  <2> QED BY <2>1, <1>5, <1>2, Zenon DEF Table
<1> QED BY <1>1, <1>4, <1>5, Zenon

\* There are no more entries than headers.
LEMMA TableBound ==
  ASSUME NEW fl, NEW tb, NEW last \in Nat, NEW h \in BothHalves, NEW m \in Nat, NEW U, U \subseteq 1 .. m,
         Entries(fl, tb, last, h, U)
  PROVE  last <= m
<1> DEFINE f == [k \in 0 .. last - 1 |-> tb[k].header - HalfStart(h)]
<1>1. HalfStart(h) \in Nat
  BY Halves
<1>2. \A k \in 0 .. last - 1 : \E n \in U : tb[k].header = HalfStart(h) + n
  BY Zenon DEF Entries
<1>3. ASSUME NEW k \in 0 .. last - 1
      PROVE  tb[k].header \in Int /\ tb[k].header - HalfStart(h) \in 1 .. m
  BY <1>1, <1>2
<1>4. f \in [0 .. last - 1 -> 1 .. m]
  BY <1>3
<1>5. \A a, b \in Int : IsFiniteSet(a .. b) /\ Cardinality(a .. b) = IF a > b THEN 0 ELSE b - a + 1
  BY FS_Interval
<1>6. /\ IsFiniteSet(0 .. last - 1) /\ Cardinality(0 .. last - 1) = last
      /\ IsFiniteSet(1 .. m) /\ Cardinality(1 .. m) = m
  <2>1. IsFiniteSet(0 .. last - 1) /\ IsFiniteSet(1 .. m)
    <3>1. 0 \in Int /\ 1 \in Int /\ last - 1 \in Int /\ m \in Int
      OBVIOUS
    <3> QED BY <3>1, <1>5, Zenon
  <2>2. Cardinality(0 .. last - 1) = IF 0 > last - 1 THEN 0 ELSE (last - 1) - 0 + 1
    BY <1>5
  <2>3. Cardinality(1 .. m) = IF 1 > m THEN 0 ELSE m - 1 + 1
    BY <1>5
  <2> QED BY <2>1, <2>2, <2>3
<1>7. SUFFICES ASSUME m < last PROVE FALSE
  OBVIOUS
<1>8. PICK j, k \in 0 .. last - 1 : j # k /\ f[j] = f[k]
  <2> DEFINE X == 0 .. last - 1
             Y == 1 .. m
  <2>1. IsFiniteSet(X) /\ IsFiniteSet(Y) /\ Cardinality(Y) < Cardinality(X) /\ f \in [X -> Y]
    BY <1>4, <1>6, <1>7
  <2> HIDE DEF f, X, Y
  <2>2. \E j, k \in X : j # k /\ f[j] = f[k]
    BY <2>1, FS_PigeonHole
  <2> QED BY <2>2 DEF X
<1>9. tb[j].header = tb[k].header
  BY <1>1, <1>3, <1>8
<1> QED BY <1>8, <1>9, Zenon DEF Entries

LEMMA UsedAre == ASSUME NEW fl, NEW h, NEW m PROVE UsedIn(fl, h, m) \subseteq 1 .. m
BY DEF UsedIn

\* Headers keep their names and lengths.
LEMMA EntrySame ==
  ASSUME NEW fl \in Flashes, NEW gl \in Flashes, NEW h \in BothHalves,
         NEW m \in 0 .. HALF_SIZE - 1,
         \A n \in 1 .. m : /\ Cell(gl, h, n).length = Cell(fl, h, n).length
                           /\ Cell(gl, h, n).name = Cell(fl, h, n).name
  PROVE  \A entry : \A n \in 1 .. m : EntryOf(fl, entry, h, n) => EntryOf(gl, entry, h, n)
<1>1. \A n \in 0 .. m : Starts(gl, h, n) = Starts(fl, h, n)
  BY StartsSame
<1> SUFFICES ASSUME NEW entry, NEW n \in 1 .. m, EntryOf(fl, entry, h, n)
             PROVE  EntryOf(gl, entry, h, n)
  OBVIOUS
<1>2. n \in 0 .. m
  BY Geometry
<1> QED BY <1>1, <1>2, Zenon DEF EntryOf

\* Headers keep their names and lengths.
NamesKept(fl, gl, h, m) ==
  \A n \in 1 .. m : /\ Cell(gl, h, n).length = Cell(fl, h, n).length
                    /\ Cell(gl, h, n).name = Cell(fl, h, n).name

\* The table tb2 of the headers V: entries of the table tb of the headers U, each at most once.
Picked(tb, last, U, tb2, last2, V, from, h) ==
  /\ last2 \in 0 .. HALF_SIZE - 1 /\ V \subseteq U
  /\ \A k \in 0 .. last2 - 1 : /\ from[k] \in 0 .. last - 1 /\ tb2[k] = tb[from[k]]
                               /\ \A n \in U : tb2[k].header = HalfStart(h) + n => n \in V
  /\ \A j, k \in 0 .. last2 - 1 : from[j] = from[k] => j = k
  /\ \A n \in V : \A j \in 0 .. last - 1 :
       tb[j].header = HalfStart(h) + n => \E k \in 0 .. last2 - 1 : from[k] = j

LEMMA TablePicked ==
  ASSUME NEW fl \in Flashes, NEW gl \in Flashes, NEW h \in BothHalves,
         NEW m \in 0 .. HALF_SIZE - 1,
         NamesKept(fl, gl, h, m),
         NEW tb, NEW last, NEW U, U \subseteq 1 .. m, Table(fl, tb, last, h, U),
         NEW tb2, NEW last2, NEW V, NEW from, Picked(tb, last, U, tb2, last2, V, from, h)
  PROVE  Table(gl, tb2, last2, h, V)
<1>0. /\ last2 \in 0 .. HALF_SIZE - 1 /\ V \subseteq U
      /\ \A k \in 0 .. last2 - 1 : /\ from[k] \in 0 .. last - 1 /\ tb2[k] = tb[from[k]]
                                   /\ \A n \in U : tb2[k].header = HalfStart(h) + n => n \in V
      /\ \A j, k \in 0 .. last2 - 1 : from[j] = from[k] => j = k
      /\ \A n \in V : \A j \in 0 .. last - 1 :
           tb[j].header = HalfStart(h) + n => \E k \in 0 .. last2 - 1 : from[k] = j
  BY Zenon DEF Picked
<1>1. /\ \A k \in 0 .. last - 1 : \E n \in U : EntryOf(fl, tb[k], h, n)
      /\ \A j, k \in 0 .. last - 1 : tb[j].header = tb[k].header => j = k
      /\ \A n \in U : \E k \in 0 .. last - 1 : tb[k].header = HalfStart(h) + n
  BY TableForm, Zenon
<1>2. ASSUME NEW k \in 0 .. last2 - 1 PROVE \E n \in V : EntryOf(gl, tb2[k], h, n)
  <2>1. PICK n \in U : EntryOf(fl, tb2[k], h, n)
    BY <1>0, <1>1
  <2>2. n \in V
    BY <2>1, <1>0, Zenon DEF EntryOf
  <2>3. EntryOf(gl, tb2[k], h, n)
    <3>1. \A entry : \A j \in 1 .. m : EntryOf(fl, entry, h, j) => EntryOf(gl, entry, h, j)
      BY EntrySame DEF NamesKept
    <3>2. n \in 1 .. m
      OBVIOUS
    <3> QED BY <3>1, <3>2, <2>1
  <2> QED BY <2>2, <2>3
<1>3. ASSUME NEW j \in 0 .. last2 - 1, NEW k \in 0 .. last2 - 1, tb2[j].header = tb2[k].header
      PROVE  j = k
  BY <1>0, <1>1, <1>3
<1>4. ASSUME NEW n \in V PROVE \E k \in 0 .. last2 - 1 : tb2[k].header = HalfStart(h) + n
  <2>1. PICK j \in 0 .. last - 1 : tb[j].header = HalfStart(h) + n
    BY <1>0, <1>1
  <2>2. PICK k \in 0 .. last2 - 1 : from[k] = j
    BY <1>0, <2>1
  <2> QED BY <2>1, <2>2, <1>0
<1> QED BY <1>0, <1>2, <1>3, <1>4, TableForm, Zenon

LEMMA TableSame ==
  ASSUME NEW fl \in Flashes, NEW gl \in Flashes, NEW h \in BothHalves,
         NEW m \in 0 .. HALF_SIZE - 1,
         NamesKept(fl, gl, h, m), NEW tb, NEW last, NEW U, U \subseteq 1 .. m, Table(fl, tb, last, h, U),
         NEW tb2, \A k \in 0 .. last - 1 : tb2[k] = tb[k]
  PROVE  Table(gl, tb2, last, h, U)
<1> DEFINE from == [k \in 0 .. last - 1 |-> k]
<1>1. last \in 0 .. HALF_SIZE - 1
  BY Zenon DEF Table
<1>2. \A k \in 0 .. last - 1 : from[k] = k
  OBVIOUS
<1> HIDE DEF from
<1>3. Picked(tb, last, U, tb2, last, U, from, h)
  BY <1>1, <1>2 DEF Picked
<1> QED BY <1>3, TablePicked

\* The entry of another header is added.
LEMMA TableAdded ==
  ASSUME NEW fl, NEW h \in BothHalves, NEW m \in 0 .. HALF_SIZE - 1,
         NEW tb, NEW last, NEW U, U \subseteq 1 .. m, Table(fl, tb, last, h, U),
         NEW q \in 1 .. m, q \notin U, last + 1 \in 0 .. HALF_SIZE - 1,
         NEW tb2, \A k \in 0 .. last - 1 : tb2[k] = tb[k], EntryOf(fl, tb2[last], h, q)
  PROVE  Table(fl, tb2, last + 1, h, U \cup {q})
<1>1. /\ \A k \in 0 .. last - 1 : \E n \in U : EntryOf(fl, tb[k], h, n)
      /\ \A j, k \in 0 .. last - 1 : tb[j].header = tb[k].header => j = k
      /\ \A n \in U : \E k \in 0 .. last - 1 : tb[k].header = HalfStart(h) + n
      /\ last \in 0 .. HALF_SIZE - 1
  BY TableForm, Zenon
<1>2. \A k \in 0 .. (last + 1) - 1 : k = last \/ k \in 0 .. last - 1
  BY <1>1
<1>3. last \in 0 .. (last + 1) - 1 /\ \A k \in 0 .. last - 1 : k \in 0 .. (last + 1) - 1
  BY <1>1
<1>4. ASSUME NEW k \in 0 .. (last + 1) - 1 PROVE \E n \in U \cup {q} : EntryOf(fl, tb2[k], h, n)
  BY <1>1, <1>2
<1>5. tb2[last].header = HalfStart(h) + q
  BY Zenon DEF EntryOf
<1>6. ASSUME NEW k \in 0 .. last - 1 PROVE tb2[k].header # tb2[last].header
  <2>1. PICK n \in U : tb2[k].header = HalfStart(h) + n
    <3>1. PICK n \in U : EntryOf(fl, tb[k], h, n)
      BY <1>1
    <3>2. tb2[k].header = HalfStart(h) + n
      BY <3>1 DEF EntryOf
    <3> QED BY <3>2
  <2>2. HalfStart(h) \in Int
    BY Halves
  <2>3. n \in Int /\ q \in Int /\ n # q
    OBVIOUS
  <2> QED BY <2>1, <2>2, <2>3, <1>5
<1>7. ASSUME NEW j \in 0 .. (last + 1) - 1, NEW k \in 0 .. (last + 1) - 1,
             tb2[j].header = tb2[k].header
      PROVE  j = k
  BY <1>1, <1>2, <1>6, <1>7
<1>8. ASSUME NEW n \in U \cup {q}
      PROVE  \E k \in 0 .. (last + 1) - 1 : tb2[k].header = HalfStart(h) + n
  BY <1>1, <1>3, <1>5
<1> QED BY <1>4, <1>7, <1>8, TableForm, Zenon

\* The entry k0 is changed to be that of another header.
LEMMA TableReplaced ==
  ASSUME NEW fl, NEW h \in BothHalves, NEW m \in 0 .. HALF_SIZE - 1,
         NEW tb, NEW last \in 0 .. HALF_SIZE - 1, NEW U, U \subseteq 1 .. m,
         NEW k0 \in 0 .. last - 1, NEW p \in U, tb[k0].header = HalfStart(h) + p,
         Entries(fl, tb, last, h, U), Extents(fl, tb, h, (0 .. last - 1) \ {k0}),
         NEW q \in 1 .. m, q \notin U,
         NEW tb2, \A k \in 0 .. last - 1 : k # k0 => tb2[k] = tb[k], EntryOf(fl, tb2[k0], h, q)
  PROVE  Table(fl, tb2, last, h, (U \cup {q}) \ {p})
<1> DEFINE V == (U \cup {q}) \ {p}
<1>1. HalfStart(h) \in Int
  BY Halves
<1>2. tb2[k0].header = HalfStart(h) + q
  BY Zenon DEF EntryOf
<1>3. ASSUME NEW k \in 0 .. last - 1, k # k0
      PROVE  \E n \in U \ {p} : EntryOf(fl, tb2[k], h, n)
  <2>1. PICK n \in U : tb[k].header = HalfStart(h) + n /\ tb[k].name = Cell(fl, h, n).name
    BY Zenon DEF Entries
  <2>2. tb[k].valid = USED /\ tb[k].header # tb[k0].header
    BY <1>3, Zenon DEF Entries
  <2>3. k \in (0 .. last - 1) \ {k0}
    BY <1>3
  <2>4. tb[k].length = fl[tb[k].header].length /\ tb[k].start = StartsOf(fl, h)[tb[k].header]
    BY <2>3, Zenon DEF Extents
  <2>5. n # p
    BY <2>1, <2>2
  <2>6. EntryOf(fl, tb[k], h, n)
    BY <2>1, <2>2, <2>4, Zenon DEF EntryOf, Cell, Starts
  <2> QED BY <2>5, <2>6, <1>3
<1>4. p # q
  OBVIOUS
<1>5. ASSUME NEW k \in 0 .. last - 1 PROVE \E n \in V : EntryOf(fl, tb2[k], h, n)
  BY <1>3, <1>4
<1>6. ASSUME NEW k \in 0 .. last - 1, k # k0 PROVE tb2[k].header # tb2[k0].header
  <2>1. PICK n \in U \ {p} : tb2[k].header = HalfStart(h) + n
    BY <1>3, <1>6, Zenon DEF EntryOf
  <2>2. n \in Int /\ q \in Int /\ n # q
    OBVIOUS
  <2> QED BY <2>1, <2>2, <1>1, <1>2
<1>7. ASSUME NEW j \in 0 .. last - 1, NEW k \in 0 .. last - 1, tb2[j].header = tb2[k].header
      PROVE  j = k
  <2>1. j # k0 /\ k # k0 => j = k
    <3>1. j # k0 /\ k # k0 => tb[j].header = tb[k].header
      BY <1>7
    <3> QED BY <3>1, Zenon DEF Entries
  <2> QED BY <2>1, <1>6, <1>7
<1>8. ASSUME NEW n \in V PROVE \E k \in 0 .. last - 1 : tb2[k].header = HalfStart(h) + n
  <2>1. CASE n = q
    BY <2>1, <1>2
  <2>2. CASE n # q
    <3>1. n \in U /\ n # p
      BY <2>2
    <3>2. PICK k \in 0 .. last - 1 : tb[k].header = HalfStart(h) + n
      BY <3>1, Zenon DEF Entries
    <3>3. n \in Int /\ p \in Int
      BY <3>1
    <3>4. k # k0
      BY <3>1, <3>2, <3>3, <1>1
    <3> QED BY <3>2, <3>4
  <2> QED BY <2>1, <2>2
<1> HIDE DEF V
<1>9. Table(fl, tb2, last, h, V)
  BY <1>5, <1>7, <1>8, TableForm, Zenon
<1> QED BY <1>9, Zenon DEF V

\* The entry k0 is removed and the gap closed.
LEMMA TableRemoved ==
  ASSUME NEW fl \in Flashes, NEW gl \in Flashes, NEW h \in BothHalves,
         NEW m \in 0 .. HALF_SIZE - 1,
         NamesKept(fl, gl, h, m), NEW tb, NEW last, NEW U, U \subseteq 1 .. m, Table(fl, tb, last, h, U),
         NEW k0 \in 0 .. last - 1, NEW p \in U, tb[k0].header = HalfStart(h) + p,
         NEW tb2, \A k \in 0 .. last - 2 : tb2[k] = IF k < k0 THEN tb[k] ELSE tb[k + 1]
  PROVE  Table(gl, tb2, last - 1, h, U \ {p})
<1> DEFINE from == [k \in 0 .. last - 2 |-> IF k < k0 THEN k ELSE k + 1]
           V == U \ {p}
<1>1. /\ last \in 0 .. HALF_SIZE - 1
      /\ \A j, k \in 0 .. last - 1 : tb[j].header = tb[k].header => j = k
  BY TableForm, Zenon
<1>2. HalfStart(h) \in Int /\ last - 1 \in 0 .. HALF_SIZE - 1 /\ (last - 1) - 1 = last - 2 /\ k0 \in Int
  <2>1. HalfStart(h) \in Int
    BY Halves
  <2> QED BY <2>1, <1>1, Geometry
<1>3. \A k \in 0 .. last - 2 : from[k] = IF k < k0 THEN k ELSE k + 1
  OBVIOUS
<1> HIDE DEF from
<1>4. \A k \in 0 .. last - 2 : /\ from[k] \in 0 .. last - 1 /\ tb2[k] = tb[from[k]] /\ from[k] # k0
  <2> TAKE k \in 0 .. last - 2
  <2>1. CASE k < k0
    BY <2>1, <1>1, <1>2, <1>3
  <2>2. CASE ~(k < k0)
    BY <2>2, <1>1, <1>2, <1>3
  <2> QED BY <2>1, <2>2
<1>5. \A k \in 0 .. last - 2 : \A n \in U : tb2[k].header = HalfStart(h) + n => n \in V
  <2> SUFFICES ASSUME NEW k \in 0 .. last - 2, tb2[k].header = HalfStart(h) + p PROVE FALSE
    OBVIOUS
  <2> QED BY <1>1, <1>4
<1>6. \A j, k \in 0 .. last - 2 : from[j] = from[k] => j = k
  <2> SUFFICES ASSUME NEW j \in 0 .. last - 2, NEW k \in 0 .. last - 2, from[j] = from[k] PROVE j = k
    OBVIOUS
  <2>1. /\ from[j] = (IF j < k0 THEN j ELSE j + 1) /\ from[k] = (IF k < k0 THEN k ELSE k + 1)
    BY <1>3
  <2>2. j \in Int /\ k \in Int
    OBVIOUS
  <2>3. \A a, b, x, y, c \in Int : x = (IF a < c THEN a ELSE a + 1) /\ y = (IF b < c THEN b ELSE b + 1)
                                /\ x = y => a = b
    OBVIOUS
  <2>4. from[j] \in Int /\ from[k] \in Int
    BY <1>4
  <2> QED BY <2>1, <2>2, <2>3, <2>4, <1>2, Zenon
<1>7. ASSUME NEW n \in V, NEW j \in 0 .. last - 1, tb[j].header = HalfStart(h) + n
      PROVE  \E k \in 0 .. last - 2 : from[k] = j
  <2>1. n \in Int /\ p \in Int /\ n # p
    OBVIOUS
  <2>2. j # k0
    BY <2>1, <1>2, <1>7
  <2>3. CASE j < k0
    <3>1. j \in 0 .. last - 2
      BY <2>3, <1>1, <1>2
    <3> QED BY <3>1, <2>3, <1>3
  <2>4. CASE j > k0
    <3>1. j - 1 \in 0 .. last - 2 /\ ~(j - 1 < k0) /\ (j - 1) + 1 = j
      BY <2>4, <1>1, <1>2
    <3> QED BY <3>1, <1>3
  <2> QED BY <2>2, <2>3, <2>4, <1>2
<1>8. V \subseteq U
  OBVIOUS
<1> HIDE DEF V
<1>9. Table(gl, tb2, last - 1, h, V)
  <2> DEFINE last2 == last - 1
  <2>1. Picked(tb, last, U, tb2, last2, V, from, h)
    BY <1>2, <1>4, <1>5, <1>6, <1>7, <1>8 DEF Picked
  <2> HIDE DEF last2
  <2>2. Table(gl, tb2, last2, h, V)
    BY <2>1, TablePicked
  <2> QED BY <2>2 DEF last2
<1> QED BY <1>9, Zenon DEF V
-----------------------------------------------------------------------------
(***************************************************************************)
(* Calls that do not write.                                                *)
(***************************************************************************)
LEMMA MaxIs ==
  ASSUME NEW b \in Int, NEW N, N \subseteq 0 .. b, N # {}
  PROVE  Max(N) \in N /\ \A k \in N : k <= Max(N)
<1> DEFINE Rest == {b - k : k \in N}
<1>1. Rest \subseteq Nat /\ Rest # {}
  <2>1. \A k \in N : b - k \in Nat
    OBVIOUS
  <2>2. \E k \in N : TRUE
    OBVIOUS
  <2> QED BY <2>1, <2>2
<1>2. PICK r \in Rest : \A j \in Rest : r <= j
  <2> HIDE DEF Rest
  <2> QED BY <1>1, LeastNatural, Zenon
<1>3. PICK g \in N : r = b - g
  BY <1>2
<1>4. \A k \in N : k <= g
  <2> TAKE k \in N
  <2>1. b - g <= b - k
    BY <1>2, <1>3
  <2> QED BY <2>1
<1>5. \A k \in N : g >= k
  BY <1>4
<1>6. Max(N) \in N /\ \A k \in N : Max(N) >= k
  BY <1>5, Zenon DEF Max
<1> QED BY <1>6

\* The names in the table are distinct if those of the headers are.
LEMMA NamesDistinct ==
  ASSUME NEW fl, NEW tb, NEW last, NEW h, NEW U, U \subseteq Nat,
         Entries(fl, tb, last, h, U), OneOfEach(fl, h, U)
  PROVE  \A j, k \in 0 .. last - 1 : tb[j].name = tb[k].name => j = k
<1> SUFFICES ASSUME NEW j \in 0 .. last - 1, NEW k \in 0 .. last - 1, tb[j].name = tb[k].name
             PROVE  j = k
  OBVIOUS
<1>1. PICK n \in U : tb[j].header = HalfStart(h) + n /\ tb[j].name = Cell(fl, h, n).name
  BY Zenon DEF Entries
<1>2. PICK o \in U : tb[k].header = HalfStart(h) + o /\ tb[k].name = Cell(fl, h, o).name
  BY Zenon DEF Entries
<1>3. n = o
  BY <1>1, <1>2, Zenon DEF OneOfEach
<1>4. tb[j].header = tb[k].header
  BY <1>1, <1>2, <1>3
<1> QED BY <1>4, Zenon DEF Entries

LEMMA HalfIs == ASSUME TypeOK PROVE half \in BothHalves /\ OtherHalf \in BothHalves /\ OtherHalf = 1 - half
                                    /\ flash \in Flashes
BY DEF TypeOK, FIRST_HALF, SECOND_HALF, OtherHalf, BothHalves, Flashes

LEMMA SettledSame ==
  ASSUME Settled, UNCHANGED <<flash, half, next, end, lastFile, files>>
  PROVE  Settled'
BY DEF Settled, NoMore, M

LEMMA CallStep ==
  ASSUME FilesInv, UserCalls
  PROVE  FilesInv'
<1>1. pc = "idle" /\ TypeOK /\ Settled
  BY DEF FilesInv, Phases, UserCalls, Call, List
<1>2. ASSUME NEW op \in {"write", "read", "filesize", "erase"}, NEW name \in Names, NEW data,
             op = "write" => data \in Contents, Call(op, name, data)
      PROVE  FilesInv'
  <2>1. pc' = "find" /\ UNCHANGED <<flash, half, next, end, lastFile, files>>
        /\ UNCHANGED <<previous, after>> /\ index' = NO_HEADER /\ i' = lastFile
    BY <1>2 DEF Call, table
  <2>2. Settled'
    BY <1>1, <2>1, SettledSame
  <2>3. Requested' /\ ~Found'
    BY <1>2 DEF Call, Requested, Found
  <2>4. lastFile \in Nat /\ i' \in -1 .. lastFile /\ i' \in -2 .. HALF_SIZE
    BY <1>1, <2>1, Geometry DEF TypeOK
  <2>5. FindGood'
    BY <2>1, <2>2, <2>3, <2>4 DEF FindGood
  <2>6. TypeOK'
    BY <1>1, <2>1, <2>4 DEF TypeOK
  <2> QED BY <2>1, <2>5, <2>6 DEF FilesInv, Phases
<1>3. ASSUME List PROVE FilesInv'
  <2>1. pc' = "return" /\ UNCHANGED <<flash, half, next, end, lastFile, files>>
        /\ UNCHANGED <<index, previous, i, after>>
    BY <1>3 DEF List, table
  <2>2. Settled'
    BY <1>1, <2>1, SettledSame
  <2>3. TypeOK'
    BY <1>1, <2>1 DEF TypeOK
  <2> QED BY <2>1, <2>2, <2>3 DEF FilesInv, Phases
<1>4. ASSUME NEW name \in Names, NEW data \in Contents, Call("write", name, data) PROVE FilesInv'
  BY <1>2, <1>4
<1>5. ASSUME NEW name \in Names, NEW op \in {"read", "filesize", "erase"}, Call(op, name, <<>>)
      PROVE  FilesInv'
  BY <1>2, <1>5
<1> QED BY <1>3, <1>4, <1>5 DEF UserCalls

LEMMA ReturnStep ==
  ASSUME FilesInv, Return
  PROVE  FilesInv'
<1>1. TypeOK /\ Settled /\ pc' = "idle" /\ UNCHANGED <<flash, half, next, end, lastFile, files>>
      /\ UNCHANGED <<i, after>> /\ index' = NO_HEADER /\ previous' = 0
  BY DEF FilesInv, Phases, Return, Step, table
<1>2. Settled'
  BY <1>1, SettledSame
<1>3. TypeOK'
  BY <1>1, Geometry DEF TypeOK
<1> QED BY <1>1, <1>2, <1>3 DEF FilesInv, Phases

LEMMA FindNewestStep ==
  ASSUME FilesInv, FindNewest
  PROVE  FilesInv'
<1> DEFINE k == Max(Matches)
<1>1. TypeOK /\ FindGood /\ pc' = "find" /\ ~Found /\ Matches # {} /\ index' = k /\ i' = k - 1
      /\ UNCHANGED <<flash, half, next, end, lastFile, files>> /\ UNCHANGED <<request, previous, after>>
  BY DEF FilesInv, Phases, FindNewest, Step, table
<1>2. Settled /\ Requested /\ i = lastFile /\ lastFile \in Nat /\ NoMore
  BY <1>1 DEF FindGood, TypeOK, Settled
<1>3. k \in Matches
  <2>1. Matches \subseteq 0 .. lastFile
    BY <1>2 DEF Matches
  <2>2. lastFile \in Int /\ Matches # {}
    BY <1>1, <1>2
  <2> QED BY <2>1, <2>2, MaxIs, Zenon
<1> HIDE DEF k
<1>4. k \in 0 .. lastFile /\ files[k].valid = USED /\ files[k].name = request.name
  BY <1>2, <1>3 DEF Matches
<1>5. k \in 0 .. lastFile - 1
  BY <1>2, <1>4 DEF NoMore
<1>6. Settled'
  BY <1>1, <1>2, SettledSame
<1>7. Requested' /\ FileFound' /\ Found'
  BY <1>1, <1>2, <1>4, <1>5 DEF Requested, FileFound, Found, NO_HEADER
<1>8. i' \in -1 .. lastFile' /\ i' < index'
  BY <1>1, <1>2, <1>5
<1>9. FindGood'
  BY <1>6, <1>7, <1>8 DEF FindGood
<1>10. TypeOK'
  <2>1. k \in 0 .. HALF_SIZE /\ k - 1 \in -2 .. HALF_SIZE
    BY <1>1, <1>5, Geometry DEF TypeOK
  <2> QED BY <1>1, <2>1 DEF TypeOK
<1> QED BY <1>1, <1>9, <1>10 DEF FilesInv, Phases

\* There is no older version to remove.
LEMMA RemoveOlderStep ==
  ASSUME FilesInv, RemoveOlder
  PROVE  FALSE
<1> DEFINE U == UsedIn(flash, half, M)
<1>1. TypeOK /\ FindGood /\ Found /\ Matches # {}
  BY DEF FilesInv, Phases, RemoveOlder, Step
<1>2. Settled /\ FileFound /\ i < index /\ i \in Int
  BY <1>1 DEF FindGood, TypeOK
<1>3. PICK k \in 0 .. i : files[k].valid = USED /\ files[k].name = request.name
  BY <1>1 DEF Matches
<1>4. /\ index \in 0 .. lastFile - 1 /\ files[index].name = request.name
      /\ k \in 0 .. lastFile - 1 /\ k # index
  BY <1>1, <1>2, <1>3 DEF FileFound, TypeOK
<1>5. U \subseteq Nat /\ Entries(flash, files, lastFile, half, U) /\ OneOfEach(flash, half, U)
  <2>1. U \subseteq 1 .. M
    BY UsedAre
  <2>2. Entries(flash, files, lastFile, half, U) /\ OneOfEach(flash, half, U)
    BY <1>2 DEF Settled, Table
  <2>3. M \in Nat
    BY <1>2 DEF Settled, HalfGood
  <2> QED BY <2>1, <2>2, <2>3
<1>6. half \in BothHalves
  BY <1>1, HalfIs
<1> HIDE DEF U
<1>7. files[k].name = files[index].name
  BY <1>3, <1>4
<1>8. k \in 0 .. lastFile - 1 /\ index \in 0 .. lastFile - 1 /\ k # index
  BY <1>4
<1>9. \A j, l \in 0 .. lastFile - 1 : files[j].name = files[l].name => j = l
  BY <1>5, NamesDistinct
<1> QED BY <1>7, <1>8, <1>9, Zenon

LEMMA AnsweredStep ==
  ASSUME FilesInv, NotFound \/ Read
  PROVE  FilesInv'
<1>1. TypeOK /\ FindGood /\ pc' = "return" /\ UNCHANGED <<flash, half, next, end, lastFile, files>>
      /\ UNCHANGED <<index, previous, after>> /\ i' = 0
  BY DEF FilesInv, Phases, NotFound, Read, FindEnds, Step, table
<1>2. Settled'
  BY <1>1, SettledSame DEF FindGood
<1>3. TypeOK'
  BY <1>1, Geometry DEF TypeOK
<1> QED BY <1>1, <1>2, <1>3 DEF FilesInv, Phases

LEMMA FullStep ==
  ASSUME FilesInv, Full
  PROVE  FilesInv'
<1>1. TypeOK /\ RoomGood /\ pc' = "return" /\ UNCHANGED <<flash, half, next, end, lastFile, files>>
      /\ UNCHANGED <<index, previous, after, i>>
  BY DEF FilesInv, Phases, Full, Step, table
<1>2. Settled'
  BY <1>1, SettledSame DEF RoomGood
<1>3. TypeOK'
  BY <1>1, Geometry DEF TypeOK
<1> QED BY <1>1, <1>2, <1>3 DEF FilesInv, Phases

LEMMA WritesSame ==
  ASSUME Writes, UNCHANGED <<request, index, lastFile, files>>
  PROVE  Writes'
BY DEF Writes, Requested, Found, FileFound, NewName

LEMMA EnterChangeHalfStep ==
  ASSUME FilesInv, EnterChangeHalf
  PROVE  FilesInv'
<1>1. TypeOK /\ RoomGood /\ pc' = "eraseNext" /\ UNCHANGED <<flash, half, next, end, lastFile, files>>
      /\ UNCHANGED <<request, index, previous, after, i>>
      /\ copied' = <<OtherStart + 1, OtherStart + HALF_SIZE>>
  BY DEF FilesInv, Phases, EnterChangeHalf, Step, table, call, OtherStart
<1>2. Settled' /\ Writes' /\ i = 0
  BY <1>1, SettledSame, WritesSame DEF RoomGood
<1>3. TypeOK'
  BY <1>1, Geometry DEF TypeOK
<1>4. OtherStart' = OtherStart /\ OtherStart \in Nat
  <2>1. OtherStart' = OtherStart
    BY <1>1 DEF OtherStart, OtherHalf
  <2>2. OtherStart \in Nat
    BY <1>1, HalfIs, Halves DEF OtherStart
  <2> QED BY <2>1, <2>2
<1>5. i' \in 0 .. BlocksPerHalf - 1 /\ OtherStart + i' * BlockSize = OtherStart
  BY <1>1, <1>2, <1>4, GeometryAssumption
<1>6. BlankFrom(flash', OtherStart', OtherStart' + i' * BlockSize)
  <2>1. BlankFrom(flash', OtherStart, OtherStart)
    BY <1>4, Geometry DEF BlankFrom
  <2> QED BY <1>4, <1>5, <2>1
<1>7. EraseNextGood'
  BY <1>1, <1>2, <1>4, <1>5, <1>6 DEF EraseNextGood, Moving
<1> QED BY <1>1, <1>3, <1>7 DEF FilesInv, Phases
-----------------------------------------------------------------------------
(***************************************************************************)
(* Erase, and the steps of a write.                                        *)
(***************************************************************************)
LEMMA UseKept ==
  ASSUME NEW fl \in Flashes, NEW gl, NEW h \in BothHalves, NEW q \in 1 .. HALF_SIZE - 1,
         NEW c, PutsAt(fl, gl, h, q, c), InUse(fl, h)
  PROVE  InUse(gl, h)
<1>1. q \in 0 .. HALF_SIZE - 1 /\ 0 \in 0 .. HALF_SIZE - 1 /\ q # 0
  BY Geometry
<1>2. Cell(gl, h, 0) = Cell(fl, h, 0) /\ Cell(gl, 1 - h, 0) = Cell(fl, 1 - h, 0)
  BY <1>1, PutInHalf
<1>3. HalfStart(h) \in Nat /\ HalfStart(1 - h) \in Nat /\ HalfStart(0) = 0
  <2>1. 1 - h \in BothHalves
    BY Halves
  <2> QED BY <2>1, Halves
<1>4. HalfStart(h) + 0 = HalfStart(h) /\ HalfStart(1 - h) + 0 = HalfStart(1 - h)
  BY <1>3
<1>5. gl[HalfStart(h)] = fl[HalfStart(h)] /\ gl[HalfStart(1 - h)] = fl[HalfStart(1 - h)]
  BY <1>2, <1>4 DEF Cell
<1>6. CASE h = 0
  BY <1>5, <1>6 DEF InUse, SECOND_HALF
<1>7. CASE h = 1
  <2>1. HalfStart(1 - h) = 0
    BY <1>3, <1>7
  <2> QED BY <2>1, <1>5 DEF InUse
<1> QED BY <1>6, <1>7 DEF BothHalves

\* A header is marked deleted.
LEMMA HeaderDeleted ==
  ASSUME NEW fl \in Flashes, NEW gl, NEW h \in BothHalves, NEW m, HalfGood(fl, h, m),
         InUse(fl, h), NEW q \in 1 .. m, MarksAt(fl, gl, h, q, DELETED)
  PROVE  /\ gl \in Flashes /\ HalfGood(gl, h, m) /\ InUse(gl, h)
         /\ \A n \in 0 .. m : Starts(gl, h, n) = Starts(fl, h, n)
         /\ NamesKept(fl, gl, h, m) /\ UsedIn(gl, h, m) = UsedIn(fl, h, m) \ {q}
<1>1. m \in 0 .. HALF_SIZE - 1
  BY DEF HalfGood
<1>2. q \in 1 .. HALF_SIZE - 1 /\ DELETED \in {USED, DELETED} /\ DELETED # USED
  BY <1>1, Geometry DEF DELETED, USED
<1>3. /\ HalfGood(gl, h, m) /\ \A n \in 0 .. m : Starts(gl, h, n) = Starts(fl, h, n)
      /\ \A n \in 1 .. m : /\ Cell(gl, h, n).length = Cell(fl, h, n).length
                           /\ Cell(gl, h, n).name = Cell(fl, h, n).name
                           /\ n # q => Cell(gl, h, n) = Cell(fl, h, n)
      /\ UsedIn(gl, h, m) = UsedIn(fl, h, m) \ {q}
  <2>1. Marked(fl, gl, h, m, q, DELETED)
    BY <1>2, HeaderMarked
  <2> QED BY <2>1 DEF Marked
<1>4. PutsAt(fl, gl, h, q, gl[HalfStart(h) + q])
  BY MarkIsPut, Zenon
<1>5. InUse(gl, h)
  <2>1. ASSUME NEW c, PutsAt(fl, gl, h, q, c) PROVE InUse(gl, h)
    BY <2>1, <1>2, UseKept
  <2> QED BY <2>1, <1>4, Zenon
<1>6. gl \in Flashes
  BY Zenon DEF MarksAt, Marks
<1>7. NamesKept(fl, gl, h, m)
  BY <1>3 DEF NamesKept
<1> QED BY <1>3, <1>5, <1>6, <1>7

LEMMA OneOfEachKept ==
  ASSUME NEW fl, NEW gl, NEW h, NEW m, NamesKept(fl, gl, h, m), NEW U, U \subseteq 1 .. m,
         OneOfEach(fl, h, U), NEW V, V \subseteq U
  PROVE  OneOfEach(gl, h, V)
<1> SUFFICES ASSUME NEW n \in V, NEW k \in V, Cell(gl, h, n).name = Cell(gl, h, k).name PROVE n = k
  BY DEF OneOfEach
<1>1. n \in U /\ k \in U /\ n \in 1 .. m /\ k \in 1 .. m
  OBVIOUS
<1>2. Cell(fl, h, n).name = Cell(fl, h, k).name
  BY <1>1, Zenon DEF NamesKept
<1> QED BY <1>1, <1>2, Zenon DEF OneOfEach

\* The entry of a file that was found is that of a header.
LEMMA FoundEntry ==
  ASSUME NEW fl, NEW tb, NEW last, NEW h, NEW U, Entries(fl, tb, last, h, U), NEW k \in 0 .. last - 1
  PROVE  \E n \in U : tb[k].header = HalfStart(h) + n /\ tb[k].name = Cell(fl, h, n).name
BY Zenon DEF Entries

LEMMA SettledFacts ==
  ASSUME TypeOK, Settled
  PROVE  /\ half \in BothHalves /\ flash \in Flashes /\ M \in 0 .. HALF_SIZE - 2
         /\ InUse(flash, half) /\ HalfGood(flash, half, M) /\ end = Starts(flash, half, M)
         /\ OneOfEach(flash, half, UsedIn(flash, half, M)) /\ UsedIn(flash, half, M) \subseteq 1 .. M
         /\ Table(flash, files, lastFile, half, UsedIn(flash, half, M)) /\ NoMore
         /\ Entries(flash, files, lastFile, half, UsedIn(flash, half, M))
         /\ Extents(flash, files, half, 0 .. lastFile - 1)
         /\ lastFile \in 0 .. HALF_SIZE - 1 /\ lastFile <= M
<1>1. half \in BothHalves /\ flash \in Flashes
  BY HalfIs
<1>2. /\ InUse(flash, half) /\ HalfGood(flash, half, M) /\ end = Starts(flash, half, M)
      /\ OneOfEach(flash, half, UsedIn(flash, half, M))
      /\ Table(flash, files, lastFile, half, UsedIn(flash, half, M)) /\ NoMore
  BY DEF Settled
<1>3. M \in 0 .. HALF_SIZE - 2
  BY <1>1, <1>2, HalfFacts
<1>4. /\ Entries(flash, files, lastFile, half, UsedIn(flash, half, M))
      /\ Extents(flash, files, half, 0 .. lastFile - 1) /\ lastFile \in 0 .. HALF_SIZE - 1
  BY <1>2 DEF Table
<1>5. UsedIn(flash, half, M) \subseteq 1 .. M
  BY UsedAre
<1>6. lastFile <= M
  <2> DEFINE m == M
             U == UsedIn(flash, half, M)
  <2>1. m \in Nat /\ U \subseteq 1 .. m /\ lastFile \in Nat /\ Entries(flash, files, lastFile, half, U)
    BY <1>3, <1>4, <1>5
  <2> HIDE DEF m, U
  <2>2. lastFile <= m
    BY <2>1, <1>1, TableBound
  <2> QED BY <2>2 DEF m
<1> QED BY <1>1, <1>2, <1>3, <1>4, <1>5, <1>6

LEMMA EraseStep ==
  ASSUME FilesInv, Erase
  PROVE  FilesInv'
<1> DEFINE x == files[index].header
           U == UsedIn(flash, half, M)
<1>1. /\ TypeOK /\ FindGood /\ Found /\ pc' = "return" /\ i' = 0 /\ UNCHANGED <<index, previous, after>>
      /\ flash' = Written(x, <<Valid(DELETED)>>)
      /\ files' = [j \in DOMAIN files |-> IF j \in index .. lastFile - 1 THEN files[j + 1] ELSE files[j]]
      /\ lastFile' = lastFile - 1 /\ UNCHANGED <<next, end, half>>
  BY DEF FilesInv, Phases, Erase, FindEnds, Step, RemoveFileHeader
<1>2. Settled /\ index \in 0 .. lastFile - 1
  BY <1>1 DEF FindGood, FileFound
<1>3. /\ half \in BothHalves /\ flash \in Flashes /\ M \in 0 .. HALF_SIZE - 2
      /\ InUse(flash, half) /\ HalfGood(flash, half, M) /\ end = Starts(flash, half, M)
      /\ OneOfEach(flash, half, U) /\ U \subseteq 1 .. M
      /\ Table(flash, files, lastFile, half, U) /\ NoMore
      /\ Entries(flash, files, lastFile, half, U) /\ lastFile \in 0 .. HALF_SIZE - 1
  BY <1>1, <1>2, SettledFacts
<1> HIDE DEF U
<1>4. PICK p \in U : x = HalfStart(half) + p
  BY <1>2, <1>3, FoundEntry
<1>5. MarksAt(flash, flash', half, p, DELETED)
  <2>1. x \in Addresses
    <3>1. p \in 0 .. HALF_SIZE - 1
      BY <1>3, Geometry
    <3> QED BY <3>1, <1>3, <1>4, CellsAre
  <2> QED BY <2>1, <1>1, <1>3, <1>4, StatusWritten DEF MarksAt
<1>6. /\ flash' \in Flashes /\ HalfGood(flash', half, M) /\ InUse(flash', half)
      /\ \A n \in 0 .. M : Starts(flash', half, n) = Starts(flash, half, n)
      /\ NamesKept(flash, flash', half, M) /\ UsedIn(flash', half, M) = U \ {p}
  <2>1. p \in 1 .. M
    BY <1>3
  <2> QED BY <2>1, <1>3, <1>5, HeaderDeleted DEF U
<1>0. DOMAIN files = 0 .. HALF_SIZE /\ lastFile \in 1 .. HALF_SIZE - 1 /\ HALF_SIZE \in Nat /\ index \in Nat
  BY <1>1, <1>2, <1>3, Geometry DEF TypeOK
<1>7. \A k \in 0 .. lastFile - 2 : files'[k] = IF k < index THEN files[k] ELSE files[k + 1]
  <2> TAKE k \in 0 .. lastFile - 2
  <2>1. k \in 0 .. HALF_SIZE /\ (k \in index .. lastFile - 1 <=> ~(k < index))
    BY <1>0
  <2>2. files'[k] = IF k \in index .. lastFile - 1 THEN files[k + 1] ELSE files[k]
    BY <2>1, <1>0, <1>1
  <2> QED BY <2>1, <2>2
<1>8. Table(flash', files', lastFile - 1, half, U \ {p})
  <2>1. M \in 0 .. HALF_SIZE - 1 /\ files[index].header = HalfStart(half) + p
    BY <1>3, <1>4, Geometry
  <2> QED BY <2>1, <1>2, <1>3, <1>6, <1>7, TableRemoved, ZenonT(30)
<1>9. OneOfEach(flash', half, U \ {p})
  BY <1>3, <1>6, OneOfEachKept
<1>10. M' = M
  BY <1>1 DEF M
<1>11. files' \in [0 .. HALF_SIZE -> [valid : 0 .. 3, name : Fields,
                     length : 0 .. FieldSize - 1, header : Addresses, start : Addresses]]
       /\ files'[lastFile - 1] = files[lastFile]
  <2> DEFINE Entry == [valid : 0 .. 3, name : Fields,
                      length : 0 .. FieldSize - 1, header : Addresses, start : Addresses]
  <2>1. files \in [0 .. HALF_SIZE -> Entry]
    BY <1>1 DEF TypeOK
  <2> HIDE DEF Entry
  <2>2. \A j \in 0 .. HALF_SIZE : j \in index .. lastFile - 1 => j + 1 \in 0 .. HALF_SIZE
    BY <1>0
  <2>3. files' \in [0 .. HALF_SIZE -> Entry]
    BY <2>1, <2>2, <1>0, <1>1
  <2>4. /\ lastFile - 1 \in 0 .. HALF_SIZE /\ lastFile - 1 \in index .. lastFile - 1
        /\ (lastFile - 1) + 1 = lastFile
    BY <1>0, <1>2
  <2>5. files'[lastFile - 1] = files[(lastFile - 1) + 1]
    BY <2>4, <1>0, <1>1
  <2> QED BY <2>3, <2>4, <2>5 DEF Entry
<1>12. NoMore'
  <2>1. lastFile - 1 \in 0 .. HALF_SIZE - 1
    BY <1>0
  <2> QED BY <2>1, <1>1, <1>3, <1>11 DEF NoMore
<1>13. end = Starts(flash', half, M)
  <2>1. M \in 0 .. M
    BY <1>3
  <2> QED BY <2>1, <1>3, <1>6
<1>14. Settled'
  BY <1>1, <1>6, <1>8, <1>9, <1>10, <1>12, <1>13 DEF Settled
<1>15. TypeOK'
  <2>1. lastFile' \in 0 .. HALF_SIZE /\ i' \in -2 .. HALF_SIZE
    BY <1>0, <1>1
  <2> QED BY <2>1, <1>1, <1>6, <1>11 DEF TypeOK, Flashes
<1> QED BY <1>1, <1>14, <1>15 DEF FilesInv, Phases

-----------------------------------------------------------------------------
(***************************************************************************)
(* The table while a file is written.                                      *)
(***************************************************************************)
EntryType == [valid : 0 .. 3, name : Fields, length : 0 .. FieldSize - 1,
              header : Addresses, start : Addresses]
FileTables == [0 .. HALF_SIZE -> EntryType]

LEMMA TablesAre ==
  ASSUME TypeOK
  PROVE  /\ files \in FileTables /\ lastFile \in 0 .. HALF_SIZE
         /\ \A k \in 0 .. HALF_SIZE : /\ files[k] \in EntryType /\ files[k].header \in Addresses
                                      /\ files[k].start \in Addresses /\ files[k].name \in Fields
<1>1. files \in FileTables /\ lastFile \in 0 .. HALF_SIZE
  BY DEF TypeOK, FileTables, EntryType
<1>2. ASSUME NEW k \in 0 .. HALF_SIZE PROVE files[k] \in EntryType
  BY <1>1, Zenon DEF FileTables
<1>3. \A e \in EntryType : e.header \in Addresses /\ e.start \in Addresses /\ e.name \in Fields
  BY DEF EntryType
<1> QED BY <1>1, <1>2, <1>3

\* One entry of the table changes.
EntryPut(tb, tb2, k, e) ==
  /\ tb2 \in FileTables /\ tb2[k] = e /\ \A j \in 0 .. HALF_SIZE : j # k => tb2[j] = tb[j]

LEMMA EntryChanged ==
  ASSUME NEW tb \in FileTables, NEW k \in 0 .. HALF_SIZE, NEW e \in EntryType
  PROVE  EntryPut(tb, [tb EXCEPT ![k] = e], k, e)
BY DEF EntryPut, FileTables

LEMMA FieldsChanged ==
  ASSUME NEW tb \in FileTables, NEW k \in 0 .. HALF_SIZE
  PROVE  /\ tb[k] \in EntryType
         /\ \A name \in Fields : EntryPut(tb, [tb EXCEPT ![k].name = name], k, [tb[k] EXCEPT !.name = name])
         /\ \A a \in Addresses : EntryPut(tb, [tb EXCEPT ![k].start = a], k, [tb[k] EXCEPT !.start = a])
         /\ \A l \in 0 .. F : EntryPut(tb, [tb EXCEPT ![k].length = l], k, [tb[k] EXCEPT !.length = l])
<1>1. tb[k] \in EntryType
  BY Zenon DEF FileTables
<1>2. ASSUME NEW name \in Fields
      PROVE  EntryPut(tb, [tb EXCEPT ![k].name = name], k, [tb[k] EXCEPT !.name = name])
  <2>1. [tb[k] EXCEPT !.name = name] \in EntryType
    BY <1>1 DEF EntryType
  <2> QED BY <2>1, EntryChanged
<1>3. ASSUME NEW a \in Addresses
      PROVE  EntryPut(tb, [tb EXCEPT ![k].start = a], k, [tb[k] EXCEPT !.start = a])
  <2>1. [tb[k] EXCEPT !.start = a] \in EntryType
    BY <1>1 DEF EntryType
  <2> QED BY <2>1, EntryChanged
<1>4. ASSUME NEW l \in 0 .. F
      PROVE  EntryPut(tb, [tb EXCEPT ![k].length = l], k, [tb[k] EXCEPT !.length = l])
  <2>1. [tb[k] EXCEPT !.length = l] \in EntryType
    <3>1. l \in 0 .. FieldSize - 1
      BY Geometry
    <3> QED BY <1>1, <3>1 DEF EntryType
  <2> QED BY <2>1, EntryChanged
<1> QED BY <1>1, <1>2, <1>3, <1>4

\* The table holds the headers U, and the entries K also say where their data is.
Known(fl, tb, last, h, U, K) ==
  Entries(fl, tb, last, h, U) /\ Extents(fl, tb, h, K) /\ K \subseteq 0 .. last - 1
Agree(tb, tb2, last, K) ==
  /\ \A k \in 0 .. last - 1 :
       tb2[k].valid = tb[k].valid /\ tb2[k].name = tb[k].name /\ tb2[k].header = tb[k].header
  /\ \A k \in K : tb2[k] = tb[k]

LEMMA KnownKept ==
  ASSUME NEW fl \in Flashes, NEW gl \in Flashes, NEW h \in BothHalves,
         NEW m \in 0 .. HALF_SIZE - 1,
         NamesKept(fl, gl, h, m), NEW tb, NEW last, NEW U, U \subseteq 1 .. m,
         NEW K, Known(fl, tb, last, h, U, K), NEW tb2, Agree(tb, tb2, last, K)
  PROVE  Known(gl, tb2, last, h, U, K)
<1>0. Entries(fl, tb, last, h, U) /\ Extents(fl, tb, h, K) /\ K \subseteq 0 .. last - 1
  BY DEF Known
<1>1. ASSUME NEW k \in 0 .. last - 1
      PROVE  /\ tb2[k].valid = USED
             /\ \E n \in U : tb2[k].header = HalfStart(h) + n /\ tb2[k].name = Cell(gl, h, n).name
  <2>1. tb[k].valid = USED
    BY <1>0, Zenon DEF Entries
  <2>2. PICK n \in U : tb[k].header = HalfStart(h) + n /\ tb[k].name = Cell(fl, h, n).name
    BY <1>0, Zenon DEF Entries
  <2>3. Cell(gl, h, n).name = Cell(fl, h, n).name
    BY Zenon DEF NamesKept
  <2>4. tb2[k].valid = tb[k].valid /\ tb2[k].name = tb[k].name /\ tb2[k].header = tb[k].header
    BY Zenon DEF Agree
  <2> QED BY <2>1, <2>2, <2>3, <2>4
<1>2. ASSUME NEW j \in 0 .. last - 1, NEW k \in 0 .. last - 1, tb2[j].header = tb2[k].header
      PROVE  j = k
  <2>1. tb[j].header = tb[k].header
    BY <1>2, Zenon DEF Agree
  <2> QED BY <1>0, <2>1, Zenon DEF Entries
<1>3. ASSUME NEW n \in U PROVE \E k \in 0 .. last - 1 : tb2[k].header = HalfStart(h) + n
  <2>1. PICK k \in 0 .. last - 1 : tb[k].header = HalfStart(h) + n
    BY <1>0, Zenon DEF Entries
  <2>2. tb2[k].header = tb[k].header
    BY Zenon DEF Agree
  <2> QED BY <2>1, <2>2
<1>4. Entries(gl, tb2, last, h, U)
  BY <1>1, <1>2, <1>3, Zenon DEF Entries
<1>5. \A n \in 0 .. m : Starts(gl, h, n) = Starts(fl, h, n)
  <2>1. \A n \in 1 .. m : Cell(gl, h, n).length = Cell(fl, h, n).length
    BY Zenon DEF NamesKept
  <2> QED BY <2>1, StartsSame
<1>6. ASSUME NEW k \in K
      PROVE  /\ tb2[k].length = gl[tb2[k].header].length
             /\ tb2[k].start = StartsOf(gl, h)[tb2[k].header]
  <2>1. k \in 0 .. last - 1
    BY <1>0
  <2>2. PICK n \in U : tb[k].header = HalfStart(h) + n
    BY <1>0, <2>1, Zenon DEF Entries
  <2>3. tb[k].length = Cell(fl, h, n).length /\ tb[k].start = Starts(fl, h, n)
    BY <1>0, <2>2, Zenon DEF Extents, Cell, Starts
  <2>4. n \in 1 .. m /\ n \in 0 .. m
    OBVIOUS
  <2>5. Cell(gl, h, n).length = Cell(fl, h, n).length /\ Starts(gl, h, n) = Starts(fl, h, n)
    BY <2>4, <1>5, Zenon DEF NamesKept
  <2>6. tb2[k] = tb[k]
    BY Zenon DEF Agree
  <2> QED BY <2>2, <2>3, <2>5, <2>6, Zenon DEF Cell, Starts
<1>7. Extents(gl, tb2, h, K)
  BY <1>6, Zenon DEF Extents
<1> QED BY <1>0, <1>4, <1>7 DEF Known

\* What is written in a half above its headers.
LEMMA WrittenAbove ==
  ASSUME NEW fl \in Flashes, NEW gl \in Flashes, NEW h \in BothHalves, NEW m \in 0 .. HALF_SIZE - 1,
         NEW e \in Int, e > HalfStart(h) + m,
         \A a \in Addresses : ~(e <= a /\ a < HalfStart(h) + HALF_SIZE) => gl[a] = fl[a]
  PROVE  /\ \A n \in 0 .. m : Cell(gl, h, n) = Cell(fl, h, n)
         /\ \A n \in 0 .. m : Starts(gl, h, n) = Starts(fl, h, n)
         /\ NamesKept(fl, gl, h, m) /\ UsedIn(gl, h, m) = UsedIn(fl, h, m)
         /\ HeadersGood(fl, h, m) => HeadersGood(gl, h, m)
         /\ InUse(fl, h) => InUse(gl, h)
         /\ \A n \in 0 .. HALF_SIZE - 1 : Cell(gl, 1 - h, n) = Cell(fl, 1 - h, n)
<1>0. /\ 1 - h \in BothHalves /\ HalfStart(h) \in Nat /\ HalfStart(1 - h) \in Nat /\ HalfStart(0) = 0
      /\ \/ HalfStart(h) = HalfStart(1 - h) + HALF_SIZE
         \/ HalfStart(1 - h) = HalfStart(h) + HALF_SIZE
  <2>1. 1 - h \in BothHalves
    BY Halves
  <2> QED BY <2>1, Halves
<1>1. \A n \in 0 .. m : Cell(gl, h, n) = Cell(fl, h, n)
  <2> TAKE n \in 0 .. m
  <2>1. n \in 0 .. HALF_SIZE - 1
    BY Geometry
  <2>2. HalfStart(h) + n \in Addresses
    BY <2>1, CellsAre
  <2>3. ~(e <= HalfStart(h) + n)
    BY <1>0
  <2> QED BY <2>2, <2>3 DEF Cell
<1>2. \A n \in 1 .. m : Cell(gl, h, n) = Cell(fl, h, n)
  BY <1>1
<1>3. \A n \in 0 .. m : Starts(gl, h, n) = Starts(fl, h, n)
  <2>1. \A n \in 1 .. m : Cell(gl, h, n).length = Cell(fl, h, n).length
    BY <1>2
  <2> QED BY <2>1, StartsSame
<1>4. NamesKept(fl, gl, h, m) /\ UsedIn(gl, h, m) = UsedIn(fl, h, m)
  BY <1>2 DEF NamesKept, UsedIn
<1>5. HeadersGood(fl, h, m) => HeadersGood(gl, h, m)
  BY <1>2, <1>3, Zenon DEF HeadersGood, Chained, IsHeader, IsPhantom
<1>6. \A n \in 0 .. HALF_SIZE - 1 : Cell(gl, 1 - h, n) = Cell(fl, 1 - h, n)
  <2> TAKE n \in 0 .. HALF_SIZE - 1
  <2>1. HalfStart(1 - h) + n \in Addresses
    BY <1>0, CellsAre
  <2>2. ~(e <= HalfStart(1 - h) + n /\ HalfStart(1 - h) + n < HalfStart(h) + HALF_SIZE)
    BY <1>0, Geometry
  <2> QED BY <2>1, <2>2 DEF Cell
<1>7. ASSUME InUse(fl, h) PROVE InUse(gl, h)
  <2>1. 0 \in 0 .. m /\ 0 \in 0 .. HALF_SIZE - 1
    BY Geometry
  <2>2. Cell(gl, h, 0) = Cell(fl, h, 0) /\ Cell(gl, 1 - h, 0) = Cell(fl, 1 - h, 0)
    BY <2>1, <1>1, <1>6
  <2>3. HalfStart(h) + 0 = HalfStart(h) /\ HalfStart(1 - h) + 0 = HalfStart(1 - h)
    BY <1>0
  <2>4. gl[HalfStart(h)] = fl[HalfStart(h)] /\ gl[HalfStart(1 - h)] = fl[HalfStart(1 - h)]
    BY <2>2, <2>3 DEF Cell
  <2>5. h = 1 => HalfStart(1 - h) = 0
    BY <1>0
  <2> QED BY <2>4, <2>5, <1>7 DEF InUse, SECOND_HALF
<1> QED BY <1>1, <1>3, <1>4, <1>5, <1>6, <1>7

-----------------------------------------------------------------------------
(***************************************************************************)
(* The steps of a write.                                                   *)
(***************************************************************************)
\* Parts of the invariant survive if what they speak of does.
LEMMA WritesKept ==
  ASSUME Writes, UNCHANGED <<request, index, lastFile>>,
         \A k \in 0 .. lastFile - 1 : files'[k].name = files[k].name
  PROVE  Writes'
<1>1. Requested' /\ Found' = Found /\ request'.op = "write"
  BY DEF Writes, Requested, Found
<1>2. Found => FileFound'
  BY DEF Writes, FileFound
<1>3. ~Found => NewName'
  BY DEF Writes, NewName
<1> QED BY <1>1, <1>2, <1>3 DEF Writes

LEMMA LengthIs ==
  ASSUME Writes
  PROVE  /\ Length = S /\ request.data \in Contents /\ S \in 1 .. F
         /\ \A k \in 1 .. S : request.data[k] \in Headers
<1>1. request.data \in Contents
  BY DEF Writes, Requested
<1>2. Length = S /\ S \in 1 .. F
  BY <1>1, SizeFits DEF Length, Fits
<1>3. request.data \in Seq(Headers)
  BY <1>1, ContentsAssumption
<1> QED BY <1>1, <1>2, <1>3 DEF Length

\* The table with the name of a new file behind it.
LEMMA NamedIs ==
  ASSUME TypeOK, Requested, lastFile \in 0 .. HALF_SIZE - 1, NEW tb, tb = NewlyNamed
  PROVE  /\ tb \in FileTables /\ \A k \in 0 .. lastFile - 1 : tb[k] = files[k]
         /\ tb[lastFile].valid = files[lastFile].valid
         /\ Found => tb = files
         /\ ~Found => tb[lastFile].name = request.name
<1>1. files \in FileTables
  BY TablesAre
<1>2. CASE Found
  BY <1>1, <1>2 DEF NewlyNamed
<1>3. CASE ~Found
  <2>1. tb = [files EXCEPT ![lastFile].name = request.name]
    BY <1>3 DEF NewlyNamed
  <2>2. lastFile \in 0 .. HALF_SIZE /\ request.name \in Fields
    BY Geometry DEF Requested, Fields
  <2>3. EntryPut(files, tb, lastFile, [files[lastFile] EXCEPT !.name = request.name])
    <3>1. EntryPut(files, [files EXCEPT ![lastFile].name = request.name], lastFile,
                   [files[lastFile] EXCEPT !.name = request.name])
      BY <1>1, <2>2, FieldsChanged, Zenon
    <3> QED BY <3>1, <2>1
  <2>4. files[lastFile] \in EntryType
    BY <2>2, TablesAre
  <2>5. tb \in FileTables /\ tb[lastFile] = [files[lastFile] EXCEPT !.name = request.name]
        /\ \A j \in 0 .. HALF_SIZE : j # lastFile => tb[j] = files[j]
    BY <2>3, Zenon DEF EntryPut
  <2>6. tb[lastFile].valid = files[lastFile].valid /\ tb[lastFile].name = request.name
    BY <2>4, <2>5 DEF EntryType
  <2>7. \A k \in 0 .. lastFile - 1 : k \in 0 .. HALF_SIZE /\ k # lastFile
    BY Geometry
  <2> QED BY <1>3, <2>5, <2>6, <2>7
<1> QED BY <1>2, <1>3

LEMMA EnterWriteStep ==
  ASSUME FilesInv, EnterWrite
  PROVE  FilesInv'
<1> DEFINE U == UsedIn(flash, half, M)
<1>1. /\ TypeOK /\ FindGood /\ Matches = {} /\ pc' = "room" /\ i' = 0
      /\ UNCHANGED <<flash, half, next, end, lastFile, request, index, previous, after>>
      /\ request.op = "write" /\ files' = NewlyNamed
  BY DEF FilesInv, Phases, EnterWrite, FindEnds, Step
<1>2. Settled /\ Requested
  BY <1>1 DEF FindGood
<1>3. /\ half \in BothHalves /\ flash \in Flashes /\ M \in 0 .. HALF_SIZE - 2
      /\ U \subseteq 1 .. M
      /\ Table(flash, files, lastFile, half, U) /\ NoMore
      /\ Entries(flash, files, lastFile, half, U) /\ lastFile \in 0 .. HALF_SIZE - 1
  BY <1>1, <1>2, SettledFacts
<1>4. /\ files' \in FileTables /\ \A k \in 0 .. lastFile - 1 : files'[k] = files[k]
      /\ files'[lastFile].valid = files[lastFile].valid
  BY <1>1, <1>2, <1>3, NamedIs
<1>5. Settled'
  <2>1. Table(flash, files', lastFile, half, U)
    <3>1. NamesKept(flash, flash, half, M)
      BY DEF NamesKept
    <3>2. M \in 0 .. HALF_SIZE - 1
      BY <1>3, Geometry
    <3>3. U \subseteq 1 .. M /\ Table(flash, files, lastFile, half, U) /\ half \in BothHalves
          /\ flash \in Flashes /\ \A k \in 0 .. lastFile - 1 : files'[k] = files[k]
      BY <1>3, <1>4
    <3> HIDE DEF U
    <3> QED BY <3>1, <3>2, <3>3, TableSame, ZenonT(30)
  <2>2. NoMore'
    BY <1>1, <1>3, <1>4 DEF NoMore
  <2>3. M' = M
    BY <1>1 DEF M
  <2> QED BY <1>1, <1>2, <2>1, <2>2, <2>3 DEF Settled
<1>6. Writes'
  <2>1. ~Found => NewName
    <3> SUFFICES ASSUME ~Found, NEW k \in 0 .. lastFile - 1, files[k].name = request.name
                 PROVE  FALSE
      BY DEF NewName
    <3>1. i = lastFile
      BY <1>1 DEF FindGood
    <3>2. files[k].valid = USED
      BY <1>3, Zenon DEF Entries
    <3>3. k \in 0 .. i
      BY <3>1, <1>3
    <3> QED BY <1>1, <3>2, <3>3 DEF Matches
  <2>2. Writes
    BY <1>1, <1>2, <2>1 DEF Writes, FindGood
  <2> QED BY <1>1, <1>4, <2>2, WritesKept
<1>7. RoomGood'
  BY <1>1, <1>5, <1>6 DEF RoomGood
<1>8. TypeOK'
  <2>1. i' \in -2 .. HALF_SIZE
    BY <1>1, Geometry
  <2> QED BY <1>1, <1>4, <2>1 DEF TypeOK, FileTables, EntryType
<1> QED BY <1>1, <1>7, <1>8 DEF FilesInv, Phases

LEMMA StartWriteStep ==
  ASSUME FilesInv, StartWrite
  PROVE  FilesInv'
<1> DEFINE U == UsedIn(flash, half, M)
<1>1. /\ TypeOK /\ RoomGood /\ Room /\ pc' = "data" /\ end' = (end - Length) % FlashSize
      /\ UNCHANGED <<flash, half, next, lastFile, request, index, after, i>>
      /\ files' = NewlyNamed /\ previous' = IF Found THEN files[index].header ELSE 0
  BY DEF FilesInv, Phases, StartWrite, Step
<1>2. Settled /\ Writes /\ i = 0
  BY <1>1 DEF RoomGood
<1>3. /\ half \in BothHalves /\ flash \in Flashes /\ M \in 0 .. HALF_SIZE - 2
      /\ InUse(flash, half) /\ HalfGood(flash, half, M) /\ end = Starts(flash, half, M)
      /\ OneOfEach(flash, half, U) /\ U \subseteq 1 .. M /\ NoMore
      /\ Entries(flash, files, lastFile, half, U) /\ Extents(flash, files, half, 0 .. lastFile - 1)
      /\ lastFile \in 0 .. HALF_SIZE - 1
  BY <1>1, <1>2, SettledFacts
<1>4. Length = S /\ S \in 1 .. F
  BY <1>2, LengthIs
<1>5. /\ files' \in FileTables /\ \A k \in 0 .. lastFile - 1 : files'[k] = files[k]
      /\ files'[lastFile].valid = files[lastFile].valid
      /\ Found => files' = files
      /\ ~Found => files'[lastFile].name = request.name
  <2>1. Requested
    BY <1>2 DEF Writes
  <2> QED BY <2>1, <1>1, <1>3, NamedIs
<1>6. /\ HalfStart(half) \in Nat /\ next = HalfStart(half) + M + 1 /\ HeadersGood(flash, half, M)
      /\ HalfStart(half) + HALF_SIZE < FlashSize /\ M \in 0 .. HALF_SIZE - 1
  <2>1. HalfStart(half) \in Nat /\ HalfStart(half) + HALF_SIZE < FlashSize
    BY <1>3, Halves
  <2>2. next \in Int
    BY <1>1, Geometry DEF TypeOK
  <2> QED BY <1>3, <2>1, <2>2, Geometry, SMTT(30) DEF M, HalfGood
<1>7. end \in HalfStart(half) + S .. HalfStart(half) + HALF_SIZE
  <2>1. M \in 0 .. M
    BY <1>3
  <2>2. \A n \in 0 .. M : Starts(flash, half, n) \in HalfStart(half) + S .. HalfStart(half) + HALF_SIZE
    BY <1>3, HalfFacts
  <2> QED BY <2>1, <2>2, <1>3
<1>8. end - S >= next + 1 /\ end' = end - S
  <2>1. end - S >= next + 1
    BY <1>1, <1>4, <1>6, <1>7 DEF Room
  <2>2. 0 <= end - S /\ end - S < FlashSize /\ end - S \in Int /\ FlashSize \in Int
    BY <1>4, <1>6, <1>7, Geometry
  <2>3. (end - S) % FlashSize = end - S
    BY <2>2, SmallMod
  <2> QED BY <2>1, <2>3, <1>1, <1>4
<1>9. end - S > next + 1
  <2>1. PICK p \in 0 .. Phantoms(M) : end = HalfStart(half) + DataEnd(S, M, p)
    <3>1. Chained(flash, half, M)
      BY <1>3, <1>6 DEF HeadersGood
    <3> QED BY <3>1, <1>3, Zenon DEF Chained
  <2>2. M \in Nat /\ M \in Int /\ M + 1 \in 0 .. HALF_SIZE
    BY <1>3, Geometry
  <2>3. p \in Int /\ p \in 0 .. Phantoms(M + 1)
    BY <2>2, PhantomCount
  <2>4. DataEnd(S, M, p) \in Int /\ DataEnd(S, M + 1, p) = DataEnd(S, M, p) - S
    BY <2>2, <2>3, DataEnds
  <2>5. DataEnd(S, M + 1, p) # (M + 1) + 1
    BY <2>2, <2>3, RoomLeft
  <2> QED BY <2>1, <2>2, <2>4, <2>5, <1>4, <1>6, <1>8
<1>10. BlankFrom(flash, next, end)
  <2>1. Starts(flash, half, M) > HalfStart(half) + M + 1
    BY <1>3, <1>4, <1>6, <1>7, <1>9
  <2>2. BlankFrom(flash, HalfStart(half) + M + 1, Starts(flash, half, M))
    BY <2>1, <1>3, HalfFacts
  <2> QED BY <2>2, <1>3, <1>6
<1>11. BlankFrom(flash, next, end - S)
  <2>1. \A a \in Addresses : a < end - S => a < end
    BY <1>4, <1>7, Geometry
  <2> QED BY <2>1, <1>10 DEF BlankFrom
<1>12. Overwriting'
  <2>1. Known(flash, files', lastFile, half, U, 0 .. lastFile - 1)
    <3>1. NamesKept(flash, flash, half, M)
      BY DEF NamesKept
    <3>2. Known(flash, files, lastFile, half, U, 0 .. lastFile - 1)
      BY <1>3 DEF Known
    <3>3. Agree(files, files', lastFile, 0 .. lastFile - 1)
      BY <1>5 DEF Agree
    <3> HIDE DEF U
    <3> QED BY <3>1, <3>2, <3>3, <1>3, <1>6, KnownKept
  <2>2. Extents(flash, files', half, (0 .. lastFile - 1) \ {index'})
    BY <2>1 DEF Extents, Known
  <2>3. NoMore'
    BY <1>1, <1>3, <1>5 DEF NoMore
  <2>4. Writes'
    BY <1>1, <1>2, <1>5, WritesKept
  <2>5. Found' = Found /\ Slot' = Slot /\ M' = M
    BY <1>1 DEF Found, Slot, M
  <2>6. Found => previous' = files'[index].header
    BY <1>1, <1>5
  <2>7. files'[Slot].name = request.name
    <3>1. CASE Found
      <4>1. files[index].name = request.name
        BY <1>2, <3>1 DEF Writes, FileFound
      <4> QED BY <4>1, <3>1, <1>5 DEF Slot
    <3>2. CASE ~Found
      BY <3>2, <1>5 DEF Slot
    <3> QED BY <3>1, <3>2
  <2> QED BY <2>1, <2>2, <2>3, <2>4, <2>5, <2>6, <2>7, <1>1, <1>3 DEF Overwriting, Known
<1>13. DataGood'
  <2>1. M' = M
    BY <1>1 DEF M
  <2>2. Starts(flash', half', M') = end' + S /\ end' + S = end /\ end' > next' + 1
    BY <2>1, <1>1, <1>3, <1>4, <1>7, <1>8, <1>9
  <2>3. i' = 0 /\ i' \in 0 .. S - 1
    BY <1>1, <1>2, <1>4
  <2> QED BY <2>1, <2>2, <2>3, <1>1, <1>6, <1>8, <1>10, <1>11, <1>12 DEF DataGood
<1>14. TypeOK'
  <2>1. end' \in 0 .. 2 * HALF_SIZE
    <3>1. HalfStart(half) + HALF_SIZE <= 2 * HALF_SIZE
      BY <1>3, Halves
    <3>2. HalfStart(half) \in Nat /\ HALF_SIZE \in Nat /\ S \in Nat
      BY <1>4, <1>6, Geometry
    <3>3. end - S \in 0 .. 2 * HALF_SIZE
      BY <3>1, <3>2, <1>7
    <3> QED BY <3>3, <1>8
  <2>2. previous' \in Addresses
    <3>1. CASE Found
      <4>1. index \in 0 .. lastFile - 1
        BY <3>1, <1>2 DEF Writes, FileFound
      <4>2. index \in 0 .. HALF_SIZE
        BY <4>1, <1>3, Geometry
      <4> QED BY <4>2, <3>1, <1>1, TablesAre
    <3>2. CASE ~Found
      BY <3>2, <1>1, Geometry
    <3> QED BY <3>1, <3>2
  <2> QED BY <2>1, <2>2, <1>1, <1>5 DEF TypeOK, FileTables, EntryType
<1> QED BY <1>1, <1>13, <1>14 DEF FilesInv, Phases

\* What a write of one cell does.
LEMMA CellWritten ==
  ASSUME flash \in Flashes, NEW x \in Addresses, NEW c \in Headers
  PROVE  /\ Written(x, <<c>>) \in Flashes
         /\ \A a \in Addresses : a # x => Written(x, <<c>>)[a] = flash[a]
<1>1. x \in Int /\ \A a \in Addresses : a \in x .. x + Len(<<c>>) - 1 <=> a = x
  BY Geometry
<1>2. \A a \in Addresses : flash[a] \in Headers
  BY LengthsAre
<1>3. Programmed(flash[x], c) \in Headers
  BY <1>2, ProgrammedIs
<1>4. x - x + 1 = 1 /\ <<c>>[1] = c
  BY <1>1
<1>5. \A a \in Addresses : Written(x, <<c>>)[a] = IF a = x THEN Programmed(flash[x], c) ELSE flash[a]
  BY <1>1, <1>4 DEF Written
<1>6. Written(x, <<c>>) \in Flashes
  <2>1. \A a \in Addresses : Written(x, <<c>>)[a] \in Headers
    BY <1>2, <1>3, <1>5
  <2>2. Written(x, <<c>>) = [a \in Addresses |-> Written(x, <<c>>)[a]]
    BY DEF Written
  <2> HIDE DEF Written
  <2> QED BY <2>1, <2>2 DEF Flashes
<1> QED BY <1>5, <1>6

LEMMA OverwritingFacts ==
  ASSUME TypeOK, Overwriting, M \in 0 .. HALF_SIZE - 1
  PROVE  /\ half \in BothHalves /\ flash \in Flashes /\ InUse(flash, half) /\ NoMore /\ Writes
         /\ UsedIn(flash, half, M) \subseteq 1 .. M
         /\ OneOfEach(flash, half, UsedIn(flash, half, M))
         /\ Known(flash, files, lastFile, half, UsedIn(flash, half, M), (0 .. lastFile - 1) \ {index})
         /\ lastFile \in 0 .. HALF_SIZE - 1 /\ lastFile <= M /\ Slot \in 0 .. lastFile
         /\ Found => Slot = index /\ index \in 0 .. lastFile - 1 /\ previous = files[index].header
         /\ ~Found => Slot = lastFile /\ index = NO_HEADER
         /\ files[Slot].name = request.name
<1> DEFINE U == UsedIn(flash, half, M)
           m == M
<1>1. half \in BothHalves /\ flash \in Flashes
  BY HalfIs
<1>2. /\ InUse(flash, half) /\ NoMore /\ Writes /\ OneOfEach(flash, half, U)
      /\ Entries(flash, files, lastFile, half, U)
      /\ Extents(flash, files, half, (0 .. lastFile - 1) \ {index})
      /\ (Found => previous = files[index].header) /\ files[Slot].name = request.name
  BY DEF Overwriting
<1>3. Known(flash, files, lastFile, half, U, (0 .. lastFile - 1) \ {index})
  BY <1>2 DEF Known
<1>4. lastFile \in 0 .. HALF_SIZE - 1
  BY <1>2 DEF NoMore
<1>5. U \subseteq 1 .. m
  BY UsedAre
<1>6. lastFile <= m
  <2>1. m \in Nat /\ lastFile \in Nat /\ Entries(flash, files, lastFile, half, U)
    BY <1>2, <1>4
  <2> HIDE DEF m, U
  <2> QED BY <2>1, <1>1, <1>5, TableBound
<1>7. Found => Slot = index /\ index \in 0 .. lastFile - 1
  BY <1>2 DEF Slot, Writes, FileFound
<1>8. ~Found => Slot = lastFile /\ index = NO_HEADER
  BY DEF Slot, Found
<1>9. Slot \in 0 .. lastFile
  BY <1>4, <1>7, <1>8
<1> QED BY <1>1, <1>2, <1>3, <1>4, <1>5, <1>6, <1>7, <1>8, <1>9

\* The entry that is written to may change, but for what FindFile reads of it.
LEMMA OverwritingKept ==
  ASSUME TypeOK, Overwriting, M \in 0 .. HALF_SIZE - 1,
         NamesKept(flash, flash', half, M), flash' \in Flashes,
         UNCHANGED <<half, lastFile, request, index, previous>>, InUse(flash', half),
         UsedIn(flash', half, M') = UsedIn(flash, half, M),
         NEW e \in EntryType, EntryPut(files, files', Slot, e), e.valid = files[Slot].valid,
         e.name = files[Slot].name, e.header = files[Slot].header
  PROVE  Overwriting'
<1> DEFINE U == UsedIn(flash, half, M)
           K == (0 .. lastFile - 1) \ {index}
<1>1. /\ half \in BothHalves /\ flash \in Flashes /\ NoMore /\ Writes
      /\ U \subseteq 1 .. M /\ OneOfEach(flash, half, U)
      /\ Known(flash, files, lastFile, half, U, K)
      /\ lastFile \in 0 .. HALF_SIZE - 1 /\ Slot \in 0 .. lastFile
      /\ Found => Slot = index /\ index \in 0 .. lastFile - 1 /\ previous = files[index].header
      /\ ~Found => Slot = lastFile /\ index = NO_HEADER
      /\ files[Slot].name = request.name
  BY OverwritingFacts
<1>2. \A k \in 0 .. lastFile : k \in 0 .. HALF_SIZE
  BY <1>1, Geometry
<1>3. \A k \in 0 .. lastFile : /\ files'[k].valid = files[k].valid /\ files'[k].name = files[k].name
                               /\ files'[k].header = files[k].header
                               /\ k # Slot => files'[k] = files[k]
  BY <1>2 DEF EntryPut
<1>4. Agree(files, files', lastFile, K)
  <2>1. \A k \in 0 .. lastFile - 1 : k \in 0 .. lastFile
    BY <1>1
  <2>2. \A k \in K : k \in 0 .. lastFile /\ k # Slot
    BY <1>1
  <2> QED BY <2>1, <2>2, <1>3 DEF Agree
<1>5. Known(flash', files', lastFile, half, U, K)
  <2> HIDE DEF U, K
  <2> QED BY <1>1, <1>4, KnownKept
<1>6. OneOfEach(flash', half, U)
  <2> HIDE DEF U
  <2>1. U \subseteq U
    OBVIOUS
  <2> QED BY <2>1, <1>1, OneOfEachKept
<1>7. NoMore'
  BY <1>1, <1>3 DEF NoMore
<1>8. Writes'
  <2>1. \A k \in 0 .. lastFile - 1 : k \in 0 .. lastFile
    BY <1>1
  <2> QED BY <2>1, <1>1, <1>3, WritesKept
<1>9. Slot' = Slot /\ Found' = Found
  BY DEF Slot, Found
<1>10. (Found => previous' = files'[index].header) /\ files'[Slot].name = request.name
  BY <1>1, <1>3
<1> QED BY <1>5, <1>6, <1>7, <1>8, <1>9, <1>10 DEF Overwriting, Known

LEMMA EntryOfSlot ==
  ASSUME TypeOK, Slot \in 0 .. HALF_SIZE
  PROVE  /\ files \in FileTables /\ files[Slot] \in EntryType
         /\ \A a : /\ [files[Slot] EXCEPT !.start = a].valid = files[Slot].valid
                   /\ [files[Slot] EXCEPT !.start = a].name = files[Slot].name
                   /\ [files[Slot] EXCEPT !.start = a].header = files[Slot].header
                   /\ [files[Slot] EXCEPT !.start = a].start = a
         /\ \A l : /\ [files[Slot] EXCEPT !.length = l].valid = files[Slot].valid
                   /\ [files[Slot] EXCEPT !.length = l].name = files[Slot].name
                   /\ [files[Slot] EXCEPT !.length = l].header = files[Slot].header
                   /\ [files[Slot] EXCEPT !.length = l].start = files[Slot].start
                   /\ [files[Slot] EXCEPT !.length = l].length = l
<1>1. files \in FileTables /\ files[Slot] \in EntryType
  BY TablesAre
<1> QED BY <1>1 DEF EntryType

LEMMA WriteDataStep ==
  ASSUME FilesInv, WriteData
  PROVE  FilesInv'
<1> DEFINE x == end + i
<1>1. /\ TypeOK /\ DataGood /\ pc = "data" /\ pc' = (IF i + 1 = Length THEN "header" ELSE "data")
      /\ flash' = Written(x, <<request.data[i + 1]>>)
      /\ i' = (IF i + 1 = Length THEN 0 ELSE i + 1)
      /\ files' = (IF i + 1 = Length THEN [files EXCEPT ![Slot].start = end] ELSE files)
      /\ UNCHANGED <<lastFile, next, end, half, request, index, previous, after>>
  BY DEF FilesInv, Phases, WriteData, Step, call
<1>2. /\ Overwriting /\ M \in 0 .. HALF_SIZE - 1 /\ HeadersGood(flash, half, M)
      /\ Starts(flash, half, M) = end + S /\ end > next + 1 /\ BlankFrom(flash, next, end)
      /\ i \in 0 .. S - 1
  BY <1>1 DEF DataGood
<1>3. /\ half \in BothHalves /\ flash \in Flashes /\ InUse(flash, half) /\ Writes
      /\ lastFile \in 0 .. HALF_SIZE - 1 /\ Slot \in 0 .. lastFile
  BY <1>1, <1>2, OverwritingFacts
<1>4. Length = S /\ S \in 1 .. F /\ request.data[i + 1] \in Headers
  <2>1. Length = S /\ S \in 1 .. F /\ \A k \in 1 .. S : request.data[k] \in Headers
    BY <1>3, LengthIs
  <2>2. i + 1 \in 1 .. S
    BY <2>1, <1>2
  <2> QED BY <2>1, <2>2
<1>5. /\ HalfStart(half) \in Nat /\ HalfStart(half) + HALF_SIZE < FlashSize
      /\ next = HalfStart(half) + M + 1 /\ end \in Int /\ next \in Int
      /\ end > HalfStart(half) + M /\ end + S <= HalfStart(half) + HALF_SIZE
  <2>1. HalfStart(half) \in Nat /\ HalfStart(half) + HALF_SIZE < FlashSize
    BY <1>3, Halves
  <2>2. next \in Int /\ end \in Int
    BY <1>1, Geometry DEF TypeOK
  <2>3. Starts(flash, half, M) <= HalfStart(half) + HALF_SIZE
    <3>1. 0 \in 0 .. HALF_SIZE - 1 /\ 0 <= M
      BY <1>2, Geometry
    <3>2. Starts(flash, half, M) <= Starts(flash, half, 0)
      BY <3>1, <1>2, <1>3, StartsDescend
    <3>3. Starts(flash, half, 0) = HalfStart(half) + HALF_SIZE
      BY <1>3, StartRule
    <3> QED BY <3>2, <3>3
  <2> QED BY <2>1, <2>2, <2>3, <1>2, Geometry DEF M
<1>6. x \in Addresses /\ x >= end /\ x < end + S
  BY <1>2, <1>4, <1>5, Geometry
<1> HIDE DEF x
<1>7. flash' \in Flashes /\ \A a \in Addresses : a # x => flash'[a] = flash[a]
  BY <1>1, <1>3, <1>4, <1>6, CellWritten
<1>8. \A a \in Addresses : ~(end <= a /\ a < HalfStart(half) + HALF_SIZE) => flash'[a] = flash[a]
  <2>1. end <= x /\ x < HalfStart(half) + HALF_SIZE
    BY <1>4, <1>5, <1>6, Geometry
  <2> QED BY <2>1, <1>7
<1>9. /\ \A n \in 0 .. M : Starts(flash', half, n) = Starts(flash, half, n)
      /\ NamesKept(flash, flash', half, M) /\ UsedIn(flash', half, M) = UsedIn(flash, half, M)
      /\ HeadersGood(flash', half, M) /\ InUse(flash', half)
  BY <1>2, <1>3, <1>5, <1>7, <1>8, WrittenAbove
<1>10. M' = M /\ Slot' = Slot
  BY <1>1 DEF M, Slot, Found
<1>11. Slot \in 0 .. HALF_SIZE /\ end \in Addresses
  <2>1. Slot \in 0 .. HALF_SIZE
    BY <1>3, Geometry
  <2>2. end > 0 /\ end < FlashSize
    <3>1. M \in Nat /\ S \in Nat /\ S > 0 /\ HALF_SIZE \in Nat /\ FlashSize \in Nat
      BY <1>2, <1>4, Geometry
    <3> QED BY <3>1, <1>5
  <2>3. end \in Addresses
    BY <2>2, <1>5, Geometry
  <2> QED BY <2>1, <2>3
<1>12. /\ files \in FileTables /\ files[Slot] \in EntryType
       /\ [files[Slot] EXCEPT !.start = end].valid = files[Slot].valid
       /\ [files[Slot] EXCEPT !.start = end].name = files[Slot].name
       /\ [files[Slot] EXCEPT !.start = end].header = files[Slot].header
       /\ [files[Slot] EXCEPT !.start = end].start = end
  BY <1>1, <1>11, EntryOfSlot
<1>13. PICK e \in EntryType : /\ EntryPut(files, files', Slot, e) /\ e.valid = files[Slot].valid
                              /\ e.name = files[Slot].name /\ e.header = files[Slot].header
                              /\ i + 1 = Length => e.start = end
  <2>1. CASE i + 1 = Length
    <3>1. EntryPut(files, [files EXCEPT ![Slot].start = end], Slot, [files[Slot] EXCEPT !.start = end])
      BY <1>11, <1>12, FieldsChanged, Zenon
    <3>2. EntryPut(files, files', Slot, [files[Slot] EXCEPT !.start = end])
      BY <3>1, <2>1, <1>1
    <3>3. [files[Slot] EXCEPT !.start = end] \in EntryType
      BY <1>11, <1>12 DEF EntryType
    <3> QED BY <3>2, <3>3, <1>12, Zenon
  <2>2. CASE i + 1 # Length
    <3>1. files' = files
      BY <2>2, <1>1
    <3>2. EntryPut(files, files', Slot, files[Slot])
      BY <3>1, <1>12, Zenon DEF EntryPut
    <3> QED BY <3>2, <2>2, <1>12, Zenon
  <2> QED BY <2>1, <2>2
<1>14. Overwriting'
  <2>1. UsedIn(flash', half, M') = UsedIn(flash, half, M)
    BY <1>9, <1>10
  <2> QED BY <2>1, <1>1, <1>2, <1>7, <1>9, <1>13, OverwritingKept
<1>15. BlankFrom(flash', next, end)
  <2>1. \A a \in Addresses : a < end => a # x
    BY <1>5, <1>6, Geometry
  <2> QED BY <2>1, <1>2, <1>7 DEF BlankFrom
<1>16. DataGood'
  <2>1. Starts(flash', half, M) = end + S
    BY <1>2, <1>9
  <2>2. pc' = "header" => i' = 0 /\ files'[Slot].start = end
    BY <1>1, <1>13 DEF EntryPut
  <2>3. pc' = "data" => i' \in 0 .. S - 1 /\ i' # 0
    BY <1>1, <1>2, <1>4
  <2> QED BY <2>1, <2>2, <2>3, <1>1, <1>2, <1>9, <1>10, <1>14, <1>15 DEF DataGood
<1>17. TypeOK'
  <2>1. i' \in -2 .. HALF_SIZE
    <3>1. S < HALF_SIZE
      BY <1>2, <1>4, <1>5, Geometry
    <3>2. i + 1 \in 0 .. HALF_SIZE /\ 0 \in 0 .. HALF_SIZE
      BY <3>1, <1>2, <1>4, Geometry
    <3> QED BY <3>2, <1>1, Geometry
  <2>2. files' \in FileTables
    BY <1>13, Zenon DEF EntryPut
  <2> QED BY <2>1, <2>2, <1>1, <1>7 DEF TypeOK, FileTables, EntryType, Flashes
<1> QED BY <1>1, <1>16, <1>17 DEF FilesInv, Phases

LEMMA WriteHeaderStep ==
  ASSUME FilesInv, WriteHeader
  PROVE  FilesInv'
<1> DEFINE c == [Blank EXCEPT !.name = request.name, !.length = Length]
<1>1. /\ TypeOK /\ DataGood /\ pc = "header" /\ pc' = "use"
      /\ flash' = Written(next, <<c>>) /\ files' = [files EXCEPT ![Slot].length = Length]
      /\ next' = next + 1
      /\ UNCHANGED <<lastFile, end, half, request, index, previous, after, i>>
  BY DEF FilesInv, Phases, WriteHeader, Step, call
<1>2. /\ Overwriting /\ M \in 0 .. HALF_SIZE - 1 /\ HeadersGood(flash, half, M)
      /\ Starts(flash, half, M) = end + S /\ end > next + 1 /\ BlankFrom(flash, next, end)
      /\ i = 0 /\ files[Slot].start = end
  BY <1>1 DEF DataGood
<1>3. /\ half \in BothHalves /\ flash \in Flashes /\ InUse(flash, half) /\ Writes
      /\ lastFile \in 0 .. HALF_SIZE - 1 /\ Slot \in 0 .. lastFile
  BY <1>1, <1>2, OverwritingFacts
<1>4. Length = S /\ S \in 1 .. F /\ request.name \in Names
  BY <1>3, LengthIs DEF Writes, Requested
<1>5. c = [valid |-> UNUSED, name |-> request.name, length |-> S] /\ c \in Headers
  <2>1. c = [valid |-> UNUSED, name |-> request.name, length |-> S]
    <3> DEFINE d == [Blank EXCEPT !.name = request.name]
    <3>1. c = [d EXCEPT !.length = Length]
      OBVIOUS
    <3>2. d = [valid |-> UNUSED, name |-> request.name, length |-> F]
      BY StatusIs
    <3> HIDE DEF d, c
    <3> QED BY <3>1, <3>2, <1>4
  <2>2. S \in 0 .. FieldSize - 1 /\ UNUSED \in 0 .. 3 /\ request.name \in Fields
    BY <1>4, Geometry DEF UNUSED, Fields
  <2> QED BY <2>1, <2>2 DEF Headers
<1> HIDE DEF c
<1>6. /\ HalfStart(half) \in Nat /\ next = HalfStart(half) + M + 1 /\ end \in Int /\ next \in Nat
  <2>1. HalfStart(half) \in Nat
    BY <1>3, Halves
  <2>2. next \in Nat /\ end \in Int
    BY <1>1, Geometry DEF TypeOK
  <2> QED BY <2>1, <2>2, <1>2, Geometry DEF M
<1>7. next \in Addresses /\ flash[next] = Blank
  <2>1. next < end /\ end \in 0 .. 2 * HALF_SIZE
    BY <1>1, <1>2, <1>6 DEF TypeOK
  <2>2. next \in Addresses
    BY <2>1, <1>6, Geometry
  <2> QED BY <2>1, <2>2, <1>2, <1>6 DEF BlankFrom
<1> DEFINE k == M + 1
<1>8. PutsAt(flash, flash', half, k, c)
  <2>1. Puts(flash, flash', next, c)
    BY <1>1, <1>3, <1>5, <1>7, OneWritten
  <2>2. next = HalfStart(half) + k
    BY <1>2, <1>6
  <2> QED BY <2>1, <2>2 DEF PutsAt
<1>9. k = M + 1
  OBVIOUS
<1> HIDE DEF k
<1>10. Appended(flash, flash', half, M, end, UNUSED)
  BY <1>2, <1>3, <1>4, <1>5, <1>6, <1>8, <1>9, HeaderAppended
<1>11. /\ M + 1 \in 0 .. HALF_SIZE - 2 /\ HalfGood(flash', half, M + 1)
       /\ Starts(flash', half, M + 1) = end
       /\ NamesKept(flash, flash', half, M)
       /\ UsedIn(flash', half, M + 1) = UsedIn(flash, half, M)
  BY <1>10 DEF Appended, NamesKept
<1>12. flash' \in Flashes /\ InUse(flash', half) /\ Cell(flash', half, k) = c
  <2>1. k \in 1 .. HALF_SIZE - 1 /\ k \in 0 .. HALF_SIZE - 1
    BY <1>2, <1>9, <1>11, Geometry
  <2>2. InUse(flash', half)
    BY <2>1, <1>3, <1>8, UseKept
  <2> QED BY <2>1, <2>2, <1>3, <1>8, PutInHalf
<1>13. M' = M + 1 /\ Slot' = Slot
  <2>1. Slot' = Slot
    BY <1>1 DEF Slot, Found
  <2> QED BY <2>1, <1>1, <1>2, <1>6 DEF M
<1>14. Slot \in 0 .. HALF_SIZE
  BY <1>3, Geometry
<1>15. PICK e \in EntryType : /\ EntryPut(files, files', Slot, e) /\ e.valid = files[Slot].valid
                              /\ e.name = files[Slot].name /\ e.header = files[Slot].header
                              /\ e.start = end /\ e.length = S
  <2>1. /\ files \in FileTables /\ files[Slot] \in EntryType
        /\ [files[Slot] EXCEPT !.length = S].valid = files[Slot].valid
        /\ [files[Slot] EXCEPT !.length = S].name = files[Slot].name
        /\ [files[Slot] EXCEPT !.length = S].header = files[Slot].header
        /\ [files[Slot] EXCEPT !.length = S].start = files[Slot].start
        /\ [files[Slot] EXCEPT !.length = S].length = S
    BY <1>1, <1>14, EntryOfSlot
  <2>2. S \in 0 .. F
    BY <1>4
  <2>3. EntryPut(files, [files EXCEPT ![Slot].length = S], Slot, [files[Slot] EXCEPT !.length = S])
    BY <2>1, <2>2, <1>14, FieldsChanged, Zenon
  <2>4. EntryPut(files, files', Slot, [files[Slot] EXCEPT !.length = S])
    BY <2>3, <1>1, <1>4
  <2>5. [files[Slot] EXCEPT !.length = S] \in EntryType
    <3>1. S \in 0 .. FieldSize - 1
      BY <2>2, Geometry
    <3> QED BY <2>1, <3>1 DEF EntryType
  <2>6. files[Slot].start = end
    BY <1>2
  <2> QED BY <2>1, <2>4, <2>5, <2>6, Zenon
<1>16. Overwriting'
  <2>1. UsedIn(flash', half, M') = UsedIn(flash, half, M)
    BY <1>11, <1>13
  <2> QED BY <2>1, <1>1, <1>2, <1>11, <1>12, <1>15, OverwritingKept
<1>17. UseGood'
  <2>1. files'[Slot].start = end /\ files'[Slot].length = S
    BY <1>15 DEF EntryPut
  <2>2. M + 1 > 0
    BY <1>2
  <2> QED BY <2>1, <2>2, <1>1, <1>2, <1>5, <1>9, <1>11, <1>12, <1>13, <1>16 DEF UseGood
<1>18. TypeOK'
  <2>1. next + 1 \in 0 .. 2 * HALF_SIZE
    <3>1. end \in 0 .. 2 * HALF_SIZE
      BY <1>1 DEF TypeOK
    <3>2. 2 * HALF_SIZE \in Int /\ next + 1 < end /\ next + 1 \in Nat
      BY <1>2, <1>6, Geometry
    <3> QED BY <3>1, <3>2
  <2>2. files' \in FileTables
    BY <1>15, Zenon DEF EntryPut
  <2> QED BY <2>1, <2>2, <1>1, <1>12 DEF TypeOK, FileTables, EntryType, Flashes
<1> QED BY <1>1, <1>17, <1>18 DEF FilesInv, Phases

\* The entry k gets the address of a header, and is USED.
EntryUsed(tb, tb2, k, a) ==
  /\ tb2 \in FileTables /\ \A j \in 0 .. HALF_SIZE : j # k => tb2[j] = tb[j]
  /\ tb2[k].header = a /\ tb2[k].valid = USED
  /\ tb2[k].name = tb[k].name /\ tb2[k].length = tb[k].length /\ tb2[k].start = tb[k].start

LEMMA UsedPut ==
  ASSUME NEW tb \in FileTables, NEW k \in 0 .. HALF_SIZE, NEW a \in Addresses,
         NEW tb2, tb2 = [tb EXCEPT ![k].header = a, ![k].valid = USED]
  PROVE  EntryUsed(tb, tb2, k, a)
<1> DEFINE D == 0 .. HALF_SIZE
<1>1. tb \in [D -> EntryType] /\ k \in D
  BY DEF FileTables
<1>2. FileTables = [D -> EntryType] /\ D = 0 .. HALF_SIZE
  BY DEF FileTables
<1> HIDE DEF D
<1>3. ASSUME NEW e \in EntryType PROVE [e EXCEPT !.header = a, !.valid = USED] \in EntryType
  <2> DEFINE q == [e EXCEPT !.header = a]
  <2>1. [e EXCEPT !.header = a, !.valid = USED] = [q EXCEPT !.valid = USED]
    OBVIOUS
  <2>2. q \in EntryType
    BY DEF EntryType
  <2> HIDE DEF q
  <2>3. [q EXCEPT !.valid = USED] \in EntryType
    BY <2>2 DEF EntryType, USED
  <2> QED BY <2>1, <2>3
<1>4. tb[k] \in EntryType
  BY <1>1
<1>5. tb2 = [tb EXCEPT ![k] = [tb[k] EXCEPT !.header = a, !.valid = USED]]
  BY <1>1
<1>6. tb2 \in [D -> EntryType]
  BY <1>1, <1>3, <1>4, <1>5
<1>7. \A j \in D : j # k => tb2[j] = tb[j]
  BY <1>1, <1>5
<1>8. tb2[k] = [tb[k] EXCEPT !.header = a, !.valid = USED]
  BY <1>1, <1>5
<1>9. /\ tb2[k].header = a /\ tb2[k].valid = USED
      /\ tb2[k].name = tb[k].name /\ tb2[k].length = tb[k].length /\ tb2[k].start = tb[k].start
  BY <1>4, <1>8 DEF EntryType
<1> QED BY <1>2, <1>6, <1>7, <1>9 DEF EntryUsed

\* As above, and the entry behind it is free.
EntryAdded(tb, tb2, k, a) ==
  /\ tb2 \in FileTables /\ \A j \in 0 .. k - 1 : tb2[j] = tb[j]
  /\ tb2[k].header = a /\ tb2[k].valid = USED
  /\ tb2[k].name = tb[k].name /\ tb2[k].length = tb[k].length /\ tb2[k].start = tb[k].start
  /\ tb2[k + 1].valid = UNUSED

LEMMA UsedPutNext ==
  ASSUME NEW tb \in FileTables, NEW k \in 0 .. HALF_SIZE - 1, NEW a \in Addresses,
         NEW tb2, tb2 = [tb EXCEPT ![k].header = a, ![k].valid = USED, ![k + 1].valid = UNUSED]
  PROVE  EntryAdded(tb, tb2, k, a)
<1> DEFINE t == [tb EXCEPT ![k].header = a, ![k].valid = USED]
<1>1. k \in 0 .. HALF_SIZE /\ k + 1 \in 0 .. HALF_SIZE /\ k # k + 1
  BY Geometry
<1>2. EntryUsed(tb, t, k, a)
  BY <1>1, UsedPut
<1>3. tb2 = [t EXCEPT ![k + 1].valid = UNUSED]
  OBVIOUS
<1> HIDE DEF t
<1>4. t \in FileTables /\ t[k + 1] \in EntryType
  BY <1>1, <1>2, Zenon DEF EntryUsed, FileTables
<1>5. tb2 = [t EXCEPT ![k + 1] = [t[k + 1] EXCEPT !.valid = UNUSED]]
  BY <1>3
<1>6. [t[k + 1] EXCEPT !.valid = UNUSED] \in EntryType
  BY <1>4 DEF EntryType, UNUSED
<1>7. EntryPut(t, tb2, k + 1, [t[k + 1] EXCEPT !.valid = UNUSED])
  <2> DEFINE e == [t[k + 1] EXCEPT !.valid = UNUSED]
  <2>1. e \in EntryType /\ tb2 = [t EXCEPT ![k + 1] = e]
    BY <1>5, <1>6
  <2> HIDE DEF e
  <2>2. EntryPut(t, [t EXCEPT ![k + 1] = e], k + 1, e)
    BY <2>1, <1>1, <1>4, EntryChanged
  <2>3. EntryPut(t, tb2, k + 1, e)
    BY <2>1, <2>2
  <2> QED BY <2>3 DEF e
<1>8. tb2 \in FileTables /\ tb2[k] = t[k] /\ tb2[k + 1] = [t[k + 1] EXCEPT !.valid = UNUSED]
      /\ \A j \in 0 .. HALF_SIZE : j # k + 1 => tb2[j] = t[j]
  BY <1>1, <1>7 DEF EntryPut
<1>9. tb2[k + 1].valid = UNUSED
  BY <1>4, <1>8 DEF EntryType
<1>10. \A j \in 0 .. k - 1 : j \in 0 .. HALF_SIZE /\ j # k /\ j # k + 1
  BY <1>1, Geometry, SMTT(30)
<1>11. \A j \in 0 .. k - 1 : tb2[j] = tb[j]
  BY <1>2, <1>8, <1>10 DEF EntryUsed
<1> QED BY <1>2, <1>8, <1>9, <1>11 DEF EntryUsed, EntryAdded

\* The header written last becomes USED.
LEMMA HeaderUsed ==
  ASSUME NEW fl \in Flashes, NEW gl, NEW h \in BothHalves, NEW m, HalfGood(fl, h, m), m > 0,
         InUse(fl, h), MarksAt(fl, gl, h, m, USED), Cell(fl, h, m).valid = UNUSED,
         Cell(fl, h, m).length = S, Cell(fl, h, m).name \in Names
  PROVE  /\ gl \in Flashes /\ HalfGood(gl, h, m) /\ InUse(gl, h)
         /\ \A n \in 0 .. m : Starts(gl, h, n) = Starts(fl, h, n)
         /\ NamesKept(fl, gl, h, m) /\ UsedIn(gl, h, m) = UsedIn(fl, h, m) \cup {m}
         /\ m \notin UsedIn(fl, h, m)
<1>1. m \in 0 .. HALF_SIZE - 1
  BY DEF HalfGood
<1>2. m \in 1 .. m /\ m \in 1 .. HALF_SIZE - 1 /\ USED # DELETED
  BY <1>1, Geometry DEF DELETED, USED
<1>3. /\ HalfGood(gl, h, m) /\ \A n \in 0 .. m : Starts(gl, h, n) = Starts(fl, h, n)
      /\ \A n \in 1 .. m : /\ Cell(gl, h, n).length = Cell(fl, h, n).length
                           /\ Cell(gl, h, n).name = Cell(fl, h, n).name
                           /\ n # m => Cell(gl, h, n) = Cell(fl, h, n)
      /\ UsedIn(gl, h, m) = UsedIn(fl, h, m) \cup {m}
  <2>1. Marked(fl, gl, h, m, m, USED)
    BY <1>2, HeaderMarked
  <2> QED BY <2>1 DEF Marked
<1>4. PutsAt(fl, gl, h, m, gl[HalfStart(h) + m])
  BY MarkIsPut, Zenon
<1>5. InUse(gl, h)
  <2>1. ASSUME NEW c, PutsAt(fl, gl, h, m, c) PROVE InUse(gl, h)
    BY <2>1, <1>2, UseKept
  <2> QED BY <2>1, <1>4, Zenon
<1>6. gl \in Flashes
  BY Zenon DEF MarksAt, Marks
<1>7. NamesKept(fl, gl, h, m)
  BY <1>3 DEF NamesKept
<1>8. m \notin UsedIn(fl, h, m)
  BY DEF UsedIn, USED, UNUSED
<1> QED BY <1>3, <1>5, <1>6, <1>7, <1>8

LEMMA WriteUsedStep ==
  ASSUME FilesInv, WriteUsed
  PROVE  FilesInv'
<1> DEFINE U == UsedIn(flash, half, M)
           K == (0 .. lastFile - 1) \ {index}
<1>1. /\ TypeOK /\ UseGood /\ pc' = (IF Found THEN "supersede" ELSE "return")
      /\ flash' = Written(next - 1, <<Valid(USED)>>)
      /\ Found => /\ files' = [files EXCEPT ![index].header = next - 1, ![index].valid = USED]
                  /\ lastFile' = lastFile
      /\ ~Found => /\ files' = [files EXCEPT ![lastFile].header = next - 1, ![lastFile].valid = USED,
                                             ![lastFile + 1].valid = UNUSED]
                   /\ lastFile' = lastFile + 1
      /\ UNCHANGED <<next, end, half, request, index, previous, after, i>>
  BY DEF FilesInv, Phases, WriteUsed, Step
<1>2. /\ Overwriting /\ HalfGood(flash, half, M) /\ M > 0 /\ end = Starts(flash, half, M) /\ i = 0
      /\ Cell(flash, half, M) = [valid |-> UNUSED, name |-> request.name, length |-> S]
      /\ files[Slot].start = end /\ files[Slot].length = S
  BY <1>1 DEF UseGood
<1>3. half \in BothHalves /\ flash \in Flashes /\ M \in 0 .. HALF_SIZE - 2 /\ M \in 0 .. HALF_SIZE - 1
  <2>1. half \in BothHalves /\ flash \in Flashes
    BY <1>1, HalfIs
  <2>2. M \in 0 .. HALF_SIZE - 2
    BY <2>1, <1>2, HalfFacts
  <2> QED BY <2>1, <2>2, Geometry
<1>4. /\ InUse(flash, half) /\ NoMore /\ Writes /\ U \subseteq 1 .. M
      /\ OneOfEach(flash, half, U) /\ Known(flash, files, lastFile, half, U, K)
      /\ lastFile \in 0 .. HALF_SIZE - 1 /\ lastFile <= M /\ Slot \in 0 .. lastFile
      /\ Found => Slot = index /\ index \in 0 .. lastFile - 1 /\ previous = files[index].header
      /\ ~Found => Slot = lastFile /\ index = NO_HEADER
      /\ files[Slot].name = request.name
  BY <1>1, <1>2, <1>3, OverwritingFacts
<1> HIDE DEF U, K
<1>5. /\ HalfStart(half) \in Nat /\ next - 1 = HalfStart(half) + M /\ next - 1 \in Addresses
  <2>1. HalfStart(half) \in Nat
    BY <1>3, Halves
  <2>2. next \in Int
    BY <1>1, Geometry DEF TypeOK
  <2>3. next - 1 = HalfStart(half) + M
    BY <2>1, <2>2, <1>3, Geometry DEF M
  <2> QED BY <2>1, <2>3, <1>3, CellsAre
<1>6. MarksAt(flash, flash', half, M, USED)
  <2>1. flash[next - 1] = Cell(flash, half, M)
    BY <1>5 DEF Cell
  <2>2. flash[next - 1].valid = UNUSED
    BY <2>1, <1>2
  <2>3. Marks(flash, flash', next - 1, USED)
    BY <2>2, <1>1, <1>3, <1>5, StatusWritten
  <2> QED BY <2>3, <1>5 DEF MarksAt
<1>7. /\ flash' \in Flashes /\ HalfGood(flash', half, M) /\ InUse(flash', half)
      /\ \A n \in 0 .. M : Starts(flash', half, n) = Starts(flash, half, n)
      /\ NamesKept(flash, flash', half, M) /\ UsedIn(flash', half, M) = U \cup {M}
      /\ M \notin U
  <2>1. /\ Cell(flash, half, M).valid = UNUSED /\ Cell(flash, half, M).length = S
        /\ Cell(flash, half, M).name \in Names
    BY <1>2, <1>4 DEF Writes, Requested
  <2> QED BY <2>1, <1>2, <1>3, <1>4, <1>6, HeaderUsed DEF U
<1>8. M \in 1 .. M /\ M \in 0 .. M /\ M' = M
  BY <1>1, <1>2, <1>3 DEF M
<1>9. Known(flash', files, lastFile, half, U, K)
  <2>1. Agree(files, files, lastFile, K)
    BY DEF Agree
  <2> QED BY <2>1, <1>3, <1>4, <1>7, KnownKept
<1>10. /\ Cell(flash', half, M).name = request.name /\ Cell(flash', half, M).length = S
       /\ Starts(flash', half, M) = end
  <2>1. Cell(flash', half, M).name = Cell(flash, half, M).name
        /\ Cell(flash', half, M).length = Cell(flash, half, M).length
    BY <1>7, <1>8 DEF NamesKept
  <2> QED BY <2>1, <1>2, <1>7, <1>8
<1>11. OneOfEach(flash', half, U)
  <2>1. U \subseteq U
    OBVIOUS
  <2> QED BY <2>1, <1>4, <1>7, OneOfEachKept
<1>12. files \in FileTables
  BY <1>1, TablesAre
<1>13. CASE Found
  <2>1. index \in 0 .. HALF_SIZE /\ index \in 0 .. lastFile - 1 /\ lastFile # index
    BY <1>4, <1>13, Geometry
  <2>2. EntryUsed(files, files', index, next - 1)
    BY <2>1, <1>1, <1>5, <1>12, <1>13, UsedPut
  <2>3. /\ files' \in FileTables /\ \A j \in 0 .. HALF_SIZE : j # index => files'[j] = files[j]
        /\ files'[index].header = HalfStart(half) + M /\ files'[index].valid = USED
        /\ files'[index].name = request.name /\ files'[index].length = S /\ files'[index].start = end
    BY <2>2, <1>2, <1>4, <1>5, <1>13 DEF EntryUsed
  <2>4. EntryOf(flash', files'[index], half, M)
    BY <2>3, <1>10 DEF EntryOf
  <2>5. PICK p \in U : files[index].header = HalfStart(half) + p /\ files[index].name = Cell(flash', half, p).name
    <3>1. Entries(flash', files, lastFile, half, U)
      BY <1>9 DEF Known
    <3> QED BY <3>1, <2>1, FoundEntry
  <2>6. Table(flash', files', lastFile, half, (U \cup {M}) \ {p})
    <3>1. Entries(flash', files, lastFile, half, U) /\ Extents(flash', files, half, (0 .. lastFile - 1) \ {index})
      BY <1>9 DEF Known, K
    <3>2. \A k \in 0 .. lastFile - 1 : k # index => files'[k] = files[k]
      <4>1. \A k \in 0 .. lastFile - 1 : k \in 0 .. HALF_SIZE
        BY <1>4, Geometry
      <4> QED BY <4>1, <2>3
    <3> QED BY <3>1, <3>2, <2>1, <2>4, <2>5, <1>3, <1>4, <1>7, <1>8, TableReplaced
  <2>7. OneOfEach(flash', half, (U \cup {M}) \ {p})
    <3> SUFFICES ASSUME NEW n \in (U \cup {M}) \ {p}, NEW k \in (U \cup {M}) \ {p},
                        Cell(flash', half, n).name = Cell(flash', half, k).name
                 PROVE  n = k
      BY DEF OneOfEach
    <3>1. Cell(flash', half, p).name = request.name
      BY <2>5, <1>4, <1>13
    <3>2. \A o \in U : Cell(flash', half, o).name = request.name => o = p
      BY <3>1, <2>5, <1>11 DEF OneOfEach
    <3>3. n \in U /\ k \in U => n = k
      BY <1>11 DEF OneOfEach
    <3> QED BY <3>2, <3>3, <1>10
  <2>8. p \in UsedIn(flash', half, M)
    BY <2>5, <1>7
  <2>9. NoMore'
    <3>1. lastFile \in 0 .. HALF_SIZE
      BY <1>4, Geometry
    <3> QED BY <3>1, <2>1, <2>3, <1>1, <1>4, <1>13 DEF NoMore
  <2>10. Requested' /\ request'.op = "write" /\ Found' /\ FileFound'
    <3>1. Requested /\ request.op = "write" /\ FileFound
      BY <1>4, <1>13 DEF Writes
    <3> QED BY <3>1, <2>1, <2>3, <1>1, <1>13 DEF Requested, Found, FileFound
  <2>11. Cell(flash', half, p).name = request.name
    BY <2>5, <1>4, <1>13
  <2>12. SupersedeGood'
    <3>1. previous' = HalfStart(half) + p
      BY <2>5, <1>1, <1>4, <1>13
    <3>2. /\ Table(flash', files', lastFile, half, UsedIn(flash', half, M) \ {p})
          /\ OneOfEach(flash', half, UsedIn(flash', half, M) \ {p})
      BY <2>6, <2>7, <1>7
    <3>3. lastFile' = lastFile /\ half' = half /\ request' = request /\ end' = end
      BY <1>1, <1>13
    <3> QED BY <3>1, <3>2, <3>3, <2>8, <2>9, <2>10, <2>11, <1>7, <1>8, <1>10 DEF SupersedeGood
  <2>13. TypeOK'
    BY <2>3, <1>1, <1>7, <1>13 DEF TypeOK, FileTables, EntryType, Flashes
  <2> QED BY <2>12, <2>13, <1>1, <1>13 DEF FilesInv, Phases
<1>14. CASE ~Found
  <2>1. /\ files' \in FileTables /\ \A j \in 0 .. lastFile - 1 : files'[j] = files[j]
        /\ files'[lastFile].header = HalfStart(half) + M /\ files'[lastFile].valid = USED
        /\ files'[lastFile].name = request.name /\ files'[lastFile].length = S
        /\ files'[lastFile].start = end /\ files'[lastFile + 1].valid = UNUSED
    <3>1. EntryAdded(files, files', lastFile, next - 1)
      BY <1>1, <1>4, <1>5, <1>12, <1>14, UsedPutNext
    <3> QED BY <3>1, <1>2, <1>4, <1>5, <1>14 DEF EntryAdded
  <2>2. EntryOf(flash', files'[lastFile], half, M)
    BY <2>1, <1>10 DEF EntryOf
  <2>3. K = 0 .. lastFile - 1
    BY <1>4, <1>14 DEF K, NO_HEADER
  <2>4. Entries(flash', files, lastFile, half, U) /\ Table(flash', files, lastFile, half, U)
    BY <2>3, <1>4, <1>9 DEF Known, Table
  <2>5. lastFile + 1 \in 0 .. HALF_SIZE - 1
    <3> DEFINE m == M - 1
    <3>1. m \in Nat /\ U \subseteq 1 .. m /\ lastFile \in Nat
      BY <1>2, <1>3, <1>4, <1>7
    <3>2. m + 1 <= HALF_SIZE - 2
      BY <1>3, Geometry
    <3> HIDE DEF m
    <3>3. lastFile <= m
      BY <3>1, <2>4, <1>3, TableBound
    <3> QED BY <3>1, <3>2, <3>3, Geometry
  <2>6. Table(flash', files', lastFile + 1, half, U \cup {M})
    BY <2>1, <2>2, <2>4, <2>5, <1>3, <1>4, <1>7, <1>8, TableAdded
  <2>7. OneOfEach(flash', half, U \cup {M})
    <3> SUFFICES ASSUME NEW n \in U \cup {M}, NEW k \in U \cup {M},
                        Cell(flash', half, n).name = Cell(flash', half, k).name
                 PROVE  n = k
      BY DEF OneOfEach
    <3>1. ASSUME NEW o \in U PROVE Cell(flash', half, o).name # request.name
      <4>1. PICK j \in 0 .. lastFile - 1 : files[j].header = HalfStart(half) + o
        BY <2>4, Zenon DEF Entries
      <4>2. PICK r \in U : files[j].header = HalfStart(half) + r /\ files[j].name = Cell(flash', half, r).name
        BY <2>4, Zenon DEF Entries
      <4>3. r = o
        BY <4>1, <4>2, <1>4, <1>5
      <4>4. files[j].name # request.name
        BY <1>4, <1>14 DEF Writes, NewName
      <4> QED BY <4>2, <4>3, <4>4
    <3>2. n \in U /\ k \in U => n = k
      BY <1>11 DEF OneOfEach
    <3> QED BY <3>1, <3>2, <1>10
  <2>8. NoMore'
    BY <2>1, <2>5, <1>1, <1>14 DEF NoMore, USED, UNUSED
  <2>9. Settled'
    <3>1. lastFile' = lastFile + 1 /\ half' = half /\ end' = end
      BY <1>1, <1>14
    <3>2. /\ Table(flash', files', lastFile + 1, half, UsedIn(flash', half, M))
          /\ OneOfEach(flash', half, UsedIn(flash', half, M))
      BY <2>6, <2>7, <1>7
    <3> QED BY <3>1, <3>2, <2>8, <1>7, <1>8, <1>10 DEF Settled
  <2>10. TypeOK'
    <3>1. lastFile' \in 0 .. HALF_SIZE
      BY <2>5, <1>1, <1>14, Geometry
    <3> QED BY <3>1, <2>1, <1>1, <1>7, <1>14 DEF TypeOK, FileTables, EntryType, Flashes
  <2> QED BY <2>9, <2>10, <1>1, <1>14 DEF FilesInv, Phases
<1> QED BY <1>13, <1>14

LEMMA SupersedeStep ==
  ASSUME FilesInv, Supersede
  PROVE  FilesInv'
<1> DEFINE U == UsedIn(flash, half, M)
<1>1. /\ TypeOK /\ SupersedeGood /\ pc' = "return"
      /\ flash' = Written(previous, <<Valid(DELETED)>>)
      /\ UNCHANGED <<files, lastFile, next, end, half, request, index, previous, after, i>>
  BY DEF FilesInv, Phases, Supersede, Step, table
<1>2. /\ InUse(flash, half) /\ HalfGood(flash, half, M) /\ end = Starts(flash, half, M) /\ NoMore
  BY <1>1 DEF SupersedeGood
<1>3. PICK q \in U : /\ previous = HalfStart(half) + q
                     /\ Table(flash, files, lastFile, half, U \ {q}) /\ OneOfEach(flash, half, U \ {q})
  BY <1>1 DEF SupersedeGood
<1>4. half \in BothHalves /\ flash \in Flashes /\ M \in 0 .. HALF_SIZE - 2 /\ M \in 0 .. HALF_SIZE - 1
  <2>1. half \in BothHalves /\ flash \in Flashes
    BY <1>1, HalfIs
  <2>2. M \in 0 .. HALF_SIZE - 2
    BY <2>1, <1>2, HalfFacts
  <2> QED BY <2>1, <2>2, Geometry
<1>5. U \subseteq 1 .. M
  BY UsedAre
<1>6. MarksAt(flash, flash', half, q, DELETED)
  BY <1>1, <1>3, <1>4, StatusWritten DEF MarksAt, TypeOK
<1>7. /\ flash' \in Flashes /\ HalfGood(flash', half, M) /\ InUse(flash', half)
      /\ \A n \in 0 .. M : Starts(flash', half, n) = Starts(flash, half, n)
      /\ NamesKept(flash, flash', half, M) /\ UsedIn(flash', half, M) = U \ {q}
  <2>1. q \in 1 .. M
    BY <1>3, <1>5
  <2> QED BY <2>1, <1>2, <1>4, <1>6, HeaderDeleted DEF U
<1> HIDE DEF U
<1> DEFINE V == U \ {q}
<1>8. V \subseteq 1 .. M /\ V \subseteq V /\ Table(flash, files, lastFile, half, V) /\ OneOfEach(flash, half, V)
      /\ UsedIn(flash', half, M) = V
  BY <1>3, <1>5, <1>7
<1> HIDE DEF V
<1>9. OneOfEach(flash', half, V)
  BY <1>7, <1>8, OneOfEachKept
<1>10. Table(flash', files', lastFile, half, V)
  <2>1. \A k \in 0 .. lastFile - 1 : files'[k] = files[k]
    BY <1>1
  <2> QED BY <2>1, <1>4, <1>7, <1>8, TableSame
<1>11. Settled'
  <2>1. M' = M /\ NoMore'
    BY <1>1, <1>2 DEF M, NoMore
  <2>2. Starts(flash', half, M) = end
    <3>1. M \in 0 .. M
      BY <1>4
    <3> QED BY <3>1, <1>2, <1>7
  <2> QED BY <2>1, <2>2, <1>1, <1>7, <1>8, <1>9, <1>10 DEF Settled
<1>12. TypeOK'
  BY <1>1, <1>7 DEF TypeOK, Flashes
<1> QED BY <1>1, <1>11, <1>12 DEF FilesInv, Phases

-----------------------------------------------------------------------------
(***************************************************************************)
(* changehalf.                                                             *)
(***************************************************************************)
LEMMA InUseKept ==
  ASSUME NEW fl, NEW gl, NEW h \in BothHalves, InUse(fl, h), Cell(gl, h, 0) = Cell(fl, h, 0),
         Cell(gl, 1 - h, 0) = Cell(fl, 1 - h, 0) \/ Cell(gl, 1 - h, 0).valid # USED
  PROVE  InUse(gl, h)
<1>1. 1 - h \in BothHalves
  BY Halves
<1>2. HalfStart(h) + 0 = HalfStart(h) /\ HalfStart(1 - h) + 0 = HalfStart(1 - h)
      /\ (h = 1 => HalfStart(1 - h) = 0)
  <2>1. HalfStart(h) \in Nat /\ HalfStart(1 - h) \in Nat /\ HalfStart(0) = 0
    BY <1>1, Halves
  <2>2. h = 1 => 1 - h = 0
    OBVIOUS
  <2> QED BY <2>1, <2>2
<1> QED BY <1>2 DEF InUse, Cell, SECOND_HALF

\* The half in use, while the other is worked on.
Current ==
  /\ HalfGood(flash, half, M) /\ end = Starts(flash, half, M)
  /\ OneOfEach(flash, half, UsedIn(flash, half, M))
  /\ Table(flash, files, lastFile, half, UsedIn(flash, half, M)) /\ NoMore

LEMMA CurrentKept ==
  ASSUME TypeOK, Current, flash' \in Flashes, UNCHANGED <<files, lastFile, next, end, half>>,
         \A n \in 1 .. HALF_SIZE - 1 : Cell(flash', half, n) = Cell(flash, half, n)
  PROVE  Current'
<1> DEFINE U == UsedIn(flash, half, M)
<1>1. half \in BothHalves /\ flash \in Flashes
  BY HalfIs
<1>2. /\ HalfGood(flash, half, M) /\ end = Starts(flash, half, M) /\ NoMore
      /\ OneOfEach(flash, half, U) /\ Table(flash, files, lastFile, half, U)
  BY DEF Current
<1>3. M \in 0 .. HALF_SIZE - 1 /\ M \in 0 .. M
  BY <1>2 DEF HalfGood
<1>4. U \subseteq 1 .. M /\ U \subseteq U
  BY UsedAre
<1>5. /\ HalfGood(flash', half, M) /\ \A n \in 0 .. M : Starts(flash', half, n) = Starts(flash, half, n)
      /\ \A n \in 1 .. M : Cell(flash', half, n) = Cell(flash, half, n)
      /\ UsedIn(flash', half, M) = U
  BY <1>1, <1>2, HalfSame
<1> HIDE DEF U
<1>6. NamesKept(flash, flash', half, M)
  BY <1>5 DEF NamesKept
<1>7. OneOfEach(flash', half, U)
  BY <1>2, <1>4, <1>6, OneOfEachKept
<1>8. Table(flash', files', lastFile, half, U)
  <2>1. \A k \in 0 .. lastFile - 1 : files'[k] = files[k]
    OBVIOUS
  <2> QED BY <2>1, <1>1, <1>2, <1>3, <1>4, <1>6, TableSame
<1>9. M' = M /\ NoMore'
  BY <1>2 DEF M, NoMore
<1> QED BY <1>2, <1>3, <1>5, <1>7, <1>8, <1>9 DEF Current

LEMMA SettledIs == Settled <=> InUse(flash, half) /\ Current
BY DEF Settled, Current

\* The size of what the table says, and where it is.
LEMMA EntryFacts ==
  ASSUME TypeOK, Current, NEW k \in 0 .. lastFile - 1
  PROVE  \E n \in UsedIn(flash, half, M) :
           /\ n \in 1 .. M /\ EntryOf(flash, files[k], half, n) /\ files[k].length = S
           /\ files[k].valid = USED /\ files[k].name \in Names /\ files[k].start = Starts(flash, half, n)
           /\ files[k].start > HalfStart(half) + M + 1
           /\ files[k].start + S <= HalfStart(half) + HALF_SIZE /\ files[k].start \in Int
<1> DEFINE U == UsedIn(flash, half, M)
<1>1. half \in BothHalves /\ flash \in Flashes /\ HalfGood(flash, half, M)
      /\ Table(flash, files, lastFile, half, U)
  BY HalfIs DEF Current
<1>2. M \in 0 .. HALF_SIZE - 1
  BY <1>1 DEF HalfGood
<1>3. PICK n \in U : EntryOf(flash, files[k], half, n)
  BY <1>1, TableForm, Zenon
<1>4. n \in 1 .. M
  BY UsedAre
<1>5. /\ Cell(flash, half, n).length = S /\ Cell(flash, half, n).name \in Names
      /\ Starts(flash, half, n) > HalfStart(half) + M + 1
  BY <1>1, HalfFacts
<1>6. /\ files[k].length = S /\ files[k].valid = USED /\ files[k].name \in Names
      /\ files[k].start = Starts(flash, half, n)
  BY <1>3, <1>5 DEF EntryOf
<1>7. Starts(flash, half, n) + S <= HalfStart(half) + HALF_SIZE /\ Starts(flash, half, n) \in Int
  <2>1. n \in 0 .. HALF_SIZE - 1 /\ 0 \in 0 .. HALF_SIZE - 1 /\ 0 < n
    BY <1>2, <1>4, Geometry
  <2>2. Starts(flash, half, n) + Cell(flash, half, n).length <= Starts(flash, half, 0)
    BY <2>1, <1>1, StartsDescend
  <2>3. Starts(flash, half, 0) = HalfStart(half) + HALF_SIZE /\ Starts(flash, half, n) \in Int
    BY <2>1, <1>1, StartRule
  <2> QED BY <2>2, <2>3, <1>5
<1> QED BY <1>3, <1>4, <1>5, <1>6, <1>7

\* The files fit into an empty half, with room between headers and data.
LEMMA CopyFits ==
  ASSUME TypeOK, Current, NEW k \in 0 .. lastFile
  PROVE  DataEnd(S, k, 0) > k + 1 /\ k \in 0 .. HALF_SIZE - 2
<1> DEFINE U == UsedIn(flash, half, M)
<1>1. /\ half \in BothHalves /\ flash \in Flashes /\ HalfGood(flash, half, M)
      /\ Entries(flash, files, lastFile, half, U) /\ lastFile \in Nat
  BY HalfIs DEF Current, Table
<1>2. /\ M \in 0 .. HALF_SIZE - 2 /\ HeadersGood(flash, half, M) /\ HalfStart(half) \in Nat
      /\ S \in 1 .. F
  BY <1>1, HalfFacts, Halves, SizeFits DEF HalfGood
<1>3. PICK d \in {M, M - 1} : Space(flash, half, M, d)
  BY <1>1 DEF HalfGood
<1>4. d \in 0 .. M
  BY <1>2, <1>3 DEF Space
<1>5. lastFile <= d
  <2>1. U \subseteq 1 .. M
    BY UsedAre
  <2>2. d = M - 1 => M \notin U
    BY <1>3 DEF Space, IsPhantom, UsedIn, USED, DELETED
  <2>3. U \subseteq 1 .. d /\ d \in Nat
    BY <2>1, <2>2, <1>2, <1>3, <1>4
  <2> HIDE DEF U
  <2> QED BY <2>3, <1>1, TableBound
<1>6. PICK p \in 0 .. Phantoms(d) : Starts(flash, half, d) = HalfStart(half) + DataEnd(S, d, p)
  <2>1. Chained(flash, half, d)
    BY <1>2, <1>4 DEF HeadersGood
  <2> QED BY <2>1, Zenon DEF Chained
<1>7. p \in Nat /\ k \in Nat /\ d \in Nat /\ k <= d
  BY <1>1, <1>4, <1>5, PhantomCount
<1>8. DataEnd(S, d, p) \in Int /\ DataEnd(S, k, 0) \in Int
  BY <1>7, DataEnds
<1>9. DataEnd(S, d, p) > M + 1
  <2>1. Starts(flash, half, d) > HalfStart(half) + M + 1
    BY <1>3 DEF Space
  <2> QED BY <2>1, <1>2, <1>6, <1>8
<1>10. DataEnd(S, k, 0) >= DataEnd(S, d, p)
  <2>1. \A s, f, x, y, z \in Nat : s <= f /\ x <= y => x * s <= (y - z) * s + z * f
    <3> TAKE s \in Nat, f \in Nat, x \in Nat, y \in Nat, z \in Nat
    <3> HAVE s <= f /\ x <= y
    <3>1. (y - z) * s = y * s - z * s
      BY SMT
    <3>2. z * s <= z * f /\ x * s <= y * s
      BY SMT
    <3>3. z * s \in Int /\ z * f \in Int /\ x * s \in Int /\ y * s \in Int
      BY SMT
    <3> DEFINE a == z * s
               b == z * f
               c == x * s
               e == y * s
               g == (y - z) * s
    <3>4. a \in Int /\ b \in Int /\ c \in Int /\ e \in Int /\ g = e - a /\ a <= b /\ c <= e
      BY <3>1, <3>2, <3>3
    <3> HIDE DEF a, b, c, e, g
    <3>5. c <= g + b
      BY <3>4
    <3> QED BY <3>5 DEF b, c, g
  <2>2. S \in Nat /\ F \in Nat /\ S <= F
    BY <1>2, Geometry
  <2>3. k * S <= (d - p) * S + p * F
    BY <2>1, <2>2, <1>7
  <2>4. DataEnd(S, k, 0) = HALF_SIZE - k * S
    <3>1. k - 0 = k /\ 0 * F = 0 /\ k * S \in Int
      BY <2>2, <1>7, SMT
    <3>2. DataEnd(S, k, 0) = HALF_SIZE - (k - 0) * S - 0 * F
      BY DEF DataEnd, F
    <3> QED BY <3>1, <3>2, Geometry
  <2>5. DataEnd(S, d, p) = HALF_SIZE - (d - p) * S - p * F
    BY DEF DataEnd, F
  <2> DEFINE a == k * S
             b == (d - p) * S
             c == p * F
  <2>6. a \in Int /\ b \in Int /\ c \in Int
    BY <2>2, <1>7, SMT
  <2>7. a <= b + c /\ DataEnd(S, k, 0) = HALF_SIZE - a /\ DataEnd(S, d, p) = HALF_SIZE - b - c
    BY <2>3, <2>4, <2>5
  <2> HIDE DEF a, b, c
  <2> QED BY <2>6, <2>7, Geometry
<1>11. k <= M
  BY <1>2, <1>4, <1>7
<1> QED BY <1>2, <1>7, <1>8, <1>9, <1>10, <1>11, Geometry

\* What a write of several cells does.
LEMMA CellsWritten ==
  ASSUME flash \in Flashes, NEW x \in Int, NEW l \in Nat, NEW cells, Len(cells) = l,
         \A k \in 1 .. l : cells[k] \in Headers
  PROVE  /\ Written(x, cells) \in Flashes
         /\ \A a \in Addresses : ~(x <= a /\ a < x + l) => Written(x, cells)[a] = flash[a]
<1>1. \A a \in Addresses : a \in Int
  BY Geometry
<1>2. \A a \in Addresses : a \in x .. x + Len(cells) - 1 => a - x + 1 \in 1 .. l
  BY <1>1
<1>3. \A a \in Addresses : flash[a] \in Headers
  BY LengthsAre
<1>4. \A a \in Addresses : Written(x, cells)[a] \in Headers
  <2> TAKE a \in Addresses
  <2>1. CASE a \in x .. x + Len(cells) - 1
    <3>1. Programmed(flash[a], cells[a - x + 1]) \in Headers
      BY <2>1, <1>2, <1>3, ProgrammedIs
    <3> QED BY <2>1, <3>1 DEF Written
  <2>2. CASE a \notin x .. x + Len(cells) - 1
    BY <2>2, <1>3 DEF Written
  <2> QED BY <2>1, <2>2
<1>5. Written(x, cells) \in Flashes
  <2>1. Written(x, cells) = [a \in Addresses |-> Written(x, cells)[a]]
    BY DEF Written
  <2> HIDE DEF Written
  <2> QED BY <2>1, <1>4 DEF Flashes
<1>6. ASSUME NEW a \in Addresses, ~(x <= a /\ a < x + l) PROVE Written(x, cells)[a] = flash[a]
  <2>1. a \notin x .. x + Len(cells) - 1
    BY <1>1, <1>6
  <2> QED BY <2>1 DEF Written
<1> QED BY <1>5, <1>6

\* The other half is written to: the half in use is as before.
LEMMA OtherWritten ==
  ASSUME TypeOK, Moving, UNCHANGED <<files, lastFile, next, end, half, request, index>>,
         flash' \in Flashes,
         \A n \in 0 .. HALF_SIZE - 1 : Cell(flash', half, n) = Cell(flash, half, n),
         Cell(flash', OtherHalf, 0) = Cell(flash, OtherHalf, 0) \/ Cell(flash', OtherHalf, 0).valid # USED
  PROVE  Moving'
<1>1. half \in BothHalves /\ OtherHalf = 1 - half
  BY HalfIs
<1>2. InUse(flash, half) /\ Current /\ Writes
  BY SettledIs DEF Moving
<1>3. InUse(flash', half)
  <2>1. Cell(flash', half, 0) = Cell(flash, half, 0)
    BY Geometry
  <2> QED BY <2>1, <1>1, <1>2, InUseKept
<1>4. Current'
  <2>1. \A n \in 1 .. HALF_SIZE - 1 : n \in 0 .. HALF_SIZE - 1
    BY Geometry
  <2> QED BY <2>1, <1>2, CurrentKept
<1>5. Writes'
  BY <1>2, WritesSame
<1>6. Settled'
  BY <1>3, <1>4 DEF Settled, Current
<1> QED BY <1>5, <1>6 DEF Moving

LEMMA OtherIs ==
  ASSUME TypeOK
  PROVE  /\ half \in BothHalves /\ OtherHalf \in BothHalves /\ OtherHalf = 1 - half /\ half = 1 - OtherHalf
         /\ flash \in Flashes /\ OtherStart = HalfStart(OtherHalf) /\ OtherStart \in Nat
         /\ HalfStart(half) \in Nat /\ OtherStart + HALF_SIZE < FlashSize
         /\ HalfStart(half) + HALF_SIZE < FlashSize
         /\ \/ HalfStart(half) = OtherStart + HALF_SIZE
            \/ OtherStart = HalfStart(half) + HALF_SIZE
<1>1. half \in BothHalves /\ OtherHalf \in BothHalves /\ OtherHalf = 1 - half /\ flash \in Flashes
  BY HalfIs
<1>2. half = 1 - OtherHalf
  BY <1>1 DEF BothHalves
<1> QED BY <1>1, <1>2, Halves DEF OtherStart

LEMMA EraseNextStep ==
  ASSUME FilesInv, EraseNext
  PROVE  FilesInv'
<1>1. /\ TypeOK /\ EraseNextGood
      /\ pc' = (IF i + 1 = BlocksPerHalf THEN "copyData" ELSE "eraseNext")
      /\ flash' = Erased(OtherHalf * BlocksPerHalf + i)
      /\ i' = (IF i + 1 = BlocksPerHalf THEN 0 ELSE i + 1)
      /\ UNCHANGED <<files, lastFile, next, end, half, request, index, previous, after, copied>>
  BY DEF FilesInv, Phases, EraseNext, EraseHalf, Step, call, table
<1>2. /\ Moving /\ i \in 0 .. BlocksPerHalf - 1
      /\ copied = <<OtherStart + 1, OtherStart + HALF_SIZE>>
      /\ BlankFrom(flash, OtherStart, OtherStart + i * BlockSize)
  BY <1>1 DEF EraseNextGood
<1>3. /\ half \in BothHalves /\ OtherHalf \in BothHalves /\ OtherHalf = 1 - half
      /\ flash \in Flashes /\ OtherStart = HalfStart(OtherHalf) /\ OtherStart \in Nat
      /\ HalfStart(half) \in Nat /\ OtherStart + HALF_SIZE < FlashSize
      /\ \/ HalfStart(half) = OtherStart + HALF_SIZE
         \/ OtherStart = HalfStart(half) + HALF_SIZE
  BY <1>1, OtherIs
<1> DEFINE x == i * BlockSize
           y == (i + 1) * BlockSize
<1>4. /\ flash' \in Flashes
      /\ \A a \in Addresses : OtherStart + x <= a /\ a < OtherStart + y => flash'[a] = Blank
      /\ \A a \in Addresses : ~(OtherStart + x <= a /\ a < OtherStart + y) => flash'[a] = flash[a]
      /\ 0 <= x /\ y <= HALF_SIZE /\ x \in Nat /\ y = x + BlockSize
      /\ (i + 1 = BlocksPerHalf => y = HALF_SIZE)
  BY <1>1, <1>2, <1>3, BlockErased
<1> HIDE DEF x, y
<1>5. y \in Nat /\ x <= y
  BY <1>4, GeometryAssumption
<1>6. BlankFrom(flash', OtherStart, OtherStart + y)
  <2> SUFFICES ASSUME NEW a \in Addresses, OtherStart <= a, a < OtherStart + y PROVE flash'[a] = Blank
    BY DEF BlankFrom
  <2>1. CASE a < OtherStart + x
    <3>1. flash[a] = Blank
      BY <2>1, <1>2 DEF BlankFrom, x
    <3> QED BY <2>1, <3>1, <1>4
  <2>2. CASE ~(a < OtherStart + x)
    <3>1. OtherStart + x <= a
      BY <2>2, <1>3, <1>4, Geometry
    <3> QED BY <3>1, <1>4
  <2> QED BY <2>1, <2>2
<1>7. Moving'
  <2>1. \A n \in 0 .. HALF_SIZE - 1 : Cell(flash', half, n) = Cell(flash, half, n)
    <3> TAKE n \in 0 .. HALF_SIZE - 1
    <3>1. HalfStart(half) + n \in Addresses
      BY <1>3, CellsAre
    <3>2. ~(OtherStart + x <= HalfStart(half) + n /\ HalfStart(half) + n < OtherStart + y)
      <4>1. \A b, c, u, v, l, o \in Int : /\ 0 <= u /\ v <= l /\ 0 <= o /\ o < l
                                          /\ b = c + l \/ c = b + l
                                          => ~(c + u <= b + o /\ b + o < c + v)
        BY SMT
      <4>2. /\ HalfStart(half) \in Int /\ OtherStart \in Int /\ x \in Int /\ y \in Int
            /\ HALF_SIZE \in Int /\ n \in Int /\ 0 <= n /\ n < HALF_SIZE
        BY <1>3, <1>4, <1>5, Geometry
      <4>3. /\ 0 <= x /\ y <= HALF_SIZE
            /\ HalfStart(half) = OtherStart + HALF_SIZE \/ OtherStart = HalfStart(half) + HALF_SIZE
        BY <1>3, <1>4
      <4> QED BY <4>1, <4>2, <4>3, Zenon
    <3> QED BY <3>1, <3>2, <1>4 DEF Cell
  <2>2. Cell(flash', OtherHalf, 0) = Cell(flash, OtherHalf, 0) \/ Cell(flash', OtherHalf, 0).valid # USED
    <3>1. OtherStart + 0 = OtherStart /\ OtherStart \in Addresses
      BY <1>3, Geometry
    <3>2. flash'[OtherStart] = Blank \/ flash'[OtherStart] = flash[OtherStart]
      BY <3>1, <1>4
    <3>3. Blank.valid # USED
      BY StatusIs DEF UNUSED, USED
    <3> QED BY <3>1, <3>2, <3>3, <1>3 DEF Cell
  <2> QED BY <2>1, <2>2, <1>1, <1>2, <1>4, OtherWritten
<1>8. OtherHalf' = OtherHalf /\ OtherStart' = OtherStart
  BY <1>1 DEF OtherStart, OtherHalf
<1>9. CASE i + 1 # BlocksPerHalf
  <2>1. i' = i + 1 /\ i' \in 0 .. BlocksPerHalf - 1
    BY <1>1, <1>2, <1>9, GeometryAssumption
  <2>2. EraseNextGood'
    BY <2>1, <1>1, <1>2, <1>6, <1>7, <1>8 DEF EraseNextGood, y
  <2>3. TypeOK'
    <3>1. i' \in -2 .. HALF_SIZE
      <4>1. BlocksPerHalf <= HALF_SIZE
        <5>1. \A b, c \in Nat : c > 0 => b <= b * c
          BY SMT
        <5> QED BY <5>1, GeometryAssumption DEF HALF_SIZE
      <4> QED BY <4>1, <2>1, Geometry, GeometryAssumption
    <3> QED BY <3>1, <1>1, <1>4 DEF TypeOK, Flashes
  <2> QED BY <2>2, <2>3, <1>1, <1>9 DEF FilesInv, Phases
<1>10. CASE i + 1 = BlocksPerHalf
  <2>1. i' = 0 /\ pc' = "copyData" /\ y = HALF_SIZE
    BY <1>1, <1>4, <1>10
  <2>2. BlankFrom(flash', OtherStart + 1 + 0, OtherStart + HALF_SIZE)
    <3>1. \A a \in Addresses : OtherStart + 1 + 0 <= a => OtherStart <= a
      BY <1>3, Geometry
    <3> QED BY <3>1, <1>6, <2>1 DEF BlankFrom
  <2>3. flash'[OtherStart] = Blank
    <3>1. OtherStart \in Addresses /\ OtherStart < OtherStart + HALF_SIZE
      BY <1>3, Geometry
    <3> QED BY <3>1, <2>1, <1>3, <1>6 DEF BlankFrom
  <2>4. Starts(flash', OtherHalf, 0) = OtherStart + HALF_SIZE
    BY <1>3, <1>4, StartRule
  <2>5. /\ Replica(flash', OtherHalf, files, 0)
        /\ \A n \in 0 .. 0 : Starts(flash', OtherHalf, n) = OtherStart + DataEnd(S, n, 0)
    <3>1. \A n \in 0 .. 0 : n = 0
      OBVIOUS
    <3>2. Starts(flash', OtherHalf, 0) = OtherStart + DataEnd(S, 0, 0)
      BY <2>4, DataEnds
    <3> QED BY <3>1, <3>2 DEF Replica
  <2>6. 0 \in 0 .. lastFile
    BY <1>1 DEF TypeOK
  <2>7. OtherStart + 1 + 0 = OtherStart + 1 /\ (OtherStart + HALF_SIZE) - 0 = OtherStart + HALF_SIZE
    BY <1>3, Geometry
  <2>8. copied' = <<OtherStart + 1, OtherStart + HALF_SIZE>>
    BY <1>1, <1>2
  <2>9. copied'[2] = OtherStart + HALF_SIZE
    BY <2>8
  <2>10. CopyGood'
    <3>1. copied' = <<OtherStart' + 1 + i', Starts(flash', OtherHalf', i')
                                              - (IF pc' = "copyHeader" THEN S ELSE 0)>>
      BY <2>1, <2>4, <2>7, <2>8, <1>8
    <3>2. BlankFrom(flash', OtherStart' + 1 + i', copied'[2])
      BY <2>1, <2>2, <2>9, <1>8
    <3>3. i' \in 0 .. lastFile' /\ pc' # "copyHeader"
      BY <2>1, <2>6, <1>1
    <3>4. /\ Replica(flash', OtherHalf', files', i') /\ flash'[OtherStart'] = Blank
          /\ \A n \in 0 .. i' : Starts(flash', OtherHalf', n) = OtherStart' + DataEnd(S, n, 0)
      BY <2>1, <2>3, <2>5, <1>1, <1>8
    <3> QED BY <3>1, <3>2, <3>3, <3>4, <1>7 DEF CopyGood
  <2>11. TypeOK'
    <3>1. i' \in -2 .. HALF_SIZE
      BY <2>1, Geometry
    <3> QED BY <3>1, <2>1, <1>1, <1>4 DEF TypeOK, Flashes
  <2> QED BY <2>1, <2>10, <2>11 DEF FilesInv, Phases
<1> QED BY <1>9, <1>10

\* Data, and the header of the entry being copied.
LEMMA CopiedIs ==
  ASSUME TypeOK, Current, NEW k \in 0 .. lastFile - 1, NEW e, e = files[k]
  PROVE  /\ e = [valid |-> USED, name |-> e.name, length |-> S, header |-> e.header, start |-> e.start]
         /\ e.name \in Names /\ Len(Data(e)) = S /\ \A j \in 1 .. S : Data(e)[j] \in Headers
<1>1. /\ e.length = S /\ e.valid = USED /\ e.name \in Names /\ e.start \in Int
      /\ e.start > HalfStart(half) + M + 1 /\ e.start + S <= HalfStart(half) + HALF_SIZE
  BY EntryFacts
<1>2. e \in EntryType
  <2>1. k \in 0 .. HALF_SIZE
    BY Geometry DEF TypeOK
  <2> QED BY <2>1, TablesAre
<1>3. e = [valid |-> USED, name |-> e.name, length |-> S, header |-> e.header, start |-> e.start]
  BY <1>1, <1>2 DEF EntryType
<1>4. Data(e) = [j \in 1 .. S |-> flash[e.start + j - 1]]
  BY <1>1 DEF Data
<1>5. S \in 1 .. F /\ HalfStart(half) \in Nat /\ HalfStart(half) + HALF_SIZE < FlashSize
      /\ M \in Nat /\ flash \in Flashes
  BY HalfIs, Halves, SizeFits DEF Current, HalfGood
<1>6. ASSUME NEW j \in 1 .. S PROVE Data(e)[j] \in Headers
  <2>1. e.start + j - 1 \in Addresses
    <3>1. S \in Int /\ j \in Int /\ 1 <= j /\ j <= S /\ HALF_SIZE \in Int /\ FlashSize \in Int
      BY <1>5, Geometry
    <3>2. 0 <= e.start + j - 1 /\ e.start + j - 1 < FlashSize /\ e.start + j - 1 \in Int
      BY <3>1, <1>1, <1>5
    <3> QED BY <3>1, <3>2, Geometry
  <2>2. flash[e.start + j - 1] \in Headers
    BY <2>1, <1>5, LengthsAre
  <2> QED BY <2>2, <1>4
<1>7. Len(Data(e)) = S
  BY <1>4, <1>5, Geometry
<1> QED BY <1>1, <1>3, <1>6, <1>7

LEMMA CopyDataStep ==
  ASSUME FilesInv, CopyData
  PROVE  FilesInv'
<1> DEFINE x == copied[2] - Copied.length
<1>1. /\ TypeOK /\ CopyGood /\ pc = "copyData" /\ pc' = "copyHeader" /\ i < lastFile
      /\ flash' = Written(x, Data(Copied)) /\ copied' = [copied EXCEPT ![2] = x]
      /\ UNCHANGED <<files, lastFile, next, end, half, request, index, previous, after, i>>
  BY DEF FilesInv, Phases, CopyData, Step, call, table
<1>2. /\ Moving /\ i \in 0 .. lastFile
      /\ copied = <<OtherStart + 1 + i, Starts(flash, OtherHalf, i) - 0>>
      /\ Replica(flash, OtherHalf, files, i)
      /\ \A n \in 0 .. i : Starts(flash, OtherHalf, n) = OtherStart + DataEnd(S, n, 0)
      /\ flash[OtherStart] = Blank /\ BlankFrom(flash, OtherStart + 1 + i, copied[2])
  BY <1>1 DEF CopyGood
<1>3. /\ half \in BothHalves /\ OtherHalf \in BothHalves /\ OtherHalf = 1 - half /\ half = 1 - OtherHalf
      /\ flash \in Flashes /\ OtherStart = HalfStart(OtherHalf) /\ OtherStart \in Nat
      /\ OtherStart + HALF_SIZE < FlashSize
  BY <1>1, OtherIs
<1>4. Current
  BY <1>2, SettledIs DEF Moving
<1>5. lastFile \in Nat /\ i \in 0 .. lastFile - 1
  BY <1>1, <1>2, Geometry DEF TypeOK
<1>6. DataEnd(S, i + 1, 0) > (i + 1) + 1 /\ i + 1 \in 0 .. HALF_SIZE - 2
      /\ DataEnd(S, i, 0) \in Int /\ DataEnd(S, i + 1, 0) = DataEnd(S, i, 0) - S
  <2>1. i + 1 \in 0 .. lastFile /\ i \in Int /\ 0 \in Int
    BY <1>5
  <2>2. DataEnd(S, i + 1, 0) > (i + 1) + 1 /\ i + 1 \in 0 .. HALF_SIZE - 2
    BY <2>1, <1>1, <1>4, CopyFits
  <2> QED BY <2>1, <2>2, DataEnds
<1>7. S \in 1 .. F /\ S \in Int /\ 1 <= S
  BY SizeFits, Geometry
<1>8. /\ Copied.length = S /\ Len(Data(Copied)) = S /\ \A j \in 1 .. S : Data(Copied)[j] \in Headers
  <2>1. Copied = files[i]
    BY DEF Copied
  <2>2. Copied = [valid |-> USED, name |-> Copied.name, length |-> S, header |-> Copied.header,
                  start |-> Copied.start]
    BY <2>1, <1>1, <1>4, <1>5, CopiedIs
  <2>3. Len(Data(Copied)) = S /\ \A j \in 1 .. S : Data(Copied)[j] \in Headers
    BY <2>1, <1>1, <1>4, <1>5, CopiedIs
  <2> HIDE DEF Copied
  <2> QED BY <2>2, <2>3
<1>9. /\ Starts(flash, OtherHalf, i) = OtherStart + DataEnd(S, i, 0)
      /\ x = OtherStart + DataEnd(S, i + 1, 0) /\ x \in Int
      /\ copied[2] = x + S /\ copied[1] = OtherStart + 1 + i
      /\ copied[2] <= OtherStart + HALF_SIZE
  <2>1. i \in 0 .. i
    BY <1>5
  <2>2. Starts(flash, OtherHalf, i) = OtherStart + DataEnd(S, i, 0)
    BY <2>1, <1>2
  <2>3. copied[2] = OtherStart + DataEnd(S, i, 0) /\ copied[1] = OtherStart + 1 + i
    BY <2>2, <1>2, <1>3, <1>6
  <2>4. x = copied[2] - S
    BY <1>8
  <2>5. Starts(flash, OtherHalf, i) <= OtherStart + HALF_SIZE
    <3>1. 0 \in 0 .. HALF_SIZE - 1 /\ i \in 0 .. HALF_SIZE - 1 /\ 0 <= i
      BY <1>5, <1>6, Geometry
    <3>2. Starts(flash, OtherHalf, i) <= Starts(flash, OtherHalf, 0)
      BY <3>1, <1>3, StartsDescend
    <3>3. Starts(flash, OtherHalf, 0) = OtherStart + HALF_SIZE
      BY <1>3, StartRule
    <3> QED BY <3>2, <3>3
  <2> HIDE DEF x
  <2>6. x = OtherStart + DataEnd(S, i + 1, 0) /\ x \in Int /\ copied[2] = x + S
    BY <2>3, <2>4, <1>3, <1>6, <1>7
  <2> QED BY <2>2, <2>3, <2>5, <2>6
<1> HIDE DEF x
<1>10. x > OtherStart + i + 2
  BY <1>3, <1>5, <1>6, <1>7, <1>9
<1>11. /\ flash' \in Flashes
       /\ \A a \in Addresses : ~(x <= a /\ a < x + S) => flash'[a] = flash[a]
  <2>1. S \in Nat
    BY <1>7, Geometry
  <2> QED BY <2>1, <1>1, <1>3, <1>8, <1>9, CellsWritten
<1>12. /\ \A n \in 0 .. i : Cell(flash', OtherHalf, n) = Cell(flash, OtherHalf, n)
       /\ \A n \in 0 .. i : Starts(flash', OtherHalf, n) = Starts(flash, OtherHalf, n)
       /\ \A n \in 0 .. HALF_SIZE - 1 : Cell(flash', half, n) = Cell(flash, half, n)
  <2>1. \A a \in Addresses : ~(x <= a /\ a < HalfStart(OtherHalf) + HALF_SIZE) => flash'[a] = flash[a]
    <3>1. /\ x + S <= HalfStart(OtherHalf) + HALF_SIZE
          /\ x + S \in Int /\ HalfStart(OtherHalf) + HALF_SIZE \in Int
      BY <1>3, <1>7, <1>9, Geometry
    <3>2. \A a \in Addresses : a \in Int
      BY Geometry
    <3>3. \A a \in Addresses : a < x + S => a < HalfStart(OtherHalf) + HALF_SIZE
      BY <3>1, <3>2
    <3> QED BY <3>3, <1>11
  <2>2. i \in 0 .. HALF_SIZE - 1 /\ x > HalfStart(OtherHalf) + i
    <3>1. i \in Int /\ 0 <= i /\ OtherStart \in Int /\ x \in Int /\ HALF_SIZE \in Int
      BY <1>3, <1>5, <1>9, Geometry
    <3>2. i \in 0 .. HALF_SIZE - 1
      BY <3>1, <1>6
    <3>3. x > OtherStart + i
      BY <3>1, <1>10
    <3> QED BY <3>2, <3>3, <1>3
  <2> QED BY <2>1, <2>2, <1>3, <1>9, <1>11, WrittenAbove
<1>13. Moving'
  <2>1. Cell(flash', OtherHalf, 0) = Cell(flash, OtherHalf, 0)
    BY <1>5, <1>12
  <2> QED BY <2>1, <1>1, <1>2, <1>11, <1>12, OtherWritten
<1>14. OtherHalf' = OtherHalf /\ OtherStart' = OtherStart
  BY <1>1 DEF OtherStart, OtherHalf
<1>15. copied' = <<OtherStart + 1 + i, x>>
  BY <1>1, <1>2
<1>16. CopyGood'
  <2>1. x = Starts(flash', OtherHalf, i) - S
    <3>1. i \in 0 .. i
      BY <1>5
    <3>2. Starts(flash', OtherHalf, i) = OtherStart + DataEnd(S, i, 0)
      BY <3>1, <1>9, <1>12
    <3> QED BY <3>2, <1>3, <1>6, <1>7, <1>9
  <2>2. Replica(flash', OtherHalf, files, i)
    <3>1. \A n \in 1 .. i : n \in 0 .. i
      BY <1>5
    <3> QED BY <3>1, <1>2, <1>12 DEF Replica
  <2>3. flash'[OtherStart] = Blank
    <3>1. Cell(flash', OtherHalf, 0) = Cell(flash, OtherHalf, 0) /\ OtherStart + 0 = OtherStart
      BY <1>3, <1>5, <1>12
    <3> QED BY <3>1, <1>2, <1>3 DEF Cell
  <2>4. BlankFrom(flash', OtherStart + 1 + i, x)
    <3>1. \A a \in Addresses : a < x => a < copied[2] /\ ~(x <= a)
      BY <1>7, <1>9, Geometry
    <3> QED BY <3>1, <1>2, <1>11 DEF BlankFrom
  <2>5. \A n \in 0 .. i : Starts(flash', OtherHalf, n) = OtherStart + DataEnd(S, n, 0)
    BY <1>2, <1>12
  <2>6. copied' = <<OtherStart' + 1 + i', Starts(flash', OtherHalf', i')
                                             - (IF pc' = "copyHeader" THEN S ELSE 0)>>
    BY <2>1, <1>1, <1>14, <1>15
  <2>7. BlankFrom(flash', OtherStart' + 1 + i', copied'[2])
    BY <2>4, <1>1, <1>14, <1>15
  <2> QED BY <2>2, <2>3, <2>5, <2>6, <2>7, <1>1, <1>2, <1>13, <1>14 DEF CopyGood
<1>17. TypeOK'
  BY <1>1, <1>11 DEF TypeOK, Flashes
<1> QED BY <1>1, <1>16, <1>17 DEF FilesInv, Phases

LEMMA CopyHeaderStep ==
  ASSUME FilesInv, CopyHeader
  PROVE  FilesInv'
<1> DEFINE c == [valid |-> Copied.valid, name |-> Copied.name, length |-> Copied.length]
<1>1. /\ TypeOK /\ CopyGood /\ pc = "copyHeader" /\ pc' = "copyData" /\ i' = i + 1
      /\ flash' = Written(copied[1], <<c>>) /\ copied' = [copied EXCEPT ![1] = @ + 1]
      /\ UNCHANGED <<files, lastFile, next, end, half, request, index, previous, after>>
  BY DEF FilesInv, Phases, CopyHeader, Step, call, table
<1>2. /\ Moving /\ i \in 0 .. lastFile /\ i < lastFile
      /\ copied = <<OtherStart + 1 + i, Starts(flash, OtherHalf, i) - S>>
      /\ Replica(flash, OtherHalf, files, i)
      /\ \A n \in 0 .. i : Starts(flash, OtherHalf, n) = OtherStart + DataEnd(S, n, 0)
      /\ flash[OtherStart] = Blank /\ BlankFrom(flash, OtherStart + 1 + i, copied[2])
  BY <1>1 DEF CopyGood
<1>3. /\ half \in BothHalves /\ OtherHalf \in BothHalves /\ OtherHalf = 1 - half /\ half = 1 - OtherHalf
      /\ flash \in Flashes /\ OtherStart = HalfStart(OtherHalf) /\ OtherStart \in Nat
      /\ OtherStart + HALF_SIZE < FlashSize
  BY <1>1, OtherIs
<1>4. Current
  BY <1>2, SettledIs DEF Moving
<1>5. lastFile \in Nat /\ i \in 0 .. lastFile - 1
  BY <1>1, <1>2, Geometry DEF TypeOK
<1>6. DataEnd(S, i + 1, 0) > (i + 1) + 1 /\ i + 1 \in 0 .. HALF_SIZE - 2
      /\ DataEnd(S, i, 0) \in Int /\ DataEnd(S, i + 1, 0) = DataEnd(S, i, 0) - S
      /\ S \in 1 .. F /\ S \in Int /\ 1 <= S
  <2>1. i + 1 \in 0 .. lastFile /\ i \in Int /\ 0 \in Int
    BY <1>5
  <2>2. DataEnd(S, i + 1, 0) > (i + 1) + 1 /\ i + 1 \in 0 .. HALF_SIZE - 2
    BY <2>1, <1>1, <1>4, CopyFits
  <2>3. S \in 1 .. F /\ S \in Int /\ 1 <= S
    BY SizeFits, Geometry
  <2>4. DataEnd(S, i, 0) \in Int /\ DataEnd(S, i + 1, 0) = DataEnd(S, i, 0) - S
    BY <2>1, DataEnds
  <2> QED BY <2>2, <2>3, <2>4
<1>7. c = [valid |-> USED, name |-> files[i].name, length |-> S] /\ files[i].name \in Names /\ c \in Headers
  <2>1. Copied = files[i]
    BY DEF Copied
  <2>2. Copied = [valid |-> USED, name |-> Copied.name, length |-> S, header |-> Copied.header,
                  start |-> Copied.start]
    BY <2>1, <1>1, <1>4, <1>5, CopiedIs
  <2>3. Copied.name \in Names
    BY <2>1, <1>1, <1>4, <1>5, CopiedIs
  <2> HIDE DEF Copied
  <2>4. Copied.valid = USED /\ Copied.length = S
    BY <2>2
  <2>5. c = [valid |-> USED, name |-> files[i].name, length |-> S]
    BY <2>1, <2>4
  <2>6. S \in 0 .. FieldSize - 1 /\ USED \in 0 .. 3 /\ Copied.name \in Fields
    BY <2>3, <1>6, Geometry DEF USED, Fields
  <2> QED BY <2>1, <2>3, <2>5, <2>6 DEF Headers
<1> HIDE DEF c
<1>8. c.valid = USED /\ c.name = files[i].name /\ c.length = S
  BY <1>7
<1>9. /\ Starts(flash, OtherHalf, i) = OtherStart + DataEnd(S, i, 0)
      /\ copied[2] = OtherStart + DataEnd(S, i + 1, 0) /\ copied[1] = OtherStart + 1 + i
  <2>1. i \in 0 .. i
    BY <1>5
  <2>2. Starts(flash, OtherHalf, i) = OtherStart + DataEnd(S, i, 0)
    BY <2>1, <1>2
  <2> QED BY <2>2, <1>2, <1>3, <1>6
<1> DEFINE k == i + 1
<1>10. PutsAt(flash, flash', OtherHalf, k, c)
  <2>1. copied[1] \in Addresses /\ copied[1] = OtherStart + k
    <3>1. i \in Nat /\ i + 1 < HALF_SIZE /\ HALF_SIZE \in Int /\ FlashSize \in Int
      BY <1>5, <1>6, Geometry
    <3>2. OtherStart + 1 + i = OtherStart + (i + 1) /\ 0 <= OtherStart + 1 + i /\ OtherStart + 1 + i < FlashSize
          /\ OtherStart + 1 + i \in Int
      BY <3>1, <1>3
    <3> QED BY <3>1, <3>2, <1>9, Geometry
  <2>2. flash[copied[1]] = Blank
    <3>1. OtherStart + 1 + i <= copied[1] /\ copied[1] < copied[2]
      BY <1>3, <1>5, <1>6, <1>9
    <3> QED BY <3>1, <2>1, <1>2 DEF BlankFrom
  <2>3. Puts(flash, flash', copied[1], c)
    BY <2>1, <2>2, <1>1, <1>3, <1>7, OneWritten
  <2> QED BY <2>1, <2>3, <1>3 DEF PutsAt
<1>11. k = i + 1
  OBVIOUS
<1>12. i \in 0 .. HALF_SIZE - 2 /\ k \in 0 .. HALF_SIZE - 1
  BY <1>5, <1>6, Geometry
<1> HIDE DEF k
<1>13. Higher(flash, flash', OtherHalf, i, c)
  BY <1>3, <1>10, <1>11, <1>12, StartsGrow
<1>14. /\ flash' \in Flashes
       /\ \A n \in 0 .. i : Starts(flash', OtherHalf, n) = Starts(flash, OtherHalf, n)
       /\ \A n \in 0 .. i : Cell(flash', OtherHalf, n) = Cell(flash, OtherHalf, n)
       /\ Cell(flash', OtherHalf, i + 1) = c
       /\ Starts(flash', OtherHalf, i + 1) = Starts(flash, OtherHalf, i) - S
  BY <1>8, <1>13 DEF Higher
<1>15. \A n \in 0 .. HALF_SIZE - 1 : Cell(flash', half, n) = Cell(flash, half, n)
  <2>1. \A n \in 0 .. HALF_SIZE - 1 : Cell(flash', 1 - OtherHalf, n) = Cell(flash, 1 - OtherHalf, n)
    BY <1>3, <1>10, <1>12, PutInHalf
  <2> QED BY <2>1, <1>3
<1>16. Moving'
  <2>1. Cell(flash', OtherHalf, 0) = Cell(flash, OtherHalf, 0)
    BY <1>5, <1>14
  <2> QED BY <2>1, <1>1, <1>2, <1>14, <1>15, OtherWritten
<1>17. OtherHalf' = OtherHalf /\ OtherStart' = OtherStart
  BY <1>1 DEF OtherStart, OtherHalf
<1>18. copied' = <<OtherStart + 1 + (i + 1), copied[2]>>
  <2>1. OtherStart + 1 + i + 1 = OtherStart + 1 + (i + 1)
    BY <1>3, <1>5
  <2> QED BY <2>1, <1>1, <1>2
<1>19. CopyGood'
  <2>1. \A n \in 0 .. i + 1 : n = i + 1 \/ n \in 0 .. i
    BY <1>5
  <2>2. Replica(flash', OtherHalf, files, i + 1)
    <3>1. \A n \in 1 .. i + 1 : (n = i + 1 /\ n - 1 = i) \/ (n \in 1 .. i /\ n \in 0 .. i)
      BY <1>5
    <3> QED BY <3>1, <1>2, <1>7, <1>14 DEF Replica
  <2>3. flash'[OtherStart] = Blank
    <3>1. Cell(flash', OtherHalf, 0) = Cell(flash, OtherHalf, 0) /\ OtherStart + 0 = OtherStart
      BY <1>3, <1>5, <1>14
    <3> QED BY <3>1, <1>2, <1>3 DEF Cell
  <2>4. BlankFrom(flash', OtherStart + 1 + (i + 1), copied[2])
    <3> SUFFICES ASSUME NEW a \in Addresses, OtherStart + 1 + (i + 1) <= a, a < copied[2]
                 PROVE  flash'[a] = Blank
      BY DEF BlankFrom
    <3>1. OtherStart + 1 + i <= a /\ a # OtherStart + k
      BY <1>3, <1>5, <1>11, Geometry
    <3>2. flash'[a] = flash[a]
      BY <3>1, <1>3, <1>10 DEF PutsAt, Puts
    <3> QED BY <3>1, <3>2, <1>2 DEF BlankFrom
  <2>5. Starts(flash', OtherHalf, i + 1) = OtherStart + DataEnd(S, i + 1, 0)
    BY <1>3, <1>6, <1>9, <1>14
  <2>6. \A n \in 0 .. i + 1 : Starts(flash', OtherHalf, n) = OtherStart + DataEnd(S, n, 0)
    BY <2>1, <2>5, <1>2, <1>14
  <2>7. copied' = <<OtherStart' + 1 + i', Starts(flash', OtherHalf', i')
                                             - (IF pc' = "copyHeader" THEN S ELSE 0)>>
    <3>1. copied[2] = Starts(flash', OtherHalf, i + 1) - 0
      BY <2>5, <1>3, <1>6, <1>9
    <3> QED BY <3>1, <1>1, <1>17, <1>18
  <2>8. BlankFrom(flash', OtherStart' + 1 + i', copied'[2])
    BY <2>4, <1>1, <1>17, <1>18
  <2>9. i + 1 \in 0 .. lastFile
    BY <1>5
  <2> QED BY <2>2, <2>3, <2>6, <2>7, <2>8, <2>9, <1>1, <1>16, <1>17 DEF CopyGood
<1>20. TypeOK'
  <2>1. i + 1 \in -2 .. HALF_SIZE
    BY <1>5, <1>12, Geometry
  <2> QED BY <2>1, <1>1, <1>14 DEF TypeOK, Flashes
<1> QED BY <1>1, <1>19, <1>20 DEF FilesInv, Phases

\* Copies of the table's files are headers.
LEMMA ReplicaGood ==
  ASSUME TypeOK, Current, NEW fl \in Flashes, NEW h \in BothHalves, NEW l, l = lastFile,
         Replica(fl, h, files, l),
         \A n \in 0 .. l : Starts(fl, h, n) = HalfStart(h) + DataEnd(S, n, 0),
         BlankFrom(fl, HalfStart(h) + l + 1, HalfStart(h) + DataEnd(S, l, 0))
  PROVE  HalfGood(fl, h, l)
<1>1. DataEnd(S, l, 0) > l + 1 /\ l \in 0 .. HALF_SIZE - 2 /\ DataEnd(S, l, 0) \in Int
  <2>1. lastFile \in 0 .. lastFile
    BY DEF TypeOK
  <2>2. DataEnd(S, l, 0) > l + 1 /\ l \in 0 .. HALF_SIZE - 2
    BY <2>1, CopyFits
  <2> QED BY <2>2, DataEnds
<1>2. \A n \in 0 .. l : Chained(fl, h, n)
  <2> TAKE n \in 0 .. l
  <2>1. 0 \in 0 .. Phantoms(n)
    <3>1. n \in Nat
      BY <1>1
    <3> QED BY <3>1, PhantomCount
  <2> QED BY <2>1 DEF Chained
<1>3. ASSUME NEW n \in 1 .. l PROVE IsHeader(fl, h, n)
  <2>1. Cell(fl, h, n) = [valid |-> USED, name |-> files[n - 1].name, length |-> S]
    BY DEF Replica
  <2>2. n - 1 \in 0 .. lastFile - 1
    BY <1>1
  <2>3. files[n - 1].name \in Names
    BY <2>2, EntryFacts
  <2>4. Cell(fl, h, n).valid = USED /\ Blank.valid = UNUSED
    BY <2>1, StatusIs
  <2> QED BY <2>1, <2>3, <2>4 DEF IsHeader, USED, UNUSED
<1>4. Space(fl, h, l, l)
  <2>1. Starts(fl, h, l) = HalfStart(h) + DataEnd(S, l, 0) /\ HalfStart(h) \in Nat
    <3>1. l \in 0 .. l
      BY <1>1
    <3> QED BY <3>1, Halves
  <2>2. Starts(fl, h, l) > HalfStart(h) + l + 1
    BY <2>1, <1>1
  <2>3. l # l - 1 /\ l >= 0
    BY <1>1
  <2> QED BY <2>1, <2>2, <2>3 DEF Space
<1> QED BY <1>1, <1>2, <1>3, <1>4, Geometry DEF HalfGood, HeadersGood

LEMMA TableNames ==
  ASSUME TypeOK, Current
  PROVE  \A j, k \in 0 .. lastFile - 1 : files[j].name = files[k].name => j = k
<1> DEFINE U == UsedIn(flash, half, M)
<1>1. Entries(flash, files, lastFile, half, U) /\ OneOfEach(flash, half, U) /\ M \in Nat
  BY DEF Current, Table, HalfGood
<1>2. U \subseteq Nat
  BY <1>1, UsedAre
<1> HIDE DEF U
<1> QED BY <1>1, <1>2, NamesDistinct

LEMMA ValidateNextStep ==
  ASSUME FilesInv, ValidateNext
  PROVE  FilesInv'
<1>1. /\ TypeOK /\ CopyGood /\ pc = "copyData" /\ pc' = "unvalidate" /\ i = lastFile /\ i' = 0
      /\ flash' = Written(HalfStart(OtherHalf), <<Valid(USED)>>)
      /\ UNCHANGED <<files, lastFile, next, end, half, request, index, previous, after>>
  BY DEF FilesInv, Phases, ValidateNext, Step, call, table, changeHalfStatus
<1>2. /\ Moving
      /\ copied = <<OtherStart + 1 + i, Starts(flash, OtherHalf, i) - 0>>
      /\ Replica(flash, OtherHalf, files, i)
      /\ \A n \in 0 .. i : Starts(flash, OtherHalf, n) = OtherStart + DataEnd(S, n, 0)
      /\ flash[OtherStart] = Blank /\ BlankFrom(flash, OtherStart + 1 + i, copied[2])
  BY <1>1 DEF CopyGood
<1>3. /\ half \in BothHalves /\ OtherHalf \in BothHalves /\ OtherHalf = 1 - half /\ half = 1 - OtherHalf
      /\ flash \in Flashes /\ OtherStart = HalfStart(OtherHalf) /\ OtherStart \in Nat
      /\ OtherStart + HALF_SIZE < FlashSize
  BY <1>1, OtherIs
<1>4. Current /\ InUse(flash, half) /\ Writes
  BY <1>2, SettledIs DEF Moving
<1>5. lastFile \in Nat /\ DataEnd(S, lastFile, 0) \in Int
  BY <1>1, DataEnds DEF TypeOK
<1>6. HalfGood(flash, OtherHalf, lastFile)
  <2>1. copied[2] = OtherStart + DataEnd(S, lastFile, 0)
    <3>1. lastFile \in 0 .. lastFile
      BY <1>5
    <3> QED BY <3>1, <1>1, <1>2, <1>3, <1>5
  <2>2. OtherStart + 1 + lastFile = OtherStart + lastFile + 1
    BY <1>3, <1>5
  <2>3. BlankFrom(flash, HalfStart(OtherHalf) + lastFile + 1, HalfStart(OtherHalf) + DataEnd(S, lastFile, 0))
    BY <2>1, <2>2, <1>1, <1>2, <1>3
  <2>4. /\ Replica(flash, OtherHalf, files, lastFile)
        /\ \A n \in 0 .. lastFile : Starts(flash, OtherHalf, n) = HalfStart(OtherHalf) + DataEnd(S, n, 0)
    BY <1>1, <1>2, <1>3
  <2> QED BY <2>3, <2>4, <1>1, <1>3, <1>4, ReplicaGood
<1>7. PutsAt(flash, flash', OtherHalf, 0, Valid(USED))
  <2>1. OtherStart \in Addresses /\ OtherStart + 0 = OtherStart
    BY <1>3, Geometry
  <2>2. Puts(flash, flash', OtherStart, Valid(USED))
    BY <2>1, <1>1, <1>2, <1>3, StatusWritten
  <2> QED BY <2>1, <2>2, <1>3 DEF PutsAt
<1>8. /\ flash' \in Flashes /\ Cell(flash', OtherHalf, 0) = Valid(USED)
      /\ \A n \in 0 .. HALF_SIZE - 1 : n # 0 => Cell(flash', OtherHalf, n) = Cell(flash, OtherHalf, n)
      /\ \A n \in 0 .. HALF_SIZE - 1 : Cell(flash', half, n) = Cell(flash, half, n)
  <2>1. 0 \in 0 .. HALF_SIZE - 1
    BY Geometry
  <2>2. /\ flash' \in Flashes /\ Cell(flash', OtherHalf, 0) = Valid(USED)
        /\ \A n \in 0 .. HALF_SIZE - 1 : n # 0 => Cell(flash', OtherHalf, n) = Cell(flash, OtherHalf, n)
        /\ \A n \in 0 .. HALF_SIZE - 1 : Cell(flash', 1 - OtherHalf, n) = Cell(flash, 1 - OtherHalf, n)
    BY <2>1, <1>3, <1>7, PutInHalf
  <2> QED BY <2>2, <1>3
<1>9. Current'
  <2>1. \A n \in 1 .. HALF_SIZE - 1 : n \in 0 .. HALF_SIZE - 1
    BY Geometry
  <2> QED BY <2>1, <1>1, <1>4, <1>8, CurrentKept
<1>10. OtherHalf' = OtherHalf /\ OtherStart' = OtherStart
  BY <1>1 DEF OtherStart, OtherHalf
<1>11. OtherGood'
  <2>1. \A n \in 1 .. HALF_SIZE - 1 : Cell(flash', OtherHalf, n) = Cell(flash, OtherHalf, n)
    <3>1. \A n \in 1 .. HALF_SIZE - 1 : n \in 0 .. HALF_SIZE - 1 /\ n # 0
      BY Geometry
    <3> QED BY <3>1, <1>8
  <2>2. /\ HalfGood(flash', OtherHalf, lastFile)
        /\ \A n \in 1 .. lastFile : Cell(flash', OtherHalf, n) = Cell(flash, OtherHalf, n)
    BY <2>1, <1>3, <1>6, <1>8, HalfSame
  <2>3. Replica(flash', OtherHalf, files, lastFile)
    BY <2>2, <1>1, <1>2 DEF Replica
  <2>4. flash'[OtherStart].valid = USED
    <3>1. OtherStart + 0 = OtherStart /\ USED \in 0 .. 3
      BY <1>3 DEF USED
    <3>2. Valid(USED).valid = USED
      BY <3>1, StatusIs
    <3> QED BY <3>1, <3>2, <1>3, <1>8 DEF Cell
  <2>5. \A j, k \in 0 .. lastFile - 1 : files[j].name = files[k].name => j = k
    BY <1>1, <1>4, TableNames
  <2> QED BY <2>2, <2>3, <2>4, <2>5, <1>1, <1>10 DEF OtherGood
<1>12. flash'[HalfStart(half)].valid = USED
  <2>1. Cell(flash', half, 0) = Cell(flash, half, 0) /\ HalfStart(half) + 0 = HalfStart(half)
    BY <1>3, <1>8, Halves, Geometry
  <2> QED BY <2>1, <1>4 DEF Cell, InUse
<1>13. Writes'
  BY <1>1, <1>4, WritesSame
<1>14. UnvalidateGood'
  BY <1>1, <1>9, <1>11, <1>12, <1>13 DEF UnvalidateGood, Current
<1>15. TypeOK'
  <2>1. 0 \in -2 .. HALF_SIZE
    BY Geometry
  <2> QED BY <2>1, <1>1, <1>8 DEF TypeOK, Flashes
<1> QED BY <1>1, <1>14, <1>15 DEF FilesInv, Phases

\* The files of the table lie above the headers, and apart.
LEMMA TableApart ==
  ASSUME TypeOK, HalfGood(flash, half, M),
         NEW U, U \subseteq UsedIn(flash, half, M), Table(flash, files, lastFile, half, U)
  PROVE  Apart(files, lastFile, next, HalfStart(half) + HALF_SIZE)
<1>1. half \in BothHalves /\ flash \in Flashes /\ HalfStart(half) \in Nat /\ M \in 0 .. HALF_SIZE - 1
  BY HalfIs, Halves DEF HalfGood
<1>2. next = HalfStart(half) + M + 1
  <2>1. next \in Int
    BY Geometry DEF TypeOK
  <2> QED BY <2>1, <1>1 DEF M
<1>3. ASSUME NEW k \in 0 .. lastFile - 1
      PROVE  \E n \in U :
               /\ n \in 0 .. HALF_SIZE - 1 /\ files[k].header = HalfStart(half) + n
               /\ files[k].length = Cell(flash, half, n).length
               /\ files[k].start = Starts(flash, half, n) /\ Starts(flash, half, n) \in Int
               /\ Starts(flash, half, n) > next
               /\ Starts(flash, half, n) + Cell(flash, half, n).length <= HalfStart(half) + HALF_SIZE
  <2>1. PICK n \in U : EntryOf(flash, files[k], half, n)
    BY TableForm, Zenon
  <2>2. n \in UsedIn(flash, half, M) /\ n \in 1 .. M
    BY UsedAre
  <2>3. n \in 0 .. HALF_SIZE - 1 /\ 0 \in 0 .. HALF_SIZE - 1 /\ 0 < n
    BY <1>1, <2>2, Geometry
  <2>4. Starts(flash, half, n) > next
    BY <2>2, <1>1, <1>2, HalfFacts
  <2>5. Starts(flash, half, n) + Cell(flash, half, n).length <= Starts(flash, half, 0)
    BY <2>3, <1>1, StartsDescend
  <2>6. Starts(flash, half, 0) = HalfStart(half) + HALF_SIZE /\ Starts(flash, half, n) \in Int
    BY <2>3, <1>1, StartRule
  <2> QED BY <2>1, <2>3, <2>4, <2>5, <2>6 DEF EntryOf
<1>4. ASSUME NEW k \in 0 .. lastFile - 1
      PROVE  files[k].start > next /\ files[k].start + files[k].length <= HalfStart(half) + HALF_SIZE
  BY <1>3
<1>5. ASSUME NEW j \in 0 .. lastFile - 1, NEW k \in 0 .. lastFile - 1, j # k
      PROVE  \/ files[j].start + files[j].length <= files[k].start
             \/ files[k].start + files[k].length <= files[j].start
  <2>1. PICK n \in U : /\ n \in 0 .. HALF_SIZE - 1 /\ files[j].header = HalfStart(half) + n
                       /\ files[j].length = Cell(flash, half, n).length
                       /\ files[j].start = Starts(flash, half, n)
    BY <1>3
  <2>2. PICK o \in U : /\ o \in 0 .. HALF_SIZE - 1 /\ files[k].header = HalfStart(half) + o
                       /\ files[k].length = Cell(flash, half, o).length
                       /\ files[k].start = Starts(flash, half, o)
    BY <1>3
  <2>3. n # o
    <3>1. Entries(flash, files, lastFile, half, U)
      BY DEF Table
    <3>2. files[j].header # files[k].header
      BY <3>1, <1>5, Zenon DEF Entries
    <3> QED BY <3>2, <2>1, <2>2
  <2>4. n < o \/ o < n
    BY <2>1, <2>2, <2>3
  <2>5. \/ Starts(flash, half, o) + Cell(flash, half, o).length <= Starts(flash, half, n)
        \/ Starts(flash, half, n) + Cell(flash, half, n).length <= Starts(flash, half, o)
    BY <2>1, <2>2, <2>4, <1>1, StartsDescend
  <2> QED BY <2>1, <2>2, <2>5
<1> QED BY <1>4, <1>5, Zenon DEF Apart

LEMMA UnvalidateCurrentStep ==
  ASSUME FilesInv, UnvalidateCurrent
  PROVE  FilesInv'
<1> DEFINE U == UsedIn(flash, half, M)
<1>1. /\ TypeOK /\ UnvalidateGood /\ pc' = "eraseCurrent"
      /\ flash' = Written(HalfStart(half), <<Valid(DELETED)>>)
      /\ UNCHANGED <<files, lastFile, next, end, half, request, index, previous, after, i>>
  BY DEF FilesInv, Phases, UnvalidateCurrent, Step, call, table, changeHalfStatus
<1>2. Current /\ Writes /\ OtherGood /\ i = 0
  BY <1>1 DEF UnvalidateGood, Current
<1>3. /\ half \in BothHalves /\ OtherHalf \in BothHalves /\ OtherHalf = 1 - half /\ half = 1 - OtherHalf
      /\ flash \in Flashes /\ OtherStart = HalfStart(OtherHalf) /\ OtherStart \in Nat
      /\ HalfStart(half) \in Nat /\ HalfStart(half) + HALF_SIZE < FlashSize
  BY <1>1, OtherIs
<1>4. /\ HalfGood(flash, half, M) /\ M \in 0 .. HALF_SIZE - 2 /\ Cell(flash, half, M + 1) = Blank
      /\ NoMore /\ Table(flash, files, lastFile, half, U) /\ next = HalfStart(half) + M + 1
      /\ next \in Int
  <2>1. HalfGood(flash, half, M) /\ NoMore /\ Table(flash, files, lastFile, half, U)
    BY <1>2 DEF Current
  <2>2. M \in 0 .. HALF_SIZE - 2 /\ Cell(flash, half, M + 1) = Blank
    BY <2>1, <1>3, HalfFacts
  <2>3. next \in Int
    BY <1>1, Geometry DEF TypeOK
  <2> QED BY <2>1, <2>2, <2>3, <1>3 DEF M
<1>5. MarksAt(flash, flash', half, 0, DELETED)
  <2>1. HalfStart(half) \in Addresses /\ HalfStart(half) + 0 = HalfStart(half)
    BY <1>3, Geometry
  <2>2. Marks(flash, flash', HalfStart(half), DELETED)
    BY <2>1, <1>1, <1>3, StatusWritten
  <2> QED BY <2>1, <2>2 DEF MarksAt
<1>6. /\ flash' \in Flashes
      /\ \A n \in 0 .. HALF_SIZE - 1 : n # 0 => Cell(flash', half, n) = Cell(flash, half, n)
      /\ \A n \in 0 .. HALF_SIZE - 1 : Cell(flash', OtherHalf, n) = Cell(flash, OtherHalf, n)
  <2>1. 0 \in 0 .. HALF_SIZE - 1
    BY Geometry
  <2>2. ASSUME NEW c, PutsAt(flash, flash', half, 0, c)
        PROVE  /\ flash' \in Flashes
               /\ \A n \in 0 .. HALF_SIZE - 1 : n # 0 => Cell(flash', half, n) = Cell(flash, half, n)
               /\ \A n \in 0 .. HALF_SIZE - 1 : Cell(flash', 1 - half, n) = Cell(flash, 1 - half, n)
    BY <2>1, <2>2, <1>3, PutInHalf
  <2>3. PutsAt(flash, flash', half, 0, flash'[HalfStart(half) + 0])
    BY <1>5, MarkIsPut, Zenon
  <2>4. /\ flash' \in Flashes
        /\ \A n \in 0 .. HALF_SIZE - 1 : n # 0 => Cell(flash', half, n) = Cell(flash, half, n)
        /\ \A n \in 0 .. HALF_SIZE - 1 : Cell(flash', 1 - half, n) = Cell(flash, 1 - half, n)
    BY <2>2, <2>3, Zenon
  <2> QED BY <2>4, <1>3
<1>7. flash'[HalfStart(half)].valid # USED
  <2>1. HalfStart(half) + 0 = HalfStart(half)
    BY <1>3
  <2> QED BY <2>1, <1>5 DEF MarksAt, Marks, USED, DELETED
<1>8. OtherHalf' = OtherHalf /\ OtherStart' = OtherStart /\ M' = M
  BY <1>1 DEF OtherStart, OtherHalf, M
<1>9. OtherGood'
  <2>1. \A n \in 1 .. HALF_SIZE - 1 : Cell(flash', OtherHalf, n) = Cell(flash, OtherHalf, n)
    <3>1. \A n \in 1 .. HALF_SIZE - 1 : n \in 0 .. HALF_SIZE - 1
      BY Geometry
    <3> QED BY <3>1, <1>6
  <2>2. HalfGood(flash, OtherHalf, lastFile)
    BY <1>2 DEF OtherGood
  <2>3. /\ HalfGood(flash', OtherHalf, lastFile)
        /\ \A n \in 1 .. lastFile : Cell(flash', OtherHalf, n) = Cell(flash, OtherHalf, n)
    BY <2>1, <2>2, <1>3, <1>6, HalfSame
  <2>4. Replica(flash', OtherHalf, files, lastFile)
    BY <2>3, <1>2 DEF OtherGood, Replica
  <2>5. flash'[OtherStart].valid = USED
    <3>1. OtherStart + 0 = OtherStart /\ Cell(flash', OtherHalf, 0) = Cell(flash, OtherHalf, 0)
      BY <1>3, <1>6, Geometry
    <3> QED BY <3>1, <1>2, <1>3 DEF Cell, OtherGood
  <2> QED BY <2>3, <2>4, <2>5, <1>1, <1>2, <1>8 DEF OtherGood
<1>10. Apart(files, lastFile, next, HalfStart(half) + HALF_SIZE)
  <2>1. U \subseteq UsedIn(flash, half, M)
    OBVIOUS
  <2> HIDE DEF U
  <2> QED BY <2>1, <1>1, <1>4, TableApart
<1>11. flash'[next] = Blank
  <2>1. M + 1 \in 0 .. HALF_SIZE - 1 /\ M + 1 # 0 /\ HalfStart(half) + (M + 1) = next
    BY <1>3, <1>4, Geometry
  <2> QED BY <2>1, <1>4, <1>6 DEF Cell
<1>12. EraseCurrentGood'
  <2>1. NoMore' /\ Writes'
    BY <1>1, <1>2, <1>4, WritesSame DEF NoMore
  <2>2. 0 \in 0 .. BlocksPerHalf - 1
    BY GeometryAssumption
  <2> QED BY <2>1, <2>2, <1>1, <1>2, <1>4, <1>7, <1>8, <1>9, <1>10, <1>11 DEF EraseCurrentGood
<1>13. TypeOK'
  BY <1>1, <1>6 DEF TypeOK, Flashes
<1> QED BY <1>1, <1>12, <1>13 DEF FilesInv, Phases

LEMMA EraseCurrentStep ==
  ASSUME FilesInv, EraseCurrent
  PROVE  FilesInv'
<1> DEFINE x == i * BlockSize
           y == (i + 1) * BlockSize
<1>1. /\ TypeOK /\ EraseCurrentGood
      /\ pc' = (IF i + 1 = BlocksPerHalf THEN "restore" ELSE "eraseCurrent")
      /\ flash' = Erased(half * BlocksPerHalf + i)
      /\ UNCHANGED <<files, request, index, previous>>
      /\ i + 1 # BlocksPerHalf => i' = i + 1 /\ UNCHANGED <<lastFile, next, end, half, after>>
      /\ i + 1 = BlocksPerHalf =>
           /\ half' = OtherHalf /\ lastFile' = 0 /\ i' = 0 /\ after' = "roomAgain"
           /\ next' = OtherStart + 1 /\ end' = OtherStart + HALF_SIZE
  BY DEF FilesInv, Phases, EraseCurrent, EraseHalf, Step, call, table, EnterRestore, SetHalf, OtherStart
<1>2. /\ flash[HalfStart(half)].valid # USED /\ NoMore /\ Writes /\ OtherGood
      /\ i \in 0 .. BlocksPerHalf - 1
      /\ Apart(files, lastFile, next, HalfStart(half) + HALF_SIZE)
      /\ flash[next] = Blank /\ M \in 0 .. HALF_SIZE - 2
  BY <1>1 DEF EraseCurrentGood
<1>3. /\ half \in BothHalves /\ OtherHalf \in BothHalves /\ OtherHalf = 1 - half /\ half = 1 - OtherHalf
      /\ flash \in Flashes /\ OtherStart = HalfStart(OtherHalf) /\ OtherStart \in Nat
      /\ HalfStart(half) \in Nat /\ OtherStart + HALF_SIZE < FlashSize
      /\ HalfStart(half) + HALF_SIZE < FlashSize
      /\ \/ HalfStart(half) = OtherStart + HALF_SIZE
         \/ OtherStart = HalfStart(half) + HALF_SIZE
  BY <1>1, OtherIs
<1>4. /\ flash' \in Flashes
      /\ \A a \in Addresses : HalfStart(half) + x <= a /\ a < HalfStart(half) + y => flash'[a] = Blank
      /\ \A a \in Addresses : ~(HalfStart(half) + x <= a /\ a < HalfStart(half) + y) => flash'[a] = flash[a]
      /\ 0 <= x /\ y <= HALF_SIZE /\ x \in Nat /\ y = x + BlockSize
  BY <1>1, <1>2, <1>3, BlockErased
<1> HIDE DEF x, y
<1>5. y \in Nat /\ Blank.valid # USED
  BY <1>4, GeometryAssumption, StatusIs DEF UNUSED, USED
<1>6. \A n \in 0 .. HALF_SIZE - 1 : Cell(flash', OtherHalf, n) = Cell(flash, OtherHalf, n)
  <2> TAKE n \in 0 .. HALF_SIZE - 1
  <2>1. OtherStart + n \in Addresses
    BY <1>3, CellsAre
  <2>2. ~(HalfStart(half) + x <= OtherStart + n /\ OtherStart + n < HalfStart(half) + y)
    <3>1. \A b, c, u, v, l, o \in Int : /\ 0 <= u /\ v <= l /\ 0 <= o /\ o < l
                                        /\ b = c + l \/ c = b + l
                                        => ~(c + u <= b + o /\ b + o < c + v)
      BY SMT
    <3>2. /\ HalfStart(half) \in Int /\ OtherStart \in Int /\ x \in Int /\ y \in Int
          /\ HALF_SIZE \in Int /\ n \in Int /\ 0 <= n /\ n < HALF_SIZE
      BY <1>3, <1>4, <1>5, Geometry
    <3>3. /\ 0 <= x /\ y <= HALF_SIZE
          /\ OtherStart = HalfStart(half) + HALF_SIZE \/ HalfStart(half) = OtherStart + HALF_SIZE
      BY <1>3, <1>4
    <3> QED BY <3>1, <3>2, <3>3, Zenon
  <2> QED BY <2>1, <2>2, <1>3, <1>4 DEF Cell
<1>7. flash'[HalfStart(half)].valid # USED
  <2>1. HalfStart(half) \in Addresses
    BY <1>3, Geometry
  <2>2. flash'[HalfStart(half)] = Blank \/ flash'[HalfStart(half)] = flash[HalfStart(half)]
    BY <2>1, <1>4
  <2> QED BY <2>2, <1>2, <1>5
<1>8. \E m : m = lastFile
  OBVIOUS
<1>9. PICK m : m = lastFile
  BY <1>8
<1>10. /\ HalfGood(flash', OtherHalf, m) /\ Replica(flash', OtherHalf, files, m)
       /\ flash'[OtherStart].valid = USED
       /\ \A j, k \in 0 .. m - 1 : files[j].name = files[k].name => j = k
  <2>1. \A n \in 1 .. HALF_SIZE - 1 : Cell(flash', OtherHalf, n) = Cell(flash, OtherHalf, n)
    <3>1. \A n \in 1 .. HALF_SIZE - 1 : n \in 0 .. HALF_SIZE - 1
      BY Geometry
    <3> QED BY <3>1, <1>6
  <2>2. HalfGood(flash, OtherHalf, m)
    BY <1>2, <1>9 DEF OtherGood
  <2>3. /\ HalfGood(flash', OtherHalf, m)
        /\ \A n \in 1 .. m : Cell(flash', OtherHalf, n) = Cell(flash, OtherHalf, n)
    BY <2>1, <2>2, <1>3, <1>4, HalfSame
  <2>4. Replica(flash', OtherHalf, files, m)
    BY <2>3, <1>2, <1>9 DEF OtherGood, Replica
  <2>5. flash'[OtherStart].valid = USED
    <3>1. OtherStart + 0 = OtherStart /\ Cell(flash', OtherHalf, 0) = Cell(flash, OtherHalf, 0)
      BY <1>3, <1>6, Geometry
    <3> QED BY <3>1, <1>2, <1>3 DEF Cell, OtherGood
  <2> QED BY <2>3, <2>4, <2>5, <1>2, <1>9 DEF OtherGood
<1>11. m \in 0 .. HALF_SIZE - 1 /\ m \in Nat
  BY <1>2, <1>9, Geometry DEF NoMore
<1>12. CASE i + 1 # BlocksPerHalf
  <2>1. OtherHalf' = OtherHalf /\ OtherStart' = OtherStart /\ M' = M
    BY <1>1, <1>12 DEF OtherStart, OtherHalf, M
  <2>2. flash'[next] = Blank
    <3>1. next \in Addresses
      <4>1. next \in Int /\ HalfStart(half) \in Int /\ HALF_SIZE \in Int /\ FlashSize \in Int
        BY <1>1, <1>3, Geometry DEF TypeOK
      <4>2. next = HalfStart(half) + M + 1
        BY <4>1 DEF M
      <4>3. M \in 0 .. HALF_SIZE - 2 /\ HalfStart(half) >= 0 /\ HalfStart(half) + HALF_SIZE < FlashSize
        BY <1>2, <1>3
      <4> QED BY <4>1, <4>2, <4>3, Geometry
    <3> QED BY <3>1, <1>2, <1>4
  <2>3. OtherGood'
    BY <2>1, <1>1, <1>9, <1>10, <1>12 DEF OtherGood
  <2>4. NoMore' /\ Writes'
    BY <1>1, <1>2, <1>12, WritesSame DEF NoMore
  <2>5. i' \in 0 .. BlocksPerHalf - 1
    BY <1>1, <1>2, <1>12, GeometryAssumption
  <2>6. EraseCurrentGood'
    BY <2>1, <2>2, <2>3, <2>4, <2>5, <1>1, <1>2, <1>7, <1>12 DEF EraseCurrentGood
  <2>7. TypeOK'
    <3>1. i' \in -2 .. HALF_SIZE
      <4>1. BlocksPerHalf <= HALF_SIZE
        <5>1. \A b, c \in Nat : c > 0 => b <= b * c
          BY SMT
        <5> QED BY <5>1, GeometryAssumption DEF HALF_SIZE
      <4> QED BY <4>1, <2>5, Geometry, GeometryAssumption
    <3> QED BY <3>1, <1>1, <1>4, <1>12 DEF TypeOK, Flashes
  <2> QED BY <2>6, <2>7, <1>1, <1>12 DEF FilesInv, Phases
<1>13. CASE i + 1 = BlocksPerHalf
  <2>1. /\ half' = OtherHalf /\ lastFile' = 0 /\ i' = 0 /\ after' = "roomAgain" /\ pc' = "restore"
        /\ next' = OtherStart + 1 /\ end' = OtherStart + HALF_SIZE
    BY <1>1, <1>13
  <2>2. M' = 0
    BY <2>1, <1>3 DEF M
  <2>3. InUse(flash', OtherHalf)
    <3>1. OtherHalf = 1 => HalfStart(half) = 0
      BY <1>3, Halves DEF BothHalves
    <3> QED BY <3>1, <1>3, <1>7, <1>10 DEF InUse, SECOND_HALF
  <2>4. OneOfEach(flash', OtherHalf, UsedIn(flash', OtherHalf, m))
    <3> SUFFICES ASSUME NEW n \in 1 .. m, NEW k \in 1 .. m,
                        Cell(flash', OtherHalf, n).name = Cell(flash', OtherHalf, k).name
                 PROVE  n = k
      BY DEF OneOfEach, UsedIn
    <3>1. n - 1 \in 0 .. m - 1 /\ k - 1 \in 0 .. m - 1
      BY <1>11
    <3>2. files[n - 1].name = files[k - 1].name
      BY <1>10 DEF Replica
    <3>3. n - 1 = k - 1
      BY <3>1, <3>2, <1>10
    <3> QED BY <3>3, <1>11
  <2>5. Starts(flash', OtherHalf, 0) = OtherStart + HALF_SIZE
    BY <1>3, <1>4, StartRule
  <2>6. UsedIn(flash', OtherHalf, 0) = {} /\ 0 .. 0 - 1 = {}
    BY DEF UsedIn
  <2>7. Table(flash', files, 0, OtherHalf, UsedIn(flash', OtherHalf, 0))
    BY <2>6, Geometry DEF Table, Entries, Extents
  <2>8. Rebuilt(m)'
    <3>1. \A n \in 1 .. m : Cell(flash', OtherHalf, n).valid = USED
      BY <1>10 DEF Replica
    <3>2. files[m].valid # USED
      BY <1>2, <1>9 DEF NoMore
    <3>3. Requested' /\ request'.op = "write" /\ Found' = Found
      BY <1>1, <1>2 DEF Writes, Requested, Found
    <3>4. Found => index \in 0 .. m - 1 /\ Cell(flash', OtherHalf, index + 1).name = request.name
      <4> SUFFICES ASSUME Found PROVE index \in 0 .. m - 1 /\ Cell(flash', OtherHalf, index + 1).name = request.name
        OBVIOUS
      <4>1. index \in 0 .. m - 1 /\ files[index].name = request.name
        BY <1>2, <1>9 DEF Writes, FileFound
      <4>2. index + 1 \in 1 .. m /\ (index + 1) - 1 = index
        BY <4>1, <1>11
      <4> QED BY <4>1, <4>2, <1>10 DEF Replica
    <3>5. ~Found => \A n \in 1 .. m : Cell(flash', OtherHalf, n).name # request.name
      <4> SUFFICES ASSUME ~Found, NEW n \in 1 .. m PROVE Cell(flash', OtherHalf, n).name # request.name
        OBVIOUS
      <4>1. n - 1 \in 0 .. m - 1
        BY <1>11
      <4>2. files[n - 1].name # request.name
        BY <4>1, <1>2, <1>9 DEF Writes, NewName
      <4> QED BY <4>2, <1>10 DEF Replica
    <3>6. m \in {m, m - 1} /\ m \in 0 .. HALF_SIZE /\ m # m - 1 /\ ~(0 > m) /\ 0 .. 0 - 1 = {}
      BY <1>11, Geometry
    <3> QED BY <3>1, <3>2, <3>3, <3>4, <3>5, <3>6, <2>1, <2>2, <1>1 DEF Rebuilt
  <2>9. Restoring(m)'
    <3>1. 0 \in 0 .. m /\ end' = Starts(flash', OtherHalf, 0)
      BY <2>1, <2>5, <1>11
    <3> QED BY <3>1, <2>1, <2>2, <2>4, <2>7, <2>8, <1>1, <1>10 DEF Restoring
  <2>10. m \in 0 .. HALF_SIZE
    BY <1>11, Geometry
  <2>11. RestoreGood'
    BY <2>1, <2>3, <2>9, <2>10 DEF RestoreGood
  <2>12. TypeOK'
    <3>1. next' \in 0 .. 2 * HALF_SIZE /\ end' \in 0 .. 2 * HALF_SIZE
      <4>1. OtherStart + HALF_SIZE <= 2 * HALF_SIZE
        BY <1>3, Halves
      <4> QED BY <4>1, <2>1, <1>3, Geometry, SMTT(30)
    <3>2. half' \in {FIRST_HALF, SECOND_HALF}
      BY <2>1, <1>3 DEF BothHalves, FIRST_HALF, SECOND_HALF
    <3>3. lastFile' \in 0 .. HALF_SIZE /\ i' \in -2 .. HALF_SIZE
      BY <2>1, Geometry
    <3> QED BY <3>1, <3>2, <3>3, <2>1, <1>1, <1>4 DEF TypeOK, Flashes
  <2> QED BY <2>1, <2>11, <2>12 DEF FilesInv, Phases
<1> QED BY <1>12, <1>13
-----------------------------------------------------------------------------
(***************************************************************************)
(* fs_init and restoreFileSystem.                                          *)
(***************************************************************************)
LEMMA InitErasesStep ==
  ASSUME FilesInv, InitErases
  PROVE  FilesInv'
<1>1. /\ TypeOK /\ NoneUsed /\ pc' = "format" /\ flash' = [a \in Addresses |-> Blank]
      /\ UNCHANGED <<files, lastFile, next, end, half, index, previous, i, after>>
  BY DEF FilesInv, Phases, OffGood, InitErases, Step, table, call
<1>2. TypeOK' /\ NoneUsed'
  BY <1>1, StatusIs DEF TypeOK, NoneUsed
<1> QED BY <1>1, <1>2 DEF FilesInv, Phases, FormatGood

\* A half that holds nothing.
LEMMA EmptyHalf ==
  ASSUME NEW fl \in Flashes, NEW h \in BothHalves,
         BlankFrom(fl, HalfStart(h) + 1, HalfStart(h) + HALF_SIZE)
  PROVE  HalfGood(fl, h, 0) /\ UsedIn(fl, h, 0) = {} /\ Starts(fl, h, 0) = HalfStart(h) + HALF_SIZE
<1> USE Geometry
<1>1. Starts(fl, h, 0) = HalfStart(h) + HALF_SIZE /\ HalfStart(h) \in Nat
  BY StartRule, Halves
<1>2. Chained(fl, h, 0)
  <2>1. 0 \in 0 .. Phantoms(0) /\ DataEnd(S, 0, 0) = HALF_SIZE
    BY PhantomCount, DataEnds
  <2> QED BY <2>1, <1>1 DEF Chained
<1>3. HeadersGood(fl, h, 0)
  <2>1. \A n \in 0 .. 0 : n = 0
    OBVIOUS
  <2>2. 1 .. 0 = {}
    OBVIOUS
  <2> QED BY <2>1, <2>2, <1>2 DEF HeadersGood
<1>4. Space(fl, h, 0, 0)
  <2>1. HalfStart(h) + HALF_SIZE > HalfStart(h) + 0 + 1 /\ HalfStart(h) + 0 + 1 = HalfStart(h) + 1
    BY <1>1
  <2>2. 0 \in {0, 0 - 1} /\ 0 >= 0 /\ 0 # 0 - 1
    OBVIOUS
  <2> QED BY <2>1, <2>2, <1>1 DEF Space
<1> QED BY <1>1, <1>3, <1>4 DEF HalfGood, UsedIn

\* A table that holds nothing.
LEMMA EmptyTable == \A fl, tb, h : Table(fl, tb, 0, h, {}) /\ OneOfEach(fl, h, {})
<1>1. 0 .. 0 - 1 = {} /\ 0 \in 0 .. HALF_SIZE - 1
  BY Geometry
<1> QED BY <1>1 DEF Table, Entries, Extents, OneOfEach

LEMMA InitFormatsStep ==
  ASSUME FilesInv, InitFormats
  PROVE  FilesInv'
<1>1. /\ TypeOK /\ FormatGood /\ pc' = "idle" /\ flash' = Written(HalfStart(0), <<Valid(USED)>>)
      /\ half' = 0 /\ lastFile' = 0 /\ next' = HalfStart(0) + 1 /\ end' = HalfStart(0) + HALF_SIZE
      /\ files' = [files EXCEPT ![0].valid = UNUSED, ![0].length = 0]
      /\ UNCHANGED <<index, previous, i, after>>
  BY DEF FilesInv, Phases, InitFormats, Step, call, SetHalf, changeHalfStatus, FIRST_HALF
<1>2. 0 \in BothHalves /\ HalfStart(0) = 0 /\ 0 \in Addresses /\ 0 \in 0 .. HALF_SIZE
  BY Halves, Geometry
<1>3. flash \in Flashes /\ flash[0] = Blank
  BY <1>1, <1>2, HalfIs DEF FormatGood
<1>4. Puts(flash, flash', 0, Valid(USED))
  BY <1>1, <1>2, <1>3, StatusWritten
<1>5. /\ flash' \in Flashes /\ flash'[0].valid = USED
      /\ \A a \in Addresses : a # 0 => flash'[a] = Blank
  <2>1. USED \in 0 .. 3
    BY DEF USED
  <2> QED BY <2>1, <1>1, <1>4, StatusIs DEF Puts, FormatGood
<1>6. BlankFrom(flash', HalfStart(0) + 1, HalfStart(0) + HALF_SIZE)
  BY <1>2, <1>5, Geometry DEF BlankFrom
<1>7. /\ HalfGood(flash', 0, 0) /\ UsedIn(flash', 0, 0) = {}
      /\ Starts(flash', 0, 0) = HalfStart(0) + HALF_SIZE
  BY <1>2, <1>5, <1>6, EmptyHalf
<1>8. M' = 0
  BY <1>1, <1>2 DEF M
<1>9. files'[0].valid = UNUSED
  BY <1>1, <1>2 DEF TypeOK
<1>10. NoMore'
  <2>1. UNUSED # USED /\ 0 \in 0 .. HALF_SIZE - 1
    BY Geometry DEF UNUSED, USED
  <2> QED BY <2>1, <1>1, <1>9 DEF NoMore
<1>11. InUse(flash', 0)
  BY <1>2, <1>5 DEF InUse, SECOND_HALF
<1>12. Settled'
  BY <1>1, <1>7, <1>8, <1>10, <1>11, EmptyTable DEF Settled
<1>13. TypeOK'
  <2>1. next' \in 0 .. 2 * HALF_SIZE /\ end' \in 0 .. 2 * HALF_SIZE
    BY <1>1, <1>2, Geometry
  <2>2. UNUSED \in 0 .. 3 /\ 0 \in 0 .. FieldSize - 1
    BY Geometry DEF UNUSED
  <2>3. files' \in [0 .. HALF_SIZE -> [valid : 0 .. 3, name : Fields,
                     length : 0 .. FieldSize - 1, header : Addresses, start : Addresses]]
    <3> DEFINE E == [valid : 0 .. 3, name : Fields,
                     length : 0 .. FieldSize - 1, header : Addresses, start : Addresses]
               e == [files[0] EXCEPT !.valid = UNUSED, !.length = 0]
    <3>1. files \in [0 .. HALF_SIZE -> E]
      BY <1>1 DEF TypeOK
    <3>2. e \in E
      <4>1. files[0] \in E
        BY <3>1, <1>2
      <4> DEFINE u == [files[0] EXCEPT !.valid = UNUSED]
      <4>2. u \in E
        BY <4>1, <2>2
      <4>3. e = [u EXCEPT !.length = 0]
        OBVIOUS
      <4> HIDE DEF u, e
      <4> QED BY <4>2, <4>3, <2>2
    <3>3. files' = [files EXCEPT ![0] = e]
      BY <1>1, <3>1, <1>2
    <3> HIDE DEF E, e
    <3>4. files' \in [0 .. HALF_SIZE -> E]
      BY <3>1, <3>2, <3>3, <1>2
    <3> QED BY <3>4 DEF E
  <2>4. half' \in {FIRST_HALF, SECOND_HALF}
    BY <1>1 DEF FIRST_HALF
  <2> QED BY <2>1, <2>3, <2>4, <1>1, <1>2, <1>5 DEF TypeOK, Flashes
<1> QED BY <1>1, <1>12, <1>13 DEF FilesInv, Phases

LEMMA InitFromHalfStep ==
  ASSUME FilesInv, InitFromHalf
  PROVE  FilesInv'
<1>1. /\ TypeOK /\ OffGood /\ pc' = "restore" /\ UNCHANGED <<flash, files, index, previous>>
  BY DEF FilesInv, Phases, InitFromHalf, Step, call, EnterRestore
<1>2. PICK h \in BothHalves :
        /\ InUse(flash, h) /\ Stored(flash, h)
        /\ half' = h /\ lastFile' = 0 /\ i' = 0 /\ after' = "idle"
        /\ next' = HalfStart(h) + 1 /\ end' = HalfStart(h) + HALF_SIZE
  <2>1. CASE flash[0].valid = USED /\ EnterRestore(FIRST_HALF, "idle")
    <3>1. InUse(flash, 0) /\ Stored(flash, 0)
      BY <1>1, <2>1, Halves DEF InUse, OffGood, FlashKept, FIRST_HALF, SECOND_HALF
    <3> QED BY <2>1, <3>1, Halves DEF EnterRestore, SetHalf, FIRST_HALF
  <2>2. CASE /\ flash[0].valid # USED /\ flash[HALF_SIZE].valid = USED
             /\ EnterRestore(SECOND_HALF, "idle")
    <3>1. InUse(flash, 1) /\ Stored(flash, 1)
      BY <1>1, <2>2, Halves DEF InUse, OffGood, FlashKept, SECOND_HALF
    <3> QED BY <2>2, <3>1, Halves DEF EnterRestore, SetHalf, SECOND_HALF
  <2> QED BY <2>1, <2>2 DEF InitFromHalf
<1>3. PICK m \in 0 .. HALF_SIZE - 1 : HalfGood(flash, h, m) /\ OneOfEach(flash, h, UsedIn(flash, h, m))
  BY <1>2 DEF Stored
<1>4. HalfStart(h) \in Nat /\ HalfStart(h) + HALF_SIZE <= 2 * HALF_SIZE /\ flash \in Flashes
  BY <1>1, HalfIs, Halves
<1>5. M' = 0 /\ end' = Starts(flash, h, 0)
  BY <1>2, <1>4, StartRule DEF M
<1>6. UsedIn(flash, h, 0) = {}
  BY DEF UsedIn
<1>7. Restoring(m)'
  <2>1. 0 \in 0 .. m
    BY <1>3
  <2>2. \A k \in 0 .. HALF_SIZE : files[k].valid # USED
    BY <1>1 DEF OffGood, NoneUsed
  <2> QED BY <2>1, <2>2, <1>1, <1>2, <1>3, <1>5, <1>6, EmptyTable DEF Restoring
<1>8. RestoreGood'
  <2>1. m \in 0 .. HALF_SIZE
    BY <1>3, Geometry
  <2> QED BY <2>1, <1>1, <1>2, <1>7 DEF RestoreGood
<1>9. TypeOK'
  <2>1. next' \in 0 .. 2 * HALF_SIZE /\ end' \in 0 .. 2 * HALF_SIZE
    BY <1>2, <1>4, Geometry
  <2>2. half' \in {FIRST_HALF, SECOND_HALF} /\ 0 \in 0 .. HALF_SIZE /\ 0 \in -2 .. HALF_SIZE
    BY <1>2, Geometry DEF BothHalves, FIRST_HALF, SECOND_HALF
  <2> QED BY <2>1, <2>2, <1>1, <1>2 DEF TypeOK
<1> QED BY <1>1, <1>8, <1>9 DEF FilesInv, Phases

\* The place in the batch.
LEMMA BatchCount ==
  ASSUME NEW n \in Nat
  PROVE  LET k == IF n = 0 THEN 0 ELSE ((n - 1) % BatchSize) + 1 IN
         /\ k \in Nat /\ k <= n
         /\ k = BatchSize => BatchFull(n)
         /\ k = BatchSize => (n % BatchSize) + 1 = 1
         /\ k # BatchSize => (n % BatchSize) + 1 = k + 1
<1> USE Geometry
<1>1. CASE n = 0
  <2>1. 0 % BatchSize = 0
    BY SmallMod
  <2> QED BY <2>1, <1>1
<1>2. CASE n # 0
  <2>1. \A x, b \in Nat : x > 0 /\ b > 1 =>
          /\ (x - 1) % b \in Nat /\ (x - 1) % b <= x - 1
          /\ (x - 1) % b = b - 1 => x % b = 0
          /\ (x - 1) % b # b - 1 => x % b = ((x - 1) % b) + 1
    BY SMT
  <2>2. /\ (n - 1) % BatchSize \in Nat /\ (n - 1) % BatchSize <= n - 1
        /\ (n - 1) % BatchSize = BatchSize - 1 => n % BatchSize = 0
        /\ (n - 1) % BatchSize # BatchSize - 1 => n % BatchSize = ((n - 1) % BatchSize) + 1
    <3>1. n > 0 /\ n \in Nat /\ BatchSize \in Nat /\ BatchSize > 1
      BY <1>2
    <3> QED BY <3>1, <2>1, Zenon
  <2> DEFINE r == (n - 1) % BatchSize
             s == n % BatchSize
  <2>3. /\ r \in Nat /\ r <= n - 1 /\ (r = BatchSize - 1 => s = 0) /\ (r # BatchSize - 1 => s = r + 1)
    BY <2>2
  <2>4. BatchFull(n) <=> s = 0
    BY <1>2 DEF BatchFull
  <2> HIDE DEF r, s
  <2>5. /\ r + 1 \in Nat /\ r + 1 <= n
        /\ r + 1 = BatchSize => BatchFull(n)
        /\ r + 1 = BatchSize => s + 1 = 1
        /\ r + 1 # BatchSize => s + 1 = (r + 1) + 1
    BY <2>3, <2>4
  <2> QED BY <2>5, <1>2 DEF r, s
<1> QED BY <1>1, <1>2

\* What is known of the headers read, and of the next one.
LEMMA RestoringFacts ==
  ASSUME TypeOK, InUse(flash, half), NEW m, Restoring(m)
  PROVE  /\ half \in BothHalves /\ flash \in Flashes /\ HalfStart(half) \in Nat
         /\ HalfGood(flash, half, m) /\ OneOfEach(flash, half, UsedIn(flash, half, m))
         /\ m \in 0 .. HALF_SIZE - 2 /\ M \in 0 .. m /\ next = HalfStart(half) + (M + 1)
         /\ M + 1 \in 1 .. HALF_SIZE - 1 /\ next + 1 < FlashSize /\ next \in Addresses
         /\ next + 1 <= 2 * HALF_SIZE
         /\ flash[next] = Cell(flash, half, M + 1)
         /\ end = Starts(flash, half, M)
         /\ Table(flash, files, lastFile, half, UsedIn(flash, half, M))
         /\ lastFile <= M /\ lastFile \in 0 .. HALF_SIZE - 1
         /\ flash[next] = Blank <=> M = m
<1> USE Geometry
<1>1. half \in BothHalves /\ flash \in Flashes
  BY HalfIs
<1>2. /\ HalfGood(flash, half, m) /\ OneOfEach(flash, half, UsedIn(flash, half, m))
      /\ M \in 0 .. m /\ end = Starts(flash, half, M)
      /\ Table(flash, files, lastFile, half, UsedIn(flash, half, M))
  BY DEF Restoring
<1>3. m \in 0 .. HALF_SIZE - 2 /\ Cell(flash, half, m + 1) = Blank
  BY <1>1, <1>2, HalfFacts
<1>4. HalfStart(half) \in Nat /\ HalfStart(half) + HALF_SIZE < FlashSize
      /\ HalfStart(half) + HALF_SIZE <= 2 * HALF_SIZE
  BY <1>1, Halves
<1>5. next = HalfStart(half) + (M + 1)
  <2>1. next \in Int
    BY DEF TypeOK
  <2> QED BY <2>1, <1>4 DEF M
<1>6. M + 1 \in 1 .. HALF_SIZE - 1 /\ next + 1 < FlashSize /\ next \in Addresses /\ next + 1 <= 2 * HALF_SIZE
  BY <1>2, <1>3, <1>4, <1>5
<1>7. flash[next] = Cell(flash, half, M + 1)
  BY <1>5 DEF Cell
<1>8. flash[next] = Blank <=> M = m
  <2>1. CASE M = m
    BY <2>1, <1>3, <1>7
  <2>2. CASE M # m
    <3>1. M + 1 \in 1 .. m
      BY <2>2, <1>2, <1>3
    <3>2. IsHeader(flash, half, M + 1)
      BY <3>1, <1>2 DEF HalfGood, HeadersGood
    <3> QED BY <3>2, <2>2, <1>7 DEF IsHeader
  <2> QED BY <2>1, <2>2
<1>9. lastFile <= M /\ lastFile \in 0 .. HALF_SIZE - 1
  <2> DEFINE x == M
             U == UsedIn(flash, half, M)
  <2>1. /\ x \in Nat /\ U \subseteq 1 .. x /\ lastFile \in Nat /\ lastFile \in 0 .. HALF_SIZE - 1
        /\ Entries(flash, files, lastFile, half, U)
    BY <1>2, UsedAre DEF Table
  <2> HIDE DEF x, U
  <2>2. lastFile <= x
    BY <2>1, <1>1, TableBound
  <2> QED BY <2>1, <2>2 DEF x
<1> QED BY <1>1, <1>2, <1>3, <1>4, <1>5, <1>6, <1>7, <1>8, <1>9

\* After changehalf the table is what it was, in the order of the headers.
LEMMA RebuiltEntries ==
  ASSUME TypeOK, InUse(flash, half), NEW m, Restoring(m), Rebuilt(m)
  PROVE  \A k \in 0 .. lastFile - 1 : files[k].name = Cell(flash, half, k + 1).name
<1> SUFFICES ASSUME NEW k \in 0 .. lastFile - 1
             PROVE  files[k].name = Cell(flash, half, k + 1).name
  OBVIOUS
<1>1. Table(flash, files, lastFile, half, UsedIn(flash, half, M)) /\ HalfStart(half) \in Nat
      /\ lastFile \in Nat
  BY RestoringFacts
<1>2. PICK n \in UsedIn(flash, half, M) : EntryOf(flash, files[k], half, n)
  BY <1>1, TableForm, Zenon
<1>3. n \in Int
  <2>1. n \in 1 .. M
    BY UsedAre
  <2> QED BY <2>1
<1>4. files[k].header = HalfStart(half) + k + 1
  BY DEF Rebuilt
<1>5. files[k].header = HalfStart(half) + n /\ files[k].name = Cell(flash, half, n).name
  BY <1>2 DEF EntryOf
<1>6. n = k + 1
  BY <1>1, <1>3, <1>4, <1>5
<1> QED BY <1>5, <1>6

LEMMA RestoreDoneStep ==
  ASSUME FilesInv, ~BeyondIsBlank, RestoreDone
  PROVE  FilesInv'
<1>1. /\ TypeOK /\ RestoreGood /\ pc' = after /\ i' = 0 /\ after' = "idle" /\ LastHeader
      /\ UNCHANGED <<flash, files, lastFile, next, end, half, request, index, previous>>
  BY DEF FilesInv, Phases, RestoreDone, Step, table, call
<1>2. PICK m \in 0 .. HALF_SIZE : Restoring(m)
  BY <1>1 DEF RestoreGood
<1>3. InUse(flash, half)
  BY <1>1 DEF RestoreGood
<1>4. /\ m \in 0 .. HALF_SIZE - 2 /\ M \in 0 .. m /\ (flash[next] = Blank <=> M = m)
      /\ HalfGood(flash, half, m) /\ OneOfEach(flash, half, UsedIn(flash, half, m))
      /\ end = Starts(flash, half, M) /\ Table(flash, files, lastFile, half, UsedIn(flash, half, M))
      /\ lastFile \in 0 .. HALF_SIZE - 1
  BY <1>1, <1>2, <1>3, RestoringFacts
<1>5. M = m
  BY <1>1, <1>4 DEF LastHeader, BatchOver
<1>6. TypeOK'
  <2>1. 0 \in -2 .. HALF_SIZE
    BY Geometry
  <2> QED BY <2>1, <1>1 DEF TypeOK
<1>7. CASE after = "idle"
  <2>1. NoMore
    <3>1. lastFile \in lastFile .. HALF_SIZE
      BY <1>4, Geometry
    <3> QED BY <3>1, <1>2, <1>4, <1>7 DEF Restoring, NoMore
  <2>2. Settled
    BY <2>1, <1>3, <1>4, <1>5 DEF Settled
  <2>3. Settled'
    BY <2>2, <1>1, SettledSame
  <2> QED BY <2>3, <1>1, <1>6, <1>7 DEF FilesInv, Phases
<1>8. CASE after = "roomAgain"
  <2>1. Rebuilt(m)
    BY <1>2, <1>8 DEF Restoring
  <2>2. \A k \in 0 .. lastFile - 1 : files[k].name = Cell(flash, half, k + 1).name
    BY <2>1, <1>1, <1>2, <1>3, RebuiltEntries
  <2>3. PICK l \in {m, m - 1} :
          /\ l \in 0 .. HALF_SIZE
          /\ lastFile = (IF M > l THEN l ELSE M)
          /\ files[l].valid # USED
          /\ Requested /\ request.op = "write"
          /\ Found => index \in 0 .. l - 1 /\ Cell(flash, half, index + 1).name = request.name
          /\ ~Found => \A n \in 1 .. l : Cell(flash, half, n).name # request.name
    BY <2>1 DEF Rebuilt
  <2>4. lastFile = l
    BY <2>3, <1>4, <1>5
  <2>5. NoMore
    BY <2>3, <2>4, <1>4 DEF NoMore
  <2>6. Found => FileFound
    BY <2>2, <2>3, <2>4 DEF FileFound
  <2>7. ~Found => NewName
    <3> SUFFICES ASSUME ~Found, NEW k \in 0 .. lastFile - 1 PROVE files[k].name # request.name
      BY DEF NewName
    <3>1. k + 1 \in 1 .. l
      BY <2>4, <1>4
    <3> QED BY <3>1, <2>2, <2>3
  <2>8. Settled /\ Writes
    BY <2>3, <2>5, <2>6, <2>7, <1>3, <1>4, <1>5 DEF Settled, Writes
  <2>9. Settled' /\ Writes'
    BY <2>8, <1>1, SettledSame, WritesSame
  <2>10. RoomGood'
    BY <2>9, <1>1 DEF RoomGood
  <2> QED BY <2>10, <1>1, <1>6, <1>8 DEF FilesInv, Phases
<1> QED BY <1>1, <1>7, <1>8 DEF TypeOK

\* What the flash is when the header q, the next to be read, was.
HeaderPassed(gl, m, q) ==
  /\ gl \in Flashes /\ InUse(gl, half) /\ HalfGood(gl, half, m)
  /\ \A n \in 0 .. m : Starts(gl, half, n) = Starts(flash, half, n)
  /\ NamesKept(flash, gl, half, m)
  /\ UsedIn(gl, half, m) = UsedIn(flash, half, m)
  /\ \A n \in 1 .. m : n # q => Cell(gl, half, n) = Cell(flash, half, n)
  /\ Cell(gl, half, q).valid = USED <=> Cell(flash, half, q).valid = USED
  /\ IsPhantom(flash, half, m) => gl = flash \/ m # q

LEMMA NextPassed ==
  ASSUME TypeOK, InUse(flash, half), NEW m, HalfGood(flash, half, m), NEW q \in 1 .. m,
         NEW gl, gl = IF Cell(flash, half, q).valid = UNUSED
                        THEN Written(HalfStart(half) + q, <<Valid(DELETED)>>) ELSE flash
  PROVE  HeaderPassed(gl, m, q)
<1>1. half \in BothHalves /\ flash \in Flashes
  BY HalfIs
<1>2. m \in 0 .. HALF_SIZE - 1 /\ q \in 0 .. HALF_SIZE - 1
  BY Geometry DEF HalfGood
<1>3. CASE Cell(flash, half, q).valid # UNUSED
  BY <1>1, <1>3 DEF HeaderPassed, NamesKept
<1>4. CASE Cell(flash, half, q).valid = UNUSED
  <2>1. MarksAt(flash, gl, half, q, DELETED)
    <3>1. HalfStart(half) + q \in Addresses
      BY <1>1, <1>2, CellsAre
    <3>2. Marks(flash, Written(HalfStart(half) + q, <<Valid(DELETED)>>), HalfStart(half) + q, DELETED)
      BY <3>1, <1>1, StatusWritten
    <3> QED BY <3>2, <1>4 DEF MarksAt
  <2>2. /\ gl \in Flashes /\ HalfGood(gl, half, m) /\ InUse(gl, half)
        /\ \A n \in 0 .. m : Starts(gl, half, n) = Starts(flash, half, n)
        /\ NamesKept(flash, gl, half, m) /\ UsedIn(gl, half, m) = UsedIn(flash, half, m) \ {q}
    BY <2>1, <1>1, HeaderDeleted
  <2>3. \A n \in 1 .. m : n # q => Cell(gl, half, n) = Cell(flash, half, n)
    <3>1. Marked(flash, gl, half, m, q, DELETED)
      <4>1. DELETED # USED
        BY DEF DELETED, USED
      <4> QED BY <4>1, <2>1, <1>1, HeaderMarked
    <3> QED BY <3>1 DEF Marked
  <2>4. q \notin UsedIn(flash, half, m)
    BY <1>4 DEF UsedIn, USED, UNUSED
  <2>5. Cell(gl, half, q).valid # USED
    BY <2>1 DEF MarksAt, Marks, Cell, DELETED, USED
  <2>6. IsPhantom(flash, half, m) => m # q
    BY <1>4 DEF IsPhantom, DELETED, UNUSED
  <2> QED BY <2>2, <2>3, <2>4, <2>5, <2>6, <1>4 DEF HeaderPassed, USED, UNUSED
<1> QED BY <1>3, <1>4

\* The USED headers up to one more.
LEMMA UsedUpto ==
  ASSUME NEW fl, NEW gl, NEW h, NEW n \in Nat, NEW q, q = n + 1,
         \A k \in 1 .. n : Cell(gl, h, k).valid = Cell(fl, h, k).valid
  PROVE  /\ Cell(gl, h, q).valid = USED => UsedIn(gl, h, q) = UsedIn(fl, h, n) \cup {q}
         /\ Cell(gl, h, q).valid # USED => UsedIn(gl, h, q) = UsedIn(fl, h, n)
<1>1. \A k \in 1 .. q : k = q \/ k \in 1 .. n
  OBVIOUS
<1>2. q \in 1 .. q /\ \A k \in 1 .. n : k \in 1 .. q
  OBVIOUS
<1> QED BY <1>1, <1>2 DEF UsedIn

RestoreHeaderFacts(m) ==
  /\ TypeOK /\ pc' = "restore" /\ ~LastHeader /\ InUse(flash, half) /\ Restoring(m)
  /\ flash' = IF flash[next].valid = UNUSED THEN Written(next, <<Valid(DELETED)>>) ELSE flash
  /\ IF flash[next].valid = USED
       THEN /\ files' = [files EXCEPT ![lastFile] =
                 [valid |-> USED, name |-> flash[next].name, length |-> flash[next].length,
                  header |-> next, start |-> (end - flash[next].length) % FlashSize]]
            /\ lastFile' = lastFile + 1
       ELSE UNCHANGED <<files, lastFile>>
  /\ next' = (next + 1) % FlashSize /\ end' = (end - flash[next].length) % FlashSize
  /\ half' = half /\ i' = (IF BatchOver THEN 1 ELSE i + 1)
  /\ UNCHANGED <<request, index, previous, after>>

\* Its entry becomes that of the table's end.
LEMMA HeaderRead ==
  ASSUME NEW m, RestoreHeaderFacts(m), M # m
  PROVE  RestoreGood' /\ lastFile' \in 0 .. HALF_SIZE - 1
         /\ end' \in 0 .. 2 * HALF_SIZE /\ flash' \in Flashes
         /\ files' \in [0 .. HALF_SIZE -> [valid : 0 .. 3, name : Fields,
                          length : 0 .. FieldSize - 1, header : Addresses, start : Addresses]]
<1> DEFINE q == M + 1
           U == UsedIn(flash, half, M)
           E == [valid : 0 .. 3, name : Fields,
                 length : 0 .. FieldSize - 1, header : Addresses, start : Addresses]
<1>1. TypeOK /\ InUse(flash, half) /\ Restoring(m) /\ half' = half
  BY DEF RestoreHeaderFacts
<1>2. /\ half \in BothHalves /\ flash \in Flashes /\ HalfStart(half) \in Nat
      /\ HalfGood(flash, half, m) /\ OneOfEach(flash, half, UsedIn(flash, half, m))
      /\ m \in 0 .. HALF_SIZE - 2 /\ M \in 0 .. m /\ next = HalfStart(half) + q
      /\ q \in 1 .. HALF_SIZE - 1 /\ next + 1 < FlashSize /\ next \in Addresses
      /\ flash[next] = Cell(flash, half, q) /\ end = Starts(flash, half, M)
      /\ Table(flash, files, lastFile, half, U)
      /\ lastFile <= M /\ lastFile \in 0 .. HALF_SIZE - 1
  BY <1>1, RestoringFacts
<1>3. q \in 1 .. m /\ q \in 0 .. m /\ m \in 0 .. HALF_SIZE - 1 /\ M \in Nat /\ q = M + 1
  BY <1>2, Geometry
<1>4. next' = next + 1 /\ M' = q
  <2>1. next + 1 \in Int /\ 0 <= next + 1 /\ FlashSize \in Int
    BY <1>2, Geometry
  <2>2. next' = next + 1
    BY <2>1, <1>2, SmallMod DEF RestoreHeaderFacts
  <2> QED BY <2>1, <2>2, <1>1, <1>2 DEF M
<1>5. HeaderPassed(flash', m, q)
  <2>1. flash' = IF Cell(flash, half, q).valid = UNUSED
                   THEN Written(HalfStart(half) + q, <<Valid(DELETED)>>) ELSE flash
    BY <1>2 DEF RestoreHeaderFacts
  <2> QED BY <2>1, <1>1, <1>2, <1>3, NextPassed
<1>6. /\ flash' \in Flashes /\ InUse(flash', half) /\ HalfGood(flash', half, m)
      /\ \A n \in 0 .. m : Starts(flash', half, n) = Starts(flash, half, n)
      /\ NamesKept(flash, flash', half, m)
      /\ UsedIn(flash', half, m) = UsedIn(flash, half, m)
      /\ \A n \in 1 .. m : n # q => Cell(flash', half, n) = Cell(flash, half, n)
      /\ Cell(flash', half, q).valid = USED <=> Cell(flash, half, q).valid = USED
      /\ IsPhantom(flash, half, m) => flash' = flash \/ m # q
  BY <1>5 DEF HeaderPassed
<1>7. OneOfEach(flash', half, UsedIn(flash', half, m))
  <2>1. UsedIn(flash, half, m) \subseteq 1 .. m
    BY UsedAre
  <2> QED BY <2>1, <1>2, <1>6, OneOfEachKept
<1>8. /\ end - flash[next].length = Starts(flash, half, q) /\ Starts(flash, half, q) \in Addresses
      /\ Starts(flash, half, q) \in 0 .. 2 * HALF_SIZE /\ end' = Starts(flash, half, q)
  <2>1. Starts(flash, half, q) = Starts(flash, half, q - 1) - Cell(flash, half, q).length
    BY <1>2, StartRule
  <2>2. q - 1 = M
    BY <1>3
  <2>3. Starts(flash, half, q) \in HalfStart(half) + S .. HalfStart(half) + HALF_SIZE
    BY <1>2, <1>3, HalfFacts
  <2>4. S \in Nat /\ HalfStart(half) + HALF_SIZE < FlashSize /\ HalfStart(half) + HALF_SIZE <= 2 * HALF_SIZE
    BY <1>2, SizeFits, Halves
  <2>5. Starts(flash, half, q) \in Addresses /\ Starts(flash, half, q) \in 0 .. 2 * HALF_SIZE
    BY <2>3, <2>4, <1>2, Geometry, SMTT(30)
  <2>6. end - flash[next].length = Starts(flash, half, q)
    BY <2>1, <2>2, <1>2
  <2>7. Starts(flash, half, q) % FlashSize = Starts(flash, half, q)
    BY <2>5, SmallMod, Geometry
  <2> QED BY <2>5, <2>6, <2>7 DEF RestoreHeaderFacts
<1>9. i' = (IF M' = 0 THEN 0 ELSE ((M' - 1) % BatchSize) + 1)
  <2>1. M' # 0 /\ M' - 1 = M
    BY <1>3, <1>4
  <2> DEFINE k == IF M = 0 THEN 0 ELSE ((M - 1) % BatchSize) + 1
  <2>2. i = k
    BY <1>1 DEF Restoring
  <2>3. k = BatchSize => (M % BatchSize) + 1 = 1
    BY <1>3, BatchCount
  <2>4. k # BatchSize => (M % BatchSize) + 1 = k + 1
    BY <1>3, BatchCount
  <2> HIDE DEF k
  <2>5. i' = (M % BatchSize) + 1
    BY <2>2, <2>3, <2>4 DEF RestoreHeaderFacts, BatchOver
  <2> QED BY <2>1, <2>5
<1>10. /\ Cell(flash, half, q).valid = USED => UsedIn(flash', half, q) = U \cup {q}
       /\ Cell(flash, half, q).valid # USED => UsedIn(flash', half, q) = U
  <2>1. \A k \in 1 .. M : Cell(flash', half, k).valid = Cell(flash, half, k).valid
    <3>1. \A k \in 1 .. M : k \in 1 .. m /\ k # q
      BY <1>2, <1>3
    <3> QED BY <3>1, <1>6
  <2>2. /\ Cell(flash', half, q).valid = USED => UsedIn(flash', half, q) = UsedIn(flash, half, M) \cup {q}
        /\ Cell(flash', half, q).valid # USED => UsedIn(flash', half, q) = UsedIn(flash, half, M)
    BY <2>1, <1>3, UsedUpto
  <2> QED BY <2>2, <1>6
<1>11. U \subseteq 1 .. M /\ U \subseteq 1 .. m /\ q \notin U
  <2>1. U \subseteq 1 .. M
    BY UsedAre
  <2> HIDE DEF U
  <2> QED BY <2>1, <1>2, <1>3
<1>12. files \in [0 .. HALF_SIZE -> E]
  BY <1>1 DEF TypeOK
<1>13. /\ Table(flash', files', lastFile', half, UsedIn(flash', half, q))
       /\ lastFile' \in 0 .. HALF_SIZE - 1 /\ files' \in [0 .. HALF_SIZE -> E]
       /\ Cell(flash, half, q).valid = USED =>
            /\ lastFile' = lastFile + 1 /\ files'[lastFile].header = next
            /\ \A k \in 0 .. HALF_SIZE : k # lastFile => files'[k] = files[k]
       /\ Cell(flash, half, q).valid # USED => UNCHANGED <<files, lastFile>>
  <2>1. CASE Cell(flash, half, q).valid = USED
    <3> DEFINE e == [valid |-> USED, name |-> flash[next].name, length |-> flash[next].length,
                     header |-> next, start |-> Starts(flash, half, q)]
    <3>1. files' = [files EXCEPT ![lastFile] = e] /\ lastFile' = lastFile + 1 /\ flash' = flash
      <4>1. end' = (end - flash[next].length) % FlashSize
        BY DEF RestoreHeaderFacts
      <4>2. (end - flash[next].length) % FlashSize = Starts(flash, half, q)
        BY <4>1, <1>8
      <4> QED BY <4>2, <2>1, <1>2 DEF RestoreHeaderFacts, USED, UNUSED
    <3>2. EntryOf(flash, e, half, q)
      BY <1>2 DEF EntryOf
    <3>3. e \in E
      <4>1. USED \in 0 .. 3
        BY DEF USED
      <4>2. flash[next].name \in Fields /\ flash[next].length \in 0 .. FieldSize - 1
        BY <1>2 DEF Flashes, Headers
      <4> QED BY <4>1, <4>2, <1>2, <1>8
    <3>4. e.header = next
      OBVIOUS
    <3> HIDE DEF e, E, U, q
    <3>5. lastFile \in 0 .. HALF_SIZE /\ lastFile + 1 \in 0 .. HALF_SIZE - 1
      BY <1>2, <1>3, Geometry
    <3>6. files'[lastFile] = e /\ \A k \in 0 .. HALF_SIZE : k # lastFile => files'[k] = files[k]
      BY <3>1, <3>5, <1>12
    <3>7. \A k \in 0 .. lastFile - 1 : files'[k] = files[k]
      <4>1. \A k \in 0 .. lastFile - 1 : k \in 0 .. HALF_SIZE /\ k # lastFile
        BY <3>5, Geometry
      <4> QED BY <4>1, <3>6
    <3>8. Table(flash, files', lastFile + 1, half, U \cup {q})
      <4>1. EntryOf(flash, files'[lastFile], half, q)
        BY <3>2, <3>6
      <4> QED BY <4>1, <3>5, <3>7, <1>2, <1>3, <1>11, TableAdded
    <3>9. Table(flash', files', lastFile', half, UsedIn(flash', half, q))
      BY <3>1, <3>8, <2>1, <1>10
    <3>10. files' \in [0 .. HALF_SIZE -> E]
      BY <3>1, <3>3, <1>12
    <3> QED BY <3>1, <3>4, <3>5, <3>6, <3>9, <3>10, <2>1
  <2>2. CASE Cell(flash, half, q).valid # USED
    <3>1. files' = files /\ lastFile' = lastFile
      BY <2>2, <1>2 DEF RestoreHeaderFacts
    <3>2. Table(flash', files', lastFile, half, U)
      <4> HIDE DEF U
      <4>1. \A k \in 0 .. lastFile - 1 : files'[k] = files[k]
        BY <3>1
      <4> QED BY <4>1, <1>2, <1>3, <1>6, <1>11, TableSame
    <3> QED BY <3>1, <3>2, <2>2, <1>2, <1>10, <1>12
  <2> QED BY <2>1, <2>2
<1>14. ASSUME after' = "idle" PROVE \A k \in lastFile' .. HALF_SIZE : files'[k].valid # USED
  <2>1. \A k \in lastFile .. HALF_SIZE : files[k].valid # USED
    BY <1>1, <1>14 DEF Restoring, RestoreHeaderFacts
  <2>2. CASE Cell(flash, half, q).valid = USED
    <3>1. \A k \in lastFile' .. HALF_SIZE : k \in 0 .. HALF_SIZE /\ k \in lastFile .. HALF_SIZE /\ k # lastFile
      BY <2>2, <1>2, <1>13
    <3> QED BY <3>1, <2>1, <2>2, <1>13
  <2>3. CASE Cell(flash, half, q).valid # USED
    BY <2>1, <2>3, <1>13
  <2> QED BY <2>2, <2>3
<1>15. ASSUME after' = "roomAgain" PROVE Rebuilt(m)'
  <2>1. Rebuilt(m)
    BY <1>1, <1>15 DEF Restoring, RestoreHeaderFacts
  <2>2. PICK l \in {m, m - 1} :
          /\ l \in 0 .. HALF_SIZE /\ (l = m - 1 => IsPhantom(flash, half, m))
          /\ \A n \in 1 .. l : Cell(flash, half, n).valid = USED
          /\ lastFile = (IF M > l THEN l ELSE M)
          /\ \A k \in 0 .. lastFile - 1 : files[k].header = HalfStart(half) + k + 1
          /\ files[l].valid # USED
          /\ Requested /\ request.op = "write"
          /\ Found => index \in 0 .. l - 1 /\ Cell(flash, half, index + 1).name = request.name
          /\ ~Found => \A n \in 1 .. l : Cell(flash, half, n).name # request.name
    BY <2>1 DEF Rebuilt
  <2>3. Requested' /\ request'.op = "write" /\ (Found' <=> Found) /\ index' = index /\ request' = request
    BY <2>2 DEF RestoreHeaderFacts, Requested, Found
  <2>4. flash' = flash
    <3>1. Cell(flash, half, q).valid # UNUSED
      <4>1. CASE q \in 1 .. l
        BY <4>1, <2>2 DEF USED, UNUSED
      <4>2. CASE q \notin 1 .. l
        <5>1. l = m - 1 /\ q = m
          BY <4>2, <2>2, <1>3
        <5> QED BY <5>1, <2>2 DEF IsPhantom, UNUSED, DELETED
      <4> QED BY <4>1, <4>2
    <3> QED BY <3>1, <1>2 DEF RestoreHeaderFacts
  <2>5. CASE q \in 1 .. l
    <3>1. M < l /\ lastFile = M /\ ~(q > l)
      BY <2>2, <2>5, <1>3
    <3>2. /\ Cell(flash, half, q).valid = USED /\ lastFile' = q /\ files'[lastFile].header = HalfStart(half) + q
          /\ \A k \in 0 .. HALF_SIZE : k # lastFile => files'[k] = files[k]
      BY <3>1, <2>2, <2>5, <1>2, <1>13
    <3>3. lastFile' = (IF M' > l THEN l ELSE M')
      BY <3>1, <3>2, <1>4
    <3>4. \A k \in 0 .. lastFile' - 1 : files'[k].header = HalfStart(half) + k + 1
      <4> SUFFICES ASSUME NEW k \in 0 .. M PROVE files'[k].header = HalfStart(half) + k + 1
        BY <3>2, <1>3
      <4>1. CASE k = M
        <5>1. HalfStart(half) + M + 1 = HalfStart(half) + q
          BY <1>2
        <5> QED BY <4>1, <5>1, <3>1, <3>2
      <4>2. CASE k # M
        <5>1. k \in 0 .. lastFile - 1 /\ k \in 0 .. HALF_SIZE /\ k # lastFile
          BY <4>2, <3>1, <1>2, <1>3, Geometry
        <5> QED BY <5>1, <3>2, <2>2
      <4> QED BY <4>1, <4>2
    <3>5. files'[l].valid # USED
      BY <3>1, <3>2, <2>2
    <3> QED BY <3>3, <3>4, <3>5, <2>2, <2>3, <2>4, <1>1 DEF Rebuilt
  <2>6. CASE q \notin 1 .. l
    <3>1. l = m - 1 /\ q = m /\ M = l /\ q > l
      BY <2>2, <2>6, <1>3
    <3>2. lastFile = l
      BY <3>1, <2>2
    <3>3. Cell(flash, half, q).valid # USED
      BY <3>1, <2>2 DEF IsPhantom, USED, DELETED
    <3>4. UNCHANGED <<files, lastFile>>
      BY <3>3, <1>13
    <3>5. lastFile' = (IF M' > l THEN l ELSE M')
      BY <3>1, <3>2, <3>4, <1>4
    <3> QED BY <3>4, <3>5, <2>2, <2>3, <2>4, <1>1 DEF Rebuilt
  <2> QED BY <2>5, <2>6
<1>16. Restoring(m)'
  <2>1. end' = Starts(flash', half, q) /\ M' \in 0 .. m
    BY <1>3, <1>4, <1>6, <1>8
  <2> QED BY <2>1, <1>1, <1>4, <1>6, <1>7, <1>9, <1>13, <1>14, <1>15 DEF Restoring
<1>17. RestoreGood'
  <2>1. m \in 0 .. HALF_SIZE
    BY <1>2, Geometry
  <2> QED BY <2>1, <1>1, <1>6, <1>16 DEF RestoreGood
<1> QED BY <1>6, <1>8, <1>13, <1>17

\* Behind a full batch the next place is taken for a header: a phantom.
LEMMA PlaceTaken ==
  ASSUME NEW m, RestoreHeaderFacts(m), M = m, ~BeyondIsBlank
  PROVE  RestoreGood' /\ lastFile' \in 0 .. HALF_SIZE - 1
         /\ end' \in 0 .. 2 * HALF_SIZE /\ flash' \in Flashes /\ files' = files
<1> DEFINE U == UsedIn(flash, half, m)
           k == m + 1
<1>1. TypeOK /\ InUse(flash, half) /\ Restoring(m) /\ half' = half
  BY DEF RestoreHeaderFacts
<1>2. /\ half \in BothHalves /\ flash \in Flashes /\ HalfStart(half) \in Nat
      /\ HalfGood(flash, half, m) /\ OneOfEach(flash, half, U)
      /\ m \in 0 .. HALF_SIZE - 2 /\ next = HalfStart(half) + k
      /\ k \in 1 .. HALF_SIZE - 1 /\ next + 1 < FlashSize /\ next \in Addresses
      /\ end = Starts(flash, half, m) /\ flash[next] = Blank
      /\ Table(flash, files, lastFile, half, U)
      /\ lastFile <= m /\ lastFile \in 0 .. HALF_SIZE - 1
  BY <1>1, RestoringFacts
<1>3. /\ flash[next].valid = UNUSED /\ flash[next].length = F /\ UNUSED # USED
      /\ k = m + 1 /\ m \in Nat /\ k - 1 = m
  BY <1>2, StatusIs DEF UNUSED, USED
<1>4. next' = next + 1 /\ M' = k
  <2>1. next + 1 \in Int /\ 0 <= next + 1 /\ FlashSize \in Int
    BY <1>2, Geometry
  <2>2. next' = next + 1
    BY <2>1, <1>2, SmallMod DEF RestoreHeaderFacts
  <2> QED BY <2>1, <2>2, <1>1, <1>2 DEF M
<1>5. i' = 1 /\ BatchFull(m) /\ ((k - 1) % BatchSize) + 1 = 1
  <2> DEFINE j == IF m = 0 THEN 0 ELSE ((m - 1) % BatchSize) + 1
  <2>1. i = j /\ BatchOver
    BY <1>1, <1>2 DEF Restoring, RestoreHeaderFacts, LastHeader
  <2>2. j = BatchSize => BatchFull(m)
    BY <1>3, BatchCount
  <2>3. j = BatchSize => (m % BatchSize) + 1 = 1
    BY <1>3, BatchCount
  <2> HIDE DEF j
  <2> QED BY <2>1, <2>2, <2>3, <1>3 DEF RestoreHeaderFacts, BatchOver
<1>6. flash' = Written(next, <<Valid(DELETED)>>)
  BY <1>3 DEF RestoreHeaderFacts
<1>7. PutsAt(flash, flash', half, k, Valid(DELETED))
  BY <1>2, <1>6, StatusWritten DEF PutsAt
<1>8. Valid(DELETED).valid = DELETED /\ Valid(DELETED).length = F
  <2>1. DELETED \in 0 .. 3
    BY DEF DELETED
  <2> QED BY <2>1, StatusIs
<1> HIDE DEF k
<1>9. /\ HalfGood(flash', half, k) /\ Starts(flash', half, k) = Starts(flash, half, m) - F
      /\ IsPhantom(flash', half, k)
      /\ \A n \in 0 .. m : Starts(flash', half, n) = Starts(flash, half, n)
      /\ \A n \in 1 .. m : Cell(flash', half, n) = Cell(flash, half, n)
      /\ UsedIn(flash', half, k) = U
  <2>1. ASSUME NEW c, c.valid = DELETED, c.length = F, PutsAt(flash, flash', half, k, c)
        PROVE  /\ HalfGood(flash', half, m + 1) /\ Starts(flash', half, m + 1) = Starts(flash, half, m) - F
               /\ IsPhantom(flash', half, m + 1)
               /\ \A n \in 0 .. m : Starts(flash', half, n) = Starts(flash, half, n)
               /\ \A n \in 1 .. m : Cell(flash', half, n) = Cell(flash, half, n)
               /\ UsedIn(flash', half, m + 1) = UsedIn(flash, half, m)
    <3>1. /\ flash \in Flashes /\ half \in BothHalves /\ m \in 0 .. HALF_SIZE - 2
          /\ HalfGood(flash, half, m) /\ BatchFull(m) /\ k = m + 1
      BY <1>2, <1>3, <1>5
    <3> HIDE DEF U
    <3> QED BY <3>1, <2>1, PhantomAppended
  <2>2. /\ HalfGood(flash', half, m + 1) /\ Starts(flash', half, m + 1) = Starts(flash, half, m) - F
        /\ IsPhantom(flash', half, m + 1)
        /\ \A n \in 0 .. m : Starts(flash', half, n) = Starts(flash, half, n)
        /\ \A n \in 1 .. m : Cell(flash', half, n) = Cell(flash, half, n)
        /\ UsedIn(flash', half, m + 1) = UsedIn(flash, half, m)
    BY <2>1, <1>7, <1>8
  <2> QED BY <2>2, <1>3
<1>10. flash' \in Flashes /\ InUse(flash', half)
  <2>1. flash' \in Flashes
    BY <1>7 DEF PutsAt, Puts
  <2>2. InUse(flash', half)
    BY <1>1, <1>2, <1>7, UseKept
  <2> QED BY <2>1, <2>2
<1>11. U \subseteq 1 .. m /\ m \in 0 .. HALF_SIZE - 1 /\ U \subseteq U
  BY <1>2, UsedAre, Geometry
<1>12. NamesKept(flash, flash', half, m)
  BY <1>9 DEF NamesKept
<1> HIDE DEF U
<1>13. OneOfEach(flash', half, UsedIn(flash', half, k))
  <2>1. OneOfEach(flash', half, U)
    BY <1>2, <1>11, <1>12, OneOfEachKept
  <2> QED BY <2>1, <1>9
<1>14. UNCHANGED <<files, lastFile>>
  BY <1>3 DEF RestoreHeaderFacts
<1>15. Table(flash', files', lastFile', half, UsedIn(flash', half, k))
  <2>1. \A j \in 0 .. lastFile - 1 : files'[j] = files[j]
    BY <1>14
  <2>2. Table(flash', files', lastFile, half, U)
    BY <2>1, <1>2, <1>10, <1>11, <1>12, TableSame
  <2> QED BY <2>2, <1>9, <1>14
<1>16. end' = Starts(flash', half, k) /\ end' \in 0 .. 2 * HALF_SIZE
  <2>1. Starts(flash', half, k) \in HalfStart(half) + S .. HalfStart(half) + HALF_SIZE
    <3>1. k \in 0 .. k
      BY <1>3
    <3> QED BY <3>1, <1>2, <1>9, <1>10, HalfFacts
  <2>2. S \in Nat /\ HalfStart(half) + HALF_SIZE < FlashSize /\ HalfStart(half) + HALF_SIZE <= 2 * HALF_SIZE
    BY <1>2, SizeFits, Halves
  <2>3. Starts(flash', half, k) \in 0 .. 2 * HALF_SIZE /\ Starts(flash', half, k) < FlashSize
    BY <2>1, <2>2, <1>2, Geometry, SMTT(30)
  <2>4. end - flash[next].length = Starts(flash', half, k)
    BY <1>2, <1>3, <1>9
  <2>5. end' = Starts(flash', half, k)
    <3> DEFINE x == Starts(flash', half, k)
    <3>1. x \in Int /\ 0 <= x /\ x < FlashSize /\ FlashSize \in Int
      BY <2>3, Geometry
    <3>2. end' = x % FlashSize
      BY <2>4 DEF RestoreHeaderFacts
    <3> HIDE DEF x
    <3>3. end' = x
      BY <3>1, <3>2, SmallMod
    <3> QED BY <3>3 DEF x
  <2> QED BY <2>3, <2>5
<1>17. ASSUME after' = "idle" PROVE \A j \in lastFile' .. HALF_SIZE : files'[j].valid # USED
  BY <1>1, <1>14, <1>17 DEF Restoring, RestoreHeaderFacts
<1>18. ASSUME after' = "roomAgain" PROVE Rebuilt(k)'
  <2>1. Rebuilt(m)
    BY <1>1, <1>18 DEF Restoring, RestoreHeaderFacts
  <2>2. PICK l \in {m, m - 1} :
          /\ l \in 0 .. HALF_SIZE /\ (l = m - 1 => IsPhantom(flash, half, m))
          /\ \A n \in 1 .. l : Cell(flash, half, n).valid = USED
          /\ lastFile = (IF M > l THEN l ELSE M)
          /\ \A j \in 0 .. lastFile - 1 : files[j].header = HalfStart(half) + j + 1
          /\ files[l].valid # USED
          /\ Requested /\ request.op = "write"
          /\ Found => index \in 0 .. l - 1 /\ Cell(flash, half, index + 1).name = request.name
          /\ ~Found => \A n \in 1 .. l : Cell(flash, half, n).name # request.name
    BY <2>1 DEF Rebuilt
  <2>3. l = m
    <3> SUFFICES ASSUME l = m - 1 PROVE FALSE
      BY <2>2
    <3>1. (m - 1) % BatchSize = 0 /\ m % BatchSize = 0 /\ m > 0
      BY <2>2, <1>5 DEF IsPhantom, BatchFull
    <3>2. \A x, b \in Nat : x > 0 /\ b > 1 /\ x % b = 0 => (x - 1) % b # 0
      BY SMT
    <3>3. BatchSize \in Nat /\ BatchSize > 1
      BY Geometry
    <3> QED BY <3>1, <3>2, <3>3, <1>3, Zenon
  <2>4. lastFile = m
    BY <2>2, <2>3
  <2>5. Requested' /\ request'.op = "write" /\ (Found' <=> Found) /\ index' = index /\ request' = request
    BY <2>2 DEF RestoreHeaderFacts, Requested, Found
  <2>6. \A n \in 1 .. m : Cell(flash', half, n).valid = USED
    BY <2>2, <2>3, <1>9
  <2>7. Found' => index \in 0 .. m - 1 /\ Cell(flash', half, index + 1).name = request.name
    <3> SUFFICES ASSUME Found PROVE index \in 0 .. m - 1 /\ Cell(flash', half, index + 1).name = request.name
      BY <2>5
    <3>1. index \in 0 .. m - 1 /\ Cell(flash, half, index + 1).name = request.name
      BY <2>2, <2>3
    <3>2. index + 1 \in 1 .. m
      BY <3>1, <1>3
    <3> QED BY <3>1, <3>2, <1>9
  <2>8. ~Found' => \A n \in 1 .. m : Cell(flash', half, n).name # request.name
    BY <2>2, <2>3, <2>5, <1>9
  <2>9. lastFile' = (IF M' > m THEN m ELSE M')
    BY <2>4, <1>3, <1>4, <1>14
  <2>10. m \in 0 .. HALF_SIZE /\ m \in {k, k - 1} /\ files'[m].valid # USED
    BY <2>2, <2>3, <1>2, <1>3, <1>14, Geometry
  <2>11. \A j \in 0 .. lastFile' - 1 : files'[j].header = HalfStart(half) + j + 1
    BY <2>2, <1>14
  <2> QED BY <2>5, <2>6, <2>7, <2>8, <2>9, <2>10, <2>11, <1>1, <1>9 DEF Rebuilt
<1>19. Restoring(k)'
  <2>1. M' \in 0 .. k /\ M' # 0 /\ M' - 1 = k - 1
    BY <1>3, <1>4
  <2>2. i' = (IF M' = 0 THEN 0 ELSE ((M' - 1) % BatchSize) + 1)
    BY <2>1, <1>5
  <2> QED BY <2>1, <2>2, <1>1, <1>4, <1>9, <1>13, <1>15, <1>16, <1>17, <1>18 DEF Restoring
<1>20. RestoreGood'
  <2>1. k \in 0 .. HALF_SIZE
    BY <1>2, Geometry
  <2> QED BY <2>1, <1>1, <1>10, <1>19 DEF RestoreGood
<1> QED BY <1>2, <1>10, <1>14, <1>16, <1>20

LEMMA RestoreHeaderStep ==
  ASSUME FilesInv, ~BeyondIsBlank, RestoreHeader
  PROVE  FilesInv'
<1>1. TypeOK /\ RestoreGood /\ pc' = "restore" /\ UNCHANGED <<index, previous, after>>
      /\ i' = (IF BatchOver THEN 1 ELSE i + 1) /\ next' = (next + 1) % FlashSize /\ half' = half
  BY DEF FilesInv, Phases, RestoreHeader, Step, AddHeader, call
<1>2. PICK m \in 0 .. HALF_SIZE : Restoring(m)
  BY <1>1 DEF RestoreGood
<1>3. RestoreHeaderFacts(m)
  BY <1>1, <1>2 DEF RestoreHeader, AddHeader, Step, call, RestoreGood, RestoreHeaderFacts
<1>4. /\ RestoreGood' /\ lastFile' \in 0 .. HALF_SIZE - 1
      /\ end' \in 0 .. 2 * HALF_SIZE /\ flash' \in Flashes
      /\ files' \in [0 .. HALF_SIZE -> [valid : 0 .. 3, name : Fields,
                       length : 0 .. FieldSize - 1, header : Addresses, start : Addresses]]
  <2>1. CASE M = m
    BY <2>1, <1>1, <1>3, PlaceTaken DEF TypeOK
  <2>2. CASE M # m
    BY <2>2, <1>3, HeaderRead
  <2> QED BY <2>1, <2>2
<1>5. next' \in 0 .. 2 * HALF_SIZE /\ i' \in -2 .. HALF_SIZE
  <2>1. /\ next + 1 <= 2 * HALF_SIZE /\ next + 1 < FlashSize /\ next \in Addresses
        /\ M \in 0 .. m /\ m \in 0 .. HALF_SIZE - 2
    BY <1>1, <1>2, RestoringFacts DEF RestoreGood
  <2>2. next + 1 \in 0 .. 2 * HALF_SIZE /\ next + 1 \in Int /\ FlashSize \in Int
    BY <2>1, Geometry
  <2>3. (next + 1) % FlashSize = next + 1
    BY <2>1, <2>2, SmallMod
  <2>4. i \in Nat /\ i <= M
    <3>1. i = IF M = 0 THEN 0 ELSE ((M - 1) % BatchSize) + 1
      BY <1>2 DEF Restoring
    <3>2. M \in Nat
      BY <2>1
    <3> QED BY <3>1, <3>2, BatchCount
  <2>5. i' \in -2 .. HALF_SIZE
    BY <2>1, <2>4, <1>1, Geometry
  <2> QED BY <2>2, <2>3, <2>5, <1>1
<1>6. TypeOK'
  <2>1. lastFile' \in 0 .. HALF_SIZE
    BY <1>4, Geometry
  <2> QED BY <2>1, <1>1, <1>4, <1>5 DEF TypeOK, Flashes
<1> QED BY <1>1, <1>4, <1>6 DEF FilesInv, Phases

-----------------------------------------------------------------------------
(***************************************************************************)
(* The power fails.                                                        *)
(***************************************************************************)
\* The half that changehalf filled can be found by fs_init.
LEMMA OtherStored ==
  ASSUME TypeOK, OtherGood
  PROVE  Stored(flash, OtherHalf)
<1> DEFINE m == lastFile
<1>1. /\ HalfGood(flash, OtherHalf, m) /\ Replica(flash, OtherHalf, files, m)
      /\ \A j, k \in 0 .. m - 1 : files[j].name = files[k].name => j = k
  BY DEF OtherGood
<1>2. m \in 0 .. HALF_SIZE - 1 /\ m \in Nat
  BY <1>1, Geometry DEF HalfGood
<1> HIDE DEF m
<1>3. OneOfEach(flash, OtherHalf, UsedIn(flash, OtherHalf, m))
  <2> SUFFICES ASSUME NEW n \in 1 .. m, NEW k \in 1 .. m,
                      Cell(flash, OtherHalf, n).name = Cell(flash, OtherHalf, k).name
               PROVE  n = k
    BY DEF OneOfEach, UsedIn
  <2>1. n - 1 \in 0 .. m - 1 /\ k - 1 \in 0 .. m - 1
    BY <1>2
  <2>2. files[n - 1].name = files[k - 1].name
    BY <1>1 DEF Replica
  <2>3. n - 1 = k - 1
    BY <2>1, <2>2, <1>1
  <2> QED BY <2>3, <1>2
<1> QED BY <1>1, <1>2, <1>3 DEF Stored

\* Both halves can be found while both are valid, and the one that is when only one is.
LEMMA EitherStored ==
  ASSUME NEW fl, NEW h \in BothHalves, Stored(fl, 1 - h),
         fl[HalfStart(h)].valid = USED => Stored(fl, h)
  PROVE  FlashKept(fl)
<1>1. CASE h = 0
  <2>1. 1 - h = 1 /\ HalfStart(0) = 0 /\ HalfStart(1) = HALF_SIZE
    BY <1>1, Halves
  <2> QED BY <2>1, <1>1 DEF FlashKept, FIRST_HALF, SECOND_HALF
<1>2. CASE h = 1
  <2>1. 1 - h = 0 /\ HalfStart(0) = 0 /\ HalfStart(1) = HALF_SIZE
    BY <1>2, Halves
  <2> QED BY <2>1, <1>2 DEF FlashKept, FIRST_HALF, SECOND_HALF
<1> QED BY <1>1, <1>2 DEF BothHalves

LEMMA StoredIs ==
  ASSUME NEW fl, NEW h, NEW m, HalfGood(fl, h, m), OneOfEach(fl, h, UsedIn(fl, h, m))
  PROVE  Stored(fl, h)
BY DEF HalfGood, Stored

LEMMA PowerFailsStep ==
  ASSUME FilesInv, ~LoseUnclaimed, ~LoseDoubled, PowerFails
  PROVE  FilesInv'
<1>1. /\ TypeOK /\ flash' = flash /\ pc # "off" /\ pc' = "off"
      /\ files' = [k \in 0 .. HALF_SIZE |-> NoEntry]
      /\ lastFile' = 0 /\ next' = 0 /\ end' = 0 /\ half' = FIRST_HALF
      /\ index' = NO_HEADER /\ previous' = 0 /\ i' = 0 /\ after' = "idle"
      /\ ~Unclaimed /\ ~Doubled
  BY DEF FilesInv, PowerFails, MemoryCleared
<1>2. half \in BothHalves /\ OtherHalf = 1 - half /\ flash \in Flashes
  BY <1>1, HalfIs
<1>3. ASSUME pc = "format" PROVE FlashKept(flash)
  <2>1. \A a \in Addresses : flash[a] = Blank
    BY <1>3 DEF FilesInv, Phases, FormatGood
  <2>2. 0 \in Addresses /\ HALF_SIZE \in Addresses
    BY Geometry
  <2> QED BY <2>1, <2>2, StatusIs DEF FlashKept, UNUSED, USED
<1>4. ASSUME pc = "restore" PROVE FlashKept(flash)
  <2>1. InUse(flash, half) /\ \E m \in 0 .. HALF_SIZE : Restoring(m)
    BY <1>4 DEF FilesInv, Phases, RestoreGood
  <2>2. PICK m \in 0 .. HALF_SIZE :
          HalfGood(flash, half, m) /\ OneOfEach(flash, half, UsedIn(flash, half, m))
    BY <2>1 DEF Restoring
  <2> QED BY <2>1, <2>2, <1>2, KeptIs
<1>5. ASSUME Settled PROVE FlashKept(flash)
  BY <1>5, <1>2, KeptIs DEF Settled
<1>6. ASSUME pc \in {"idle", "return", "find", "room", "roomAgain", "eraseNext", "copyData", "copyHeader"}
      PROVE  FlashKept(flash)
  BY <1>5, <1>6 DEF FilesInv, Phases, FindGood, RoomGood, EraseNextGood, CopyGood, Moving
<1>7. ASSUME pc = "data" PROVE FlashKept(flash)
  <2>1. DataGood /\ i = 0
    BY <1>1, <1>7 DEF FilesInv, Phases, Unclaimed, DataGood
  <2>2. /\ InUse(flash, half) /\ OneOfEach(flash, half, UsedIn(flash, half, M))
        /\ M \in 0 .. HALF_SIZE - 1 /\ HeadersGood(flash, half, M)
        /\ Starts(flash, half, M) = end + S /\ end > next + 1
        /\ BlankFrom(flash, next, end + S)
    BY <2>1, <1>7 DEF DataGood, Overwriting
  <2>3. next = HalfStart(half) + M + 1
    <3>1. next \in Int /\ HalfStart(half) \in Int
      BY <1>1, <1>2, Halves DEF TypeOK
    <3> QED BY <3>1 DEF M
  <2>4. Space(flash, half, M, M)
    <3>1. M # M - 1 /\ M >= 0
      BY <2>2
    <3>2. end + S > next
      <4>1. end \in Int /\ next \in Int /\ S \in Nat
        BY <1>1, SizeFits, Geometry DEF TypeOK
      <4> QED BY <4>1, <2>2
    <3> QED BY <3>1, <3>2, <2>2, <2>3 DEF Space
  <2>5. HalfGood(flash, half, M)
    BY <2>2, <2>4 DEF HalfGood
  <2> QED BY <2>2, <2>5, <1>2, KeptIs
<1>8. ASSUME pc = "use" PROVE FlashKept(flash)
  <2>1. InUse(flash, half) /\ OneOfEach(flash, half, UsedIn(flash, half, M)) /\ HalfGood(flash, half, M)
    BY <1>8 DEF FilesInv, Phases, UseGood, Overwriting
  <2> QED BY <2>1, <1>2, KeptIs
<1>9. ASSUME pc = "unvalidate" PROVE FlashKept(flash)
  <2>1. HalfGood(flash, half, M) /\ OneOfEach(flash, half, UsedIn(flash, half, M)) /\ OtherGood
    BY <1>9 DEF FilesInv, Phases, UnvalidateGood
  <2>2. Stored(flash, half) /\ Stored(flash, 1 - half)
    BY <2>1, <1>1, <1>2, StoredIs, OtherStored
  <2> QED BY <2>2, <1>2, EitherStored
<1>10. ASSUME pc = "eraseCurrent" PROVE FlashKept(flash)
  <2>1. flash[HalfStart(half)].valid # USED /\ OtherGood
    BY <1>10 DEF FilesInv, Phases, EraseCurrentGood
  <2>2. Stored(flash, 1 - half)
    BY <2>1, <1>1, <1>2, OtherStored
  <2> QED BY <2>1, <2>2, <1>2, EitherStored
<1>11. FlashKept(flash)
  BY <1>1, <1>3, <1>4, <1>6, <1>7, <1>8, <1>9, <1>10 DEF TypeOK, Unclaimed, Doubled
<1>12. TypeOK'
  <2>1. NoEntry \in [valid : 0 .. 3, name : Fields,
                     length : 0 .. FieldSize - 1, header : Addresses, start : Addresses]
    <3>1. DELETED \in 0 .. 3 /\ Ones \in Fields /\ 0 \in 0 .. FieldSize - 1 /\ 0 \in Addresses
      BY Geometry DEF DELETED, Fields
    <3> QED BY <3>1 DEF NoEntry
  <2>2. /\ 0 \in Addresses /\ 0 \in 0 .. HALF_SIZE /\ 0 \in 0 .. 2 * HALF_SIZE /\ 0 \in -2 .. HALF_SIZE
    BY Geometry
  <2> HIDE DEF NoEntry
  <2> QED BY <2>1, <2>2, <1>1 DEF TypeOK
<1>13. NoneUsed'
  BY <1>1 DEF NoneUsed, NoEntry, DELETED, USED
<1> QED BY <1>1, <1>11, <1>12, <1>13 DEF FilesInv, Phases, OffGood

-----------------------------------------------------------------------------
(***************************************************************************)
(* The theorems.                                                           *)
(***************************************************************************)
\* What the code of the file system does not secure itself, and the theorems therefore
\* assume: the memory behind restoreFileSystem's buffer is not all ones, and power does not
\* fail between the data of a file and its header, nor while two headers have one name.
Safe == ~BeyondIsBlank /\ ~LoseUnclaimed /\ ~LoseDoubled

LEMMA FilesInit ==
  ASSUME Init
  PROVE  FilesInv
<1>1. /\ flash = [a \in Addresses |-> Blank] /\ pc = "off"
      /\ files = [k \in 0 .. HALF_SIZE |-> NoEntry]
      /\ lastFile = 0 /\ next = 0 /\ end = 0 /\ half = FIRST_HALF
      /\ index = NO_HEADER /\ previous = 0 /\ i = 0 /\ after = "idle"
  BY DEF Init
<1>2. NoEntry \in [valid : 0 .. 3, name : Fields,
                   length : 0 .. FieldSize - 1, header : Addresses, start : Addresses]
  <2>1. DELETED \in 0 .. 3 /\ Ones \in Fields /\ 0 \in 0 .. FieldSize - 1 /\ 0 \in Addresses
    BY Geometry DEF DELETED, Fields
  <2> QED BY <2>1 DEF NoEntry
<1>3. 0 \in Addresses /\ 0 \in 0 .. HALF_SIZE /\ 0 \in 0 .. 2 * HALF_SIZE /\ 0 \in -2 .. HALF_SIZE
      /\ HALF_SIZE \in Addresses
  BY Geometry
<1>4. TypeOK
  <2>1. flash \in Flashes
    BY <1>1, StatusIs DEF Flashes
  <2> HIDE DEF NoEntry
  <2> QED BY <2>1, <1>1, <1>2, <1>3 DEF TypeOK, Flashes
<1>5. OffGood
  <2>1. NoneUsed
    BY <1>1 DEF NoneUsed, NoEntry, DELETED, USED
  <2> QED BY <2>1, <1>1, <1>3, StatusIs DEF OffGood, FlashKept, UNUSED, USED
<1> QED BY <1>1, <1>4, <1>5 DEF FilesInv, Phases

LEMMA StutterStep ==
  ASSUME FilesInv, UNCHANGED vars
  PROVE  FilesInv'
<1>1. UNCHANGED <<flash, pc, files, lastFile, next, end, half, request, index, i, previous, copied, after>>
  BY DEF vars, table, call
<1>2. M' = M /\ Found' = Found /\ Slot' = Slot /\ OtherHalf' = OtherHalf /\ OtherStart' = OtherStart
  BY <1>1 DEF M, Found, Slot, OtherHalf, OtherStart
<1>3. TypeOK'
  BY <1>1 DEF FilesInv, TypeOK
<1>4. NoMore' = NoMore /\ Requested' = Requested /\ FileFound' = FileFound /\ NewName' = NewName
  BY <1>1 DEF NoMore, Requested, FileFound, NewName
<1>5. (Settled => Settled') /\ (Writes => Writes')
  BY <1>1, SettledSame, WritesSame
<1>6. OffGood => OffGood'
  BY <1>1 DEF OffGood, NoneUsed
<1>7. FormatGood => FormatGood'
  BY <1>1 DEF FormatGood, NoneUsed
<1>8. RestoreGood => RestoreGood'
  <2>1. ASSUME NEW m, Rebuilt(m) PROVE Rebuilt(m)'
    BY <2>1, <1>1, <1>2, <1>4, Zenon DEF Rebuilt
  <2>2. ASSUME NEW m, Restoring(m) PROVE Restoring(m)'
    BY <2>1, <2>2, <1>1, <1>2, Zenon DEF Restoring
  <2> QED BY <2>2, <1>1, Zenon DEF RestoreGood
<1>9. (FindGood => FindGood') /\ (RoomGood => RoomGood')
  BY <1>1, <1>2, <1>4, <1>5, Zenon DEF FindGood, RoomGood
<1>10. Overwriting => Overwriting'
  BY <1>1, <1>2, <1>4, <1>5, Zenon DEF Overwriting
<1>11. (DataGood => DataGood') /\ (UseGood => UseGood') /\ (SupersedeGood => SupersedeGood')
  <2>1. DataGood => DataGood'
    BY <1>1, <1>2, <1>10, Zenon DEF DataGood
  <2>2. UseGood => UseGood'
    BY <1>1, <1>2, <1>10, Zenon DEF UseGood
  <2>3. SupersedeGood => SupersedeGood'
    BY <1>1, <1>2, <1>4, Zenon DEF SupersedeGood
  <2> QED BY <2>1, <2>2, <2>3
<1>12. OtherGood => OtherGood'
  BY <1>1, <1>2, Zenon DEF OtherGood
<1>13. (EraseNextGood => EraseNextGood') /\ (CopyGood => CopyGood')
  BY <1>1, <1>2, <1>5, Zenon DEF EraseNextGood, CopyGood, Moving
<1>14. (UnvalidateGood => UnvalidateGood') /\ (EraseCurrentGood => EraseCurrentGood')
  BY <1>1, <1>2, <1>4, <1>5, <1>12, Zenon DEF UnvalidateGood, EraseCurrentGood
<1> QED BY <1>1, <1>3, <1>5, <1>6, <1>7, <1>8, <1>9, <1>11, <1>13, <1>14 DEF FilesInv, Phases

LEMMA FilesStep ==
  ASSUME FilesInv, Safe, [Next]_vars
  PROVE  FilesInv'
<1>1. CASE UserCalls
  BY <1>1, CallStep
<1>2. CASE InitFromHalf
  BY <1>2, InitFromHalfStep
<1>3. CASE InitErases
  BY <1>3, InitErasesStep
<1>4. CASE InitFormats
  BY <1>4, InitFormatsStep
<1>5. CASE RestoreHeader
  BY <1>5, RestoreHeaderStep DEF Safe
<1>6. CASE RestoreDone
  BY <1>6, RestoreDoneStep DEF Safe
<1>7. CASE FindNewest
  BY <1>7, FindNewestStep
<1>8. CASE RemoveOlder
  BY <1>8, RemoveOlderStep
<1>9. CASE NotFound \/ Read
  BY <1>9, AnsweredStep
<1>10. CASE Erase
  BY <1>10, EraseStep
<1>11. CASE Return
  BY <1>11, ReturnStep
<1>12. CASE EnterWrite
  BY <1>12, EnterWriteStep
<1>13. CASE StartWrite
  BY <1>13, StartWriteStep
<1>14. CASE WriteData
  BY <1>14, WriteDataStep
<1>15. CASE WriteHeader
  BY <1>15, WriteHeaderStep
<1>16. CASE WriteUsed
  BY <1>16, WriteUsedStep
<1>17. CASE Supersede
  BY <1>17, SupersedeStep
<1>18. CASE Full
  BY <1>18, FullStep
<1>19. CASE EnterChangeHalf
  BY <1>19, EnterChangeHalfStep
<1>20. CASE EraseNext
  BY <1>20, EraseNextStep
<1>21. CASE CopyData
  BY <1>21, CopyDataStep
<1>22. CASE CopyHeader
  BY <1>22, CopyHeaderStep
<1>23. CASE ValidateNext
  BY <1>23, ValidateNextStep
<1>24. CASE UnvalidateCurrent
  BY <1>24, UnvalidateCurrentStep
<1>25. CASE EraseCurrent
  BY <1>25, EraseCurrentStep
<1>26. CASE PowerFails
  BY <1>26, PowerFailsStep DEF Safe
<1>27. CASE UNCHANGED vars
  BY <1>27, StutterStep
<1> QED
  BY <1>1, <1>2, <1>3, <1>4, <1>5, <1>6, <1>7, <1>8, <1>9, <1>10, <1>11, <1>12, <1>13, <1>14,
     <1>15, <1>16, <1>17, <1>18, <1>19, <1>20, <1>21, <1>22, <1>23, <1>24, <1>25, <1>26, <1>27, Zenon
  DEF Next, Progress, ChangeHalf

\* The invariant holds.
LEMMA FilesInvariant == ASSUME Safe PROVE Spec => []FilesInv
<1>1. FilesInv /\ [Next]_vars => FilesInv'
  BY FilesStep
<1> QED BY FilesInit, <1>1, PTL DEF Spec

\* The half and the table in the phases in which the table is that of the headers.
LEMMA CurrentIn ==
  ASSUME FilesInv, pc \notin {"off", "format", "restore", "data", "header", "use", "supersede", "eraseCurrent"}
  PROVE  Current
<1>1. pc \in {"idle", "return", "find", "room", "roomAgain", "eraseNext", "copyData", "copyHeader", "unvalidate"}
  BY DEF FilesInv, TypeOK
<1>2. CASE pc = "unvalidate"
  BY <1>2 DEF FilesInv, Phases, UnvalidateGood, Current
<1>3. CASE pc # "unvalidate"
  <2>1. Settled
    BY <1>1, <1>3 DEF FilesInv, Phases, FindGood, RoomGood, EraseNextGood, CopyGood, Moving
  <2> QED BY <2>1, SettledIs
<1> QED BY <1>2, <1>3

\* Every variable keeps its type: the pointers and the table's addresses stay in the device.
THEOREM FilesTypeCorrect == ASSUME Safe PROVE Spec => []TypeOK
<1>1. FilesInv => TypeOK
  BY DEF FilesInv
<1> QED BY <1>1, FilesInvariant, PTL

LEMMA SpaceIsErased ==
  ASSUME FilesInv
  PROVE  FreeSpaceErased
<1> SUFFICES ASSUME InHalf, pc # "eraseCurrent", NEW a \in HalfOf(half), a >= next, a < end
             PROVE  flash[a] = Blank
  BY DEF FreeSpaceErased
<1>1. TypeOK /\ half \in BothHalves /\ flash \in Flashes /\ HalfStart(half) \in Int
  BY HalfIs, Halves DEF FilesInv
<1>2. a \in Addresses /\ next \in Int /\ end \in Int /\ a \in Int
  BY <1>1, Halves, Geometry DEF TypeOK
<1>3. CASE pc \in {"data", "header"}
  <2>1. BlankFrom(flash, next, end)
    BY <1>3 DEF FilesInv, Phases, DataGood
  <2> QED BY <2>1, <1>2 DEF BlankFrom
<1>4. CASE pc \notin {"data", "header"}
  <2>1. HalfGood(flash, half, M) /\ end = Starts(flash, half, M)
    <3>1. CASE pc \in {"use", "supersede"}
      BY <3>1 DEF FilesInv, Phases, UseGood, SupersedeGood
    <3>2. CASE pc \notin {"use", "supersede"}
      <4>1. Current
        BY <3>2, <1>4, CurrentIn DEF InHalf
      <4> QED BY <4>1 DEF Current
    <3> QED BY <3>1, <3>2
  <2>2. next = HalfStart(half) + M + 1 /\ M \in Int
    BY <1>1, <1>2 DEF M
  <2>3. Starts(flash, half, M) > HalfStart(half) + M + 1
    BY <2>1, <2>2, <1>2
  <2>4. BlankFrom(flash, next, end)
    BY <2>1, <2>2, <2>3, <1>1, HalfFacts
  <2> QED BY <2>4, <1>2 DEF BlankFrom
<1> QED BY <1>3, <1>4

\* addHeaderFileToMemory's sums and writeFileDataToFlash's pointers leave between them
\* what is erased: no write finds its place programmed.
THEOREM SpaceStaysErased == ASSUME Safe PROVE Spec => []FreeSpaceErased
<1> QED BY SpaceIsErased, FilesInvariant, PTL

LEMMA MinIs ==
  ASSUME NEW N, NEW x \in N, N \subseteq Int, \A y \in N : x <= y
  PROVE  Min(N) = x
<1>1. Min(N) \in N /\ \A y \in N : Min(N) <= y
  <2>1. \E z \in N : \A y \in N : z <= y
    OBVIOUS
  <2> QED BY <2>1, Zenon DEF Min
<1>2. Min(N) <= x /\ x <= Min(N) /\ Min(N) \in Int /\ x \in Int
  BY <1>1
<1> QED BY <1>2

\* The headers of the half in use.
LEMMA HeadersAre ==
  ASSUME TypeOK, HalfGood(flash, half, M)
  PROVE  HeadersOf(half) = HalfStart(half) + 1 .. HalfStart(half) + M
<1> DEFINE A == HalfStart(half)
           blank == {a \in HalfOf(half) \ {A} : flash[a] = Blank}
           N == blank \cup {A + HALF_SIZE}
           x == A + (M + 1)
<1>1. /\ half \in BothHalves /\ flash \in Flashes /\ A \in Nat
      /\ HalfOf(half) = A .. A + HALF_SIZE - 1 /\ HALF_SIZE \in Nat
  BY HalfIs, Halves, Geometry
<1>2. M \in 0 .. HALF_SIZE - 2 /\ Cell(flash, half, M + 1) = Blank
      /\ \A n \in 1 .. M : Cell(flash, half, n) # Blank
  <2>1. M \in 0 .. HALF_SIZE - 2 /\ Cell(flash, half, M + 1) = Blank
    BY <1>1, HalfFacts
  <2> QED BY <2>1 DEF HalfGood, HeadersGood, IsHeader
<1>3. x \in N /\ x \in Int
  <2>1. x \in HalfOf(half) /\ x # A
    BY <1>1, <1>2
  <2> QED BY <2>1, <1>1, <1>2 DEF Cell
<1>4. ASSUME NEW y \in N PROVE y \in Int /\ x <= y
  <2>1. CASE y = A + HALF_SIZE
    BY <2>1, <1>1, <1>2
  <2>2. CASE y # A + HALF_SIZE
    <3>1. y \in A .. A + HALF_SIZE - 1 /\ y # A /\ flash[y] = Blank
      BY <2>2, <1>1
    <3>2. ~(y - A \in 1 .. M)
      <4> SUFFICES ASSUME y - A \in 1 .. M PROVE FALSE
        OBVIOUS
      <4>1. A + (y - A) = y
        BY <3>1, <1>1
      <4> QED BY <4>1, <3>1, <1>2 DEF Cell
    <3> QED BY <3>1, <3>2, <1>1, <1>2
  <2> QED BY <2>1, <2>2
<1>5. Min(N) = x
  <2> HIDE DEF N, x
  <2>1. N \subseteq Int
    BY <1>4
  <2> QED BY <2>1, <1>3, <1>4, MinIs
<1>6. HeadersOf(half) = A + 1 .. Min(N) - 1
  BY Zenon DEF HeadersOf
<1>7. x - 1 = A + M
  BY <1>1, <1>2
<1> QED BY <1>5, <1>6, <1>7

LEMMA TableIsFlash ==
  ASSUME TypeOK, Current
  PROVE  LET used == {a \in HeadersOf(half) : flash[a].valid = USED}
             entries == {files[k] : k \in 0 .. lastFile - 1}
         IN /\ lastFile = Cardinality(used)
            /\ \A j, k \in 0 .. lastFile - 1 :
                 j < k /\ files[j].name = files[k].name => files[j].header < files[k].header
            /\ entries = {[valid |-> USED, name |-> flash[a].name, length |-> flash[a].length,
                           header |-> a, start |-> DataStart(half, a)] : a \in used}
<1> DEFINE A == HalfStart(half)
           U == UsedIn(flash, half, M)
           used == {a \in HeadersOf(half) : flash[a].valid = USED}
           K == 0 .. lastFile - 1
           entries == {files[k] : k \in K}
           Rec(a) == [valid |-> USED, name |-> flash[a].name, length |-> flash[a].length,
                      header |-> a, start |-> DataStart(half, a)]
<1>1. /\ HalfGood(flash, half, M) /\ Table(flash, files, lastFile, half, U)
      /\ A \in Nat /\ M \in 0 .. HALF_SIZE - 1 /\ lastFile \in 0 .. HALF_SIZE - 1
  BY HalfIs, Halves DEF Current, HalfGood, Table
<1>2. HeadersOf(half) = A + 1 .. A + M
  BY <1>1, HeadersAre
<1>3. \A n \in U : n \in 1 .. M /\ A + n \in used
  <2> TAKE n \in U
  <2>1. n \in 1 .. M /\ Cell(flash, half, n).valid = USED
    BY DEF UsedIn
  <2> QED BY <2>1, <1>1, <1>2 DEF Cell
<1>4. \A a \in used : \E n \in U : a = A + n
  <2> TAKE a \in used
  <2>1. a \in A + 1 .. A + M /\ flash[a].valid = USED
    BY <1>2
  <2>2. a - A \in 1 .. M /\ a = A + (a - A)
    BY <2>1, <1>1
  <2>3. a - A \in U
    BY <2>1, <2>2 DEF UsedIn, Cell
  <2> QED BY <2>2, <2>3
<1>5. /\ \A k \in K : \E n \in U : EntryOf(flash, files[k], half, n)
      /\ \A j, k \in K : files[j].header = files[k].header => j = k
      /\ \A n \in U : \E k \in K : files[k].header = A + n
  BY <1>1, TableForm, Zenon
<1>6. ASSUME NEW k \in K PROVE files[k].header \in used /\ files[k] = Rec(files[k].header)
  <2>1. PICK n \in U : EntryOf(flash, files[k], half, n)
    BY <1>5
  <2>2. files[k].header = A + n /\ A + n \in used
    BY <2>1, <1>3 DEF EntryOf
  <2>3. /\ files[k].valid = USED /\ files[k].name = flash[A + n].name
        /\ files[k].length = flash[A + n].length /\ files[k].start = DataStart(half, A + n)
    <3>1. DataStart(half, A + n) = StartsOf(flash, half)[A + n]
      BY StartIsData
    <3> QED BY <2>1, <3>1, Zenon DEF EntryOf, Cell, Starts
  <2>4. files[k] = [valid |-> files[k].valid, name |-> files[k].name, length |-> files[k].length,
                    header |-> files[k].header, start |-> files[k].start]
    <3>1. k \in 0 .. HALF_SIZE
      BY <1>1, Geometry
    <3>2. files[k] \in [valid : 0 .. 3, name : Fields,
                        length : 0 .. FieldSize - 1, header : Addresses, start : Addresses]
      BY <3>1 DEF TypeOK
    <3> QED BY <3>2
  <2> QED BY <2>2, <2>3, <2>4
<1>7. \A a \in used : \E k \in K : files[k].header = a
  BY <1>4, <1>5
<1>8. lastFile = Cardinality(used)
  <2> DEFINE f == [k \in K |-> files[k].header]
  <2>1. f \in [K -> used]
    BY <1>6
  <2>2. /\ \A j, k \in K : f[j] = f[k] => j = k
        /\ \A a \in used : \E k \in K : f[k] = a
    BY <1>5, <1>7
  <2>3. IsFiniteSet(K) /\ Cardinality(K) = lastFile
    <3>1. IsFiniteSet(0 .. lastFile - 1)
          /\ Cardinality(0 .. lastFile - 1) = IF 0 > lastFile - 1 THEN 0 ELSE (lastFile - 1) - 0 + 1
      <4>1. 0 \in Int /\ lastFile - 1 \in Int
        BY <1>1
      <4> QED BY <4>1, FS_Interval
    <3> QED BY <3>1, <1>1
  <2> HIDE DEF f, K, used
  <2>4. f \in Bijection(K, used)
    BY <2>1, <2>2 DEF Bijection, Injection, Surjection, IsInjective
  <2>5. ExistsBijection(K, used)
    BY <2>4 DEF ExistsBijection
  <2> QED BY <2>3, <2>5, FS_Bijection
<1>9. \A j, k \in K : j < k /\ files[j].name = files[k].name => files[j].header < files[k].header
  <2> SUFFICES ASSUME NEW j \in K, NEW k \in K, j < k, files[j].name = files[k].name PROVE FALSE
    OBVIOUS
  <2>1. j = k
    BY TableNames
  <2> QED BY <2>1
<1>10. entries = {Rec(a) : a \in used}
  <2>1. ASSUME NEW e \in entries PROVE e \in {Rec(a) : a \in used}
    <3>1. PICK k \in K : e = files[k]
      OBVIOUS
    <3>2. files[k].header \in used /\ files[k] = Rec(files[k].header)
      BY <1>6
    <3> HIDE DEF Rec, used, K
    <3> QED BY <3>1, <3>2
  <2>2. ASSUME NEW a \in used PROVE Rec(a) \in entries
    <3>1. PICK k \in K : files[k].header = a
      BY <1>7
    <3>2. files[k] = Rec(a)
      BY <3>1, <1>6
    <3> HIDE DEF Rec, used, K
    <3> QED BY <3>2
  <2> HIDE DEF Rec, used, entries
  <2> QED BY <2>1, <2>2
<1> QED BY <1>8, <1>9, <1>10

\* What restoreFileSystem and the writes put into _files is what the headers say, each file
\* once, where its data is: lengths alone are stored, and those of dead headers count.
THEOREM TableStaysTrue == ASSUME Safe PROVE Spec => []TableMatchesFlash
<1>1. FilesInv => TableMatchesFlash
  <2> SUFFICES ASSUME FilesInv, pc \in {"idle", "find", "return", "room"}
               PROVE  LET used == {a \in HeadersOf(half) : flash[a].valid = USED}
                          entries == {files[k] : k \in 0 .. lastFile - 1}
                      IN /\ lastFile = Cardinality(used)
                         /\ \A j, k \in 0 .. lastFile - 1 :
                              j < k /\ files[j].name = files[k].name => files[j].header < files[k].header
                         /\ entries = {[valid |-> USED, name |-> flash[a].name,
                                        length |-> flash[a].length, header |-> a,
                                        start |-> DataStart(half, a)] : a \in used}
    BY Zenon DEF TableMatchesFlash
  <2>1. TypeOK /\ Current
    BY CurrentIn DEF FilesInv
  <2> QED BY <2>1, TableIsFlash, Zenon
<1> QED BY <1>1, FilesInvariant, PTL

\* The index FindFile returned is the file's when writeFileDataToFlash uses it again, although
\* changehalf has built the table anew in between.
THEOREM FoundStaysTheFile == ASSUME Safe PROVE Spec => []FoundIsTheFile
<1>1. FilesInv => FoundIsTheFile
  <2> SUFFICES ASSUME FilesInv, pc \in {"find", "room", "roomAgain"}, Found
               PROVE  index < lastFile /\ files[index].valid = USED /\ files[index].name = request.name
    BY DEF FoundIsTheFile
  <2>1. TypeOK /\ Current
    BY CurrentIn DEF FilesInv
  <2>2. FileFound
    BY DEF FilesInv, Phases, FindGood, RoomGood, Writes
  <2>3. index \in 0 .. lastFile - 1 /\ files[index].name = request.name /\ lastFile \in Nat
    BY <2>1, <2>2 DEF FileFound, TypeOK
  <2>4. files[index].valid = USED
    BY <2>1, <2>3, EntryFacts
  <2> QED BY <2>3, <2>4
<1> QED BY <1>1, FilesInvariant, PTL

LEMMA FilesAreDisjoint ==
  ASSUME FilesInv
  PROVE  FilesDisjoint
<1> DEFINE extent(e) == e.start .. e.start + e.length - 1
           A == HalfStart(half)
<1> SUFFICES ASSUME InHalf, pc \notin {"data", "header", "use"}, NEW k \in 0 .. lastFile - 1
             PROVE  /\ extent(files[k]) \subseteq HalfOf(half)
                    /\ extent(files[k]) \cap HeadersOf(half) = {}
                    /\ \A j \in 0 .. lastFile - 1 : j # k => extent(files[j]) \cap extent(files[k]) = {}
  BY Zenon DEF FilesDisjoint
<1>1. /\ TypeOK /\ half \in BothHalves /\ flash \in Flashes /\ A \in Nat /\ HALF_SIZE \in Nat
      /\ HalfOf(half) = A .. A + HALF_SIZE - 1 /\ next \in Int
  <2>1. TypeOK /\ half \in BothHalves /\ flash \in Flashes
    BY HalfIs DEF FilesInv
  <2>2. next \in Int /\ HALF_SIZE \in Nat
    BY <2>1, Geometry DEF TypeOK
  <2> QED BY <2>1, <2>2, Halves
<1>2. \A j \in 0 .. lastFile - 1 : files[j].start \in Int /\ files[j].length \in Int
  <2> TAKE j \in 0 .. lastFile - 1
  <2>1. j \in 0 .. HALF_SIZE
    BY <1>1, Geometry DEF TypeOK
  <2>2. files[j].start \in Addresses /\ files[j].length \in 0 .. FieldSize - 1
    BY <2>1, <1>1 DEF TypeOK
  <2> QED BY <2>2, Geometry
<1>3. /\ Apart(files, lastFile, next, A + HALF_SIZE) /\ next >= A
      /\ \A a \in HeadersOf(half) : a \in Int /\ a < next
  <2>1. ASSUME NEW U, U \subseteq UsedIn(flash, half, M), HalfGood(flash, half, M),
               Table(flash, files, lastFile, half, U)
        PROVE  /\ Apart(files, lastFile, next, A + HALF_SIZE) /\ next >= A
               /\ \A a \in HeadersOf(half) : a \in Int /\ a < next
    <3>1. Apart(files, lastFile, next, A + HALF_SIZE)
      BY <2>1, <1>1, TableApart
    <3>2. next = A + M + 1 /\ M \in Nat
      <4>1. M \in Nat
        BY <2>1 DEF HalfGood
      <4> QED BY <4>1, <1>1 DEF M
    <3>3. HeadersOf(half) = A + 1 .. A + M
      BY <2>1, <1>1, HeadersAre
    <3> QED BY <3>1, <3>2, <3>3, <1>1
  <2>2. CASE pc = "supersede"
    <3>1. PICK q \in UsedIn(flash, half, M) :
            Table(flash, files, lastFile, half, UsedIn(flash, half, M) \ {q})
      BY <2>2 DEF FilesInv, Phases, SupersedeGood
    <3>2. HalfGood(flash, half, M)
      BY <2>2 DEF FilesInv, Phases, SupersedeGood
    <3>3. UsedIn(flash, half, M) \ {q} \subseteq UsedIn(flash, half, M)
      OBVIOUS
    <3> QED BY <3>1, <3>2, <3>3, <2>1
  <2>3. CASE pc = "eraseCurrent"
    <3>1. /\ Apart(files, lastFile, next, A + HALF_SIZE) /\ flash[next] = Blank
          /\ M \in 0 .. HALF_SIZE - 2
      BY <2>3 DEF FilesInv, Phases, EraseCurrentGood
    <3>2. next \in HalfOf(half) \ {A}
      <4>1. next = A + M + 1
        BY <3>1, <1>1 DEF M
      <4> QED BY <4>1, <3>1, <1>1
    <3> DEFINE blank == {a \in HalfOf(half) \ {A} : flash[a] = Blank}
               N == blank \cup {A + HALF_SIZE}
    <3>3. next \in N /\ N \subseteq Nat
      BY <3>1, <3>2, <1>1
    <3>4. HeadersOf(half) = A + 1 .. Min(N) - 1
      BY Zenon DEF HeadersOf
    <3>5. Min(N) \in N /\ \A y \in N : Min(N) <= y
      <4> HIDE DEF N
      <4>1. \E x \in N : \A y \in N : x <= y
        BY <3>3, LeastNatural
      <4> QED BY <4>1, Zenon DEF Min
    <3>6. Min(N) \in Int /\ Min(N) <= next
      BY <3>3, <3>5
    <3>7. \A a \in HeadersOf(half) : a \in Int /\ a < next
      BY <3>4, <3>6, <1>1
    <3> QED BY <3>1, <3>2, <3>7, <1>1
  <2>4. CASE pc \notin {"supersede", "eraseCurrent"}
    <3>1. Current
      BY <2>4, CurrentIn DEF InHalf
    <3> QED BY <3>1, <2>1 DEF Current
  <2> QED BY <2>2, <2>3, <2>4
<1>4. files[k].start > next /\ files[k].start + files[k].length <= A + HALF_SIZE
  BY <1>3 DEF Apart
<1>5. extent(files[k]) \subseteq HalfOf(half)
  <2>1. files[k].start \in Int /\ files[k].length \in Int
    BY <1>2
  <2>2. A <= files[k].start
    BY <2>1, <1>1, <1>3, <1>4
  <2> DEFINE s == files[k].start
             l == files[k].length
  <2>3. s \in Int /\ l \in Int /\ A <= s /\ s + l <= A + HALF_SIZE /\ extent(files[k]) = s .. s + l - 1
    BY <2>1, <2>2, <1>4
  <2> HIDE DEF s, l, extent, A
  <2>4. s .. s + l - 1 \subseteq A .. A + HALF_SIZE - 1
    BY <2>3, <1>1
  <2> QED BY <2>3, <2>4, <1>1
<1>6. extent(files[k]) \cap HeadersOf(half) = {}
  <2> SUFFICES ASSUME NEW a \in extent(files[k]), a \in HeadersOf(half) PROVE FALSE
    OBVIOUS
  <2>1. a \in Int /\ a < next /\ a >= files[k].start
    BY <1>2, <1>3
  <2> QED BY <2>1, <1>1, <1>2, <1>4
<1>7. ASSUME NEW j \in 0 .. lastFile - 1, j # k PROVE extent(files[j]) \cap extent(files[k]) = {}
  <2>1. \/ files[j].start + files[j].length <= files[k].start
        \/ files[k].start + files[k].length <= files[j].start
    BY <1>3, <1>7 DEF Apart
  <2> QED BY <2>1, <1>2
<1> QED BY <1>5, <1>6, <1>7

\* The data of live files is shared with no other file and no header, also while changehalf
\* copies it and erases the half it leaves.
THEOREM FilesStayDisjoint == ASSUME Safe PROVE Spec => []FilesDisjoint
<1> QED BY FilesAreDisjoint, FilesInvariant, PTL

-----------------------------------------------------------------------------
(***************************************************************************)
(* What is stored in a flash, of the headers fs_init would read.           *)
(***************************************************************************)
ValidsOf(fl) == {h \in {FIRST_HALF, SECOND_HALF} : fl[HalfStart(h)].valid = USED}
HeadersIn(fl, h) ==
  LET blank == {a \in HalfOf(h) \ {HalfStart(h)} : fl[a] = Blank}
  IN HalfStart(h) + 1 .. Min(blank \cup {HalfStart(h) + HALF_SIZE}) - 1
VersionsIn(fl, h, name) == {a \in HeadersIn(fl, h) : fl[a].valid = USED /\ fl[a].name = name}
DataOf(fl, h, a) == [k \in 1 .. fl[a].length |-> fl[StartsOf(fl, h)[a] + k - 1]]
Newest(fl, h, name) ==
  LET versions == VersionsIn(fl, h, name)
  IN IF versions = {} THEN Absent ELSE DataOf(fl, h, Max(versions))
StoredOf(fl, name) == IF ValidsOf(fl) = {} THEN Absent ELSE Newest(fl, Min(ValidsOf(fl)), name)

DataAt(fl, s) == [k \in 1 .. S |-> fl[s + k - 1]]

\* A half with m headers, which is all that StoredOf needs to know of it.
Reads(fl, h, m) ==
  /\ m \in 0 .. HALF_SIZE - 2 /\ Cell(fl, h, m + 1) = Blank
  /\ \A n \in 1 .. m : Cell(fl, h, n) # Blank
  /\ \A n \in UsedIn(fl, h, m) : Cell(fl, h, n).length = S
Versions(fl, h, m, name) == {n \in UsedIn(fl, h, m) : Cell(fl, h, n).name = name}

StoredAsRead == \A name : StoredIn(name) = StoredOf(flash, name)

\* What FileSystem says is stored is what this flash stores,
LEMMA StoredInIs == StoredAsRead
<1> SUFFICES ASSUME NEW name PROVE StoredIn(name) = StoredOf(flash, name)
  BY DEF StoredAsRead
<1>1. Valids = ValidsOf(flash) /\ \A h : HeadersOf(h) = HeadersIn(flash, h)
  BY Zenon DEF Valids, ValidsOf, HeadersOf, HeadersIn
<1>2. \A h, a : [k \in 1 .. flash[a].length |-> flash[DataStart(h, a) + k - 1]] = DataOf(flash, h, a)
  BY StartIsData, Zenon DEF DataOf
<1> DEFINE V(h) == {a \in HeadersOf(h) : flash[a].valid = USED /\ flash[a].name = name}
           D(h, a) == [k \in 1 .. flash[a].length |-> flash[DataStart(h, a) + k - 1]]
<1>3. \A h : V(h) = VersionsIn(flash, h, name)
  BY <1>1, Zenon DEF VersionsIn
<1>4. \A h : (IF V(h) = {} THEN Absent ELSE D(h, Max(V(h)))) = Newest(flash, h, name)
  BY <1>2, <1>3, Zenon DEF Newest
<1>5. StoredIn(name) = IF Valids = {} THEN Absent
                       ELSE IF V(Min(Valids)) = {} THEN Absent ELSE D(Min(Valids), Max(V(Min(Valids))))
  BY Zenon DEF StoredIn
<1>6. (IF V(Min(Valids)) = {} THEN Absent ELSE D(Min(Valids), Max(V(Min(Valids)))))
        = Newest(flash, Min(Valids), name)
  BY <1>4
<1>7. StoredIn(name) = IF Valids = {} THEN Absent ELSE Newest(flash, Min(Valids), name)
  <2> HIDE DEF V, D
  <2> QED BY <1>5, <1>6, Zenon
<1>8. StoredOf(flash, name) = IF Valids = {} THEN Absent ELSE Newest(flash, Min(Valids), name)
  BY <1>1, Zenon DEF StoredOf
<1> QED BY <1>7, <1>8

\* and after a step what the flash of the next state stores.
LEMMA StoredIsAfter == \A name : StoredIn(name)' = StoredOf(flash', name)
<1>1. StoredAsRead'
  BY StoredInIs, PTL
<1> QED BY <1>1, Zenon DEF StoredAsRead

\* Headers are read up to the first blank cell.
LEMMA HeadersRead ==
  ASSUME NEW fl \in Flashes, NEW h \in BothHalves, NEW m, Reads(fl, h, m)
  PROVE  HeadersIn(fl, h) = HalfStart(h) + 1 .. HalfStart(h) + m
<1> DEFINE A == HalfStart(h)
           blank == {a \in HalfOf(h) \ {A} : fl[a] = Blank}
           N == blank \cup {A + HALF_SIZE}
           x == A + (m + 1)
<1>1. A \in Nat /\ HalfOf(h) = A .. A + HALF_SIZE - 1 /\ HALF_SIZE \in Nat
  BY Halves, Geometry
<1>2. m \in 0 .. HALF_SIZE - 2 /\ Cell(fl, h, m + 1) = Blank /\ \A n \in 1 .. m : Cell(fl, h, n) # Blank
  BY DEF Reads
<1>3. x \in N /\ x \in Int
  <2>1. x \in HalfOf(h) /\ x # A
    BY <1>1, <1>2
  <2> QED BY <2>1, <1>1, <1>2 DEF Cell
<1>4. ASSUME NEW y \in N PROVE y \in Int /\ x <= y
  <2>1. CASE y = A + HALF_SIZE
    BY <2>1, <1>1, <1>2
  <2>2. CASE y # A + HALF_SIZE
    <3>1. y \in A .. A + HALF_SIZE - 1 /\ y # A /\ fl[y] = Blank
      BY <2>2, <1>1
    <3>2. ~(y - A \in 1 .. m)
      <4> SUFFICES ASSUME y - A \in 1 .. m PROVE FALSE
        OBVIOUS
      <4>1. A + (y - A) = y
        BY <3>1, <1>1
      <4> QED BY <4>1, <3>1, <1>2 DEF Cell
    <3> QED BY <3>1, <3>2, <1>1, <1>2
  <2> QED BY <2>1, <2>2
<1>5. Min(N) = x
  <2> HIDE DEF N, x
  <2>1. N \subseteq Int
    BY <1>4
  <2> QED BY <2>1, <1>3, <1>4, MinIs
<1>6. HeadersIn(fl, h) = A + 1 .. Min(N) - 1
  BY Zenon DEF HeadersIn
<1>7. x - 1 = A + m
  BY <1>1, <1>2
<1> QED BY <1>5, <1>6, <1>7

\* fs_init takes the half in use.
LEMMA InUseFound ==
  ASSUME NEW fl, NEW h \in BothHalves, InUse(fl, h)
  PROVE  ValidsOf(fl) # {} /\ Min(ValidsOf(fl)) = h
<1> DEFINE V == ValidsOf(fl)
<1>1. h \in V /\ V \subseteq {0, 1} /\ (h = 1 => 0 \notin V)
  BY Halves DEF InUse, ValidsOf, BothHalves, FIRST_HALF, SECOND_HALF
<1>2. V \subseteq Int /\ \A y \in V : h <= y
  BY <1>1 DEF BothHalves
<1> HIDE DEF V
<1>3. Min(V) = h
  BY <1>1, <1>2, MinIs
<1> QED BY <1>1, <1>3 DEF V

\* The versions of a file, by their addresses and by their numbers.
LEMMA VersionsAre ==
  ASSUME NEW fl \in Flashes, NEW h \in BothHalves, NEW m, Reads(fl, h, m), NEW name
  PROVE  /\ VersionsIn(fl, h, name) = {HalfStart(h) + n : n \in Versions(fl, h, m, name)}
         /\ Versions(fl, h, m, name) \subseteq 1 .. m /\ m \in Nat /\ HalfStart(h) \in Nat
<1> DEFINE A == HalfStart(h)
<1>1. A \in Nat /\ m \in 0 .. HALF_SIZE - 2 /\ HALF_SIZE \in Nat
  BY Halves, Geometry DEF Reads
<1>2. HeadersIn(fl, h) = A + 1 .. A + m
  BY HeadersRead
<1>3. Versions(fl, h, m, name) \subseteq 1 .. m
  BY DEF Versions, UsedIn
<1>4. ASSUME NEW a \in VersionsIn(fl, h, name)
      PROVE  \E n \in Versions(fl, h, m, name) : a = A + n
  <2>1. a \in A + 1 .. A + m /\ fl[a].valid = USED /\ fl[a].name = name
    BY <1>2 DEF VersionsIn
  <2>2. a - A \in 1 .. m /\ a = A + (a - A)
    BY <2>1, <1>1
  <2>3. a - A \in Versions(fl, h, m, name)
    BY <2>1, <2>2 DEF UsedIn, Cell, Versions
  <2> QED BY <2>2, <2>3
<1>5. ASSUME NEW n \in Versions(fl, h, m, name) PROVE A + n \in VersionsIn(fl, h, name)
  <2>1. n \in 1 .. m /\ Cell(fl, h, n).valid = USED /\ Cell(fl, h, n).name = name
    BY DEF Versions, UsedIn
  <2>2. A + n \in HeadersIn(fl, h)
    BY <1>1, <1>2, <2>1
  <2> QED BY <2>1, <2>2 DEF Cell, VersionsIn
<1>6. VersionsIn(fl, h, name) = {A + n : n \in Versions(fl, h, m, name)}
  BY <1>4, <1>5
<1> QED BY <1>1, <1>3, <1>6

Looks(fl, h, m) == fl \in Flashes /\ h \in BothHalves /\ InUse(fl, h) /\ Reads(fl, h, m)

\* What is stored under a name is the data of its last version, or nothing.
LEMMA NewestIs ==
  ASSUME NEW fl, NEW h, NEW m, Looks(fl, h, m), NEW name,
         NEW q \in Versions(fl, h, m, name), \A n \in Versions(fl, h, m, name) : n <= q
  PROVE  StoredOf(fl, name) = DataAt(fl, Starts(fl, h, q))
<1> DEFINE A == HalfStart(h)
           V == VersionsIn(fl, h, name)
<1>1. fl \in Flashes /\ h \in BothHalves /\ InUse(fl, h) /\ Reads(fl, h, m)
  BY DEF Looks
<1>2. /\ V = {A + n : n \in Versions(fl, h, m, name)}
      /\ Versions(fl, h, m, name) \subseteq 1 .. m /\ m \in Nat /\ A \in Nat
  BY <1>1, VersionsAre
<1>3. A + q \in V /\ V \subseteq Int /\ \A a \in V : a <= A + q
  BY <1>2
<1>4. Max(V) = A + q
  <2> HIDE DEF V
  <2>1. Max(V) \in V /\ \A a \in V : a <= Max(V)
    <3>1. \E a \in V : \A b \in V : b <= a
      BY <1>3
    <3> QED BY <3>1, Zenon DEF Max
  <2>2. Max(V) <= A + q /\ A + q <= Max(V) /\ Max(V) \in Int /\ A + q \in Int
    BY <2>1, <1>3
  <2> QED BY <2>2
<1>5. V # {}
  BY <1>3
<1>6. fl[A + q].length = S
  <2>1. Cell(fl, h, q).length = S
    BY <1>1, Zenon DEF Reads, Versions
  <2> QED BY <2>1 DEF Cell
<1>7. Newest(fl, h, name) = DataOf(fl, h, A + q)
  BY <1>4, <1>5, Zenon DEF Newest
<1>8. DataOf(fl, h, A + q) = DataAt(fl, Starts(fl, h, q))
  BY <1>6, Zenon DEF DataOf, DataAt, Starts
<1>9. StoredOf(fl, name) = Newest(fl, h, name)
  BY <1>1, InUseFound, Zenon DEF StoredOf
<1> QED BY <1>7, <1>8, <1>9

\* Without a version nothing is stored.
LEMMA NoneIs ==
  ASSUME NEW fl, NEW h, NEW m, Looks(fl, h, m), NEW name, Versions(fl, h, m, name) = {}
  PROVE  StoredOf(fl, name) = Absent
<1>1. fl \in Flashes /\ h \in BothHalves /\ InUse(fl, h) /\ Reads(fl, h, m)
  BY DEF Looks
<1>2. VersionsIn(fl, h, name) = {}
  BY <1>1, VersionsAre
<1>3. StoredOf(fl, name) = Newest(fl, h, name)
  BY <1>1, InUseFound, Zenon DEF StoredOf
<1> QED BY <1>2, <1>3, Zenon DEF Newest

\* Without a half in use nothing is.
LEMMA NothingStored ==
  ASSUME NEW fl, fl[0].valid # USED, fl[HALF_SIZE].valid # USED, NEW name
  PROVE  StoredOf(fl, name) = Absent
<1>1. ValidsOf(fl) = {}
  BY Halves DEF ValidsOf, FIRST_HALF, SECOND_HALF
<1> QED BY <1>1 DEF StoredOf

\* Two flashes with the same versions of a file and the same data of each store the same.
SameData(fl, gl, s) == \A k \in 1 .. S : gl[s + k - 1] = fl[s + k - 1]

\* Where versions and their data stay, so does what is stored.
LEMMA StoredSame ==
  ASSUME NEW fl, NEW h, NEW m, Looks(fl, h, m), NEW gl, NEW m2, Looks(gl, h, m2), NEW name,
         Versions(gl, h, m2, name) = Versions(fl, h, m, name),
         \A n \in Versions(fl, h, m, name) : /\ Starts(gl, h, n) = Starts(fl, h, n)
                                             /\ SameData(fl, gl, Starts(fl, h, n))
  PROVE  StoredOf(gl, name) = StoredOf(fl, name)
<1> DEFINE V == Versions(fl, h, m, name)
<1>1. CASE V = {}
  BY <1>1, NoneIs
<1>2. CASE V # {}
  <2>1. V \subseteq 0 .. m /\ m \in Int
    BY DEF Versions, UsedIn, Looks, Reads
  <2>2. PICK q \in V : \A n \in V : n <= q
    <3> HIDE DEF V
    <3> QED BY <2>1, <1>2, MaxIs
  <2>3. StoredOf(fl, name) = DataAt(fl, Starts(fl, h, q))
    BY <2>2, NewestIs
  <2>4. StoredOf(gl, name) = DataAt(gl, Starts(gl, h, q))
    BY <2>2, NewestIs
  <2>5. DataAt(gl, Starts(fl, h, q)) = DataAt(fl, Starts(fl, h, q))
    BY DEF SameData, DataAt
  <2> QED BY <2>2, <2>3, <2>4, <2>5
<1> QED BY <1>1, <1>2

\* A good half has its headers and then a blank cell,
LEMMA GoodReads ==
  ASSUME NEW fl \in Flashes, NEW h \in BothHalves, NEW m, HeadersGood(fl, h, m),
         m \in 0 .. HALF_SIZE - 2, Cell(fl, h, m + 1) = Blank
  PROVE  Reads(fl, h, m)
<1>1. \A n \in 1 .. m : Cell(fl, h, n) # Blank
  BY DEF HeadersGood, IsHeader
<1>2. \A n \in UsedIn(fl, h, m) : Cell(fl, h, n).length = S
  BY DEF HeadersGood, IsHeader, IsPhantom, UsedIn, USED, DELETED
<1> QED BY <1>1, <1>2 DEF Reads

\* and if it is in use it is the one that is read.
LEMMA GoodLooks ==
  ASSUME NEW fl \in Flashes, NEW h \in BothHalves, NEW m, HalfGood(fl, h, m), InUse(fl, h)
  PROVE  Looks(fl, h, m)
<1>1. m \in 0 .. HALF_SIZE - 2 /\ Cell(fl, h, m + 1) = Blank
  BY HalfFacts
<1> QED BY <1>1, GoodReads DEF HalfGood, Looks

\* The data of a used header lies above the headers, in its half.
LEMMA DataPlace ==
  ASSUME NEW fl \in Flashes, NEW h \in BothHalves, NEW m, HalfGood(fl, h, m), NEW n \in UsedIn(fl, h, m)
  PROVE  /\ n \in 1 .. m /\ Starts(fl, h, n) \in Int /\ Starts(fl, h, n) > HalfStart(h) + m + 1
         /\ Starts(fl, h, n) + S <= HalfStart(h) + HALF_SIZE
         /\ HalfStart(h) \in Nat /\ m \in Nat /\ S \in Nat /\ HALF_SIZE \in Nat
         /\ \A k \in 1 .. S : Starts(fl, h, n) + k - 1 \in Addresses
<1>1. /\ HALF_SIZE \in Nat /\ S \in Nat /\ HalfStart(h) \in Nat /\ HalfStart(h) + HALF_SIZE < FlashSize
      /\ Addresses = 0 .. FlashSize - 1 /\ FlashSize \in Nat
  BY Geometry, Halves, SizeFits
<1>2. m \in 0 .. HALF_SIZE - 2 /\ n \in 1 .. m
  BY HalfFacts, UsedAre
<1>3. Cell(fl, h, n).length = S /\ Starts(fl, h, n) > HalfStart(h) + m + 1
  BY HalfFacts
<1>4. Starts(fl, h, n) \in Int
  BY <1>1, <1>2, StartRule
<1>5. Starts(fl, h, n) + Cell(fl, h, n).length <= Starts(fl, h, 0)
  <2>1. 0 \in 0 .. HALF_SIZE - 1 /\ n \in 0 .. HALF_SIZE - 1 /\ 0 < n
    BY <1>1, <1>2
  <2> QED BY <2>1, StartsDescend
<1>6. Starts(fl, h, 0) = HalfStart(h) + HALF_SIZE
  BY StartRule
<1> QED BY <1>1, <1>2, <1>3, <1>4, <1>5, <1>6

AboveSame(fl, gl, x) == \A a \in Addresses : a > x => gl[a] = fl[a]

\* Headers may change where the versions of a file do not.
LEMMA HeadersChanged ==
  ASSUME NEW fl \in Flashes, NEW gl \in Flashes, NEW h \in BothHalves, NEW m, NEW m2,
         HalfGood(fl, h, m), InUse(fl, h), HalfGood(gl, h, m2), InUse(gl, h),
         AboveSame(fl, gl, HalfStart(h) + m + 1),
         \A n \in 0 .. m : Starts(gl, h, n) = Starts(fl, h, n),
         NEW name, Versions(gl, h, m2, name) = Versions(fl, h, m, name)
  PROVE  StoredOf(gl, name) = StoredOf(fl, name)
<1>1. Looks(fl, h, m) /\ Looks(gl, h, m2)
  BY GoodLooks
<1>2. ASSUME NEW n \in Versions(fl, h, m, name)
      PROVE  Starts(gl, h, n) = Starts(fl, h, n) /\ SameData(fl, gl, Starts(fl, h, n))
  <2>1. n \in UsedIn(fl, h, m)
    BY DEF Versions
  <2>2. /\ n \in 1 .. m /\ Starts(fl, h, n) \in Int /\ Starts(fl, h, n) > HalfStart(h) + m + 1
        /\ HalfStart(h) \in Nat /\ m \in Nat /\ S \in Nat
        /\ \A k \in 1 .. S : Starts(fl, h, n) + k - 1 \in Addresses
    BY <2>1, DataPlace
  <2>3. Starts(gl, h, n) = Starts(fl, h, n)
    BY <2>2
  <2>4. \A k \in 1 .. S : Starts(fl, h, n) + k - 1 > HalfStart(h) + m + 1
    BY <2>2
  <2>5. SameData(fl, gl, Starts(fl, h, n))
    BY <2>2, <2>4 DEF AboveSame, SameData
  <2> QED BY <2>3, <2>5
<1> QED BY <1>1, <1>2, StoredSame

\* The USED headers and their names are the versions.
LEMMA VersionsSame ==
  ASSUME NEW fl, NEW gl, NEW h, NEW m, NEW m2, NamesKept(fl, gl, h, m),
         UsedIn(gl, h, m2) = UsedIn(fl, h, m)
  PROVE  \A name : Versions(gl, h, m2, name) = Versions(fl, h, m, name)
BY DEF Versions, NamesKept, UsedIn

\* Nothing is stored differently where the half in use stays as it is.
LEMMA HalfUntouched ==
  ASSUME NEW fl \in Flashes, NEW gl \in Flashes, NEW h \in BothHalves, NEW m, HalfGood(fl, h, m),
         InUse(fl, h), InUse(gl, h), \A n \in 1 .. HALF_SIZE - 1 : Cell(gl, h, n) = Cell(fl, h, n),
         NEW name
  PROVE  StoredOf(gl, name) = StoredOf(fl, name)
<1>1. /\ HalfGood(gl, h, m) /\ \A n \in 0 .. m : Starts(gl, h, n) = Starts(fl, h, n)
      /\ \A n \in 1 .. m : Cell(gl, h, n) = Cell(fl, h, n)
      /\ UsedIn(gl, h, m) = UsedIn(fl, h, m)
  BY HalfSame
<1>2. Looks(fl, h, m) /\ Looks(gl, h, m)
  BY <1>1, GoodLooks
<1>3. Versions(gl, h, m, name) = Versions(fl, h, m, name)
  BY <1>1, VersionsSame DEF NamesKept
<1>4. ASSUME NEW n \in Versions(fl, h, m, name)
      PROVE  Starts(gl, h, n) = Starts(fl, h, n) /\ SameData(fl, gl, Starts(fl, h, n))
  <2>1. n \in UsedIn(fl, h, m)
    BY DEF Versions
  <2>2. /\ n \in 1 .. m /\ Starts(fl, h, n) \in Int /\ Starts(fl, h, n) > HalfStart(h) + m + 1
        /\ Starts(fl, h, n) + S <= HalfStart(h) + HALF_SIZE
        /\ HalfStart(h) \in Nat /\ m \in Nat /\ S \in Nat /\ HALF_SIZE \in Nat
    BY <2>1, DataPlace
  <2>3. Starts(gl, h, n) = Starts(fl, h, n)
    BY <1>1, <2>2
  <2>4. ASSUME NEW k \in 1 .. S
        PROVE  gl[Starts(fl, h, n) + k - 1] = fl[Starts(fl, h, n) + k - 1]
    <3> DEFINE r == Starts(fl, h, n) + k - 1 - HalfStart(h)
    <3>1. r \in 1 .. HALF_SIZE - 1 /\ HalfStart(h) + r = Starts(fl, h, n) + k - 1
      BY <2>2
    <3> HIDE DEF r
    <3> QED BY <3>1 DEF Cell
  <2> QED BY <2>3, <2>4 DEF SameData
<1> QED BY <1>2, <1>3, <1>4, StoredSame

-----------------------------------------------------------------------------
(***************************************************************************)
(* Steps that change no file.                                              *)
(***************************************************************************)
SameStored == \A name : StoredOf(flash', name) = StoredOf(flash, name)

\* fs_init erases a device that stores nothing.
LEMMA InitErasesStored ==
  ASSUME TypeOK, InitErases
  PROVE  SameStored
<1>1. /\ flash[0].valid # USED /\ flash[HALF_SIZE].valid # USED
      /\ flash' = [a \in Addresses |-> Blank]
  BY DEF InitErases
<1>2. 0 \in Addresses /\ HALF_SIZE \in Addresses /\ Blank.valid # USED
  BY Geometry, StatusIs DEF UNUSED, USED
<1>3. flash'[0].valid # USED /\ flash'[HALF_SIZE].valid # USED
  BY <1>1, <1>2
<1> QED BY <1>1, <1>3, NothingStored DEF SameStored

\* A first half without headers stores nothing.
LEMMA InitFormatsStored ==
  ASSUME FilesInv, InitFormats
  PROVE  SameStored
<1>1. TypeOK /\ FormatGood /\ flash' = Written(HalfStart(0), <<Valid(USED)>>)
  BY DEF FilesInv, Phases, InitFormats, Step, changeHalfStatus, FIRST_HALF
<1>2. /\ 0 \in BothHalves /\ HalfStart(0) = 0 /\ 0 \in Addresses /\ HALF_SIZE \in Addresses
      /\ HalfStart(0) + 1 \in Nat
  BY Halves, Geometry
<1>3. /\ flash \in Flashes /\ flash[0] = Blank /\ flash[HALF_SIZE] = Blank /\ Blank.valid # USED
  BY <1>1, <1>2, HalfIs, StatusIs DEF FormatGood, UNUSED, USED
<1>4. Puts(flash, flash', 0, Valid(USED))
  BY <1>1, <1>2, <1>3, StatusWritten
<1>5. /\ flash' \in Flashes /\ flash'[0].valid = USED
      /\ \A a \in Addresses : a # 0 => flash'[a] = Blank
  <2>1. USED \in 0 .. 3
    BY DEF USED
  <2> QED BY <2>1, <1>1, <1>4, StatusIs DEF Puts, FormatGood
<1>6. BlankFrom(flash', HalfStart(0) + 1, HalfStart(0) + HALF_SIZE)
  BY <1>2, <1>5, Geometry DEF BlankFrom
<1>7. HalfGood(flash', 0, 0) /\ UsedIn(flash', 0, 0) = {}
  BY <1>2, <1>5, <1>6, EmptyHalf
<1>8. InUse(flash', 0)
  BY <1>2, <1>5 DEF InUse, SECOND_HALF
<1>9. Looks(flash', 0, 0)
  BY <1>2, <1>5, <1>7, <1>8, GoodLooks
<1>10. \A name : Versions(flash', 0, 0, name) = {}
  BY <1>7 DEF Versions
<1>11. \A name : StoredOf(flash', name) = Absent
  BY <1>9, <1>10, NoneIs
<1>12. \A name : StoredOf(flash, name) = Absent
  BY <1>3, NothingStored
<1> QED BY <1>11, <1>12 DEF SameStored

\* Only the cell at next changes when a header is read.
LEMMA RestoreHeaderStored ==
  ASSUME FilesInv, ~BeyondIsBlank, RestoreHeader
  PROVE  SameStored
<1>1. TypeOK /\ RestoreGood
  BY DEF FilesInv, Phases, RestoreHeader, Step
<1>2. PICK m \in 0 .. HALF_SIZE : Restoring(m)
  BY <1>1 DEF RestoreGood
<1> DEFINE q == M + 1
<1>3. /\ half \in BothHalves /\ flash \in Flashes /\ HalfStart(half) \in Nat
      /\ HalfGood(flash, half, m) /\ InUse(flash, half)
      /\ m \in 0 .. HALF_SIZE - 2 /\ M \in 0 .. m /\ next = HalfStart(half) + q
      /\ q \in 1 .. HALF_SIZE - 1 /\ next \in Addresses
      /\ flash[next] = Cell(flash, half, q)
      /\ flash[next] = Blank <=> M = m
  BY <1>1, <1>2, RestoringFacts DEF RestoreGood
<1>4. /\ flash' = IF flash[next].valid = UNUSED THEN Written(next, <<Valid(DELETED)>>) ELSE flash
      /\ ~LastHeader
  BY DEF RestoreHeader, AddHeader
<1>5. AboveSame(flash, flash', HalfStart(half) + m + 1)
  <2>1. Marks(flash, Written(next, <<Valid(DELETED)>>), next, DELETED)
    BY <1>3, StatusWritten
  <2>2. \A a \in Addresses : a # next => flash'[a] = flash[a]
    BY <2>1, <1>4 DEF Marks
  <2>3. next <= HalfStart(half) + m + 1 /\ \A a \in Addresses : a \in Int
    BY <1>3, Geometry
  <2> HIDE DEF q
  <2>4. \A a \in Addresses : a > HalfStart(half) + m + 1 => a # next
    BY <2>3, <1>3, Geometry
  <2> QED BY <2>2, <2>4 DEF AboveSame
<1>6. CASE M # m
  <2>1. q \in 1 .. m
    BY <1>3, <1>6
  <2>2. HeaderPassed(flash', m, q)
    <3>1. flash' = IF Cell(flash, half, q).valid = UNUSED
                     THEN Written(HalfStart(half) + q, <<Valid(DELETED)>>) ELSE flash
      BY <1>3, <1>4
    <3> QED BY <3>1, <2>1, <1>1, <1>3, NextPassed
  <2>3. /\ flash' \in Flashes /\ InUse(flash', half) /\ HalfGood(flash', half, m)
        /\ \A n \in 0 .. m : Starts(flash', half, n) = Starts(flash, half, n)
        /\ NamesKept(flash, flash', half, m)
        /\ UsedIn(flash', half, m) = UsedIn(flash, half, m)
    BY <2>2 DEF HeaderPassed
  <2>4. \A name : Versions(flash', half, m, name) = Versions(flash, half, m, name)
    BY <2>3, VersionsSame
  <2>5. ASSUME NEW name PROVE StoredOf(flash', name) = StoredOf(flash, name)
    BY <2>3, <2>4, <1>3, <1>5, HeadersChanged
  <2> QED BY <2>5 DEF SameStored
<1>7. CASE M = m
  <2>0. q = m + 1 /\ flash[next] = Blank /\ m \in Nat
    BY <1>3, <1>7
  <2> HIDE DEF q
  <2>1. flash' = Written(next, <<Valid(DELETED)>>)
    BY <2>0, <1>4, StatusIs
  <2>2. PutsAt(flash, flash', half, q, Valid(DELETED))
    BY <2>0, <2>1, <1>3, StatusWritten DEF PutsAt
  <2>3. Valid(DELETED).valid = DELETED /\ Valid(DELETED).length = F
    <3>1. DELETED \in 0 .. 3
      BY DEF DELETED
    <3> QED BY <3>1, StatusIs
  <2>4. BatchFull(m)
    <3> DEFINE j == IF m = 0 THEN 0 ELSE ((m - 1) % BatchSize) + 1
    <3>1. i = j /\ BatchOver
      BY <2>0, <1>2, <1>4, <1>7 DEF Restoring, LastHeader
    <3>2. j = BatchSize => BatchFull(m)
      BY <2>0, BatchCount
    <3> HIDE DEF j
    <3> QED BY <3>1, <3>2 DEF BatchOver
  <2>5. ASSUME NEW c, c.valid = DELETED, c.length = F, PutsAt(flash, flash', half, q, c)
        PROVE  /\ HalfGood(flash', half, m + 1)
               /\ \A n \in 0 .. m : Starts(flash', half, n) = Starts(flash, half, n)
               /\ \A n \in 1 .. m : Cell(flash', half, n) = Cell(flash, half, n)
               /\ UsedIn(flash', half, m + 1) = UsedIn(flash, half, m)
    BY <2>0, <2>4, <2>5, <1>3, PhantomAppended
  <2>6. /\ HalfGood(flash', half, m + 1)
        /\ \A n \in 0 .. m : Starts(flash', half, n) = Starts(flash, half, n)
        /\ \A n \in 1 .. m : Cell(flash', half, n) = Cell(flash, half, n)
        /\ UsedIn(flash', half, m + 1) = UsedIn(flash, half, m)
    BY <2>2, <2>3, <2>5
  <2>7. flash' \in Flashes /\ InUse(flash', half)
    <3>1. flash' \in Flashes
      BY <2>2 DEF PutsAt, Puts
    <3>2. InUse(flash', half)
      BY <1>3, <2>2, UseKept
    <3> QED BY <3>1, <3>2
  <2>8. \A name : Versions(flash', half, m + 1, name) = Versions(flash, half, m, name)
    BY <2>6, VersionsSame DEF NamesKept
  <2>9. ASSUME NEW name PROVE StoredOf(flash', name) = StoredOf(flash, name)
    BY <2>6, <2>7, <2>8, <1>3, <1>5, HeadersChanged
  <2> QED BY <2>9 DEF SameStored
<1> QED BY <1>6, <1>7

\* What is written to the other half, which is not in use, stores nothing.
LEMMA OtherHalfOnly ==
  ASSUME NEW fl \in Flashes, NEW gl, NEW h \in BothHalves,
         \A a \in Addresses : ~(HalfStart(1 - h) <= a /\ a < HalfStart(1 - h) + HALF_SIZE) => gl[a] = fl[a]
  PROVE  \A n \in 0 .. HALF_SIZE - 1 : Cell(gl, h, n) = Cell(fl, h, n)
<1> TAKE n \in 0 .. HALF_SIZE - 1
<1>1. HalfStart(h) + n \in Addresses
  BY CellsAre
<1>2. ~(HalfStart(1 - h) <= HalfStart(h) + n /\ HalfStart(h) + n < HalfStart(1 - h) + HALF_SIZE)
  <2>1. /\ HalfStart(h) \in Nat /\ HalfStart(1 - h) \in Nat /\ HALF_SIZE \in Nat
        /\ \/ HalfStart(h) = HalfStart(1 - h) + HALF_SIZE
           \/ HalfStart(1 - h) = HalfStart(h) + HALF_SIZE
    BY Halves, Geometry
  <2> QED BY <2>1
<1> QED BY <1>1, <1>2 DEF Cell

\* While the other half is filled.
LEMMA MovingStored ==
  ASSUME TypeOK, Moving, Moving', flash' \in Flashes, half' = half,
         \A n \in 0 .. HALF_SIZE - 1 : Cell(flash', half, n) = Cell(flash, half, n)
  PROVE  SameStored
<1>1. half \in BothHalves /\ flash \in Flashes /\ InUse(flash, half) /\ HalfGood(flash, half, M)
  BY HalfIs DEF Moving, Settled
<1>2. InUse(flash', half)
  BY DEF Moving, Settled
<1>3. \A n \in 1 .. HALF_SIZE - 1 : Cell(flash', half, n) = Cell(flash, half, n)
  <2>1. \A n \in 1 .. HALF_SIZE - 1 : n \in 0 .. HALF_SIZE - 1
    BY Geometry
  <2> QED BY <2>1
<1>4. ASSUME NEW name PROVE StoredOf(flash', name) = StoredOf(flash, name)
  BY <1>1, <1>2, <1>3, HalfUntouched
<1> QED BY <1>4 DEF SameStored

\* The half not in use can be erased,
LEMMA EraseNextStored ==
  ASSUME FilesInv, FilesInv', EraseNext
  PROVE  SameStored
<1>1. /\ TypeOK /\ EraseNextGood /\ half' = half
      /\ flash' = Erased(OtherHalf * BlocksPerHalf + i)
      /\ pc' \in {"copyData", "eraseNext"}
  BY DEF FilesInv, Phases, EraseNext, EraseHalf, Step, call, table
<1>2. Moving /\ i \in 0 .. BlocksPerHalf - 1
  BY <1>1 DEF EraseNextGood
<1>3. Moving'
  BY <1>1 DEF FilesInv, Phases, EraseNextGood, CopyGood
<1>4. /\ half \in BothHalves /\ OtherHalf \in BothHalves /\ OtherHalf = 1 - half
      /\ flash \in Flashes /\ HalfStart(OtherHalf) \in Nat
  BY <1>1, OtherIs
<1> DEFINE x == i * BlockSize
           y == (i + 1) * BlockSize
<1>5. /\ flash' \in Flashes
      /\ \A a \in Addresses : ~(HalfStart(OtherHalf) + x <= a /\ a < HalfStart(OtherHalf) + y) => flash'[a] = flash[a]
      /\ 0 <= x /\ y <= HALF_SIZE /\ x \in Nat /\ y = x + BlockSize
  BY <1>1, <1>2, <1>4, BlockErased
<1> HIDE DEF x, y
<1>6. \A a \in Addresses :
        ~(HalfStart(1 - half) <= a /\ a < HalfStart(1 - half) + HALF_SIZE) => flash'[a] = flash[a]
  BY <1>4, <1>5, Geometry, GeometryAssumption
<1>7. \A n \in 0 .. HALF_SIZE - 1 : Cell(flash', half, n) = Cell(flash, half, n)
  BY <1>4, <1>6, OtherHalfOnly
<1> QED BY <1>1, <1>2, <1>3, <1>5, <1>7, MovingStored

\* The n-th copy, and the data that it is of.
CopyStart(n) == OtherStart + DataEnd(S, n, 0)
CopiedFile(n) == \A k \in 1 .. S : flash[CopyStart(n) + k - 1] = flash[files[n - 1].start + k - 1]

\* changehalf writes the data of the next file below that of the ones before.
LEMMA CopyDataFacts ==
  ASSUME FilesInv, CopyData
  PROVE  LET x == CopyStart(i + 1) IN
         /\ TypeOK /\ Current /\ Moving /\ i \in 0 .. lastFile - 1
         /\ flash' = Written(x, Data(files[i])) /\ flash' \in Flashes
         /\ x \in Int /\ x > OtherStart + i + 2 /\ x + S <= OtherStart + HALF_SIZE
         /\ BlankFrom(flash, x, x + S)
         /\ \A a \in Addresses : ~(x <= a /\ a < x + S) => flash'[a] = flash[a]
         /\ files[i].length = S /\ Len(Data(files[i])) = S /\ \A j \in 1 .. S : Data(files[i])[j] \in Headers
<1> DEFINE x == copied[2] - Copied.length
<1>1. /\ TypeOK /\ CopyGood /\ pc = "copyData" /\ i < lastFile /\ flash' = Written(x, Data(Copied))
  BY DEF FilesInv, Phases, CopyData, Step
<1>2. /\ Moving /\ i \in 0 .. lastFile
      /\ copied = <<OtherStart + 1 + i, Starts(flash, OtherHalf, i) - 0>>
      /\ \A n \in 0 .. i : Starts(flash, OtherHalf, n) = OtherStart + DataEnd(S, n, 0)
      /\ BlankFrom(flash, OtherStart + 1 + i, copied[2])
  BY <1>1 DEF CopyGood
<1>3. /\ half \in BothHalves /\ OtherHalf \in BothHalves /\ OtherHalf = 1 - half
      /\ flash \in Flashes /\ OtherStart = HalfStart(OtherHalf) /\ OtherStart \in Nat
      /\ OtherStart + HALF_SIZE < FlashSize
  BY <1>1, OtherIs
<1>4. Current
  BY <1>2, SettledIs DEF Moving
<1>5. lastFile \in Nat /\ i \in 0 .. lastFile - 1
  BY <1>1, <1>2, Geometry DEF TypeOK
<1>6. DataEnd(S, i + 1, 0) > (i + 1) + 1 /\ i + 1 \in 0 .. HALF_SIZE - 2
      /\ DataEnd(S, i, 0) \in Int /\ DataEnd(S, i + 1, 0) = DataEnd(S, i, 0) - S
  <2>1. i + 1 \in 0 .. lastFile /\ i \in Int /\ 0 \in Int
    BY <1>5
  <2>2. DataEnd(S, i + 1, 0) > (i + 1) + 1 /\ i + 1 \in 0 .. HALF_SIZE - 2
    BY <2>1, <1>1, <1>4, CopyFits
  <2> QED BY <2>1, <2>2, DataEnds
<1>7. S \in 1 .. F /\ S \in Int /\ 1 <= S
  BY SizeFits, Geometry
<1>8. /\ Copied = files[i] /\ Copied.length = S /\ Len(Data(Copied)) = S
      /\ \A j \in 1 .. S : Data(Copied)[j] \in Headers
  <2>1. Copied = files[i]
    BY DEF Copied
  <2>2. Copied = [valid |-> USED, name |-> Copied.name, length |-> S, header |-> Copied.header,
                  start |-> Copied.start]
    BY <2>1, <1>1, <1>4, <1>5, CopiedIs
  <2>3. Len(Data(Copied)) = S /\ \A j \in 1 .. S : Data(Copied)[j] \in Headers
    BY <2>1, <1>1, <1>4, <1>5, CopiedIs
  <2> HIDE DEF Copied
  <2> QED BY <2>1, <2>2, <2>3
<1>9. x = CopyStart(i + 1) /\ x \in Int /\ copied[2] = x + S /\ copied[2] <= OtherStart + HALF_SIZE
  <2>1. i \in 0 .. i
    BY <1>5
  <2>2. Starts(flash, OtherHalf, i) = OtherStart + DataEnd(S, i, 0)
    BY <2>1, <1>2
  <2>3. copied[2] = OtherStart + DataEnd(S, i, 0)
    BY <2>2, <1>2, <1>3, <1>6
  <2>4. x = copied[2] - S
    BY <1>8
  <2>5. Starts(flash, OtherHalf, i) <= OtherStart + HALF_SIZE
    <3>1. 0 \in 0 .. HALF_SIZE - 1 /\ i \in 0 .. HALF_SIZE - 1 /\ 0 <= i
      BY <1>5, <1>6, Geometry
    <3>2. Starts(flash, OtherHalf, i) <= Starts(flash, OtherHalf, 0)
      BY <3>1, <1>3, StartsDescend
    <3>3. Starts(flash, OtherHalf, 0) = OtherStart + HALF_SIZE
      BY <1>3, StartRule
    <3> QED BY <3>2, <3>3
  <2> HIDE DEF x
  <2>6. x = OtherStart + DataEnd(S, i + 1, 0) /\ x \in Int /\ copied[2] = x + S
    BY <2>3, <2>4, <1>3, <1>6, <1>7
  <2> QED BY <2>2, <2>3, <2>5, <2>6 DEF CopyStart
<1> HIDE DEF x
<1>10. x > OtherStart + i + 2
  BY <1>3, <1>5, <1>6, <1>7, <1>9 DEF CopyStart
<1>11. /\ flash' \in Flashes
       /\ \A a \in Addresses : ~(x <= a /\ a < x + S) => flash'[a] = flash[a]
  <2>1. S \in Nat
    BY <1>7, Geometry
  <2> QED BY <2>1, <1>1, <1>3, <1>8, <1>9, CellsWritten
<1>12. BlankFrom(flash, x, x + S)
  <2>1. OtherStart \in Int /\ i \in Int /\ x \in Int /\ S \in Int /\ \A a \in Addresses : a \in Int
    BY <1>3, <1>5, <1>7, <1>9, Geometry
  <2>2. \A a, b, c, d, e \in Int : a > b + c + 2 /\ a <= d /\ d < a + e => b + 1 + c <= d
    OBVIOUS
  <2>3. \A a \in Addresses : x <= a /\ a < x + S => OtherStart + 1 + i <= a
    BY <2>1, <2>2, <1>10, Zenon
  <2>4. \A a \in Addresses : x <= a /\ a < x + S => a < copied[2]
    BY <1>9, Zenon
  <2> QED BY <2>3, <2>4, <1>2 DEF BlankFrom
<1> QED BY <1>1, <1>2, <1>4, <1>5, <1>8, <1>9, <1>10, <1>11, <1>12

\* and written to.
LEMMA CopyDataStored ==
  ASSUME FilesInv, FilesInv', CopyData
  PROVE  SameStored /\ \A n \in 0 .. HALF_SIZE - 1 : Cell(flash', half, n) = Cell(flash, half, n)
<1> DEFINE x == CopyStart(i + 1)
<1>1. /\ TypeOK /\ Moving /\ i \in 0 .. lastFile - 1 /\ flash' \in Flashes
      /\ x \in Int /\ x > OtherStart + i + 2 /\ x + S <= OtherStart + HALF_SIZE
      /\ \A a \in Addresses : ~(x <= a /\ a < x + S) => flash'[a] = flash[a]
  BY CopyDataFacts
<1>2. pc' = "copyHeader" /\ half' = half
  BY DEF CopyData, Step, table
<1>3. Moving'
  BY <1>2 DEF FilesInv, Phases, CopyGood
<1>4. /\ half \in BothHalves /\ OtherHalf = 1 - half /\ flash \in Flashes
      /\ OtherStart = HalfStart(OtherHalf) /\ OtherStart \in Nat /\ lastFile \in Nat
  <2>1. lastFile \in Nat
    BY <1>1, Geometry DEF TypeOK
  <2> QED BY <2>1, <1>1, OtherIs
<1> HIDE DEF x
<1>5. \A a \in Addresses :
        ~(HalfStart(1 - half) <= a /\ a < HalfStart(1 - half) + HALF_SIZE) => flash'[a] = flash[a]
  <2>1. OtherStart <= x
    BY <1>1, <1>4
  <2>2. S \in Int /\ HALF_SIZE \in Int /\ \A a \in Addresses : a \in Int
    BY SizeFits, Geometry
  <2>3. \A a \in Addresses : x <= a /\ a < x + S => OtherStart <= a /\ a < OtherStart + HALF_SIZE
    BY <1>1, <1>4, <2>1, <2>2
  <2> QED BY <2>3, <1>1, <1>4
<1>6. \A n \in 0 .. HALF_SIZE - 1 : Cell(flash', half, n) = Cell(flash, half, n)
  BY <1>4, <1>5, OtherHalfOnly
<1> QED BY <1>1, <1>2, <1>3, <1>6, MovingStored

\* and then its header, above those of the files before.
LEMMA CopyHeaderFacts ==
  ASSUME FilesInv, CopyHeader
  PROVE  /\ TypeOK /\ Current /\ Moving /\ i \in 0 .. lastFile - 1 /\ half' = half
         /\ flash' \in Flashes /\ i + 1 \in 0 .. HALF_SIZE - 1
         /\ \A a \in Addresses : a # OtherStart + (i + 1) => flash'[a] = flash[a]
         /\ \A n \in 0 .. HALF_SIZE - 1 : Cell(flash', half, n) = Cell(flash, half, n)
<1> DEFINE c == [valid |-> Copied.valid, name |-> Copied.name, length |-> Copied.length]
<1>1. /\ TypeOK /\ CopyGood /\ pc = "copyHeader" /\ half' = half
      /\ flash' = Written(copied[1], <<c>>)
  BY DEF FilesInv, Phases, CopyHeader, Step, table
<1>2. /\ Moving /\ i \in 0 .. lastFile /\ i < lastFile
      /\ copied = <<OtherStart + 1 + i, Starts(flash, OtherHalf, i) - S>>
      /\ \A n \in 0 .. i : Starts(flash, OtherHalf, n) = OtherStart + DataEnd(S, n, 0)
      /\ BlankFrom(flash, OtherStart + 1 + i, copied[2])
  BY <1>1 DEF CopyGood
<1>3. /\ half \in BothHalves /\ OtherHalf \in BothHalves /\ OtherHalf = 1 - half /\ half = 1 - OtherHalf
      /\ flash \in Flashes /\ OtherStart = HalfStart(OtherHalf) /\ OtherStart \in Nat
      /\ OtherStart + HALF_SIZE < FlashSize
  BY <1>1, OtherIs
<1>4. Current
  BY <1>2, SettledIs DEF Moving
<1>5. lastFile \in Nat /\ i \in 0 .. lastFile - 1
  BY <1>1, <1>2, Geometry DEF TypeOK
<1>6. DataEnd(S, i + 1, 0) > (i + 1) + 1 /\ i + 1 \in 0 .. HALF_SIZE - 2
      /\ DataEnd(S, i, 0) \in Int /\ DataEnd(S, i + 1, 0) = DataEnd(S, i, 0) - S
      /\ S \in 1 .. F /\ S \in Int /\ 1 <= S
  <2>1. i + 1 \in 0 .. lastFile /\ i \in Int /\ 0 \in Int
    BY <1>5
  <2>2. DataEnd(S, i + 1, 0) > (i + 1) + 1 /\ i + 1 \in 0 .. HALF_SIZE - 2
    BY <2>1, <1>1, <1>4, CopyFits
  <2>3. S \in 1 .. F /\ S \in Int /\ 1 <= S
    BY SizeFits, Geometry
  <2>4. DataEnd(S, i, 0) \in Int /\ DataEnd(S, i + 1, 0) = DataEnd(S, i, 0) - S
    BY <2>1, DataEnds
  <2> QED BY <2>2, <2>3, <2>4
<1>7. c \in Headers
  <2>1. Copied = files[i]
    BY DEF Copied
  <2>2. Copied = [valid |-> USED, name |-> Copied.name, length |-> S, header |-> Copied.header,
                  start |-> Copied.start]
    BY <2>1, <1>1, <1>4, <1>5, CopiedIs
  <2>3. Copied.name \in Names
    BY <2>1, <1>1, <1>4, <1>5, CopiedIs
  <2> HIDE DEF Copied
  <2>4. Copied.valid = USED /\ Copied.length = S
    BY <2>2
  <2>5. c = [valid |-> USED, name |-> Copied.name, length |-> S]
    BY <2>4
  <2>6. S \in 0 .. FieldSize - 1 /\ USED \in 0 .. 3 /\ Copied.name \in Fields
    BY <2>3, <1>6, Geometry DEF USED, Fields
  <2> QED BY <2>5, <2>6 DEF Headers
<1> HIDE DEF c
<1>8. /\ Starts(flash, OtherHalf, i) = OtherStart + DataEnd(S, i, 0)
      /\ copied[2] = OtherStart + DataEnd(S, i + 1, 0) /\ copied[1] = OtherStart + 1 + i
  <2>1. i \in 0 .. i
    BY <1>5
  <2>2. Starts(flash, OtherHalf, i) = OtherStart + DataEnd(S, i, 0)
    BY <2>1, <1>2
  <2> QED BY <2>2, <1>2, <1>3, <1>6
<1> DEFINE k == i + 1
<1>9. copied[1] \in Addresses /\ copied[1] = OtherStart + k
  <2>1. i \in Nat /\ i + 1 < HALF_SIZE /\ HALF_SIZE \in Int /\ FlashSize \in Int
    BY <1>5, <1>6, Geometry
  <2>2. OtherStart + 1 + i = OtherStart + (i + 1) /\ 0 <= OtherStart + 1 + i /\ OtherStart + 1 + i < FlashSize
        /\ OtherStart + 1 + i \in Int
    BY <2>1, <1>3
  <2> QED BY <2>1, <2>2, <1>8, Geometry
<1>10. PutsAt(flash, flash', OtherHalf, k, c)
  <2>1. flash[copied[1]] = Blank
    <3>1. OtherStart + 1 + i <= copied[1] /\ copied[1] < copied[2]
      BY <1>3, <1>5, <1>6, <1>8
    <3> QED BY <3>1, <1>9, <1>2 DEF BlankFrom
  <2>2. Puts(flash, flash', copied[1], c)
    BY <2>1, <1>1, <1>3, <1>7, <1>9, OneWritten
  <2> QED BY <2>2, <1>3, <1>9 DEF PutsAt
<1>11. k \in 0 .. HALF_SIZE - 1
  BY <1>5, <1>6, Geometry
<1>12. \A a \in Addresses : a # OtherStart + k => flash'[a] = flash[a]
  BY <1>3, <1>10 DEF PutsAt, Puts
<1>13. flash' \in Flashes /\ \A n \in 0 .. HALF_SIZE - 1 : Cell(flash', half, n) = Cell(flash, half, n)
  <2> HIDE DEF k
  <2>1. /\ flash' \in Flashes
        /\ \A n \in 0 .. HALF_SIZE - 1 : Cell(flash', 1 - OtherHalf, n) = Cell(flash, 1 - OtherHalf, n)
    BY <1>3, <1>10, <1>11, PutInHalf
  <2> QED BY <2>1, <1>3
<1> QED BY <1>1, <1>2, <1>4, <1>5, <1>11, <1>12, <1>13

\* No copy is read before the half it is in has its signature.
LEMMA CopyHeaderStored ==
  ASSUME FilesInv, FilesInv', CopyHeader
  PROVE  SameStored
<1>1. /\ TypeOK /\ Moving /\ half' = half /\ flash' \in Flashes
      /\ \A n \in 0 .. HALF_SIZE - 1 : Cell(flash', half, n) = Cell(flash, half, n)
  BY CopyHeaderFacts
<1>2. pc' = "copyData"
  BY DEF CopyHeader, Step
<1>3. Moving'
  BY <1>2 DEF FilesInv, Phases, CopyGood
<1> QED BY <1>1, <1>3, MovingStored

\* What the table says is stored under a name.
LEMMA TableStored ==
  ASSUME TypeOK, Settled
  PROVE  /\ \A k \in 0 .. lastFile - 1 :
              StoredOf(flash, files[k].name) = DataAt(flash, files[k].start)
         /\ \A name : (\A k \in 0 .. lastFile - 1 : files[k].name # name) => StoredOf(flash, name) = Absent
<1> DEFINE m == M
           U == UsedIn(flash, half, m)
<1>1. /\ half \in BothHalves /\ flash \in Flashes /\ m \in 0 .. HALF_SIZE - 2
      /\ InUse(flash, half) /\ HalfGood(flash, half, m) /\ OneOfEach(flash, half, U)
      /\ U \subseteq 1 .. m /\ Entries(flash, files, lastFile, half, U) /\ HalfStart(half) \in Nat
  BY SettledFacts, Halves
<1>2. Current
  BY SettledIs
<1>3. \A name : Versions(flash, half, m, name) = {n \in U : Cell(flash, half, n).name = name}
  BY DEF Versions
<1>4. \A k \in 0 .. lastFile - 1 : \E n \in U : EntryOf(flash, files[k], half, n)
  <2>1. Table(flash, files, lastFile, half, U)
    BY <1>2 DEF Current
  <2> HIDE DEF U, m
  <2> QED BY <2>1, TableForm, Zenon
<1> HIDE DEF U, m
<1>5. Looks(flash, half, m)
  BY <1>1, GoodLooks
<1>6. ASSUME NEW k \in 0 .. lastFile - 1
      PROVE  StoredOf(flash, files[k].name) = DataAt(flash, files[k].start)
  <2>1. PICK q \in U : EntryOf(flash, files[k], half, q)
    BY <1>4
  <2>2. Cell(flash, half, q).name = files[k].name /\ files[k].start = Starts(flash, half, q)
    BY <2>1, Zenon DEF EntryOf
  <2>3. q \in Versions(flash, half, m, files[k].name)
    BY <2>2, <1>3
  <2>4. \A n \in Versions(flash, half, m, files[k].name) : n <= q
    <3>1. \A n \in Versions(flash, half, m, files[k].name) : n = q
      BY <2>2, <1>1, <1>3 DEF OneOfEach
    <3>2. q \in Int
      BY <1>1
    <3> QED BY <3>1, <3>2
  <2>5. \A name : name = files[k].name => StoredOf(flash, name) = DataAt(flash, Starts(flash, half, q))
    BY <2>3, <2>4, <1>5, NewestIs
  <2> QED BY <2>2, <2>5
<1>7. ASSUME NEW name, \A k \in 0 .. lastFile - 1 : files[k].name # name
      PROVE  StoredOf(flash, name) = Absent
  <2>1. ASSUME NEW n \in U PROVE Cell(flash, half, n).name # name
    <3>1. PICK k \in 0 .. lastFile - 1 : files[k].header = HalfStart(half) + n
      BY <1>1, Zenon DEF Entries
    <3>2. PICK o \in U : files[k].header = HalfStart(half) + o /\ files[k].name = Cell(flash, half, o).name
      BY <1>1, Zenon DEF Entries
    <3>3. o = n
      BY <3>1, <3>2, <1>1
    <3> QED BY <3>2, <3>3, <1>7
  <2>2. Versions(flash, half, m, name) = {}
    BY <2>1, <1>3
  <2> QED BY <2>2, <1>5, NoneIs
<1> QED BY <1>6, <1>7

\* The other half once every file is copied: where the copies are, and of what.
Copies(fl, gl, h, tb, l) ==
  \A n \in 1 .. l : /\ Starts(gl, h, n) \in Int
                    /\ \A k \in 1 .. S : gl[Starts(gl, h, n) + k - 1] = fl[tb[n - 1].start + k - 1]

\* A half with a header for each entry of the table stores what the table names.
LEMMA ReplicaStored ==
  ASSUME NEW fl, NEW gl, NEW h, NEW l \in Nat, NEW tb, Looks(gl, h, l), Replica(gl, h, tb, l),
         Copies(fl, gl, h, tb, l), \A j, k \in 0 .. l - 1 : tb[j].name = tb[k].name => j = k
  PROVE  /\ \A k \in 0 .. l - 1 : StoredOf(gl, tb[k].name) = DataAt(fl, tb[k].start)
         /\ \A name : (\A k \in 0 .. l - 1 : tb[k].name # name) => StoredOf(gl, name) = Absent
<1>1. \A n \in 1 .. l : n \in UsedIn(gl, h, l) /\ Cell(gl, h, n).name = tb[n - 1].name
  BY DEF Replica, UsedIn
<1>2. \A name : Versions(gl, h, l, name) = {n \in 1 .. l : tb[n - 1].name = name}
  <2>1. UsedIn(gl, h, l) = 1 .. l
    BY <1>1 DEF UsedIn
  <2> QED BY <2>1, <1>1 DEF Versions
<1>3. \A n \in 1 .. l : n - 1 \in 0 .. l - 1
  OBVIOUS
<1>4. ASSUME NEW k \in 0 .. l - 1 PROVE StoredOf(gl, tb[k].name) = DataAt(fl, tb[k].start)
  <2> DEFINE q == k + 1
  <2>1. q \in 1 .. l /\ q - 1 = k
    OBVIOUS
  <2> HIDE DEF q
  <2>2. q \in Versions(gl, h, l, tb[k].name)
    BY <2>1, <1>2
  <2>3. \A n \in Versions(gl, h, l, tb[k].name) : n <= q
    <3>1. \A n \in Versions(gl, h, l, tb[k].name) : n \in 1 .. l /\ n - 1 = k
      BY <1>2, <1>3
    <3> QED BY <3>1, <2>1
  <2>4. \A name : name = tb[k].name => StoredOf(gl, name) = DataAt(gl, Starts(gl, h, q))
    BY <2>2, <2>3, NewestIs
  <2>5. \A j \in 1 .. S : gl[Starts(gl, h, q) + j - 1] = fl[tb[k].start + j - 1]
    BY <2>1 DEF Copies
  <2>6. DataAt(gl, Starts(gl, h, q)) = DataAt(fl, tb[k].start)
    BY <2>5 DEF DataAt
  <2> QED BY <2>4, <2>6
<1>5. ASSUME NEW name, \A k \in 0 .. l - 1 : tb[k].name # name PROVE StoredOf(gl, name) = Absent
  <2>1. Versions(gl, h, l, name) = {}
    BY <1>2, <1>3, <1>5
  <2> QED BY <2>1, NoneIs
<1> QED BY <1>4, <1>5

\* With the copies in the other half, it stores the same files.
LEMMA CopyStored ==
  ASSUME TypeOK, Settled, NEW gl, NEW h, Looks(gl, h, lastFile), Replica(gl, h, files, lastFile),
         Copies(flash, gl, h, files, lastFile)
  PROVE  \A name : StoredOf(gl, name) = StoredOf(flash, name)
<1>1. Current /\ lastFile \in Nat
  BY SettledIs DEF TypeOK
<1>2. \A j, k \in 0 .. lastFile - 1 : files[j].name = files[k].name => j = k
  BY <1>1, TableNames
<1>3. /\ \A k \in 0 .. lastFile - 1 : StoredOf(gl, files[k].name) = DataAt(flash, files[k].start)
      /\ \A name : (\A k \in 0 .. lastFile - 1 : files[k].name # name) => StoredOf(gl, name) = Absent
  BY <1>1, <1>2, ReplicaStored
<1>4. /\ \A k \in 0 .. lastFile - 1 : StoredOf(flash, files[k].name) = DataAt(flash, files[k].start)
      /\ \A name : (\A k \in 0 .. lastFile - 1 : files[k].name # name) => StoredOf(flash, name) = Absent
  BY TableStored
<1> QED BY <1>3, <1>4, Zenon

\* The data of the table's files stays while its half does.
LEMMA TableDataSame ==
  ASSUME TypeOK, Current, NEW gl,
         \A n \in 0 .. HALF_SIZE - 1 : Cell(gl, half, n) = Cell(flash, half, n)
  PROVE  \A k \in 0 .. lastFile - 1 : \A j \in 1 .. S :
           gl[files[k].start + j - 1] = flash[files[k].start + j - 1]
<1> SUFFICES ASSUME NEW k \in 0 .. lastFile - 1, NEW j \in 1 .. S
             PROVE  gl[files[k].start + j - 1] = flash[files[k].start + j - 1]
  OBVIOUS
<1>1. /\ files[k].start > HalfStart(half) + M + 1 /\ files[k].start \in Int
      /\ files[k].start + S <= HalfStart(half) + HALF_SIZE
  BY EntryFacts
<1>2. HalfStart(half) \in Nat /\ M \in Nat /\ S \in Int /\ HALF_SIZE \in Nat
  <2>1. M \in Nat
    BY DEF Current, HalfGood
  <2> QED BY <2>1, HalfIs, Halves, SizeFits, Geometry
<1> DEFINE r == files[k].start + j - 1 - HalfStart(half)
<1>3. r \in 0 .. HALF_SIZE - 1 /\ HalfStart(half) + r = files[k].start + j - 1
  BY <1>1, <1>2
<1> HIDE DEF r
<1> QED BY <1>3 DEF Cell

\* The other half is good from its signature on.
LEMMA ValidateNextFacts ==
  ASSUME FilesInv, FilesInv', ValidateNext, \A n \in 1 .. lastFile : CopiedFile(n)
  PROVE  /\ TypeOK /\ Settled /\ OtherHalf' = OtherHalf /\ UNCHANGED <<files, lastFile, half>>
         /\ flash' \in Flashes /\ HalfGood(flash', OtherHalf, lastFile)
         /\ flash'[OtherStart].valid = USED /\ Replica(flash', OtherHalf, files, lastFile)
         /\ \A n \in 0 .. HALF_SIZE - 1 : Cell(flash', half, n) = Cell(flash, half, n)
         /\ Copies(flash, flash', OtherHalf, files, lastFile)
         /\ Copies(flash', flash', OtherHalf, files, lastFile)
<1>1. /\ TypeOK /\ CopyGood /\ i = lastFile /\ pc' = "unvalidate"
      /\ flash' = Written(HalfStart(OtherHalf), <<Valid(USED)>>)
      /\ UNCHANGED <<files, lastFile, half>>
  BY DEF FilesInv, Phases, ValidateNext, Step, table, changeHalfStatus
<1>2. /\ Moving /\ flash[OtherStart] = Blank
      /\ \A n \in 0 .. lastFile : Starts(flash, OtherHalf, n) = CopyStart(n)
  BY <1>1 DEF CopyGood, CopyStart
<1>3. /\ half \in BothHalves /\ OtherHalf \in BothHalves /\ OtherHalf = 1 - half /\ half = 1 - OtherHalf
      /\ flash \in Flashes /\ OtherStart = HalfStart(OtherHalf) /\ OtherStart \in Nat
      /\ OtherStart + HALF_SIZE < FlashSize
  BY <1>1, OtherIs
<1>4. Settled /\ Current /\ lastFile \in Nat
  BY <1>1, <1>2, SettledIs DEF Moving, TypeOK
<1>5. OtherHalf' = OtherHalf /\ OtherStart' = OtherStart
  BY <1>1 DEF OtherStart, OtherHalf
<1>6. /\ flash' \in Flashes /\ HalfGood(flash', OtherHalf, lastFile)
      /\ flash'[OtherStart].valid = USED /\ Replica(flash', OtherHalf, files, lastFile)
  <2>1. TypeOK' /\ UnvalidateGood'
    BY <1>1 DEF FilesInv, Phases
  <2>2. OtherGood'
    BY <2>1 DEF UnvalidateGood
  <2> QED BY <2>1, <2>2, <1>1, <1>5 DEF OtherGood, TypeOK, Flashes
<1>7. PutsAt(flash, flash', OtherHalf, 0, Valid(USED))
  <2>1. OtherStart \in Addresses /\ OtherStart + 0 = OtherStart
    BY <1>3, Geometry
  <2>2. Puts(flash, flash', OtherStart, Valid(USED))
    BY <2>1, <1>1, <1>2, <1>3, StatusWritten
  <2> QED BY <2>1, <2>2, <1>3 DEF PutsAt
<1>8. \A n \in 0 .. HALF_SIZE - 1 : Cell(flash', half, n) = Cell(flash, half, n)
  <2>1. 0 \in 0 .. HALF_SIZE - 1
    BY Geometry
  <2>2. \A n \in 0 .. HALF_SIZE - 1 : Cell(flash', 1 - OtherHalf, n) = Cell(flash, 1 - OtherHalf, n)
    BY <2>1, <1>3, <1>7, PutInHalf
  <2> QED BY <2>2, <1>3
<1>9. \A a \in Addresses : a # OtherStart => flash'[a] = flash[a]
  <2>1. OtherStart + 0 = OtherStart
    BY <1>3
  <2> QED BY <2>1, <1>3, <1>7 DEF PutsAt, Puts
<1>10. \A n \in 1 .. lastFile : Starts(flash', OtherHalf, n) = CopyStart(n)
  <2>1. lastFile \in 0 .. HALF_SIZE - 1
    BY <1>4, Geometry DEF Current, Table
  <2>2. \A n \in 1 .. lastFile : Cell(flash', OtherHalf, n).length = Cell(flash, OtherHalf, n).length
    <3>1. Replica(flash, OtherHalf, files, lastFile)
      BY <1>1 DEF CopyGood
    <3> QED BY <3>1, <1>6 DEF Replica
  <2>3. \A n \in 0 .. lastFile : Starts(flash', OtherHalf, n) = Starts(flash, OtherHalf, n)
    BY <2>1, <2>2, <1>3, <1>6, StartsSame
  <2> QED BY <2>3, <1>2, <1>4
<1>11. ASSUME NEW n \in 1 .. lastFile, NEW k \in 1 .. S
       PROVE  CopyStart(n) \in Int /\ flash'[CopyStart(n) + k - 1] = flash[CopyStart(n) + k - 1]
  <2>1. n \in UsedIn(flash', OtherHalf, lastFile)
    BY <1>6 DEF Replica, UsedIn
  <2>2. /\ Starts(flash', OtherHalf, n) \in Int
        /\ Starts(flash', OtherHalf, n) > HalfStart(OtherHalf) + lastFile + 1
        /\ \A j \in 1 .. S : Starts(flash', OtherHalf, n) + j - 1 \in Addresses
    BY <2>1, <1>3, <1>6, DataPlace
  <2>3. CopyStart(n) \in Int /\ CopyStart(n) > OtherStart + lastFile + 1 /\ CopyStart(n) + k - 1 \in Addresses
    BY <2>2, <1>3, <1>10
  <2>4. CopyStart(n) + k - 1 # OtherStart
    BY <2>3, <1>3, <1>4
  <2> QED BY <2>3, <2>4, <1>9
<1>12. \A n \in 1 .. lastFile : CopyStart(n) \in Int
  <2>1. 1 \in 1 .. S
    BY SizeFits, Geometry
  <2> QED BY <2>1, <1>11
<1>13. Copies(flash, flash', OtherHalf, files, lastFile)
  BY <1>10, <1>11, <1>12 DEF Copies, CopiedFile
<1>14. Copies(flash', flash', OtherHalf, files, lastFile)
  <2>1. \A k \in 0 .. lastFile - 1 : \A j \in 1 .. S :
          flash'[files[k].start + j - 1] = flash[files[k].start + j - 1]
    BY <1>1, <1>4, <1>8, TableDataSame
  <2>2. \A n \in 1 .. lastFile : n - 1 \in 0 .. lastFile - 1
    BY <1>4
  <2> QED BY <2>1, <2>2, <1>13 DEF Copies
<1> QED BY <1>1, <1>4, <1>5, <1>6, <1>8, <1>13, <1>14

\* The half that fs_init would take changes with the signature of the first half only.
LEMMA ValidateNextStored ==
  ASSUME FilesInv, FilesInv', ValidateNext, \A n \in 1 .. lastFile : CopiedFile(n)
  PROVE  SameStored
<1>1. /\ TypeOK /\ Settled
      /\ flash' \in Flashes /\ HalfGood(flash', OtherHalf, lastFile)
      /\ flash'[OtherStart].valid = USED /\ Replica(flash', OtherHalf, files, lastFile)
      /\ \A n \in 0 .. HALF_SIZE - 1 : Cell(flash', half, n) = Cell(flash, half, n)
      /\ Copies(flash, flash', OtherHalf, files, lastFile)
  BY ValidateNextFacts
<1>2. /\ half \in BothHalves /\ OtherHalf \in BothHalves /\ OtherHalf = 1 - half /\ flash \in Flashes
      /\ OtherStart = HalfStart(OtherHalf) /\ HalfStart(half) \in Nat
  BY <1>1, OtherIs
<1>3. InUse(flash, half) /\ HalfGood(flash, half, M)
  BY <1>1, SettledFacts
<1>4. CASE half = 0
  <2>1. InUse(flash', half)
    <3>1. Cell(flash', half, 0) = Cell(flash, half, 0) /\ HalfStart(half) + 0 = HalfStart(half)
      BY <1>1, <1>2, Geometry
    <3> QED BY <3>1, <1>3, <1>4 DEF InUse, Cell, SECOND_HALF
  <2>2. \A n \in 1 .. HALF_SIZE - 1 : Cell(flash', half, n) = Cell(flash, half, n)
    <3>1. \A n \in 1 .. HALF_SIZE - 1 : n \in 0 .. HALF_SIZE - 1
      BY Geometry
    <3> QED BY <3>1, <1>1
  <2>3. ASSUME NEW name PROVE StoredOf(flash', name) = StoredOf(flash, name)
    BY <2>1, <2>2, <1>1, <1>2, <1>3, HalfUntouched
  <2> QED BY <2>3 DEF SameStored
<1>5. CASE half = 1
  <2>1. InUse(flash', OtherHalf)
    BY <1>1, <1>2, <1>5 DEF InUse, SECOND_HALF
  <2>2. Looks(flash', OtherHalf, lastFile)
    BY <2>1, <1>1, <1>2, GoodLooks
  <2> QED BY <2>2, <1>1, CopyStored DEF SameStored
<1> QED BY <1>2, <1>4, <1>5 DEF BothHalves

\* When the old half gives up its signature the copies are read, or go on being read.
LEMMA UnvalidateCurrentStored ==
  ASSUME FilesInv, FilesInv', UnvalidateCurrent, Copies(flash, flash, OtherHalf, files, lastFile)
  PROVE  SameStored
<1>1. /\ TypeOK /\ UnvalidateGood /\ pc' = "eraseCurrent"
      /\ flash' = Written(HalfStart(half), <<Valid(DELETED)>>)
      /\ UNCHANGED <<files, lastFile, half>>
  BY DEF FilesInv, Phases, UnvalidateCurrent, Step, call, table, changeHalfStatus
<1>2. /\ half \in BothHalves /\ OtherHalf \in BothHalves /\ OtherHalf = 1 - half /\ half = 1 - OtherHalf
      /\ flash \in Flashes /\ OtherStart = HalfStart(OtherHalf) /\ OtherStart \in Nat
      /\ HalfStart(half) \in Nat /\ HalfStart(half) + HALF_SIZE < FlashSize
      /\ \/ HalfStart(half) = OtherStart + HALF_SIZE
         \/ OtherStart = HalfStart(half) + HALF_SIZE
  BY <1>1, OtherIs
<1>3. Current /\ OtherGood /\ flash[HalfStart(half)].valid = USED
  BY <1>1 DEF UnvalidateGood, Current
<1>4. OtherHalf' = OtherHalf /\ OtherStart' = OtherStart
  BY <1>1 DEF OtherStart, OtherHalf
<1>5. /\ flash' \in Flashes /\ HalfGood(flash', OtherHalf, lastFile)
      /\ flash'[OtherStart].valid = USED /\ Replica(flash', OtherHalf, files, lastFile)
      /\ flash'[HalfStart(half)].valid # USED
  <2>1. TypeOK' /\ EraseCurrentGood'
    BY <1>1 DEF FilesInv, Phases
  <2>2. OtherGood'
    BY <2>1 DEF EraseCurrentGood
  <2> QED BY <2>1, <2>2, <1>1, <1>4 DEF OtherGood, TypeOK, Flashes, EraseCurrentGood
<1>6. \A a \in Addresses : a # HalfStart(half) => flash'[a] = flash[a]
  <2>1. HalfStart(half) \in Addresses
    BY <1>2, Geometry
  <2>2. Marks(flash, flash', HalfStart(half), DELETED)
    BY <2>1, <1>1, <1>2, StatusWritten
  <2> QED BY <2>2 DEF Marks
<1>7. InUse(flash', OtherHalf)
  BY <1>2, <1>5, Halves DEF InUse, SECOND_HALF, BothHalves
<1>8. \A n \in 0 .. HALF_SIZE - 1 : Cell(flash', OtherHalf, n) = Cell(flash, OtherHalf, n)
  <2> TAKE n \in 0 .. HALF_SIZE - 1
  <2>1. OtherStart + n \in Addresses
    BY <1>2, CellsAre
  <2>2. OtherStart + n # HalfStart(half)
    BY <1>2, Geometry
  <2> QED BY <2>1, <2>2, <1>2, <1>6 DEF Cell
<1>9. \A n \in 1 .. HALF_SIZE - 1 : Cell(flash', OtherHalf, n) = Cell(flash, OtherHalf, n)
  <2>1. \A n \in 1 .. HALF_SIZE - 1 : n \in 0 .. HALF_SIZE - 1
    BY Geometry
  <2> QED BY <2>1, <1>8
<1>10. HalfGood(flash, OtherHalf, lastFile)
  BY <1>3 DEF OtherGood
<1>11. CASE half = 1
  <2>1. InUse(flash, OtherHalf)
    BY <1>2, <1>3, <1>11 DEF InUse, SECOND_HALF, OtherGood
  <2>2. ASSUME NEW name PROVE StoredOf(flash', name) = StoredOf(flash, name)
    BY <2>1, <1>2, <1>5, <1>7, <1>9, <1>10, HalfUntouched
  <2> QED BY <2>2 DEF SameStored
<1>12. CASE half = 0
  <2>1. InUse(flash, half)
    BY <1>3, <1>12 DEF InUse, SECOND_HALF
  <2>2. Settled
    BY <2>1, <1>3, SettledIs
  <2>3. Looks(flash', OtherHalf, lastFile)
    BY <1>2, <1>5, <1>7, GoodLooks
  <2>4. \A n \in 0 .. lastFile : Starts(flash', OtherHalf, n) = Starts(flash, OtherHalf, n)
    BY <1>2, <1>5, <1>9, <1>10, HalfSame
  <2>5. ASSUME NEW n \in 1 .. lastFile
        PROVE  /\ Starts(flash', OtherHalf, n) \in Int
               /\ \A k \in 1 .. S : flash'[Starts(flash', OtherHalf, n) + k - 1]
                                      = flash[files[n - 1].start + k - 1]
    <3>1. n \in UsedIn(flash', OtherHalf, lastFile)
      BY <1>5 DEF Replica, UsedIn
    <3>2. /\ Starts(flash', OtherHalf, n) \in Int
          /\ Starts(flash', OtherHalf, n) > HalfStart(OtherHalf) + lastFile + 1
          /\ Starts(flash', OtherHalf, n) + S <= HalfStart(OtherHalf) + HALF_SIZE
          /\ lastFile \in Nat /\ S \in Nat
          /\ \A k \in 1 .. S : Starts(flash', OtherHalf, n) + k - 1 \in Addresses
      BY <3>1, <1>2, <1>5, DataPlace
    <3>3. Starts(flash', OtherHalf, n) = Starts(flash, OtherHalf, n)
      BY <2>4, <3>2
    <3>4. ASSUME NEW k \in 1 .. S
          PROVE  flash'[Starts(flash', OtherHalf, n) + k - 1] = flash[Starts(flash', OtherHalf, n) + k - 1]
      <4>1. Starts(flash', OtherHalf, n) + k - 1 # HalfStart(half)
        <5>1. \A s, a, b, z, l, m, j \in Int :
                /\ s > a + m + 1 /\ s + l <= a + z /\ 0 <= m /\ 1 <= j /\ j <= l
                /\ b = a + z \/ a = b + z
                => s + j - 1 # b \/ z <= 0
          BY SMT
        <5>2. /\ Starts(flash', OtherHalf, n) \in Int /\ HalfStart(OtherHalf) \in Int
              /\ HalfStart(half) \in Int /\ HALF_SIZE \in Int /\ S \in Int /\ lastFile \in Int
              /\ k \in Int /\ 0 <= lastFile /\ 1 <= k /\ k <= S /\ ~(HALF_SIZE <= 0)
          BY <3>2, <1>2, Geometry
        <5>3. HalfStart(half) = HalfStart(OtherHalf) + HALF_SIZE \/ HalfStart(OtherHalf) = HalfStart(half) + HALF_SIZE
          BY <1>2
        <5> QED BY <5>1, <5>2, <5>3, <3>2, Zenon
      <4> QED BY <4>1, <3>2, <1>6
    <3> QED BY <3>2, <3>3, <3>4 DEF Copies
  <2>6. Copies(flash, flash', OtherHalf, files, lastFile)
    BY <2>5 DEF Copies
  <2> QED BY <2>2, <2>3, <2>6, <1>1, <1>5, CopyStored DEF SameStored
<1> QED BY <1>2, <1>11, <1>12 DEF BothHalves

\* The half left behind can be erased.
LEMMA EraseCurrentStored ==
  ASSUME FilesInv, FilesInv', EraseCurrent
  PROVE  SameStored
<1>1. /\ TypeOK /\ EraseCurrentGood /\ flash' = Erased(half * BlocksPerHalf + i)
  BY DEF FilesInv, Phases, EraseCurrent, EraseHalf, Step
<1>2. /\ flash[HalfStart(half)].valid # USED /\ OtherGood /\ i \in 0 .. BlocksPerHalf - 1
  BY <1>1 DEF EraseCurrentGood
<1>3. /\ half \in BothHalves /\ OtherHalf \in BothHalves /\ OtherHalf = 1 - half /\ half = 1 - OtherHalf
      /\ flash \in Flashes /\ OtherStart = HalfStart(OtherHalf) /\ OtherStart \in Nat
      /\ HalfStart(half) \in Nat /\ HalfStart(half) + HALF_SIZE < FlashSize
  BY <1>1, OtherIs
<1> DEFINE x == i * BlockSize
           y == (i + 1) * BlockSize
<1>4. /\ flash' \in Flashes
      /\ \A a \in Addresses : HalfStart(half) + x <= a /\ a < HalfStart(half) + y => flash'[a] = Blank
      /\ \A a \in Addresses : ~(HalfStart(half) + x <= a /\ a < HalfStart(half) + y) => flash'[a] = flash[a]
      /\ 0 <= x /\ y <= HALF_SIZE /\ x \in Nat /\ y = x + BlockSize
  BY <1>1, <1>2, <1>3, BlockErased
<1> HIDE DEF x, y
<1>5. \A a \in Addresses :
        ~(HalfStart(half) <= a /\ a < HalfStart(half) + HALF_SIZE) => flash'[a] = flash[a]
  BY <1>3, <1>4, Geometry, GeometryAssumption
<1>6. \A n \in 0 .. HALF_SIZE - 1 : Cell(flash', OtherHalf, n) = Cell(flash, OtherHalf, n)
  <2>1. \A a \in Addresses : ~(HalfStart(1 - OtherHalf) <= a /\ a < HalfStart(1 - OtherHalf) + HALF_SIZE)
                               => flash'[a] = flash[a]
    BY <1>3, <1>5
  <2> QED BY <2>1, <1>3, OtherHalfOnly
<1>7. flash'[HalfStart(half)].valid # USED
  <2>1. HalfStart(half) \in Addresses /\ Blank.valid # USED
    BY <1>3, Geometry, StatusIs DEF UNUSED, USED
  <2>2. flash'[HalfStart(half)] = Blank \/ flash'[HalfStart(half)] = flash[HalfStart(half)]
    BY <2>1, <1>4
  <2> QED BY <2>1, <2>2, <1>2
<1>8. InUse(flash, OtherHalf) /\ HalfGood(flash, OtherHalf, lastFile)
  BY <1>2, <1>3, Halves DEF InUse, OtherGood, SECOND_HALF, BothHalves
<1>9. InUse(flash', OtherHalf)
  <2>1. Cell(flash', OtherHalf, 0) = Cell(flash, OtherHalf, 0) /\ HalfStart(OtherHalf) + 0 = HalfStart(OtherHalf)
    BY <1>3, <1>6, Geometry
  <2>2. flash'[HalfStart(OtherHalf)].valid = USED
    BY <2>1, <1>8 DEF InUse, Cell
  <2> QED BY <2>2, <1>3, <1>7, Halves DEF InUse, SECOND_HALF, BothHalves
<1>10. \A n \in 1 .. HALF_SIZE - 1 : Cell(flash', OtherHalf, n) = Cell(flash, OtherHalf, n)
  <2>1. \A n \in 1 .. HALF_SIZE - 1 : n \in 0 .. HALF_SIZE - 1
    BY Geometry
  <2> QED BY <2>1, <1>6
<1>11. ASSUME NEW name PROVE StoredOf(flash', name) = StoredOf(flash, name)
  BY <1>3, <1>4, <1>8, <1>9, <1>10, HalfUntouched
<1> QED BY <1>11 DEF SameStored

-----------------------------------------------------------------------------
(***************************************************************************)
(* Steps of a write, and of an erasure.                                    *)
(***************************************************************************)
DataDone(n) == \A k \in 1 .. n : flash[end + k - 1] = request.data[k]

\* While a file is written the half is read as before: what is written is no header yet.
WritingLooks ==
  /\ Looks(flash, half, M) /\ M \in 0 .. HALF_SIZE - 2 /\ next = HalfStart(half) + M + 1
  /\ half \in BothHalves /\ HalfStart(half) \in Nat /\ end \in Int /\ S \in Nat /\ S > 0
  /\ end > HalfStart(half) + M + 2 /\ end + S <= HalfStart(half) + HALF_SIZE
  /\ \A n \in UsedIn(flash, half, M) :
       /\ n \in 0 .. M /\ Starts(flash, half, n) \in Int /\ Starts(flash, half, n) >= end + S
       /\ \A k \in 1 .. S : Starts(flash, half, n) + k - 1 \in Addresses

LEMMA WritingReads == TypeOK /\ DataGood => WritingLooks
<1> SUFFICES ASSUME TypeOK, DataGood PROVE WritingLooks
  OBVIOUS
<1>1. /\ Overwriting /\ M \in 0 .. HALF_SIZE - 1 /\ HeadersGood(flash, half, M)
      /\ Starts(flash, half, M) = end + S /\ end > next + 1 /\ BlankFrom(flash, next, end)
  BY DEF DataGood
<1>2. half \in BothHalves /\ flash \in Flashes /\ InUse(flash, half)
  BY <1>1, OverwritingFacts
<1>3. S \in Nat /\ S > 0 /\ HALF_SIZE \in Nat /\ FlashSize \in Nat /\ Addresses = 0 .. FlashSize - 1
  BY SizeFits, Geometry
<1>4. HalfStart(half) \in Nat /\ HalfStart(half) + HALF_SIZE < FlashSize
  BY <1>2, Halves
<1>5. next = HalfStart(half) + M + 1 /\ end \in Int /\ next \in Int
  <2>1. next \in Int /\ end \in Int
    BY Geometry DEF TypeOK
  <2> QED BY <2>1, <1>1, <1>4, <1>3 DEF M
<1>6. Starts(flash, half, 0) = HalfStart(half) + HALF_SIZE /\ 0 \in 0 .. HALF_SIZE - 1
  BY <1>2, StartRule, Geometry
<1>7. ASSUME NEW n \in 0 .. M
      PROVE  /\ Starts(flash, half, n) \in Int /\ Starts(flash, half, n) >= end + S
             /\ Starts(flash, half, n) <= HalfStart(half) + HALF_SIZE
  <2>1. n \in 0 .. HALF_SIZE - 1 /\ n <= M /\ 0 <= n
    BY <1>1, <1>3
  <2>2. /\ Starts(flash, half, n) \in Int /\ Starts(flash, half, M) <= Starts(flash, half, n)
        /\ Starts(flash, half, n) <= Starts(flash, half, 0)
    BY <2>1, <1>1, <1>2, <1>6, StartRule, StartsDescend
  <2> QED BY <2>2, <1>1, <1>6
<1>8. end > HalfStart(half) + M + 2 /\ end + S <= HalfStart(half) + HALF_SIZE /\ M \in 0 .. HALF_SIZE - 2
  <2>1. M \in 0 .. M
    BY <1>1
  <2>2. end + S <= HalfStart(half) + HALF_SIZE
    BY <2>1, <1>1, <1>7
  <2> QED BY <2>2, <1>1, <1>3, <1>4, <1>5
<1>9. Cell(flash, half, M + 1) = Blank
  <2>1. next \in Addresses /\ next <= next /\ next < end /\ HalfStart(half) + (M + 1) = next
    BY <1>1, <1>3, <1>4, <1>5, <1>8
  <2> QED BY <2>1, <1>1 DEF BlankFrom, Cell
<1>10. Looks(flash, half, M)
  BY <1>1, <1>2, <1>8, <1>9, GoodReads DEF Looks
<1>11. ASSUME NEW n \in UsedIn(flash, half, M)
       PROVE  /\ n \in 0 .. M /\ Starts(flash, half, n) \in Int /\ Starts(flash, half, n) >= end + S
              /\ \A k \in 1 .. S : Starts(flash, half, n) + k - 1 \in Addresses
  <2>1. n \in 0 .. M /\ n \in 1 .. M
    BY DEF UsedIn
  <2>2. Cell(flash, half, n).length = S
    BY <1>10 DEF Looks, Reads
  <2>3. Starts(flash, half, n) + S <= HalfStart(half) + HALF_SIZE
    <3>1. n \in 0 .. HALF_SIZE - 1 /\ 0 < n
      BY <2>1, <1>1, <1>3
    <3>2. Starts(flash, half, n) + Cell(flash, half, n).length <= Starts(flash, half, 0)
      BY <3>1, <1>2, <1>6, StartsDescend
    <3> QED BY <3>2, <2>2, <1>6
  <2>4. /\ Starts(flash, half, n) \in Int /\ Starts(flash, half, n) >= end + S
    BY <2>1, <1>7
  <2>5. \A k \in 1 .. S : Starts(flash, half, n) + k - 1 \in Addresses
    <3> DEFINE q == Starts(flash, half, n)
    <3>1. q \in Int /\ q + S < FlashSize
      BY <2>3, <2>4, <1>3, <1>4
    <3>2. q >= 0
      BY <2>4, <1>3, <1>4, <1>5, <1>8
    <3> HIDE DEF q
    <3>3. \A k \in 1 .. S : q + k - 1 \in 0 .. FlashSize - 1
      BY <3>1, <3>2, <1>3
    <3> QED BY <3>3, <1>3 DEF q
  <2> QED BY <2>1, <2>4, <2>5
<1> QED BY <1>2, <1>3, <1>4, <1>5, <1>8, <1>10, <1>11 DEF WritingLooks

\* A cell of data goes where the flash is erased, below the data of every header.
LEMMA WriteDataFacts ==
  ASSUME FilesInv, WriteData, BlankFrom(flash, end + i, end + S)
  PROVE  /\ TypeOK /\ DataGood /\ Length = S /\ i \in 0 .. S - 1 /\ WritingLooks
         /\ pc' = (IF i + 1 = S THEN "header" ELSE "data")
         /\ i' = (IF i + 1 = S THEN 0 ELSE i + 1)
         /\ UNCHANGED <<lastFile, next, end, half, request, index, previous, after>>
         /\ flash' \in Flashes /\ flash'[end + i] = request.data[i + 1]
         /\ \A a \in Addresses : a # end + i => flash'[a] = flash[a]
<1> DEFINE x == end + i
<1>1. /\ TypeOK /\ DataGood /\ pc = "data" /\ pc' = (IF i + 1 = Length THEN "header" ELSE "data")
      /\ flash' = Written(x, <<request.data[i + 1]>>)
      /\ i' = (IF i + 1 = Length THEN 0 ELSE i + 1)
      /\ UNCHANGED <<lastFile, next, end, half, request, index, previous, after>>
  BY DEF FilesInv, Phases, WriteData, Step, call
<1>2. Overwriting /\ i \in 0 .. S - 1 /\ Writes
  BY <1>1 DEF DataGood, Overwriting
<1>3. WritingLooks
  BY <1>1, WritingReads
<1>4. Length = S /\ S \in 1 .. F /\ request.data[i + 1] \in Headers
  <2>1. Length = S /\ S \in 1 .. F /\ \A k \in 1 .. S : request.data[k] \in Headers
    BY <1>2, LengthIs
  <2>2. i + 1 \in 1 .. S
    BY <2>1, <1>2
  <2> QED BY <2>1, <2>2
<1>5. x \in Addresses /\ end + i <= x /\ x < end + S /\ flash \in Flashes
  <2>1. /\ half \in BothHalves /\ HalfStart(half) \in Nat /\ end \in Int /\ S \in Nat /\ M \in Nat
        /\ end > HalfStart(half) + M + 2 /\ end + S <= HalfStart(half) + HALF_SIZE
    BY <1>3 DEF WritingLooks
  <2>2. HalfStart(half) + HALF_SIZE < FlashSize /\ flash \in Flashes
    BY <2>1, <1>1, HalfIs, Halves
  <2> QED BY <2>1, <2>2, <1>2, Geometry
<1> HIDE DEF x
<1>6. flash[x] = Blank
  BY <1>5 DEF BlankFrom
<1>7. Puts(flash, flash', x, request.data[i + 1])
  BY <1>1, <1>4, <1>5, <1>6, OneWritten
<1> QED BY <1>1, <1>2, <1>3, <1>4, <1>7 DEF Puts, x

\* What is stored stays while data is written,
LEMMA WriteDataStored ==
  ASSUME FilesInv, FilesInv', WriteData, BlankFrom(flash, end + i, end + S)
  PROVE  SameStored
<1>1. /\ TypeOK /\ DataGood /\ i \in 0 .. S - 1 /\ WritingLooks
      /\ pc' = (IF i + 1 = S THEN "header" ELSE "data")
      /\ UNCHANGED <<next, end, half>>
      /\ flash' \in Flashes /\ \A a \in Addresses : a # end + i => flash'[a] = flash[a]
  BY WriteDataFacts
<1>2. /\ Looks(flash, half, M) /\ M \in 0 .. HALF_SIZE - 2
      /\ half \in BothHalves /\ HalfStart(half) \in Nat /\ end \in Int /\ S \in Nat /\ S > 0
      /\ end > HalfStart(half) + M + 2 /\ end + S <= HalfStart(half) + HALF_SIZE
      /\ \A n \in UsedIn(flash, half, M) :
           /\ n \in 0 .. M /\ Starts(flash, half, n) \in Int /\ Starts(flash, half, n) >= end + S
           /\ \A k \in 1 .. S : Starts(flash, half, n) + k - 1 \in Addresses
  BY <1>1 DEF WritingLooks
<1>3. Looks(flash', half, M)
  <2>1. (TypeOK /\ DataGood => WritingLooks)'
    BY WritingReads, PTL
  <2>2. TypeOK' /\ DataGood' /\ M' = M
    BY <1>1 DEF FilesInv, Phases, M
  <2> QED BY <2>1, <2>2, <1>1 DEF WritingLooks
<1>4. \A a \in Addresses : ~(end <= a /\ a < HalfStart(half) + HALF_SIZE) => flash'[a] = flash[a]
  <2>1. end <= end + i /\ end + i < HalfStart(half) + HALF_SIZE
    BY <1>1, <1>2, Geometry
  <2> QED BY <2>1, <1>1
<1>5. /\ \A n \in 0 .. M : Starts(flash', half, n) = Starts(flash, half, n)
      /\ NamesKept(flash, flash', half, M) /\ UsedIn(flash', half, M) = UsedIn(flash, half, M)
  <2>1. M \in 0 .. HALF_SIZE - 1 /\ end > HalfStart(half) + M /\ flash \in Flashes
    BY <1>1, <1>2, HalfIs, Geometry
  <2> QED BY <2>1, <1>1, <1>2, <1>4, WrittenAbove
<1>6. \A name : Versions(flash', half, M, name) = Versions(flash, half, M, name)
  BY <1>5, VersionsSame
<1>7. ASSUME NEW n \in UsedIn(flash, half, M)
      PROVE  Starts(flash', half, n) = Starts(flash, half, n) /\ SameData(flash, flash', Starts(flash, half, n))
  <2>1. /\ n \in 0 .. M /\ Starts(flash, half, n) \in Int /\ Starts(flash, half, n) >= end + S
        /\ \A k \in 1 .. S : Starts(flash, half, n) + k - 1 \in Addresses
    BY <1>2
  <2>2. \A k \in 1 .. S : Starts(flash, half, n) + k - 1 # end + i
    BY <2>1, <1>1, <1>2
  <2> QED BY <2>1, <2>2, <1>1, <1>5 DEF SameData
<1>8. ASSUME NEW name PROVE StoredOf(flash', name) = StoredOf(flash, name)
  <2>1. \A n \in Versions(flash, half, M, name) : n \in UsedIn(flash, half, M)
    BY DEF Versions
  <2> QED BY <2>1, <1>2, <1>3, <1>6, <1>7, StoredSame
<1> QED BY <1>8 DEF SameStored

\* The header is not USED yet.
LEMMA WriteHeaderFacts ==
  ASSUME FilesInv, FilesInv', WriteHeader
  PROVE  /\ TypeOK /\ WritingLooks /\ flash' \in Flashes /\ Looks(flash', half, M + 1)
         /\ \A a \in Addresses : a # next => flash'[a] = flash[a]
         /\ \A n \in 0 .. M : Starts(flash', half, n) = Starts(flash, half, n)
         /\ NamesKept(flash, flash', half, M)
         /\ UsedIn(flash', half, M + 1) = UsedIn(flash, half, M)
         /\ UNCHANGED <<lastFile, end, half, request, index, previous, after, i>>
<1> DEFINE c == [Blank EXCEPT !.name = request.name, !.length = Length]
<1>1. /\ TypeOK /\ DataGood /\ pc = "header" /\ pc' = "use" /\ flash' = Written(next, <<c>>)
      /\ next' = next + 1
      /\ UNCHANGED <<lastFile, end, half, request, index, previous, after, i>>
  BY DEF FilesInv, Phases, WriteHeader, Step, call
<1>2. /\ Overwriting /\ HeadersGood(flash, half, M) /\ Writes
      /\ Starts(flash, half, M) = end + S /\ end > next + 1 /\ BlankFrom(flash, next, end)
  BY <1>1 DEF DataGood, Overwriting
<1>3. WritingLooks /\ flash \in Flashes
  BY <1>1, WritingReads, HalfIs
<1>4. /\ M \in 0 .. HALF_SIZE - 2 /\ next = HalfStart(half) + M + 1
      /\ half \in BothHalves /\ HalfStart(half) \in Nat /\ end \in Int
      /\ end > HalfStart(half) + M + 2 /\ M \in 0 .. HALF_SIZE - 1
      /\ next = HalfStart(half) + (M + 1) /\ M \in Nat
  <2>1. /\ M \in 0 .. HALF_SIZE - 2 /\ next = HalfStart(half) + M + 1
        /\ half \in BothHalves /\ HalfStart(half) \in Nat /\ end \in Int
        /\ end > HalfStart(half) + M + 2
    BY <1>3 DEF WritingLooks
  <2> QED BY <2>1, Geometry
<1>5. Length = S /\ S \in 1 .. F /\ request.name \in Names
  BY <1>2, LengthIs DEF Writes, Requested
<1>6. c = [valid |-> UNUSED, name |-> request.name, length |-> S] /\ c \in Headers
  <2>1. c = [valid |-> UNUSED, name |-> request.name, length |-> S]
    <3> DEFINE d == [Blank EXCEPT !.name = request.name]
    <3>1. c = [d EXCEPT !.length = Length]
      OBVIOUS
    <3>2. d = [valid |-> UNUSED, name |-> request.name, length |-> F]
      BY StatusIs
    <3> HIDE DEF d, c
    <3> QED BY <3>1, <3>2, <1>5
  <2>2. S \in 0 .. FieldSize - 1 /\ UNUSED \in 0 .. 3 /\ request.name \in Fields
    BY <1>5, Geometry DEF UNUSED, Fields
  <2> QED BY <2>1, <2>2 DEF Headers
<1> HIDE DEF c
<1>7. next \in Addresses /\ flash[next] = Blank
  <2>1. Looks(flash, half, M)
    BY <1>3 DEF WritingLooks
  <2>2. flash[next] = Blank
    BY <2>1, <1>4 DEF Looks, Reads, Cell
  <2>3. M + 1 \in 0 .. HALF_SIZE - 1
    BY <1>4, Geometry
  <2> QED BY <2>2, <2>3, <1>3, <1>4, CellsAre
<1> DEFINE k == M + 1
<1>8. Puts(flash, flash', next, c)
  BY <1>1, <1>3, <1>6, <1>7, OneWritten
<1>9. PutsAt(flash, flash', half, k, c) /\ k = M + 1
  BY <1>4, <1>8 DEF PutsAt
<1> HIDE DEF k
<1>10. Appended(flash, flash', half, M, end, UNUSED)
  <2>1. end > next + 1 /\ next = HalfStart(half) + M + 1
    BY <1>2, <1>4
  <2> QED BY <2>1, <1>2, <1>3, <1>4, <1>5, <1>6, <1>9, HeaderAppended
<1>11. flash' \in Flashes /\ \A a \in Addresses : a # next => flash'[a] = flash[a]
  BY <1>8 DEF Puts
<1>12. Looks(flash', half, M + 1)
  <2>1. UseGood' /\ M' = M + 1
    BY <1>1, <1>4 DEF FilesInv, Phases, M
  <2>2. HalfGood(flash', half, M + 1) /\ InUse(flash', half)
    BY <2>1, <1>1 DEF UseGood, Overwriting
  <2> QED BY <2>2, <1>4, <1>11, GoodLooks
<1> QED BY <1>1, <1>3, <1>10, <1>11, <1>12 DEF Appended, NamesKept

\* and when its header is, until that is USED.
LEMMA WriteHeaderStored ==
  ASSUME FilesInv, FilesInv', WriteHeader
  PROVE  SameStored
<1>1. /\ WritingLooks /\ Looks(flash', half, M + 1)
      /\ \A a \in Addresses : a # next => flash'[a] = flash[a]
      /\ \A n \in 0 .. M : Starts(flash', half, n) = Starts(flash, half, n)
      /\ NamesKept(flash, flash', half, M)
      /\ UsedIn(flash', half, M + 1) = UsedIn(flash, half, M)
  BY WriteHeaderFacts
<1>2. /\ Looks(flash, half, M) /\ next = HalfStart(half) + M + 1 /\ M \in Nat
      /\ HalfStart(half) \in Nat /\ end \in Int /\ S \in Nat /\ end > HalfStart(half) + M + 2
      /\ \A n \in UsedIn(flash, half, M) :
           /\ n \in 0 .. M /\ Starts(flash, half, n) \in Int /\ Starts(flash, half, n) >= end + S
           /\ \A k \in 1 .. S : Starts(flash, half, n) + k - 1 \in Addresses
  BY <1>1 DEF WritingLooks
<1>3. \A name : Versions(flash', half, M + 1, name) = Versions(flash, half, M, name)
  BY <1>1, VersionsSame
<1>4. ASSUME NEW n \in UsedIn(flash, half, M)
      PROVE  Starts(flash', half, n) = Starts(flash, half, n) /\ SameData(flash, flash', Starts(flash, half, n))
  <2>1. /\ n \in 0 .. M /\ Starts(flash, half, n) \in Int /\ Starts(flash, half, n) >= end + S
        /\ \A k \in 1 .. S : Starts(flash, half, n) + k - 1 \in Addresses
    BY <1>2
  <2>2. \A k \in 1 .. S : Starts(flash, half, n) + k - 1 # next
    BY <2>1, <1>2
  <2> QED BY <2>1, <2>2, <1>1 DEF SameData
<1>5. ASSUME NEW name PROVE StoredOf(flash', name) = StoredOf(flash, name)
  <2>1. \A n \in Versions(flash, half, M, name) : n \in UsedIn(flash, half, M)
    BY DEF Versions
  <2> QED BY <2>1, <1>1, <1>2, <1>3, <1>4, StoredSame
<1> QED BY <1>5 DEF SameStored

\* Where one header is marked, the files of other names stay.
LEMMA OthersSame ==
  ASSUME NEW fl \in Flashes, NEW gl \in Flashes, NEW h \in BothHalves, NEW m, NEW q \in 1 .. m,
         HalfGood(fl, h, m), InUse(fl, h), HalfGood(gl, h, m), InUse(gl, h),
         \A a \in Addresses : a # HalfStart(h) + q => gl[a] = fl[a],
         \A n \in 0 .. m : Starts(gl, h, n) = Starts(fl, h, n), NamesKept(fl, gl, h, m),
         UsedIn(gl, h, m) \ {q} = UsedIn(fl, h, m) \ {q},
         NEW name, name # Cell(fl, h, q).name
  PROVE  StoredOf(gl, name) = StoredOf(fl, name)
<1>1. HalfStart(h) \in Nat /\ m \in Nat
  BY Halves DEF HalfGood
<1>2. AboveSame(fl, gl, HalfStart(h) + m + 1)
  <2>1. \A a \in Addresses : a > HalfStart(h) + m + 1 => a # HalfStart(h) + q
    BY <1>1, Geometry
  <2> QED BY <2>1 DEF AboveSame
<1>3. Versions(gl, h, m, name) = Versions(fl, h, m, name)
  <2>1. \A n \in 1 .. m : Cell(gl, h, n).name = Cell(fl, h, n).name
    BY DEF NamesKept
  <2>2. \A n : n \in UsedIn(gl, h, m) \/ n \in UsedIn(fl, h, m) => n \in 1 .. m
    BY DEF UsedIn
  <2> QED BY <2>1, <2>2 DEF Versions
<1> QED BY <1>2, <1>3, HeadersChanged

\* Erase makes the newest version the last one deleted, of which there is but one.
LEMMA EraseStored ==
  ASSUME FilesInv, FilesInv', Erase
  PROVE  /\ StoredOf(flash', request.name) = Absent
         /\ \A name : name # request.name => StoredOf(flash', name) = StoredOf(flash, name)
<1> DEFINE x == files[index].header
           m == M
           U == UsedIn(flash, half, m)
<1>1. /\ TypeOK /\ FindGood /\ Found /\ pc' = "return" /\ UNCHANGED half
      /\ flash' = Written(x, <<Valid(DELETED)>>)
  BY DEF FilesInv, Phases, Erase, FindEnds, Step, RemoveFileHeader
<1>2. Settled /\ index \in 0 .. lastFile - 1 /\ files[index].name = request.name
  BY <1>1 DEF FindGood, FileFound
<1>3. /\ half \in BothHalves /\ flash \in Flashes /\ m \in 0 .. HALF_SIZE - 2
      /\ InUse(flash, half) /\ HalfGood(flash, half, m)
      /\ OneOfEach(flash, half, U) /\ U \subseteq 1 .. m
      /\ Entries(flash, files, lastFile, half, U)
  BY <1>1, <1>2, SettledFacts
<1>4. \A name : Versions(flash, half, m, name) = {n \in U : Cell(flash, half, n).name = name}
  BY DEF Versions
<1>5. U = UsedIn(flash, half, m)
  OBVIOUS
<1> HIDE DEF U, m
<1>6. PICK p \in U : x = HalfStart(half) + p /\ files[index].name = Cell(flash, half, p).name
  BY <1>2, <1>3, Zenon DEF Entries
<1>7. p \in 1 .. m /\ Cell(flash, half, p).name = request.name
  BY <1>2, <1>3, <1>6
<1>8. MarksAt(flash, flash', half, p, DELETED)
  <2>1. p \in 0 .. HALF_SIZE - 1
    BY <1>3, <1>7, Geometry
  <2>2. x \in Addresses
    BY <2>1, <1>3, <1>6, CellsAre
  <2> QED BY <2>2, <1>1, <1>3, <1>6, StatusWritten DEF MarksAt
<1>9. /\ flash' \in Flashes /\ HalfGood(flash', half, m) /\ InUse(flash', half)
      /\ \A n \in 0 .. m : Starts(flash', half, n) = Starts(flash, half, n)
      /\ NamesKept(flash, flash', half, m) /\ UsedIn(flash', half, m) = UsedIn(flash, half, m) \ {p}
  BY <1>3, <1>7, <1>8, HeaderDeleted
<1>10. Looks(flash', half, m)
  BY <1>3, <1>9, GoodLooks
<1>11. Versions(flash', half, m, request.name) = {}
  <2>1. ASSUME NEW n \in UsedIn(flash', half, m), Cell(flash', half, n).name = request.name PROVE FALSE
    <3>1. n \in U /\ n # p /\ n \in 1 .. m
      BY <1>3, <1>5, <1>9
    <3>2. Cell(flash, half, n).name = Cell(flash, half, p).name
      BY <2>1, <3>1, <1>7, <1>9 DEF NamesKept
    <3> QED BY <3>1, <3>2, <1>3, <1>6, Zenon DEF OneOfEach
  <2> QED BY <2>1 DEF Versions
<1>12. StoredOf(flash', request.name) = Absent
  BY <1>10, <1>11, NoneIs
<1>13. ASSUME NEW name, name # request.name PROVE StoredOf(flash', name) = StoredOf(flash, name)
  <2>1. \A a \in Addresses : a # HalfStart(half) + p => flash'[a] = flash[a]
    BY <1>8 DEF MarksAt, Marks
  <2>2. UsedIn(flash', half, m) \ {p} = UsedIn(flash, half, m) \ {p}
    BY <1>9
  <2>3. name # Cell(flash, half, p).name
    BY <1>7, <1>13
  <2> QED BY <2>1, <2>2, <2>3, <1>3, <1>7, <1>9, OthersSame
<1> QED BY <1>12, <1>13

\* Writing takes effect when the header is marked USED.
LEMMA WriteUsedFacts ==
  ASSUME FilesInv, WriteUsed
  PROVE  /\ TypeOK /\ UseGood /\ Writes /\ half \in BothHalves /\ flash \in Flashes
         /\ HalfGood(flash, half, M) /\ InUse(flash, half) /\ M \in 1 .. M /\ M \in 0 .. M
         /\ end = Starts(flash, half, M) /\ M \in 0 .. HALF_SIZE - 2 /\ HalfStart(half) \in Nat
         /\ Cell(flash, half, M).name = request.name /\ Cell(flash, half, M).length = S
         /\ \A a \in Addresses : a # HalfStart(half) + M => flash'[a] = flash[a]
         /\ flash' \in Flashes /\ HalfGood(flash', half, M) /\ InUse(flash', half)
         /\ \A n \in 0 .. M : Starts(flash', half, n) = Starts(flash, half, n)
         /\ NamesKept(flash, flash', half, M) /\ UsedIn(flash', half, M) = UsedIn(flash, half, M) \cup {M}
         /\ Cell(flash', half, M).name = request.name /\ UNCHANGED <<half, next, end, request, index, previous>>
<1>1. /\ TypeOK /\ UseGood /\ flash' = Written(next - 1, <<Valid(USED)>>)
      /\ UNCHANGED <<next, end, half, request, index, previous>>
  BY DEF FilesInv, Phases, WriteUsed, Step
<1>2. /\ Overwriting /\ HalfGood(flash, half, M) /\ M > 0 /\ end = Starts(flash, half, M)
      /\ Cell(flash, half, M) = [valid |-> UNUSED, name |-> request.name, length |-> S]
      /\ InUse(flash, half) /\ Writes
  BY <1>1 DEF UseGood, Overwriting
<1>3. half \in BothHalves /\ flash \in Flashes /\ M \in 0 .. HALF_SIZE - 2 /\ M \in 0 .. HALF_SIZE - 1
  <2>1. half \in BothHalves /\ flash \in Flashes
    BY <1>1, HalfIs
  <2>2. M \in 0 .. HALF_SIZE - 2
    BY <2>1, <1>2, HalfFacts
  <2> QED BY <2>1, <2>2, Geometry
<1>4. /\ HalfStart(half) \in Nat /\ next - 1 = HalfStart(half) + M /\ next - 1 \in Addresses
  <2>1. HalfStart(half) \in Nat
    BY <1>3, Halves
  <2>2. next \in Int
    BY <1>1, Geometry DEF TypeOK
  <2>3. next - 1 = HalfStart(half) + M
    BY <2>1, <2>2, <1>3, Geometry DEF M
  <2> QED BY <2>1, <2>3, <1>3, CellsAre
<1>5. MarksAt(flash, flash', half, M, USED)
  <2>1. flash[next - 1] = Cell(flash, half, M)
    BY <1>4 DEF Cell
  <2>2. flash[next - 1].valid = UNUSED
    BY <2>1, <1>2
  <2>3. Marks(flash, flash', next - 1, USED)
    BY <2>2, <1>1, <1>3, <1>4, StatusWritten
  <2> QED BY <2>3, <1>4 DEF MarksAt
<1>6. /\ Cell(flash, half, M).valid = UNUSED /\ Cell(flash, half, M).length = S
      /\ Cell(flash, half, M).name \in Names /\ Cell(flash, half, M).name = request.name
  BY <1>2 DEF Writes, Requested
<1>7. /\ flash' \in Flashes /\ HalfGood(flash', half, M) /\ InUse(flash', half)
      /\ \A n \in 0 .. M : Starts(flash', half, n) = Starts(flash, half, n)
      /\ NamesKept(flash, flash', half, M) /\ UsedIn(flash', half, M) = UsedIn(flash, half, M) \cup {M}
  <2>1. HalfGood(flash, half, M) /\ M > 0 /\ InUse(flash, half)
    BY <1>2
  <2> QED BY <2>1, <1>3, <1>5, <1>6, HeaderUsed
<1>8. M \in 1 .. M /\ M \in 0 .. M
  BY <1>2, <1>3
<1>9. Cell(flash', half, M).name = request.name
  BY <1>6, <1>7, <1>8 DEF NamesKept
<1>10. \A a \in Addresses : a # HalfStart(half) + M => flash'[a] = flash[a]
  BY <1>5 DEF MarksAt, Marks
<1> QED BY <1>1, <1>2, <1>3, <1>4, <1>6, <1>7, <1>8, <1>9, <1>10

\* Then the file has the data of the request.
LEMMA WriteUsedStored ==
  ASSUME FilesInv, WriteUsed, DataDone(S)
  PROVE  /\ StoredOf(flash', request.name) = request.data
         /\ \A name : name # request.name => StoredOf(flash', name) = StoredOf(flash, name)
<1> DEFINE m == M
<1>1. /\ Writes /\ half \in BothHalves /\ flash \in Flashes
      /\ HalfGood(flash, half, m) /\ InUse(flash, half) /\ m \in 1 .. m /\ m \in 0 .. m
      /\ end = Starts(flash, half, m) /\ m \in 0 .. HALF_SIZE - 2 /\ HalfStart(half) \in Nat
      /\ Cell(flash, half, m).name = request.name
      /\ \A a \in Addresses : a # HalfStart(half) + m => flash'[a] = flash[a]
      /\ flash' \in Flashes /\ HalfGood(flash', half, m) /\ InUse(flash', half)
      /\ \A n \in 0 .. m : Starts(flash', half, n) = Starts(flash, half, n)
      /\ NamesKept(flash, flash', half, m) /\ UsedIn(flash', half, m) = UsedIn(flash, half, m) \cup {m}
      /\ Cell(flash', half, m).name = request.name
  BY WriteUsedFacts
<1> HIDE DEF m
<1>2. Looks(flash', half, m)
  BY <1>1, GoodLooks
<1>3. m \in UsedIn(flash', half, m)
  BY <1>1
<1>4. m \in Versions(flash', half, m, request.name) /\ \A n \in Versions(flash', half, m, request.name) : n <= m
  BY <1>1, <1>3 DEF Versions, UsedIn
<1>5. StoredOf(flash', request.name) = DataAt(flash', end)
  <2>1. StoredOf(flash', request.name) = DataAt(flash', Starts(flash', half, m))
    BY <1>2, <1>4, NewestIs
  <2> QED BY <2>1, <1>1
<1>6. DataAt(flash', end) = request.data
  <2>1. /\ Starts(flash', half, m) \in Int /\ Starts(flash', half, m) > HalfStart(half) + m + 1
        /\ \A k \in 1 .. S : Starts(flash', half, m) + k - 1 \in Addresses
    BY <1>1, <1>3, DataPlace
  <2>2. Starts(flash', half, m) = end
    BY <1>1
  <2>3. \A k \in 1 .. S : end + k - 1 \in Addresses /\ end + k - 1 # HalfStart(half) + m
    BY <2>1, <2>2, <1>1
  <2>4. \A k \in 1 .. S : flash'[end + k - 1] = request.data[k]
    BY <2>3, <1>1 DEF DataDone
  <2>5. request.data \in Seq(Headers) /\ Len(request.data) = S
    <3>1. request.data \in Contents /\ Length = S
      BY <1>1, LengthIs
    <3> QED BY <3>1, ContentsAssumption DEF Length
  <2>6. request.data = [k \in 1 .. S |-> request.data[k]]
    BY <2>5
  <2> QED BY <2>4, <2>6 DEF DataAt
<1>7. ASSUME NEW name, name # request.name PROVE StoredOf(flash', name) = StoredOf(flash, name)
  <2>1. UsedIn(flash', half, m) \ {m} = UsedIn(flash, half, m) \ {m}
    BY <1>1
  <2>2. name # Cell(flash, half, m).name
    BY <1>1, <1>7
  <2>3. /\ half \in BothHalves /\ flash \in Flashes /\ flash' \in Flashes /\ m \in 1 .. m
        /\ HalfGood(flash, half, m) /\ InUse(flash, half) /\ HalfGood(flash', half, m) /\ InUse(flash', half)
        /\ \A a \in Addresses : a # HalfStart(half) + m => flash'[a] = flash[a]
        /\ \A n \in 0 .. m : Starts(flash', half, n) = Starts(flash, half, n)
        /\ NamesKept(flash, flash', half, m)
    BY <1>1
  <2> QED BY <2>1, <2>2, <2>3, OthersSame
<1> QED BY <1>5, <1>6, <1>7

\* The version deleted is not the newest.
LEMMA SupersedeStored ==
  ASSUME FilesInv, Supersede, M \in UsedIn(flash, half, M),
         Cell(flash, half, M).name = request.name, previous # HalfStart(half) + M
  PROVE  SameStored
<1> DEFINE m == M
<1>1. /\ TypeOK /\ SupersedeGood /\ UNCHANGED half
      /\ flash' = Written(previous, <<Valid(DELETED)>>)
  BY DEF FilesInv, Phases, Supersede, Step, table
<1>2. InUse(flash, half) /\ HalfGood(flash, half, m)
  BY <1>1 DEF SupersedeGood
<1>3. PICK q \in UsedIn(flash, half, m) : /\ previous = HalfStart(half) + q
                                          /\ Cell(flash, half, q).name = request.name
  BY <1>1 DEF SupersedeGood
<1>4. half \in BothHalves /\ flash \in Flashes /\ HalfStart(half) \in Nat
  BY <1>1, HalfIs, Halves
<1>5. q \in 1 .. m /\ m \in 1 .. m /\ q # m /\ m \in UsedIn(flash, half, m)
      /\ Cell(flash, half, m).name = request.name
  BY <1>3, UsedAre
<1>6. MarksAt(flash, flash', half, q, DELETED)
  BY <1>1, <1>3, <1>4, StatusWritten DEF MarksAt, TypeOK
<1> HIDE DEF m
<1>7. /\ flash' \in Flashes /\ HalfGood(flash', half, m) /\ InUse(flash', half)
      /\ \A n \in 0 .. m : Starts(flash', half, n) = Starts(flash, half, n)
      /\ NamesKept(flash, flash', half, m) /\ UsedIn(flash', half, m) = UsedIn(flash, half, m) \ {q}
  BY <1>2, <1>4, <1>5, <1>6, HeaderDeleted
<1>8. \A a \in Addresses : a # HalfStart(half) + q => flash'[a] = flash[a]
  BY <1>6 DEF MarksAt, Marks
<1>9. ASSUME NEW name, name # request.name PROVE StoredOf(flash', name) = StoredOf(flash, name)
  <2>1. UsedIn(flash', half, m) \ {q} = UsedIn(flash, half, m) \ {q}
    BY <1>7
  <2>2. name # Cell(flash, half, q).name
    BY <1>3, <1>9
  <2> QED BY <2>1, <2>2, <1>2, <1>4, <1>5, <1>7, <1>8, OthersSame
<1>10. StoredOf(flash', request.name) = StoredOf(flash, request.name)
  <2>1. Looks(flash, half, m) /\ Looks(flash', half, m)
    BY <1>2, <1>4, <1>7, GoodLooks
  <2>2. Cell(flash', half, m).name = request.name
    BY <1>5, <1>7 DEF NamesKept
  <2>3. \A n \in 1 .. m : n <= m
    BY <1>5
  <2>4. m \in Versions(flash, half, m, request.name) /\ \A n \in Versions(flash, half, m, request.name) : n <= m
    BY <2>3, <1>5 DEF Versions, UsedIn
  <2>5. m \in Versions(flash', half, m, request.name) /\ \A n \in Versions(flash', half, m, request.name) : n <= m
    <3>1. m \in UsedIn(flash', half, m)
      BY <1>5, <1>7
    <3> QED BY <3>1, <2>2, <2>3 DEF Versions, UsedIn
  <2>6. StoredOf(flash, request.name) = DataAt(flash, Starts(flash, half, m))
    BY <2>1, <2>4, NewestIs
  <2>7. StoredOf(flash', request.name) = DataAt(flash', Starts(flash', half, m))
    BY <2>1, <2>5, NewestIs
  <2>8. /\ Starts(flash, half, m) \in Int /\ Starts(flash, half, m) > HalfStart(half) + m + 1
        /\ m \in Nat /\ \A k \in 1 .. S : Starts(flash, half, m) + k - 1 \in Addresses
    BY <1>2, <1>4, <1>5, DataPlace
  <2>9. Starts(flash', half, m) = Starts(flash, half, m)
    BY <2>8, <1>7
  <2>10. \A k \in 1 .. S : Starts(flash, half, m) + k - 1 # HalfStart(half) + q
    BY <2>8, <1>4, <1>5
  <2>11. DataAt(flash', Starts(flash, half, m)) = DataAt(flash, Starts(flash, half, m))
    BY <2>8, <2>10, <1>8 DEF DataAt
  <2> QED BY <2>6, <2>7, <2>9, <2>11
<1> QED BY <1>9, <1>10 DEF SameStored

-----------------------------------------------------------------------------
(***************************************************************************)
(* The steps of a file store.                                              *)
(***************************************************************************)
Held == [name \in Names |-> StoredIn(name)]
Shown == IF request = NoRequest THEN answer ELSE NoAnswer

\* Between calls there is no request.
AtRest == pc \in {"off", "format", "idle"} \/ (pc = "restore" /\ after = "idle")

\* What is on its way to the flash is there, and what is answered is what is stored.
WrittenInv ==
  /\ pc = "data" => DataDone(i) /\ BlankFrom(flash, end + i, end + S)
  /\ pc \in {"header", "use"} => DataDone(S)
  /\ pc = "supersede" => /\ M \in UsedIn(flash, half, M) /\ Cell(flash, half, M).name = request.name
                         /\ previous # HalfStart(half) + M
                         /\ StoredOf(flash, request.name) = request.data
CopiedInv ==
  /\ pc = "copyData" => \A n \in 1 .. i : CopiedFile(n)
  /\ pc = "copyHeader" => \A n \in 1 .. i + 1 : CopiedFile(n)
  /\ pc = "unvalidate" => Copies(flash, flash, OtherHalf, files, lastFile)
Answered ==
  pc = "return" => /\ request.op \in {"write", "read", "filesize", "erase", "list"}
                   /\ answer \in Store!Answers(request)
Resting == AtRest => request = NoRequest
RefInv == Resting /\ WrittenInv /\ CopiedInv /\ Answered

\* The contents of the store are what the flash stores,
LEMMA HeldIs ==
  /\ Held = [name \in Names |-> StoredOf(flash, name)]
  /\ Held' = [name \in Names |-> StoredOf(flash', name)]
BY StoredInIs, StoredIsAfter, Zenon DEF Held, StoredAsRead

\* so they change only with it.
LEMMA HeldSame == SameStored => Held' = Held
BY HeldIs DEF SameStored

LEMMA FlashSame == flash' = flash => SameStored
BY DEF SameStored

Working == request # NoRequest

\* A step that changes no file and shows no answer.
LEMMA Unseen ==
  ASSUME SameStored, request' = request, Working \/ answer' = answer
  PROVE  UNCHANGED Store!vars
<1>1. Held' = Held
  BY HeldSame
<1>2. Shown' = Shown
  BY DEF Shown, Working
<1> QED BY <1>1, <1>2 DEF Store!vars, Held, Shown

\* What is under way is a call.
LEMMA CallsWork ==
  ASSUME FilesInv, RefInv, pc \notin {"off", "format", "restore", "idle"}
  PROVE  Working
<1>1. ASSUME request.op # "none" PROVE Working
  BY <1>1 DEF Working, NoRequest
<1>2. ASSUME Requested PROVE Working
  BY <1>1, <1>2 DEF Requested
<1>3. CASE pc = "return"
  BY <1>1, <1>3 DEF RefInv, Answered
<1>4. CASE pc \in {"find", "room", "roomAgain", "eraseNext", "copyData", "copyHeader", "supersede"}
  BY <1>2, <1>4 DEF FilesInv, Phases, FindGood, RoomGood, EraseNextGood, CopyGood, Moving, Writes, SupersedeGood
<1>5. CASE pc \in {"data", "header", "use", "unvalidate", "eraseCurrent"}
  BY <1>2, <1>5 DEF FilesInv, Phases, DataGood, UseGood, Overwriting, UnvalidateGood, EraseCurrentGood, Writes
<1> QED BY <1>3, <1>4, <1>5 DEF FilesInv, TypeOK

\* A step and what a file store makes of it.
Refines == RefInv' /\ (Store!Next \/ UNCHANGED Store!vars)

-----------------------------------------------------------------------------
(***************************************************************************)
(* Starting, and the power failing.                                        *)
(***************************************************************************)

\* fs_init finds what was stored: it formats a device that has nothing on it.
LEMMA StartRefines ==
  ASSUME FilesInv, RefInv, InitFromHalf \/ InitErases \/ InitFormats
  PROVE  Refines
<1>1. request = NoRequest /\ request' = request /\ answer' = answer
  BY DEF RefInv, Resting, AtRest, InitFromHalf, InitErases, InitFormats, Step, call
<1>2. SameStored
  <2>1. CASE InitFromHalf
    BY <2>1, FlashSame DEF InitFromHalf
  <2>2. CASE InitErases
    BY <2>2, InitErasesStored DEF FilesInv
  <2>3. CASE InitFormats
    BY <2>3, InitFormatsStored
  <2> QED BY <2>1, <2>2, <2>3
<1>3. pc' \in {"restore", "format", "idle"}
  BY DEF InitFromHalf, InitErases, InitFormats, Step
<1>4. RefInv'
  BY <1>1, <1>3 DEF RefInv, Resting, WrittenInv, CopiedInv, Answered
<1> QED BY <1>1, <1>2, <1>4, Unseen DEF Refines

\* Reading the headers deletes none that is stored.
LEMMA RestoreRefines ==
  ASSUME FilesInv, RefInv, ~BeyondIsBlank, RestoreHeader \/ RestoreDone
  PROVE  Refines
<1>1. request' = request /\ answer' = answer /\ pc = "restore"
  BY DEF RestoreHeader, RestoreDone, Step, call
<1>2. SameStored
  <2>1. CASE RestoreHeader
    BY <2>1, RestoreHeaderStored
  <2>2. CASE RestoreDone
    BY <2>2, FlashSame DEF RestoreDone
  <2> QED BY <2>1, <2>2
<1>3. pc' \in {"restore", "idle", "roomAgain"} /\ (AtRest' => after = "idle")
  <2>1. after \in {"idle", "roomAgain"}
    BY DEF FilesInv, TypeOK
  <2>2. CASE RestoreHeader
    BY <2>2, <1>1, <2>1 DEF RestoreHeader, Step, AtRest
  <2>3. CASE RestoreDone
    BY <2>3, <1>1, <2>1 DEF RestoreDone, Step, AtRest
  <2> QED BY <2>2, <2>3
<1>4. RefInv'
  <2>1. Resting'
    BY <1>1, <1>3 DEF RefInv, Resting, AtRest
  <2> QED BY <2>1, <1>3 DEF RefInv, WrittenInv, CopiedInv, Answered
<1> QED BY <1>1, <1>2, <1>4, Unseen DEF Refines

\* When the power fails the request and its answer are lost, not what is stored.
LEMMA PowerRefines ==
  ASSUME PowerFails
  PROVE  Refines
<1>1. request' = NoRequest /\ answer' = NoAnswer /\ pc' = "off" /\ flash' = flash
  BY DEF PowerFails, MemoryCleared
<1>2. RefInv'
  BY <1>1 DEF RefInv, Resting, WrittenInv, CopiedInv, Answered
<1>3. Held' = Held /\ Shown' = NoAnswer
  BY <1>1, HeldSame, FlashSame DEF Shown
<1>4. Store!PowerLost
  BY <1>1, <1>3 DEF Store!PowerLost, Store!NoAnswer, NoAnswer, Status, Held, Shown
<1> QED BY <1>2, <1>4 DEF Refines, Store!Next

\* A call, and its return with an answer.
LEMMA CallRefines ==
  ASSUME FilesInv, RefInv, \/ \E name \in Names, data \in Contents : Call("write", name, data)
                           \/ \E name \in Names, op \in {"read", "filesize", "erase"} : Call(op, name, <<>>)
  PROVE  Refines
<1>1. PICK op \in {"write", "read", "filesize", "erase"}, name \in Names,
          data \in Contents \cup {<<>>} : Call(op, name, data)
  BY Zenon
<1>2. pc = "idle" /\ request = NoRequest
  BY <1>1 DEF Call, RefInv, Resting, AtRest
<1>3. pc' = "find" /\ request' # NoRequest /\ flash' = flash
  BY <1>1 DEF Call, NoRequest
<1>4. RefInv'
  BY <1>3 DEF RefInv, Resting, AtRest, WrittenInv, CopiedInv, Answered
<1>5. Held' = Held /\ Shown' = NoAnswer
  BY <1>3, HeldSame, FlashSame DEF Shown
<1>6. Store!Call
  BY <1>2, <1>3, <1>5 DEF Store!Call, Store!NoAnswer, NoAnswer, Status, Held, Shown
<1> QED BY <1>4, <1>6 DEF Refines, Store!Next

\* The answer shows when the call returns.
LEMMA ReturnRefines ==
  ASSUME FilesInv, RefInv, Return
  PROVE  Refines
<1>1. pc = "return" /\ pc' = "idle" /\ request' = NoRequest /\ flash' = flash /\ answer' = answer
  BY DEF Return, Step
<1>2. Working /\ answer \in Store!Answers(request)
  BY <1>1, CallsWork DEF RefInv, Answered
<1>3. RefInv'
  BY <1>1 DEF RefInv, Resting, WrittenInv, CopiedInv, Answered
<1>4. Held' = Held /\ Shown' = answer
  BY <1>1, HeldSame, FlashSame DEF Shown
<1>5. Store!Return
  BY <1>1, <1>2, <1>4 DEF Store!Return, Working, Held, Shown
<1> QED BY <1>3, <1>5 DEF Refines, Store!Next

-----------------------------------------------------------------------------
(***************************************************************************)
(* The answers of a file store.                                            *)
(***************************************************************************)
StoredNames(fl) == {n \in Names : StoredOf(fl, n) # Absent}
Allowed(fl, r, a) ==
  \/ /\ r.op = "read" /\ r.name \in Names
     /\ a = IF StoredOf(fl, r.name) = Absent THEN Status("FILE_NOT_FOUND")
            ELSE [status |-> "FS_SUCCESS", data |-> StoredOf(fl, r.name)]
  \/ /\ r.op = "filesize" /\ r.name \in Names
     /\ a = IF StoredOf(fl, r.name) = Absent THEN Status("FILE_NOT_FOUND")
            ELSE [status |-> "FS_SUCCESS", size |-> Len(StoredOf(fl, r.name))]
  \/ /\ r.op = "erase" /\ r.name \in Names
     /\ StoredOf(fl, r.name) = Absent /\ a \in {Status("FS_SUCCESS"), Status("FILE_NOT_FOUND")}
  \/ r.op = "write" /\ a = Status("MAXIMUM_FLASH_SIZE_EXCEEDED")
  \/ /\ r.op = "write" /\ r.name \in Names /\ a = Status("FS_SUCCESS")
     /\ StoredOf(fl, r.name) = r.data /\ r.data # Absent
  \/ r.op = "list" /\ a = [count |-> Cardinality(StoredNames(fl)), names |-> StoredNames(fl)]

AnswersRule == \A r, a : Allowed(flash, r, a) => a \in Store!Answers(r)

\* The answers of FileStore are those.
LEMMA AnswersAre == AnswersRule
<1> SUFFICES ASSUME NEW r, NEW a, Allowed(flash, r, a) PROVE a \in Store!Answers(r)
  BY DEF AnswersRule
<1>1. Held = [name \in Names |-> StoredOf(flash, name)]
  BY HeldIs
<1>2. Store!Stored = StoredNames(flash)
  <2>1. Store!Stored = {n \in Names : Held[n] # Absent}
    BY Zenon DEF Store!Stored, Held
  <2> QED BY <2>1, <1>1 DEF StoredNames
<1>3. r.name \in Names => /\ Held[r.name] = StoredOf(flash, r.name)
                          /\ r.name \in Store!Stored <=> StoredOf(flash, r.name) # Absent
  BY <1>1, <1>2 DEF StoredNames
<1>4. /\ Store!Success = Status("FS_SUCCESS") /\ Store!NotFound = Status("FILE_NOT_FOUND")
      /\ Store!Full = Status("MAXIMUM_FLASH_SIZE_EXCEEDED")
  BY DEF Store!Success, Store!NotFound, Store!Full, Status
<1>5. CASE r.op = "read"
  <2>1. Store!Answers(r) = {IF r.name \in Store!Stored THEN [status |-> "FS_SUCCESS", data |-> Held[r.name]]
                            ELSE Store!NotFound}
    BY <1>5 DEF Store!Answers, Held
  <2> QED BY <2>1, <1>3, <1>4, <1>5 DEF Allowed
<1>6. CASE r.op = "filesize"
  <2>1. Store!Answers(r) = {IF r.name \in Store!Stored THEN [status |-> "FS_SUCCESS", size |-> Len(Held[r.name])]
                            ELSE Store!NotFound}
    BY <1>6 DEF Store!Answers, Held
  <2> QED BY <2>1, <1>3, <1>4, <1>6 DEF Allowed
<1>7. CASE r.op = "erase"
  <2>1. Store!Answers(r) = IF r.name \in Store!Stored THEN {} ELSE {Store!Success, Store!NotFound}
    BY <1>7 DEF Store!Answers
  <2> QED BY <2>1, <1>3, <1>4, <1>7 DEF Allowed
<1>8. CASE r.op = "write"
  <2>1. Store!Answers(r) = {Store!Full} \cup (IF r.name \in Store!Stored /\ Held[r.name] = r.data
                                              THEN {Store!Success} ELSE {})
    BY <1>8 DEF Store!Answers, Held
  <2> QED BY <2>1, <1>3, <1>4, <1>8 DEF Allowed
<1>9. CASE r.op = "list"
  <2>1. Store!Answers(r) = {[count |-> Cardinality(Store!Stored), names |-> Store!Stored]}
    <3>1. Store!Cardinality(Store!Stored) = Cardinality(Store!Stored)
      BY Zenon DEF Store!Cardinality, Cardinality
    <3> QED BY <3>1, <1>9 DEF Store!Answers
  <2> QED BY <2>1, <1>2, <1>9 DEF Allowed
<1> QED BY <1>5, <1>6, <1>7, <1>8, <1>9 DEF Allowed

AnswersNow == \A a : Allowed(flash, request, a) => a \in Store!Answers(request)
LEMMA AnswersAfter == AnswersNow'
<1>1. AnswersNow
  BY AnswersAre DEF AnswersRule, AnswersNow
<1> QED BY <1>1, PTL

\* A step to the return with an answer that the store allows.
LEMMA AnswerGood ==
  ASSUME pc' = "return", Working, request' = request, Allowed(flash', request, answer')
  PROVE  RefInv'
<1>1. request'.op \in {"write", "read", "filesize", "erase", "list"}
  BY DEF Allowed
<1>2. answer' \in Store!Answers(request)'
  BY AnswersAfter DEF AnswersNow
<1> QED BY <1>1, <1>2 DEF RefInv, Resting, AtRest, WrittenInv, CopiedInv, Answered, Working

-----------------------------------------------------------------------------
(***************************************************************************)
(* Answering from the table.                                               *)
(***************************************************************************)
\* The data of a file of the table is its contents.
LEMMA ContentsAre ==
  ASSUME TypeOK, Settled, NEW k \in 0 .. lastFile - 1
  PROVE  /\ Data(files[k]) = StoredOf(flash, files[k].name) /\ files[k].length = S
         /\ StoredOf(flash, files[k].name) # Absent /\ Len(StoredOf(flash, files[k].name)) = S
         /\ files[k].name \in Names /\ files[k].valid = USED
<1> DEFINE s == files[k].start
           d == DataAt(flash, s)
<1>1. Current
  BY SettledIs
<1>2. /\ files[k].length = S /\ files[k].name \in Names /\ files[k].valid = USED
      /\ s \in Int /\ s > HalfStart(half) + M + 1 /\ s + S <= HalfStart(half) + HALF_SIZE
  BY <1>1, EntryFacts
<1>3. /\ half \in BothHalves /\ flash \in Flashes /\ M \in 0 .. HALF_SIZE - 2
      /\ HalfStart(half) \in Nat /\ HalfStart(half) + HALF_SIZE < FlashSize
  BY SettledFacts, Halves
<1>4. StoredOf(flash, files[k].name) = d
  BY TableStored
<1>5. Data(files[k]) = d
  BY <1>2 DEF Data, DataAt
<1>6. \A j \in 1 .. S : flash[s + j - 1] \in Headers
  <2>1. s \in Int /\ s >= 0 /\ S \in Nat /\ FlashSize \in Nat /\ s + S < FlashSize
    <3>1. M \in Nat /\ S \in Nat /\ FlashSize \in Nat /\ HALF_SIZE \in Nat
      BY <1>3, Geometry, SizeFits
    <3> HIDE DEF s, M
    <3> QED BY <3>1, <1>2, <1>3
  <2> HIDE DEF s
  <2>2. \A j \in 1 .. S : s + j - 1 \in 0 .. FlashSize - 1
    BY <2>1
  <2> QED BY <2>2, <1>3, Geometry DEF Flashes
<1>7. S \in Nat
  BY SizeFits, Geometry
<1> HIDE DEF s
<1>8. d \in Seq(Headers) /\ Len(d) = S
  BY <1>6, <1>7 DEF DataAt
<1>9. d # Absent
  BY <1>8, OptionsAssumption
<1> QED BY <1>2, <1>4, <1>5, <1>8, <1>9

\* Where FindFile finds none, none is stored.
LEMMA NotFoundStored ==
  ASSUME TypeOK, FindGood, ~Found, Matches = {}
  PROVE  StoredOf(flash, request.name) = Absent
<1>1. Settled /\ i = lastFile
  BY DEF FindGood
<1>2. \A k \in 0 .. lastFile - 1 : files[k].name # request.name
  <2> SUFFICES ASSUME NEW k \in 0 .. lastFile - 1, files[k].name = request.name PROVE FALSE
    OBVIOUS
  <2>1. files[k].valid = USED
    BY <1>1, ContentsAre
  <2>2. k \in 0 .. i
    BY <1>1 DEF TypeOK
  <2> QED BY <2>1, <2>2 DEF Matches
<1> QED BY <1>1, <1>2, TableStored

\* Looking for a file changes nothing, nor does a look for room.
LEMMA FindRefines ==
  ASSUME FilesInv, RefInv, FindNewest \/ EnterWrite \/ EnterChangeHalf
  PROVE  Refines
<1>1. request' = request /\ flash' = flash /\ pc \in {"find", "room"} /\ pc' \in {"find", "room", "eraseNext"}
  BY DEF FindNewest, EnterWrite, EnterChangeHalf, FindEnds, Step, call, table
<1>2. Working
  BY <1>1, CallsWork
<1>3. RefInv'
  BY <1>1 DEF RefInv, Resting, AtRest, WrittenInv, CopiedInv, Answered
<1> QED BY <1>1, <1>2, <1>3, FlashSame, Unseen DEF Refines

\* fs_read and fs_filesize answer what is stored, and a write for which there is no room leaves it.
LEMMA AnswerRefines ==
  ASSUME FilesInv, RefInv, NotFound \/ Read \/ Full
  PROVE  Refines
<1>1. request' = request /\ flash' = flash /\ pc \in {"find", "roomAgain"} /\ pc' = "return"
  BY DEF NotFound, Read, Full, FindEnds, Step
<1>2. Working
  BY <1>1, CallsWork
<1>3. TypeOK /\ (NotFound \/ Read => FindGood) /\ (Full => RoomGood)
  BY DEF FilesInv, Phases, NotFound, Read, Full, FindEnds, Step
<1>4. Allowed(flash, request, answer')
  <2>1. CASE NotFound
    <3>1. StoredOf(flash, request.name) = Absent
      BY <2>1, <1>3, NotFoundStored DEF NotFound, FindEnds
    <3>2. answer' = Status("FILE_NOT_FOUND") /\ request.op \in {"read", "filesize", "erase"} /\ request.name \in Names
      BY <2>1, <1>3 DEF NotFound, FindGood, Requested
    <3> QED BY <3>1, <3>2 DEF Allowed
  <2>2. CASE Read
    <3>1. Settled /\ index \in 0 .. lastFile - 1 /\ files[index].name = request.name
      BY <2>2, <1>3 DEF Read, FindGood, FileFound
    <3>2. /\ Data(files[index]) = StoredOf(flash, request.name) /\ files[index].length = S
          /\ StoredOf(flash, request.name) # Absent /\ Len(StoredOf(flash, request.name)) = S
          /\ request.name \in Names
      BY <3>1, <1>3, ContentsAre
    <3>3. /\ request.op \in {"read", "filesize"}
          /\ answer' = IF request.op = "read"
                         THEN [status |-> "FS_SUCCESS", data |-> Data(files[index])]
                         ELSE [status |-> "FS_SUCCESS", size |-> files[index].length]
      BY <2>2 DEF Read
    <3> QED BY <3>2, <3>3 DEF Allowed
  <2>3. CASE Full
    BY <2>3, <1>3 DEF Full, RoomGood, Writes, Allowed
  <2> QED BY <2>1, <2>2, <2>3
<1>5. RefInv'
  BY <1>1, <1>2, <1>4, AnswerGood
<1> QED BY <1>1, <1>2, <1>5, FlashSame, Unseen DEF Refines

\* fs_erase takes effect when the header is marked DELETED.
LEMMA RemoveRefines ==
  ASSUME FilesInv, RefInv, FilesInv', Erase
  PROVE  Refines
<1>1. /\ request' = request /\ pc = "find" /\ pc' = "return" /\ request.op = "erase"
      /\ answer' = Status("FS_SUCCESS")
  BY DEF Erase, FindEnds, Step
<1>2. Working /\ Requested
  BY <1>1, CallsWork DEF FilesInv, Phases, FindGood
<1>3. /\ StoredOf(flash', request.name) = Absent
      /\ \A name : name # request.name => StoredOf(flash', name) = StoredOf(flash, name)
  BY EraseStored
<1>4. RefInv'
  <2>1. Allowed(flash', request, answer')
    BY <1>1, <1>2, <1>3 DEF Allowed, Requested
  <2> QED BY <2>1, <1>1, <1>2, AnswerGood
<1>5. Held' = [Held EXCEPT ![request.name] = Absent]
  BY <1>2, <1>3, HeldIs DEF Requested
<1>6. Shown' = Shown
  BY <1>1, <1>2 DEF Shown, Working
<1>7. Store!Perform
  BY <1>1, <1>5, <1>6 DEF Store!Perform, Held, Shown
<1> QED BY <1>4, <1>7 DEF Refines, Store!Next

\* fs_list counts and names the files that are stored.
LEMMA ListRefines ==
  ASSUME FilesInv, RefInv, List
  PROVE  Refines
<1> DEFINE K == 0 .. lastFile - 1
           N == {files[k].name : k \in K}
           T == StoredNames(flash)
<1>1. /\ pc = "idle" /\ pc' = "return" /\ request' = [op |-> "list", name |-> Ones, data |-> <<>>]
      /\ answer' = [count |-> lastFile, names |-> N] /\ flash' = flash
  BY DEF List
<1>2. TypeOK /\ Settled /\ Current /\ lastFile \in 0 .. HALF_SIZE /\ request = NoRequest
  BY <1>1, SettledIs DEF FilesInv, Phases, TypeOK, RefInv, Resting, AtRest
<1>3. N = T
  <2>1. \A k \in K : files[k].name \in T
    <3> SUFFICES ASSUME NEW k \in K PROVE files[k].name \in T
      OBVIOUS
    <3>1. files[k].name \in Names /\ StoredOf(flash, files[k].name) # Absent
      BY <1>2, ContentsAre
    <3> QED BY <3>1 DEF StoredNames
  <2>2. \A name : (\A k \in K : files[k].name # name) => StoredOf(flash, name) = Absent
    BY <1>2, TableStored
  <2>3. \A name \in T : StoredOf(flash, name) # Absent
    BY DEF StoredNames
  <2> HIDE DEF T, K
  <2> QED BY <2>1, <2>2, <2>3
<1>4. lastFile = Cardinality(N)
  <2> DEFINE f == [k \in K |-> files[k].name]
  <2>1. f \in [K -> N] /\ \A a \in N : \E k \in K : f[k] = a
    OBVIOUS
  <2>2. \A j, k \in K : f[j] = f[k] => j = k
    BY <1>2, TableNames
  <2>3. IsFiniteSet(K) /\ Cardinality(K) = lastFile
    <3>1. IsFiniteSet(0 .. lastFile - 1)
          /\ Cardinality(0 .. lastFile - 1) = IF 0 > lastFile - 1 THEN 0 ELSE (lastFile - 1) - 0 + 1
      <4>1. 0 \in Int /\ lastFile - 1 \in Int
        BY <1>2, Geometry
      <4> QED BY <4>1, FS_Interval
    <3> QED BY <3>1, <1>2, Geometry
  <2> HIDE DEF f, K, N
  <2>4. f \in Bijection(K, N)
    BY <2>1, <2>2 DEF Bijection, Injection, Surjection, IsInjective
  <2>5. ExistsBijection(K, N)
    BY <2>4 DEF ExistsBijection
  <2> QED BY <2>3, <2>5, FS_Bijection
<1>5. Allowed(flash', request', answer')
  <2>1. answer' = [count |-> Cardinality(T), names |-> T]
    BY <1>1, <1>3, <1>4
  <2> QED BY <2>1, <1>1 DEF Allowed
<1>6. request' # NoRequest
  BY <1>1 DEF NoRequest
<1>7. RefInv'
  <2>1. \A a : Allowed(flash', request', a) => a \in Store!Answers(request)'
    BY AnswersAfter DEF AnswersNow
  <2>2. answer' \in Store!Answers(request)'
    BY <2>1, <1>5
  <2> QED BY <2>2, <1>1 DEF RefInv, Resting, AtRest, WrittenInv, CopiedInv, Answered
<1>8. Held' = Held /\ Shown' = NoAnswer
  BY <1>1, <1>6, HeldSame, FlashSame DEF Shown
<1>9. Store!Call
  BY <1>2, <1>6, <1>8 DEF Store!Call, Store!NoAnswer, NoAnswer, Status, Held, Shown
<1> QED BY <1>7, <1>9 DEF Refines, Store!Next

-----------------------------------------------------------------------------
(***************************************************************************)
(* Writing.                                                                *)
(***************************************************************************)

\* The data is going to where the flash is erased.
LEMMA StartWriteRefines ==
  ASSUME FilesInv, RefInv, FilesInv', StartWrite
  PROVE  Refines
<1>1. request' = request /\ flash' = flash /\ pc \in {"room", "roomAgain"} /\ pc' = "data" /\ i' = i
  BY DEF StartWrite, Step
<1>2. Working
  BY <1>1, CallsWork
<1>3. i = 0
  BY <1>1 DEF FilesInv, Phases, RoomGood
<1>4. DataGood' /\ S \in Int
  BY <1>1, SizeFits, Geometry DEF FilesInv, Phases
<1>5. BlankFrom(flash', next', end' + S)
  BY <1>1, <1>3, <1>4 DEF DataGood
<1>6. end' > next' + 1 /\ next' \in Int /\ end' \in Int
  <2>1. end' > next' + 1
    BY <1>4 DEF DataGood
  <2>2. next' \in 0 .. 2 * HALF_SIZE /\ end' \in 0 .. 2 * HALF_SIZE
    BY Zenon DEF FilesInv, TypeOK
  <2>3. \A x \in 0 .. 2 * HALF_SIZE : x \in Int
    BY Geometry
  <2> QED BY <2>1, <2>2, <2>3, Zenon
<1>7. BlankFrom(flash', end' + 0, end' + S)
  <2> SUFFICES ASSUME NEW a \in Addresses, end' + 0 <= a, a < end' + S PROVE flash'[a] = Blank
    BY DEF BlankFrom
  <2>1. next' <= a
    <3>1. a \in Int
      BY Geometry
    <3>2. \A n, e, b \in Int : e > n + 1 /\ e + 0 <= b => n <= b
      BY SMT
    <3> QED BY <3>1, <3>2, <1>6, Zenon
  <2> QED BY <2>1, <1>5 DEF BlankFrom
<1>8. RefInv'
  BY <1>1, <1>3, <1>7 DEF RefInv, Resting, AtRest, WrittenInv, CopiedInv, Answered, DataDone
<1> QED BY <1>1, <1>2, <1>8, FlashSame, Unseen DEF Refines

\* Cell after cell it gets there,
LEMMA WriteDataRefines ==
  ASSUME FilesInv, RefInv, FilesInv', WriteData
  PROVE  Refines
<1>1. pc = "data" /\ request' = request /\ pc' \in {"data", "header"}
  BY DEF WriteData, Step, call
<1>2. DataDone(i) /\ BlankFrom(flash, end + i, end + S) /\ Working
  BY <1>1, CallsWork DEF RefInv, WrittenInv
<1>3. SameStored
  BY <1>2, WriteDataStored
<1>4. /\ TypeOK /\ i \in 0 .. S - 1 /\ WritingLooks
      /\ pc' = (IF i + 1 = S THEN "header" ELSE "data")
      /\ i' = (IF i + 1 = S THEN 0 ELSE i + 1)
      /\ end' = end
      /\ flash' \in Flashes /\ flash'[end + i] = request.data[i + 1]
      /\ \A a \in Addresses : a # end + i => flash'[a] = flash[a]
  BY <1>2, WriteDataFacts
<1>5. /\ S \in Nat /\ end \in Int /\ end >= 0 /\ end + S <= FlashSize
  <2>1. /\ half \in BothHalves /\ end \in Int /\ S \in Nat /\ HalfStart(half) \in Nat
        /\ M \in 0 .. HALF_SIZE - 2 /\ end > HalfStart(half) + M + 2 /\ end + S <= HalfStart(half) + HALF_SIZE
    BY <1>4 DEF WritingLooks
  <2>2. HalfStart(half) + HALF_SIZE < FlashSize
    BY <2>1, Halves
  <2> QED BY <2>1, <2>2, Geometry
<1>6. \A k \in 1 .. i + 1 : flash'[end + k - 1] = request.data[k]
  <2> SUFFICES ASSUME NEW k \in 1 .. i + 1 PROVE flash'[end + k - 1] = request.data[k]
    OBVIOUS
  <2>1. CASE k = i + 1
    <3>1. end + k - 1 = end + i
      BY <2>1, <1>4, <1>5
    <3> QED BY <3>1, <2>1, <1>4
  <2>2. CASE k # i + 1
    <3>1. k \in 1 .. i /\ end + k - 1 # end + i /\ end + k - 1 \in Addresses
      BY <2>2, <1>4, <1>5, Geometry
    <3> QED BY <3>1, <1>2, <1>4 DEF DataDone
  <2> QED BY <2>1, <2>2
<1>7. BlankFrom(flash', end + (i + 1), end + S)
  <2> SUFFICES ASSUME NEW a \in Addresses, end + (i + 1) <= a, a < end + S PROVE flash'[a] = Blank
    BY DEF BlankFrom
  <2>1. a # end + i /\ end + i <= a
    BY <1>4, <1>5, Geometry
  <2> QED BY <2>1, <1>2, <1>4 DEF BlankFrom
<1>8. WrittenInv'
  <2>1. CASE i + 1 = S
    <3>1. DataDone(S)'
      BY <2>1, <1>1, <1>4, <1>6 DEF DataDone
    <3> QED BY <3>1, <2>1, <1>4 DEF WrittenInv
  <2>2. CASE i + 1 # S
    <3>1. i' = i + 1 /\ pc' = "data"
      BY <2>2, <1>4
    <3>2. DataDone(i)' /\ BlankFrom(flash, end + i, end + S)'
      BY <3>1, <1>1, <1>4, <1>6, <1>7 DEF DataDone, BlankFrom
    <3> QED BY <3>1, <3>2 DEF WrittenInv
  <2> QED BY <2>1, <2>2
<1>9. RefInv'
  BY <1>1, <1>8 DEF RefInv, Resting, AtRest, CopiedInv, Answered
<1> QED BY <1>1, <1>2, <1>3, <1>9, Unseen DEF Refines

\* and is not disturbed by the header.
LEMMA WriteHeaderRefines ==
  ASSUME FilesInv, RefInv, FilesInv', WriteHeader
  PROVE  Refines
<1>1. pc = "header" /\ request' = request /\ pc' = "use"
  BY DEF WriteHeader, Step, call
<1>2. DataDone(S) /\ Working
  BY <1>1, CallsWork DEF RefInv, WrittenInv
<1>3. SameStored
  BY WriteHeaderStored
<1>4. /\ WritingLooks /\ \A a \in Addresses : a # next => flash'[a] = flash[a]
      /\ end' = end
  BY WriteHeaderFacts
<1>5. /\ half \in BothHalves /\ next = HalfStart(half) + M + 1 /\ HalfStart(half) \in Nat
      /\ M \in 0 .. HALF_SIZE - 2
      /\ S \in Nat /\ end \in Int /\ end > HalfStart(half) + M + 2 /\ end + S <= HalfStart(half) + HALF_SIZE
  BY <1>4 DEF WritingLooks
<1>6. HalfStart(half) + HALF_SIZE < FlashSize
  BY <1>5, Halves
<1>7. \A k \in 1 .. S : end + k - 1 # next /\ end + k - 1 \in Addresses
  BY <1>5, <1>6, Geometry
<1>8. DataDone(S)'
  BY <1>1, <1>2, <1>4, <1>7 DEF DataDone
<1>9. RefInv'
  BY <1>1, <1>8 DEF RefInv, Resting, AtRest, WrittenInv, CopiedInv, Answered
<1> QED BY <1>1, <1>2, <1>3, <1>9, Unseen DEF Refines

\* A write takes effect when its header is set USED: there, if there was a version before,
\* the file has two, of which the later is read.
LEMMA WriteUsedRefines ==
  ASSUME FilesInv, RefInv, FilesInv', WriteUsed
  PROVE  Refines
<1>1. /\ pc = "use" /\ request' = request
      /\ pc' = (IF Found THEN "supersede" ELSE "return")
      /\ ~Found => answer' = Status("FS_SUCCESS")
  BY DEF WriteUsed, Step
<1>2. Working /\ DataDone(S)
  BY <1>1, CallsWork DEF RefInv, WrittenInv
<1>3. /\ TypeOK /\ UseGood /\ Writes /\ M \in 1 .. M
      /\ UsedIn(flash', half, M) = UsedIn(flash, half, M) \cup {M}
      /\ Cell(flash', half, M).name = request.name
      /\ UNCHANGED <<half, next, previous>>
  BY WriteUsedFacts
<1>4. /\ StoredOf(flash', request.name) = request.data
      /\ \A name : name # request.name => StoredOf(flash', name) = StoredOf(flash, name)
  BY <1>2, WriteUsedStored
<1>5. request.op = "write" /\ request.name \in Names /\ request.data # Absent
  <2>1. request.op = "write" /\ request.name \in Names /\ request.data \in Contents
    BY <1>3 DEF Writes, Requested
  <2> QED BY <2>1, ContentsAssumption, OptionsAssumption
<1>6. RefInv'
  <2>1. CASE ~Found
    <3>1. Allowed(flash', request, answer')
      BY <2>1, <1>1, <1>4, <1>5 DEF Allowed
    <3>2. pc' = "return"
      BY <2>1, <1>1
    <3> QED BY <3>1, <3>2, <1>1, <1>2, AnswerGood
  <2>2. CASE Found
    <3>1. pc' = "supersede" /\ M' = M
      BY <2>2, <1>1, <1>3 DEF M
    <3>2. previous # HalfStart(half) + M
      <4> DEFINE U == UsedIn(flash, half, M)
      <4>1. /\ Entries(flash, files, lastFile, half, U) /\ previous = files[index].header
            /\ index \in 0 .. lastFile - 1 /\ Cell(flash, half, M).valid # USED
        BY <2>2, <1>3 DEF UseGood, Overwriting, Writes, FileFound, USED, UNUSED
      <4>2. M \notin U /\ U \subseteq 1 .. M
        BY <4>1, UsedAre DEF UsedIn
      <4>3. PICK p \in U : files[index].header = HalfStart(half) + p
        <5> HIDE DEF U
        <5> QED BY <4>1, Zenon DEF Entries
      <4>4. p # M /\ p \in Int /\ M \in Int
        <5> HIDE DEF U
        <5> QED BY <4>2, <1>3
      <4>5. HalfStart(half) \in Int
        BY <1>3, HalfIs, Halves
      <4> HIDE DEF U
      <4> QED BY <4>1, <4>3, <4>4, <4>5
    <3>3. M \in UsedIn(flash', half, M)
      BY <1>3
    <3>4. WrittenInv'
      BY <3>1, <3>2, <3>3, <1>1, <1>3, <1>4 DEF WrittenInv
    <3> QED BY <3>1, <3>4, <1>1 DEF RefInv, Resting, AtRest, CopiedInv, Answered
  <2> QED BY <2>1, <2>2
<1>7. Held' = [Held EXCEPT ![request.name] = request.data]
  BY <1>4, <1>5, HeldIs
<1>8. Shown' = Shown
  BY <1>1, <1>2 DEF Shown, Working
<1>9. Store!Perform
  BY <1>1, <1>5, <1>7, <1>8 DEF Store!Perform, Held, Shown
<1> QED BY <1>6, <1>9 DEF Refines, Store!Next

\* The version before can go.
LEMMA SupersedeRefines ==
  ASSUME FilesInv, RefInv, FilesInv', Supersede
  PROVE  Refines
<1>1. /\ pc = "supersede" /\ request' = request /\ pc' = "return"
      /\ answer' = Status("FS_SUCCESS")
  BY DEF Supersede, Step
<1>2. /\ Working /\ M \in UsedIn(flash, half, M) /\ Cell(flash, half, M).name = request.name
      /\ previous # HalfStart(half) + M /\ StoredOf(flash, request.name) = request.data
  BY <1>1, CallsWork DEF RefInv, WrittenInv
<1>3. SameStored
  BY <1>2, SupersedeStored
<1>4. request.op = "write" /\ request.name \in Names /\ request.data # Absent
  <2>1. request.op = "write" /\ request.name \in Names /\ request.data \in Contents
    BY <1>1 DEF FilesInv, Phases, SupersedeGood, Requested
  <2> QED BY <2>1, ContentsAssumption, OptionsAssumption
<1>5. Allowed(flash', request, answer')
  BY <1>1, <1>2, <1>3, <1>4 DEF Allowed, SameStored
<1>6. RefInv'
  BY <1>1, <1>2, <1>5, AnswerGood
<1> QED BY <1>1, <1>2, <1>3, <1>6, Unseen DEF Refines

-----------------------------------------------------------------------------
(***************************************************************************)
(* Copying to the other half.                                              *)
(***************************************************************************)

\* Erasing the other half.
LEMMA EraseNextRefines ==
  ASSUME FilesInv, RefInv, FilesInv', EraseNext
  PROVE  Refines
<1>1. /\ pc = "eraseNext" /\ request' = request /\ pc' \in {"eraseNext", "copyData"}
      /\ pc' = "copyData" => i' = 0
  BY DEF EraseNext, EraseHalf, Step, call
<1>2. Working /\ SameStored
  BY <1>1, CallsWork, EraseNextStored
<1>3. RefInv'
  BY <1>1 DEF RefInv, Resting, AtRest, WrittenInv, CopiedInv, Answered
<1> QED BY <1>1, <1>2, <1>3, Unseen DEF Refines

\* The copies lie one below the other, above the headers.
LEMMA CopiesApart ==
  ASSUME TypeOK, CopyGood, i \in 0 .. lastFile - 1
  PROVE  \A n \in 1 .. i + 1 :
           /\ CopyStart(n) \in Int /\ CopyStart(n) > OtherStart + i + 2
           /\ n # i + 1 => CopyStart(n) >= CopyStart(i + 1) + S
           /\ \A k \in 1 .. S : CopyStart(n) + k - 1 \in Addresses
<1>1. /\ half \in BothHalves /\ OtherHalf \in BothHalves
      /\ flash \in Flashes /\ OtherStart = HalfStart(OtherHalf) /\ OtherStart \in Nat
      /\ OtherStart + HALF_SIZE < FlashSize
  BY OtherIs
<1>2. Moving /\ \A n \in 0 .. i : Starts(flash, OtherHalf, n) = CopyStart(n)
  BY DEF CopyGood, CopyStart
<1>3. Current /\ lastFile \in Nat /\ i \in Nat
  BY <1>2, SettledIs, Geometry DEF Moving, TypeOK
<1>4. /\ DataEnd(S, i + 1, 0) > (i + 1) + 1 /\ i + 1 \in 0 .. HALF_SIZE - 2
      /\ DataEnd(S, i, 0) \in Int /\ DataEnd(S, i + 1, 0) = DataEnd(S, i, 0) - S
      /\ S \in 1 .. F /\ S \in Int /\ 1 <= S
  <2>1. i + 1 \in 0 .. lastFile /\ i \in Int /\ 0 \in Int
    BY <1>3
  <2>2. DataEnd(S, i + 1, 0) > (i + 1) + 1 /\ i + 1 \in 0 .. HALF_SIZE - 2
    BY <2>1, <1>3, CopyFits
  <2>3. S \in 1 .. F /\ S \in Int /\ 1 <= S
    BY SizeFits, Geometry
  <2>4. DataEnd(S, i, 0) \in Int /\ DataEnd(S, i + 1, 0) = DataEnd(S, i, 0) - S
    BY <2>1, DataEnds
  <2> QED BY <2>2, <2>3, <2>4
<1>5. /\ CopyStart(i + 1) \in Int /\ CopyStart(i) = CopyStart(i + 1) + S
      /\ CopyStart(i + 1) > OtherStart + i + 2
  BY <1>1, <1>3, <1>4 DEF CopyStart
<1>6. \A n \in 0 .. i : CopyStart(n) \in Int /\ CopyStart(n) >= CopyStart(i + 1) + S
                        /\ CopyStart(n) <= OtherStart + HALF_SIZE
  <2> SUFFICES ASSUME NEW n \in 0 .. i
               PROVE  CopyStart(n) \in Int /\ CopyStart(n) >= CopyStart(i + 1) + S
                        /\ CopyStart(n) <= OtherStart + HALF_SIZE
    OBVIOUS
  <2>1. n \in 0 .. HALF_SIZE - 1 /\ i \in 0 .. HALF_SIZE - 1 /\ 0 \in 0 .. HALF_SIZE - 1 /\ n <= i /\ 0 <= n
        /\ i \in 0 .. i
    BY <1>3, <1>4, Geometry
  <2>2. Starts(flash, OtherHalf, i) <= Starts(flash, OtherHalf, n) /\ Starts(flash, OtherHalf, n) \in Int
        /\ Starts(flash, OtherHalf, n) <= Starts(flash, OtherHalf, 0)
        /\ Starts(flash, OtherHalf, 0) = HalfStart(OtherHalf) + HALF_SIZE
    BY <2>1, <1>1, StartsDescend, StartRule
  <2> QED BY <2>1, <2>2, <1>1, <1>2, <1>5
<1>7. ASSUME NEW n \in 1 .. i + 1
      PROVE  /\ CopyStart(n) \in Int /\ CopyStart(n) >= CopyStart(i + 1)
             /\ n # i + 1 => CopyStart(n) >= CopyStart(i + 1) + S
             /\ CopyStart(n) + S <= OtherStart + HALF_SIZE
  <2>1. CASE n = i + 1
    <3>1. i \in 0 .. i
      BY <1>3
    <3> QED BY <2>1, <3>1, <1>4, <1>5, <1>6
  <2>2. CASE n # i + 1
    <3>1. n \in 0 .. i /\ n - 1 \in 0 .. i
      BY <2>2, <1>3
    <3>2. n \in Int /\ 0 \in Int
      BY <1>3
    <3>3. DataEnd(S, (n - 1) + 1, 0) = DataEnd(S, n - 1, 0) - S
      <4>1. n - 1 \in Int
        BY <1>3
      <4> QED BY <4>1, DataEnds
    <3>4. (n - 1) + 1 = n
      BY <1>3
    <3>5. DataEnd(S, n - 1, 0) \in Int
      <4>1. n - 1 \in Int
        BY <1>3
      <4> QED BY <4>1, DataEnds
    <3>6. CopyStart(n) = CopyStart(n - 1) - S
      BY <3>3, <3>4, <3>5, <1>1, <1>4 DEF CopyStart
    <3>7. CopyStart(n - 1) \in Int /\ CopyStart(n - 1) <= OtherStart + HALF_SIZE
      BY <3>1, <1>6
    <3>8. CopyStart(n) \in Int /\ CopyStart(n) >= CopyStart(i + 1) + S
      BY <3>1, <1>6
    <3> QED BY <3>6, <3>7, <3>8, <1>4, <1>5, <2>2
  <2> QED BY <2>1, <2>2
<1>8. ASSUME NEW n \in 1 .. i + 1, NEW k \in 1 .. S PROVE CopyStart(n) + k - 1 \in Addresses
  <2>1. /\ CopyStart(n) \in Int /\ CopyStart(n) >= CopyStart(i + 1)
        /\ CopyStart(n) + S <= OtherStart + HALF_SIZE
    BY <1>7
  <2> HIDE DEF CopyStart
  <2>2. 0 <= CopyStart(n)
    BY <2>1, <1>1, <1>3, <1>5
  <2>3. OtherStart \in Int /\ HALF_SIZE \in Int /\ FlashSize \in Int /\ k \in Int /\ 1 <= k /\ k <= S
    BY <1>1, <1>4, Geometry
  <2>4. CopyStart(n) + k - 1 \in 0 .. FlashSize - 1
    BY <2>1, <2>2, <2>3, <1>1, <1>4
  <2> QED BY <2>4, Geometry
<1> QED BY <1>1, <1>3, <1>5, <1>7, <1>8

\* A file is copied to where no copy is, and from a half that is left alone.
LEMMA CopyDataRefines ==
  ASSUME FilesInv, RefInv, FilesInv', CopyData
  PROVE  Refines
<1> DEFINE x == CopyStart(i + 1)
<1>1. /\ pc = "copyData" /\ request' = request /\ pc' = "copyHeader"
      /\ UNCHANGED <<files, lastFile, half, i>>
  BY DEF CopyData, Step, call, table
<1>2. Working /\ SameStored /\ \A n \in 1 .. i : CopiedFile(n)
  BY <1>1, CallsWork, CopyDataStored DEF RefInv, CopiedInv
<1>3. /\ TypeOK /\ Current /\ CopyGood /\ i \in 0 .. lastFile - 1
      /\ flash' = Written(x, Data(files[i])) /\ flash' \in Flashes
      /\ x \in Int /\ BlankFrom(flash, x, x + S)
      /\ \A a \in Addresses : ~(x <= a /\ a < x + S) => flash'[a] = flash[a]
      /\ files[i].length = S /\ Len(Data(files[i])) = S /\ \A j \in 1 .. S : Data(files[i])[j] \in Headers
  BY <1>1, CopyDataFacts DEF FilesInv, Phases
<1>4. S \in 1 .. F /\ S \in Nat /\ lastFile \in Nat /\ i \in Nat
  BY <1>3, SizeFits, Geometry DEF TypeOK
<1>5. \A k \in 0 .. lastFile - 1 : \A j \in 1 .. S :
        flash'[files[k].start + j - 1] = flash[files[k].start + j - 1]
  BY <1>3, CopyDataStored, TableDataSame
<1>6. \A n \in 1 .. i + 1 :
           /\ CopyStart(n) \in Int
           /\ n # i + 1 => CopyStart(n) >= x + S
           /\ \A k \in 1 .. S : CopyStart(n) + k - 1 \in Addresses
  BY <1>3, CopiesApart
<1>7. ASSUME NEW k \in 1 .. S
      PROVE  flash'[x + k - 1] = flash[files[i].start + k - 1]
  <2> DEFINE a == x + k - 1
             d == Data(files[i])
  <2>1. i + 1 \in 1 .. i + 1
    BY <1>4
  <2>2. a \in Addresses
    BY <2>1, <1>6
  <2> HIDE DEF x
  <2>3. x <= a /\ a < x + S /\ a - x + 1 = k /\ a \in x .. x + Len(d) - 1
    BY <1>3, <1>4
  <2>4. flash[a] = Blank /\ d[k] \in Headers /\ Blank \in Headers
    BY <2>2, <2>3, <1>3, StatusIs DEF BlankFrom
  <2>5. flash'[a] = Programmed(flash[a], d[a - x + 1])
    BY <2>2, <2>3, <1>3 DEF Written
  <2>6. flash'[a] = d[k]
    BY <2>3, <2>4, <2>5, ProgrammedIs
  <2>7. d[k] = flash[files[i].start + k - 1]
    BY <1>3 DEF Data
  <2> QED BY <2>6, <2>7
<1>8. ASSUME NEW n \in 1 .. i + 1, NEW k \in 1 .. S
      PROVE  flash'[CopyStart(n) + k - 1] = flash'[files[n - 1].start + k - 1]
  <2>1. n - 1 \in 0 .. lastFile - 1
    BY <1>3, <1>4
  <2>2. flash'[files[n - 1].start + k - 1] = flash[files[n - 1].start + k - 1]
    BY <2>1, <1>5
  <2>3. CASE n = i + 1
    <3>1. n - 1 = i
      BY <2>3, <1>4
    <3> QED BY <3>1, <2>2, <2>3, <1>7
  <2>4. CASE n # i + 1
    <3>1. n \in 1 .. i
      BY <2>4, <1>4
    <3>2. /\ CopyStart(n) + k - 1 \in Addresses /\ CopyStart(n) >= x + S /\ CopyStart(n) \in Int
      BY <2>4, <1>6
    <3>3. ~(CopyStart(n) + k - 1 < x + S)
      <4> HIDE DEF x
      <4> QED BY <3>2, <1>3, <1>4
    <3>4. flash'[CopyStart(n) + k - 1] = flash[CopyStart(n) + k - 1]
      BY <3>2, <3>3, <1>3
    <3> QED BY <3>1, <3>4, <2>2, <1>2 DEF CopiedFile
  <2> QED BY <2>3, <2>4
<1>9. \A n \in 1 .. i + 1 : CopiedFile(n)'
  <2>1. \A n : CopyStart(n)' = CopyStart(n)
    BY <1>1 DEF CopyStart, OtherStart, OtherHalf
  <2> QED BY <2>1, <1>1, <1>8 DEF CopiedFile
<1>10. RefInv'
  BY <1>1, <1>9 DEF RefInv, Resting, AtRest, WrittenInv, CopiedInv, Answered
<1> QED BY <1>1, <1>2, <1>10, Unseen DEF Refines

\* Its header is below all copies.
LEMMA CopyHeaderRefines ==
  ASSUME FilesInv, RefInv, FilesInv', CopyHeader
  PROVE  Refines
<1>1. /\ pc = "copyHeader" /\ request' = request /\ pc' = "copyData" /\ i' = i + 1
      /\ UNCHANGED <<files, lastFile, half>>
  BY DEF CopyHeader, Step, call, table
<1>2. Working /\ SameStored /\ \A n \in 1 .. i + 1 : CopiedFile(n)
  BY <1>1, CallsWork, CopyHeaderStored DEF RefInv, CopiedInv
<1>3. /\ TypeOK /\ Current /\ CopyGood /\ i \in 0 .. lastFile - 1
      /\ \A a \in Addresses : a # OtherStart + (i + 1) => flash'[a] = flash[a]
      /\ \A n \in 0 .. HALF_SIZE - 1 : Cell(flash', half, n) = Cell(flash, half, n)
  BY <1>1, CopyHeaderFacts DEF FilesInv, Phases
<1>4. S \in Nat /\ lastFile \in Nat /\ i \in Nat /\ OtherStart \in Nat
  BY <1>3, SizeFits, Geometry, OtherIs DEF TypeOK
<1>5. \A k \in 0 .. lastFile - 1 : \A j \in 1 .. S :
        flash'[files[k].start + j - 1] = flash[files[k].start + j - 1]
  BY <1>3, TableDataSame
<1>6. \A n \in 1 .. i + 1 :
           /\ CopyStart(n) \in Int /\ CopyStart(n) > OtherStart + i + 2
           /\ \A k \in 1 .. S : CopyStart(n) + k - 1 \in Addresses
  BY <1>3, CopiesApart
<1>7. ASSUME NEW n \in 1 .. i + 1, NEW k \in 1 .. S
      PROVE  flash'[CopyStart(n) + k - 1] = flash'[files[n - 1].start + k - 1]
  <2>1. n - 1 \in 0 .. lastFile - 1
    BY <1>3, <1>4
  <2>2. flash'[files[n - 1].start + k - 1] = flash[files[n - 1].start + k - 1]
    BY <2>1, <1>5
  <2>3. /\ CopyStart(n) + k - 1 \in Addresses /\ CopyStart(n) > OtherStart + i + 2 /\ CopyStart(n) \in Int
    BY <1>6
  <2>4. CopyStart(n) + k - 1 # OtherStart + (i + 1)
    BY <2>3, <1>4
  <2>5. flash'[CopyStart(n) + k - 1] = flash[CopyStart(n) + k - 1]
    BY <2>3, <2>4, <1>3
  <2> QED BY <2>2, <2>5, <1>2 DEF CopiedFile
<1>8. \A n \in 1 .. i + 1 : CopiedFile(n)'
  <2>1. \A n : CopyStart(n)' = CopyStart(n)
    BY <1>1 DEF CopyStart, OtherStart, OtherHalf
  <2> QED BY <2>1, <1>1, <1>7 DEF CopiedFile
<1>9. \A n \in 1 .. i' : CopiedFile(n)'
  BY <1>1, <1>8
<1>10. CopiedInv'
  BY <1>1, <1>9 DEF CopiedInv
<1>11. RefInv'
  BY <1>1, <1>10 DEF RefInv, Resting, AtRest, WrittenInv, Answered
<1> QED BY <1>1, <1>2, <1>11, Unseen DEF Refines

\* The two signatures change, one after the other, and the old half is erased.
LEMMA SwitchRefines ==
  ASSUME FilesInv, RefInv, FilesInv', ValidateNext \/ UnvalidateCurrent \/ EraseCurrent
  PROVE  Refines
<1>1. CASE ValidateNext
  <2>1. pc = "copyData" /\ i = lastFile /\ request' = request /\ pc' = "unvalidate"
    BY <1>1 DEF ValidateNext, Step, call
  <2>2. Working /\ \A n \in 1 .. lastFile : CopiedFile(n)
    BY <2>1, CallsWork DEF RefInv, CopiedInv
  <2>3. SameStored
    BY <1>1, <2>2, ValidateNextStored
  <2>4. Copies(flash', flash', OtherHalf, files, lastFile) /\ OtherHalf' = OtherHalf /\ UNCHANGED <<files, lastFile>>
    BY <1>1, <2>2, ValidateNextFacts
  <2>5. CopiedInv'
    BY <2>1, <2>4 DEF CopiedInv
  <2>6. RefInv'
    BY <2>1, <2>5 DEF RefInv, Resting, AtRest, WrittenInv, Answered
  <2> QED BY <2>1, <2>2, <2>3, <2>6, Unseen DEF Refines
<1>2. CASE UnvalidateCurrent
  <2>1. pc = "unvalidate" /\ request' = request /\ pc' = "eraseCurrent"
    BY <1>2 DEF UnvalidateCurrent, Step, call
  <2>2. Working /\ Copies(flash, flash, OtherHalf, files, lastFile)
    BY <2>1, CallsWork DEF RefInv, CopiedInv
  <2>3. SameStored
    BY <1>2, <2>2, UnvalidateCurrentStored
  <2>4. RefInv'
    BY <2>1 DEF RefInv, Resting, AtRest, WrittenInv, CopiedInv, Answered
  <2> QED BY <2>1, <2>2, <2>3, <2>4, Unseen DEF Refines
<1>3. CASE EraseCurrent
  <2>1. /\ pc = "eraseCurrent" /\ request' = request
        /\ pc' = (IF i + 1 = BlocksPerHalf THEN "restore" ELSE "eraseCurrent")
        /\ i + 1 = BlocksPerHalf => after' = "roomAgain"
    BY <1>3 DEF EraseCurrent, EraseHalf, EnterRestore, Step, call
  <2>2. Working /\ SameStored
    BY <1>3, <2>1, CallsWork, EraseCurrentStored
  <2>3. RefInv'
    BY <2>1 DEF RefInv, Resting, AtRest, WrittenInv, CopiedInv, Answered
  <2> QED BY <2>1, <2>2, <2>3, Unseen DEF Refines
<1> QED BY <1>1, <1>2, <1>3

-----------------------------------------------------------------------------

\* An erased device is an empty store.
LEMMA StoreInit == Init => Store!Init /\ RefInv
<1> SUFFICES ASSUME Init PROVE Store!Init /\ RefInv
  OBVIOUS
<1>1. /\ pc = "off" /\ request = NoRequest /\ answer = NoAnswer
      /\ \A a \in Addresses : flash[a] = Blank
  BY DEF Init
<1>2. RefInv
  BY <1>1 DEF RefInv, Resting, WrittenInv, CopiedInv, Answered
<1>3. \A name : StoredOf(flash, name) = Absent
  <2>1. 0 \in Addresses /\ HALF_SIZE \in Addresses /\ Blank.valid # USED
    BY Geometry, StatusIs DEF UNUSED, USED
  <2>2. flash[0].valid # USED /\ flash[HALF_SIZE].valid # USED
    BY <1>1, <2>1
  <2> QED BY <2>2, NothingStored
<1>4. Held = [name \in Names |-> Absent] /\ Shown = NoAnswer
  BY <1>1, <1>3, HeldIs DEF Shown
<1>5. Store!Init
  BY <1>1, <1>4 DEF Store!Init, Store!NoAnswer, NoAnswer, Status, Held, Shown
<1> QED BY <1>2, <1>5

\* Every step is one of the store or none, and keeps what the next ones rely on.
LEMMA EveryStepRefines ==
  ASSUME FilesInv, RefInv, Safe, [Next]_vars
  PROVE  Refines
<1>1. FilesInv'
  BY FilesStep
<1>2. CASE UserCalls
  BY <1>2, CallRefines, ListRefines, Zenon DEF UserCalls
<1>3. CASE InitFromHalf \/ InitErases \/ InitFormats
  BY <1>3, StartRefines
<1>4. CASE RestoreHeader \/ RestoreDone
  BY <1>4, RestoreRefines DEF Safe
<1>5. CASE FindNewest \/ EnterWrite \/ EnterChangeHalf
  BY <1>5, FindRefines
<1>6. CASE RemoveOlder
  BY <1>6, RemoveOlderStep
<1>7. CASE NotFound \/ Read \/ Full
  BY <1>7, AnswerRefines
<1>8. CASE Erase
  BY <1>1, <1>8, RemoveRefines
<1>9. CASE Return
  BY <1>9, ReturnRefines
<1>10. CASE StartWrite
  BY <1>1, <1>10, StartWriteRefines
<1>11. CASE WriteData
  BY <1>1, <1>11, WriteDataRefines
<1>12. CASE WriteHeader
  BY <1>1, <1>12, WriteHeaderRefines
<1>13. CASE WriteUsed
  BY <1>1, <1>13, WriteUsedRefines
<1>14. CASE Supersede
  BY <1>1, <1>14, SupersedeRefines
<1>15. CASE EraseNext
  BY <1>1, <1>15, EraseNextRefines
<1>16. CASE CopyData
  BY <1>1, <1>16, CopyDataRefines
<1>17. CASE CopyHeader
  BY <1>1, <1>17, CopyHeaderRefines
<1>18. CASE ValidateNext \/ UnvalidateCurrent \/ EraseCurrent
  BY <1>1, <1>18, SwitchRefines
<1>19. CASE PowerFails
  BY <1>19, PowerRefines
<1>20. CASE UNCHANGED vars
  <2>1. flash' = flash /\ request' = request /\ answer' = answer
    BY <1>20 DEF vars, call
  <2>2. SameStored
    BY <2>1, FlashSame
  <2>3. RefInv'
    <3>1. UNCHANGED <<flash, pc, files, lastFile, next, end, half, request, answer, index, previous, i, copied, after>>
      BY <1>20 DEF vars, table, call
    <3>2. Resting' /\ CopiedInv'
      BY <3>1 DEF RefInv, Resting, AtRest, CopiedInv, CopiedFile, CopyStart, Copies, OtherStart, OtherHalf
    <3>3. M' = M /\ UsedIn(flash, half, M)' = UsedIn(flash, half, M)
      BY <3>1 DEF M, UsedIn
    <3>4. WrittenInv'
      BY <3>1, <3>3 DEF RefInv, WrittenInv, DataDone, BlankFrom
    <3>5. Answered'
      <4>1. Held' = Held
        BY <2>2, HeldSame
      <4>2. Store!Answers(request)' = Store!Answers(request)
        BY <3>1, <4>1 DEF Store!Answers, Store!Stored, Held
      <4> QED BY <3>1, <4>2 DEF RefInv, Answered
    <3> QED BY <3>2, <3>4, <3>5 DEF RefInv
  <2> QED BY <2>1, <2>2, <2>3, Unseen DEF Refines
<1> QED
  BY <1>2, <1>3, <1>4, <1>5, <1>6, <1>7, <1>8, <1>9, <1>10, <1>11, <1>12, <1>13, <1>14, <1>15,
     <1>16, <1>17, <1>18, <1>19, <1>20, Zenon DEF Next, Progress, ChangeHalf

\* The file system is a FileStore: every write and erasure takes effect at once and completely,
\* when one header is marked, with the power failing between two flash commands (outside the
\* windows Safe names) or in the middle of changehalf; what is read, counted and listed is what
\* was written last.
THEOREM FilesAreAStore == ASSUME Safe PROVE Spec => ImplementsFileStore
<1>1. Init => Store!Init /\ RefInv
  BY StoreInit
<1>2. FilesInv /\ RefInv /\ [Next]_vars => RefInv' /\ [Store!Next]_(Store!vars)
  BY EveryStepRefines DEF Refines
<1> QED BY <1>1, <1>2, FilesInvariant, PTL DEF Spec, ImplementsFileStore, Store!Spec
=============================================================================
