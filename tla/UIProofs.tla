------------------------------- MODULE UIProofs -------------------------------
(***************************************************************************)
(* Proofs about UI, for lists, screens and numbers of messages of every    *)
(* size and any number of power failures.                                  *)
(***************************************************************************)
EXTENDS UI, TLAPS

-----------------------------------------------------------------------------
(***************************************************************************)
(* Every place has a file of its own.                                      *)
(***************************************************************************)
\* The three digits of a number below 1000 say which it is.
LEMMA DigitsSayNumber ==
  ASSUME NEW num \in 0 .. 999
  PROVE  /\ createFileName(num) \in (0 .. 9) \X (0 .. 9) \X (0 .. 9)
         /\ num = 100 * createFileName(num)[1] + 10 * createFileName(num)[2]
                    + createFileName(num)[3]
<1>1. num \div 100 \in 0 .. 9 /\ num = 100 * (num \div 100) + (num % 100) /\ num % 100 \in 0 .. 99
  OBVIOUS
<1>2. (num % 100) \div 10 \in 0 .. 9
      /\ num % 100 = 10 * ((num % 100) \div 10) + ((num % 100) % 10)
  BY <1>1
<1>3. (num % 100) % 10 = num % 10 /\ num % 10 \in 0 .. 9
  OBVIOUS
<1> QED BY <1>1, <1>2, <1>3 DEF createFileName

\* No two places of the list, and none of the places behind it that a race may reach,
\* have the same file, whatever MAX_MESSAGES is: saving one message overwrites no other.
THEOREM FilesDiffer == \A p, q \in Places : createFileName(p) = createFileName(q) => p = q
<1> SUFFICES ASSUME NEW p \in Places, NEW q \in Places, createFileName(p) = createFileName(q)
             PROVE  p = q
  OBVIOUS
<1>1. p \in 0 .. 999 /\ q \in 0 .. 999
  BY ConstantsAssumption DEF Places
<1> QED BY <1>1, DigitsSayNumber

-----------------------------------------------------------------------------
(***************************************************************************)
(* Lists of messages.                                                      *)
(***************************************************************************)
\* The places P of f hold messages of 1 .. add in order; but for those in exc, each is there
\* once, and just those that are not in rem are there.
GoodList(P, f, exc, add, rem) ==
  /\ \A p \in P : f[p] \in 1 .. add
  /\ \A p, q \in P : p < q => f[p] <= f[q]
  /\ \A p, q \in P : p # q /\ f[p] = f[q] => f[p] \in exc
  /\ \A x \in 1 .. add : x \notin exc => ((\E p \in P : f[p] = x) <=> x \notin rem)

\* A list that differs from a good one in excused messages only.
LEMMA GoodButFor ==
  ASSUME NEW P, NEW f, NEW exc, NEW add, NEW rem, GoodList(P, f, exc, add, rem),
         NEW Q, NEW g, NEW E,
         \A q \in Q : g[q] \in 1 .. add,
         \A p, q \in Q : p < q => g[p] <= g[q],
         \A q \in Q : g[q] \in E \/ (q \in P /\ g[q] = f[q]),
         \A p \in P : f[p] \in E \/ (p \in Q /\ g[p] = f[p])
  PROVE  GoodList(Q, g, exc \cup E, add, rem)
<1>1. \A p, q \in Q : p # q /\ g[p] = g[q] => g[p] \in exc \cup E
  BY DEF GoodList
<1>2. ASSUME NEW x \in 1 .. add, x \notin exc \cup E
      PROVE  (\E q \in Q : g[q] = x) <=> x \notin rem
  <2>1. (\E q \in Q : g[q] = x) <=> (\E p \in P : f[p] = x)
    BY <1>2
  <2> QED BY <1>2, <2>1 DEF GoodList
<1> QED BY <1>1, <1>2 DEF GoodList

\* The same list elsewhere.
LEMMA GoodAlike ==
  ASSUME NEW P, NEW f, NEW exc, NEW add, NEW rem, GoodList(P, f, exc, add, rem),
         NEW g, \A p \in P : g[p] = f[p]
  PROVE  GoodList(P, g, exc, add, rem)
BY DEF GoodList

\* A new message behind the last.
LEMMA GoodAppended ==
  ASSUME NEW n \in Nat, NEW f, NEW exc, NEW add \in Nat, NEW rem,
         GoodList(0 .. n - 1, f, exc, add, rem), rem \subseteq 1 .. add,
         NEW g, g[n] = add + 1, \A p \in 0 .. n - 1 : g[p] = f[p]
  PROVE  GoodList(0 .. n, g, exc, add + 1, rem)
<1>1. \A p \in 0 .. n : p \in 0 .. n - 1 \/ p = n
  OBVIOUS
<1>2. \A p \in 0 .. n - 1 : g[p] \in 1 .. add /\ g[p] \in Int /\ g[p] < add + 1
  BY DEF GoodList
<1>3. \A p \in 0 .. n : g[p] \in 1 .. add + 1
  BY <1>1, <1>2
<1>4. \A p, q \in 0 .. n : p < q => g[p] <= g[q]
  BY <1>1, <1>2 DEF GoodList
<1>5. \A p, q \in 0 .. n : p # q /\ g[p] = g[q] => g[p] \in exc
  BY <1>1, <1>2 DEF GoodList
<1>6. ASSUME NEW x \in 1 .. add + 1, x \notin exc
      PROVE  (\E p \in 0 .. n : g[p] = x) <=> x \notin rem
  <2>1. CASE x = add + 1
    <3>1. n \in 0 .. n /\ g[n] = x
      BY <2>1
    <3>2. x \notin rem
      BY <2>1
    <3> QED BY <3>1, <3>2
  <2>2. CASE x \in 1 .. add
    <3>1. (\E p \in 0 .. n - 1 : f[p] = x) <=> x \notin rem
      BY <1>6, <2>2 DEF GoodList
    <3>2. (\E p \in 0 .. n : g[p] = x) <=> (\E p \in 0 .. n - 1 : f[p] = x)
      BY <1>1, <2>2
    <3> QED BY <3>1, <3>2
  <2> QED BY <2>1, <2>2
<1> QED BY <1>3, <1>4, <1>5, <1>6 DEF GoodList

\* One message is removed.
LEMMA GoodRemoved ==
  ASSUME NEW P, NEW f, NEW exc, NEW add, NEW rem, GoodList(P, f, exc, add, rem), NEW k \in P
  PROVE  GoodList(P \ {k}, f, exc, add, rem \cup {f[k]})
<1>1. ASSUME NEW x \in 1 .. add, x \notin exc
      PROVE  (\E p \in P \ {k} : f[p] = x) <=> x \notin rem \cup {f[k]}
  <2>1. (\E p \in P : f[p] = x) <=> x \notin rem
    BY <1>1 DEF GoodList
  <2>2. \A p \in P \ {k} : f[p] = x => x # f[k]
    BY <1>1 DEF GoodList
  <2> QED BY <2>1, <2>2
<1> QED BY <1>1 DEF GoodList

\* The message behind a hole moves into it.
LEMMA GoodMoved ==
  ASSUME NEW n \in Nat, NEW h \in 0 .. n - 1, NEW f, NEW exc, NEW add, NEW rem,
         GoodList((0 .. n) \ {h}, f, exc, add, rem),
         NEW g, g[h] = f[h + 1], \A p \in (0 .. n) \ {h} : g[p] = f[p]
  PROVE  GoodList((0 .. n) \ {h + 1}, g, exc, add, rem)
<1> DEFINE from(p) == IF p = h THEN h + 1 ELSE p
<1>1. \A p \in (0 .. n) \ {h + 1} : from(p) \in (0 .. n) \ {h} /\ g[p] = f[from(p)]
  OBVIOUS
<1>2. \A p, q \in (0 .. n) \ {h + 1} : /\ p < q => from(p) < from(q)
                                       /\ p # q => from(p) # from(q)
  OBVIOUS
<1>3. \A p \in (0 .. n) \ {h} : \E q \in (0 .. n) \ {h + 1} : from(q) = p
  <2> TAKE p \in (0 .. n) \ {h}
  <2>1. CASE p = h + 1
    <3>1. h \in (0 .. n) \ {h + 1} /\ from(h) = p
      BY <2>1
    <3> QED BY <3>1
  <2>2. CASE p # h + 1
    <3>1. p \in (0 .. n) \ {h + 1} /\ from(p) = p
      BY <2>2
    <3> QED BY <3>1
  <2> QED BY <2>1, <2>2
<1> HIDE DEF from
<1>4. ASSUME NEW x \in 1 .. add, x \notin exc
      PROVE  (\E p \in (0 .. n) \ {h + 1} : g[p] = x) <=> x \notin rem
  <2>1. (\E p \in (0 .. n) \ {h} : f[p] = x) <=> x \notin rem
    BY <1>4 DEF GoodList
  <2>2. (\E p \in (0 .. n) \ {h + 1} : g[p] = x) <=> (\E p \in (0 .. n) \ {h} : f[p] = x)
    BY <1>1, <1>3, Zenon
  <2> QED BY <2>1, <2>2
<1>5. \A p \in (0 .. n) \ {h + 1} : g[p] \in 1 .. add
  BY <1>1 DEF GoodList
<1>6. \A p, q \in (0 .. n) \ {h + 1} : p < q => g[p] <= g[q]
  BY <1>1, <1>2, Zenon DEF GoodList
<1>7. ASSUME NEW p \in (0 .. n) \ {h + 1}, NEW q \in (0 .. n) \ {h + 1}, p # q, g[p] = g[q]
      PROVE  g[p] \in exc
  <2>1. /\ from(p) \in (0 .. n) \ {h} /\ from(q) \in (0 .. n) \ {h} /\ from(p) # from(q)
        /\ f[from(p)] = f[from(q)] /\ g[p] = f[from(p)]
    BY <1>1, <1>2, <1>7, Zenon
  <2> QED BY <2>1, Zenon DEF GoodList
<1> QED BY <1>4, <1>5, <1>6, <1>7 DEF GoodList

-----------------------------------------------------------------------------
(***************************************************************************)
(* The inductive invariant.                                                *)
(***************************************************************************)
\* The files in the order of their places.
OnFile == [p \in Places |-> files[createFileName(p)]]
OnFilePlaces == {p \in Places : OnFile[p] # Absent}

\* Where the thread is: it reads the files, or the files hold the list, or all of it but
\* its last message, or a message is added or deleted.
Loading == pc \in {"load", "loadRead", "loadStore"}
AtRest == pc \in {"wait", "check"}
NewUnsaved == pc \in {"name", "save", "announce"} \/ (AtRest /\ addNewMessage)
Synced == pc = "handle" \/ (AtRest /\ ~addNewMessage)
Adding == pc \in {"addStore", "addCount"}
Erasing == pc \in {"eraseName", "erase"}
Shifting == pc \in {"shift", "move"}

\* The place whose message is deleted, or has been moved; the places that count.
Hole == IF Erasing THEN currentMessage ELSE i
Listed == IF Erasing \/ Shifting THEN (0 .. size) \ {Hole}
          ELSE IF pc = "addCount" THEN 0 .. size ELSE 0 .. size - 1

ListGood == ~Loading => GoodList(Listed, messages, excused, added, removed)

\* While the files are read they are the list.
LoadGood ==
  Loading =>
    /\ GoodList(OnFilePlaces, OnFile, excused, added, removed)
    /\ \A p, q \in Places : p < q /\ OnFile[q] # Absent => OnFile[p] # Absent
    /\ \A p \in Places : p >= MAX_MESSAGES => OnFile[p] = Absent
    /\ \A p \in 0 .. size - 1 : OnFile[p] # Absent /\ messages[p] = OnFile[p]
    /\ currentMessage = 0 /\ curState = "LIST"
    /\ pc # "load" => size < MAX_MESSAGES /\ fileName = createFileName(size)
    /\ pc = "loadStore" => OnFile[size] # Absent /\ loaded = OnFile[size]

\* What the files hold, and the message that the new one replaces.
FilesGood ==
  /\ Synced => \A p \in Places : OnFile[p] = IF p < size THEN messages[p] ELSE Absent
  /\ NewUnsaved =>
       /\ size > 0 /\ messages[size - 1] = added
       /\ \A p \in Places : OnFile[p] = IF p < size - 1 THEN messages[p]
                                        ELSE IF p = size - 1 THEN replaced ELSE Absent
       /\ replaced # Blank => \A p \in 0 .. size - 2 : messages[p] <= replaced
  /\ Adding =>
       /\ size < MAX_MESSAGES /\ (pc = "addCount" => messages[size] = added)
       /\ \A p \in Places : OnFile[p] = IF p < size THEN messages[p]
                                        ELSE IF p = size THEN replaced ELSE Absent
       /\ replaced # Blank => \A p \in 0 .. size - 1 : messages[p] <= replaced
  /\ Erasing =>
       \A p \in Places : OnFile[p] = IF p < size + 1 THEN messages[p] ELSE Absent
  /\ pc = "shift" =>
       \A p \in Places : OnFile[p] = IF p < size THEN messages[p] ELSE Absent
  /\ pc = "move" =>
       /\ i < size
       /\ \A p \in Places : OnFile[p] = IF p = i THEN messages[i + 1]
                                        ELSE IF p < size THEN messages[p] ELSE Absent
  /\ pc = "save" => fileName = createFileName(size - 1)
  /\ pc = "erase" => fileName = createFileName(size)
  /\ replaced # Blank => NewUnsaved \/ Adding
  /\ replaced \in 0 .. added
  /\ addNewMessage => AtRest

\* What is in the hole is still in order.
HoleGood ==
  Erasing \/ Shifting =>
    /\ size < MAX_MESSAGES /\ currentMessage <= size
    /\ Erasing => messages[currentMessage] = deleting
    /\ Hole \in 0 .. size
    /\ messages[Hole] \in 1 .. added
    /\ \A p \in Listed : /\ p < Hole => messages[p] <= messages[Hole]
                         /\ p > Hole => messages[Hole] <= messages[p]

CursorGood ==
  /\ ~Loading /\ ~Erasing /\ ~Shifting /\ ~Adding => currentMessage = 0 \/ currentMessage < size
  /\ Adding => currentMessage <= size
  /\ curState = "SHOW" => size > 0 /\ ~Adding /\ ~Erasing /\ ~Shifting

\* A message that is sent takes a key.
Owed == IF pc \in {"addCount", "announce"} THEN 0
        ELSE IF pc = "addStore" \/ myButton # "none" THEN 1 ELSE 0
Counted ==
  /\ added + Owed <= MaxAdded + keys /\ keys \in 0 .. MaxKeys
  /\ removed \subseteq 1 .. added

\* A new message wakes the thread.
Woken == addNewMessage /\ pc = "wait" => wake

ListInv == ListGood /\ LoadGood /\ FilesGood /\ HoleGood
UIInv == TypeOK /\ ListInv /\ CursorGood /\ Counted /\ Woken

-----------------------------------------------------------------------------
(***************************************************************************)
(* Types.                                                                  *)
(***************************************************************************)
LEMMA PlacesAre ==
  /\ MAX_MESSAGES \in 1 .. 998 /\ MAX_MESSAGES \in Nat
  /\ \A p \in 0 .. MAX_MESSAGES + 1 : p \in Places
  /\ \A p \in Places : p \in 0 .. 999
  /\ 0 .. MAX_MESSAGES - 1 \subseteq Places
  /\ MaxAdded \in Nat /\ MaxKeys \in Nat /\ MaxNumber \in Nat
BY ConstantsAssumption DEF Places, MaxNumber

LEMMA NamesAre ==
  ASSUME NEW p \in Places
  PROVE  createFileName(p) \in FileNames
BY DEF FileNames

\* A file is written or deleted.
LEMMA FileChanged ==
  ASSUME TypeOK, NEW p \in Places, NEW v, files' = [files EXCEPT ![createFileName(p)] = v]
  PROVE  \A q \in Places : OnFile'[q] = IF q = p THEN v ELSE OnFile[q]
<1> TAKE q \in Places
<1>1. createFileName(q) \in FileNames /\ files \in [FileNames -> 0 .. MaxNumber]
  BY NamesAre DEF TypeOK
<1>2. createFileName(q) = createFileName(p) <=> q = p
  BY FilesDiffer
<1> QED BY <1>1, <1>2 DEF OnFile

\* The list while the thread rests, and while it moves messages.
LEMMA ListedAre ==
  ASSUME UIInv
  PROVE  /\ Synced \/ NewUnsaved \/ pc = "addStore" =>
              GoodList(0 .. size - 1, messages, excused, added, removed)
         /\ pc = "addCount" => GoodList(0 .. size, messages, excused, added, removed)
         /\ Erasing \/ Shifting =>
              GoodList((0 .. size) \ {Hole}, messages, excused, added, removed)
         /\ size \in 0 .. MAX_MESSAGES /\ MAX_MESSAGES \in 1 .. 998
         /\ messages \in [Places -> 0 .. MaxNumber] /\ added \in 0 .. MaxNumber /\ MaxNumber \in Nat
         /\ removed \subseteq 1 .. added /\ added <= MaxAdded + keys
BY PlacesAre
DEF UIInv, Counted, Owed, ListInv, ListGood, Listed, Synced, NewUnsaved, AtRest, Erasing, Shifting, Loading, TypeOK

LEMMA SizeIs ==
  ASSUME UIInv
  PROVE  /\ size \in 0 .. MAX_MESSAGES /\ size \in Nat /\ size \in Places
         /\ MAX_MESSAGES \in 1 .. 998 /\ MAX_MESSAGES \in Nat
         /\ size < MAX_MESSAGES => size + 1 \in 0 .. MAX_MESSAGES
         /\ \A p \in 0 .. size : p \in Places
BY PlacesAre DEF UIInv, TypeOK

\* The places before the n-th, and the one behind them.
LEMMA PlacesBelow ==
  ASSUME NEW n \in Nat
  PROVE  \A p \in Places : /\ p \in Nat /\ (p < n => p \in 0 .. n - 1)
                           /\ (p < n + 1) <=> (p < n \/ p = n)
                           /\ p < n => p # n /\ p # n + 1
<1>1. \A p \in Nat : /\ p < n => p \in 0 .. n - 1
                     /\ (p < n + 1) <=> (p < n \/ p = n)
                     /\ p < n => p # n /\ p # n + 1
  OBVIOUS
<1>2. \A p \in Places : p \in Nat
  BY PlacesAre
<1> QED BY <1>1, <1>2, Zenon

LEMMA SuccessorIs ==
  ASSUME UIInv, i < size
  PROVE  i \in 0 .. size - 1 /\ i + 1 \in 0 .. size /\ i + 1 \in Places /\ i \in Places
<1>1. i \in Nat
  <2>1. i \in Places
    BY DEF UIInv, TypeOK
  <2> QED BY <2>1, PlacesAre
<1>2. i \in 0 .. size - 1 /\ i + 1 \in 0 .. size
  BY <1>1, SizeIs
<1> QED BY <1>2, SizeIs DEF UIInv, TypeOK

\* What the steps read from the list is a message of it.
LEMMA MessagesRead ==
  ASSUME UIInv
  PROVE  /\ Synced \/ NewUnsaved \/ Adding => \A p \in 0 .. size - 1 : messages[p] \in 1 .. added
         /\ Erasing \/ Shifting => \A p \in 0 .. size : messages[p] \in 1 .. added
         /\ pc = "loadStore" => loaded \in 0 .. MaxNumber
<1>1. Synced \/ NewUnsaved \/ Adding => \A p \in 0 .. size - 1 : messages[p] \in 1 .. added
  <2>1. Synced \/ NewUnsaved \/ pc = "addStore" =>
          \A p \in 0 .. size - 1 : messages[p] \in 1 .. added
    BY ListedAre DEF GoodList
  <2>2. pc = "addCount" => \A p \in 0 .. size : messages[p] \in 1 .. added
    BY ListedAre DEF GoodList
  <2> QED BY <2>1, <2>2, ListedAre DEF Adding
<1>2. Erasing \/ Shifting => \A p \in 0 .. size : messages[p] \in 1 .. added
  <2> SUFFICES ASSUME Erasing \/ Shifting PROVE \A p \in 0 .. size : messages[p] \in 1 .. added
    OBVIOUS
  <2>1. \A p \in (0 .. size) \ {Hole} : messages[p] \in 1 .. added
    BY ListedAre DEF GoodList
  <2>2. messages[Hole] \in 1 .. added
    BY DEF UIInv, ListInv, HoleGood
  <2> QED BY <2>1, <2>2
<1>3. loaded \in 0 .. MaxNumber
  BY DEF UIInv, TypeOK
<1> QED BY <1>1, <1>2, <1>3

\* What addNewMessageToMessages does where it is called.
LEMMA StoreNewTypes ==
  ASSUME UIInv, Synced \/ pc = "addStore", StoreNew, added < MaxNumber
  PROVE  /\ messages' \in [Places -> 0 .. MaxNumber] /\ added' \in 0 .. MaxNumber
         /\ removed' \subseteq 1 .. added' /\ removed' \subseteq 1 .. MaxNumber
         /\ replaced' \in 0 .. MaxNumber /\ deleting' \in 0 .. MaxNumber
<1> DEFINE place == IF ListFull THEN MAX_MESSAGES - 1 ELSE size
<1>1. /\ place \in Places /\ (ListFull => place \in 0 .. size - 1)
      /\ messages \in [Places -> 0 .. MaxNumber]
      /\ added \in Nat /\ MaxNumber \in Nat /\ removed \subseteq 1 .. added
      /\ replaced \in 0 .. MaxNumber /\ deleting \in 0 .. MaxNumber
  BY ListedAre, PlacesAre DEF ListFull, UIInv, TypeOK
<1>2. ListFull => messages[place] \in 1 .. added
  BY <1>1, MessagesRead DEF Adding
<1>3. /\ messages' = [messages EXCEPT ![place] = added + 1] /\ added' = added + 1
      /\ removed' = IF ListFull THEN removed \cup {messages[place]} ELSE removed
      /\ replaced' = IF ListFull THEN messages[place] ELSE replaced
      /\ deleting' = deleting
  BY DEF StoreNew
<1>4. messages' \in [Places -> 0 .. MaxNumber] /\ added' \in 0 .. MaxNumber
  BY <1>1, <1>3
<1>5. removed' \subseteq 1 .. added' /\ removed' \subseteq 1 .. MaxNumber
  <2>1. removed' = removed \/ \E m \in 1 .. added : removed' = removed \cup {m}
    BY <1>2, <1>3
  <2>2. added' = added + 1 /\ removed \subseteq 1 .. added' /\ added' <= MaxNumber
    BY <1>1, <1>3, <1>4
  <2>3. \A m \in 1 .. added : m \in 1 .. added'
    BY <1>1, <2>2
  <2>4. removed' \subseteq 1 .. added'
    BY <2>1, <2>2, <2>3
  <2> QED BY <1>1, <2>2, <2>4
<1>6. replaced' \in 0 .. MaxNumber /\ deleting' \in 0 .. MaxNumber
  BY <1>1, <1>2, <1>3
<1> QED BY <1>4, <1>5, <1>6

\* How many messages have been added is bounded by the keys.
LEMMA CountedStep == UIInv /\ ~ArrivalsDisturb /\ [Next]_vars => Counted' /\ added' \in 0 .. MaxNumber
<1> SUFFICES ASSUME UIInv, ~ArrivalsDisturb, [Next]_vars
             PROVE  Counted' /\ added' \in 0 .. MaxNumber
  OBVIOUS
<1>a. /\ added \in Nat /\ keys \in 0 .. MaxKeys /\ MaxKeys \in Nat /\ MaxAdded \in Nat
      /\ added + Owed <= MaxAdded + keys /\ Owed \in {0, 1} /\ removed \subseteq 1 .. added
      /\ MaxNumber = MaxAdded + MaxKeys
  BY PlacesAre DEF UIInv, TypeOK, Counted, Owed, MaxNumber
<1>1. /\ added' \in Nat /\ removed' \subseteq 1 .. added'
  <2>1. CASE Arrive \/ AddStore
    <3>1. Synced \/ pc = "addStore"
      BY <2>1 DEF Arrive, AddStore, Step, Synced, AtRest
    <3>2. StoreNew
      BY <2>1 DEF Arrive, AddStore
    <3>3. added < MaxNumber
      BY <2>1, <1>a DEF Arrive, AddStore, Step, Owed
    <3> QED BY <3>1, <3>2, <3>3, <1>a, StoreNewTypes
  <2>2. CASE HandleSend
    <3>1. Synced /\ added' = added
      BY <2>2 DEF HandleSend, Step, Synced
    <3>2. ListFull => messages[size - 1] \in 1 .. added
      <4>1. ListFull => size - 1 \in 0 .. size - 1
        BY SizeIs DEF ListFull
      <4> QED BY <3>1, <4>1, MessagesRead
    <3> QED BY <1>a, <2>2, <3>1, <3>2 DEF HandleSend
  <2>3. CASE HandleDelete
    <3>1. Synced /\ added' = added /\ size > 0
      BY <2>3 DEF HandleDelete, Step, Synced, Deletes, UIInv, CursorGood
    <3>2. currentMessage \in 0 .. size - 1
      BY <2>3, <3>1, ListedAre
      DEF HandleDelete, Step, UIInv, CursorGood, Loading, Erasing, Shifting, Adding, TypeOK
    <3>3. messages[currentMessage] \in 1 .. added
      BY <3>1, <3>2, MessagesRead
    <3> QED BY <1>a, <2>3, <3>1, <3>3 DEF HandleDelete
  <2>4. CASE UNCHANGED <<added, removed>>
    BY <1>a, <2>4
  <2>5. Arrive \/ AddStore \/ HandleSend \/ HandleDelete \/ UNCHANGED <<added, removed>>
    BY DEF Next, UIThread, Interrupts, Press, LoadName, LoadRead, LoadStore, Wake, CheckNew,
      NameFile, Save, HandleScreen, HandleMove, EraseName, Erase, Shift, Move, EndDelete,
      AddCount, AddAnnounce, Restart, history, vars
  <2> QED BY <2>1, <2>2, <2>3, <2>4, <2>5
<1>2. added' + Owed' <= MaxAdded + keys' /\ keys' \in 0 .. MaxKeys
  <2>1. CASE Arrive
    BY <1>a, <2>1 DEF Arrive, StoreNew, Announce, Owed
  <2>2. CASE AddStore \/ AddCount \/ AddAnnounce \/ HandleSend
    BY <1>a, <2>2
    DEF AddStore, AddCount, AddAnnounce, HandleSend, Step, StoreNew, Announce, Owed, input,
        Sends, history
  <2>3. CASE \E button \in Buttons : Press(button)
    BY <1>a, <2>3 DEF Press, Owed, history
  <2>4. CASE Restart
    BY <1>a, <2>4 DEF Restart, MemoryCleared, Owed
  <2>5. CASE LoadName \/ LoadRead \/ LoadStore
    BY <1>a, <2>5 DEF LoadName, LoadRead, LoadStore, Step, Owed, input, history
  <2>6. CASE Wake \/ CheckNew \/ NameFile \/ Save
    BY <1>a, <2>6 DEF Wake, CheckNew, NameFile, Save, Step, Owed, input, history
  <2>7. CASE HandleScreen \/ HandleMove \/ HandleDelete
    BY <1>a, <2>7 DEF HandleScreen, HandleMove, HandleDelete, Step, Owed, input, history
  <2>8. CASE EraseName \/ Erase \/ Shift \/ Move \/ EndDelete
    BY <1>a, <2>8 DEF EraseName, Erase, Shift, Move, EndDelete, Step, Owed, input, history
  <2>9. CASE UNCHANGED vars
    BY <1>a, <2>9 DEF vars, Owed, input, history
  <2> QED
    BY <2>1, <2>2, <2>3, <2>4, <2>5, <2>6, <2>7, <2>8, <2>9 DEF Next, UIThread, Interrupts
<1>3. added' \in 0 .. MaxNumber
  <2>1. Owed' \in {0, 1}
    BY DEF Owed
  <2>2. ASSUME NEW a \in Nat, NEW o \in {0, 1}, NEW k \in 0 .. MaxKeys, a + o <= MaxAdded + k
        PROVE  a \in 0 .. MaxNumber
    BY PlacesAre, <2>2 DEF MaxNumber
  <2> QED BY <1>1, <1>2, <2>1, <2>2, Zenon
<1> QED BY <1>1, <1>2, <1>3 DEF Counted

LEMMA ScreensFollow ==
  ASSUME TypeOK
  PROVE  /\ NextScreen \in {"LIST", "SHOW", "WRITE_TEXT", "WRITE_NUMBER"}
         /\ NextScreen = "SHOW" => size > 0 \/ curState = "SHOW"
<1>1. CASE curState = "LIST" /\ myButton = "star"
  BY <1>1, Zenon DEF NextScreen
<1>2. CASE curState = "LIST" /\ myButton = "ok" /\ size > 0
  BY <1>2, Zenon DEF NextScreen
<1>3. CASE curState = "WRITE_TEXT" /\ myButton = "ok"
  BY <1>3, Zenon DEF NextScreen
<1>4. CASE curState # "LIST" /\ myButton = "star"
  BY <1>4, Zenon DEF NextScreen
<1>5. CASE /\ ~(curState = "LIST" /\ myButton = "star")
           /\ ~(curState = "LIST" /\ myButton = "ok" /\ size > 0)
           /\ ~(curState = "WRITE_TEXT" /\ myButton = "ok")
           /\ ~(curState # "LIST" /\ myButton = "star")
  <2>1. NextScreen = curState
    BY <1>5, Zenon DEF NextScreen
  <2> QED BY <2>1, Zenon DEF TypeOK
<1> QED BY <1>1, <1>2, <1>3, <1>4, <1>5

\* The places of the selected message and of the top line when the list is moved.
LEMMA MoveStays ==
  ASSUME UIInv, HandleMove
  PROVE  /\ currentMessage' \in 0 .. size - 1 /\ size > 0
         /\ topMessage' = topMessage \/ topMessage' \in 0 .. size - 1
<1>1. /\ size > 0 /\ size \in Nat
      /\ currentMessage \in Nat /\ topMessage \in Nat /\ LCD_NUM_LINES \in Nat \ {0, 1}
  BY SizeIs, PlacesAre, ConstantsAssumption DEF HandleMove, Moves, UIInv, TypeOK
<1>2. ASSUME NEW n \in Nat, n > 0, NEW a \in Nat
      PROVE  a % n \in 0 .. n - 1
  BY <1>2
<1>3. /\ currentMessage + size - 1 \in Nat /\ currentMessage + 1 \in Nat /\ topMessage + 1 \in Nat
  BY <1>1
<1> QED BY <1>1, <1>2, <1>3, Zenon DEF HandleMove

LEMMA TypesStep == UIInv /\ ~ArrivalsDisturb /\ [Next]_vars => TypeOK'
<1> SUFFICES ASSUME UIInv, ~ArrivalsDisturb, [Next]_vars PROVE TypeOK'
  OBVIOUS
<1>a. TypeOK /\ added' \in 0 .. MaxNumber /\ removed' \subseteq 1 .. MaxNumber
  <2>1. removed' \subseteq 1 .. added' /\ added' \in 0 .. MaxNumber
    BY CountedStep DEF Counted
  <2> QED BY <2>1, PlacesAre DEF UIInv
<1>b. /\ 0 \in 0 .. MAX_MESSAGES /\ 0 \in 0 .. MAX_MESSAGES - 1 /\ 0 \in Places
      /\ 0 \in 0 .. MaxNumber /\ {Blank} \subseteq 0 .. MaxNumber /\ Blank = 0 /\ Absent = 0
  BY PlacesAre DEF Blank, Absent
<1>1. CASE LoadName
  <2>1. createFileName(size) \in FileNames
    BY SizeIs, NamesAre
  <2> QED
    BY <1>1, <1>a, <2>1, Zenon DEF LoadName, Step, list, input, history, TypeOK
<1>2. CASE LoadRead
  <2>1. fileName \in FileNames
    BY <1>2, SizeIs, NamesAre
    DEF LoadRead, Step, UIInv, ListInv, LoadGood, Loading
  <2>2. files[fileName] \in 0 .. MaxNumber
    BY <1>a, <2>1 DEF TypeOK
  <2> QED
    BY <1>2, <1>a, <2>2, Zenon DEF LoadRead, Step, list, input, history, TypeOK
<1>3. CASE LoadStore
  <2>1. size + 1 \in 0 .. MAX_MESSAGES
    BY <1>3, SizeIs DEF LoadStore, Step, UIInv, ListInv, LoadGood, Loading
  <2>2. messages' \in [Places -> 0 .. MaxNumber]
    BY <1>3, <1>a, <2>1 DEF LoadStore, TypeOK
  <2> QED
    BY <1>3, <1>a, <1>b, <2>1, <2>2, Zenon DEF LoadStore, Step, input, history, TypeOK
<1>4. CASE Wake \/ CheckNew
  BY <1>4, <1>a, Zenon DEF Wake, CheckNew, Step, list, work, history, TypeOK
<1>5. CASE NameFile
  <2>1. size - 1 \in Places
    BY <1>5, SizeIs DEF NameFile, Step, UIInv, ListInv, FilesGood, NewUnsaved
  <2>2. createFileName(size - 1) \in FileNames
    BY <2>1, NamesAre
  <2> QED
    BY <1>5, <1>a, <2>2, Zenon DEF NameFile, Step, list, input, history, TypeOK
<1>6. CASE Save
  <2>1. size - 1 \in Places
    BY <1>6, SizeIs DEF Save, Step, UIInv, ListInv, FilesGood, NewUnsaved
  <2>2. messages[size - 1] \in 0 .. MaxNumber
    BY <1>a, <2>1 DEF TypeOK
  <2>3. files' \in [FileNames -> 0 .. MaxNumber]
    BY <1>6, <1>a, <2>2 DEF Save, TypeOK
  <2> QED
    BY <1>6, <1>a, <1>b, <2>3, Zenon DEF Save, Step, list, input, work, TypeOK
<1>7. CASE HandleScreen
  <2>1. curState' \in {"LIST", "SHOW", "WRITE_TEXT", "WRITE_NUMBER"}
    BY <1>7, <1>a, ScreensFollow, Zenon DEF HandleScreen
  <2> QED
    BY <1>7, <1>a, <2>1, Zenon DEF HandleScreen, Step, list, input, work, history, TypeOK
<1>8. CASE HandleMove
  <2>1. currentMessage' \in 0 .. MAX_MESSAGES - 1 /\ topMessage' \in 0 .. MAX_MESSAGES - 1
    <3>1. \A k \in 0 .. size - 1 : k \in 0 .. MAX_MESSAGES - 1
      BY SizeIs
    <3> QED BY <1>8, <1>a, <3>1, MoveStays, Zenon DEF TypeOK
  <2> QED
    BY <1>8, <1>a, <2>1, Zenon DEF HandleMove, Step, input, work, history, TypeOK
<1>9. CASE HandleSend
  <2>1. size' \in 0 .. MAX_MESSAGES /\ (ListFull => size - 1 \in Places)
    BY <1>9, SizeIs, PlacesAre DEF HandleSend, ListFull
  <2>2. ListFull => messages[size - 1] \in 0 .. MaxNumber
    BY <1>a, <2>1 DEF TypeOK
  <2>3. replaced' \in 0 .. MaxNumber
    BY <1>9, <1>a, <2>2 DEF HandleSend, TypeOK
  <2> QED
    BY <1>9, <1>a, <2>1, <2>3, Zenon DEF HandleSend, Step, input, work, TypeOK
<1>10. CASE HandleDelete
  <2>1. size > 0 /\ currentMessage \in Places
    BY <1>10, PlacesAre DEF HandleDelete, Deletes, UIInv, CursorGood, TypeOK
  <2>2. size' \in 0 .. MAX_MESSAGES
    BY <1>10, <2>1, SizeIs DEF HandleDelete
  <2>3. deleting' \in 0 .. MaxNumber
    BY <1>10, <1>a, <2>1 DEF HandleDelete, TypeOK
  <2> QED
    BY <1>10, <1>a, <2>2, <2>3, Zenon DEF HandleDelete, Step, input, work, TypeOK
<1>11. CASE EraseName
  <2>1. createFileName(size) \in FileNames
    BY SizeIs, NamesAre
  <2> QED
    BY <1>11, <1>a, <2>1, Zenon DEF EraseName, Step, list, input, history, TypeOK
<1>12. CASE Erase
  <2>1. files' \in [FileNames -> 0 .. MaxNumber]
    BY <1>12, <1>a, <1>b DEF Erase, TypeOK
  <2>2. i' \in Places
    BY <1>12, <1>a, PlacesAre DEF Erase, TypeOK
  <2> QED
    BY <1>12, <1>a, <2>1, <2>2, Zenon DEF Erase, Step, list, input, history, TypeOK
<1>13. CASE Shift
  <2>1. createFileName(i) \in FileNames
    BY <1>a, NamesAre DEF TypeOK
  <2>2. i + 1 \in Places
    BY <1>13, SuccessorIs DEF Shift
  <2>3. messages[i + 1] \in 0 .. MaxNumber
    BY <1>a, <2>2 DEF TypeOK
  <2>4. files' \in [FileNames -> 0 .. MaxNumber]
    BY <1>13, <1>a, <2>3 DEF Shift, Successor, TypeOK
  <2> QED
    BY <1>13, <1>a, <2>1, <2>4, Zenon DEF Shift, Step, list, input, history, TypeOK
<1>14. CASE Move
  <2>1. i + 1 \in Places
    BY <1>14, SuccessorIs DEF Move, Step, UIInv, ListInv, FilesGood
  <2>2. messages' \in [Places -> 0 .. MaxNumber]
    BY <1>14, <1>a, <2>1 DEF Move, Successor, TypeOK
  <2> QED
    BY <1>14, <1>a, <2>1, <2>2, Zenon DEF Move, Step, input, history, TypeOK
<1>15. CASE EndDelete
  BY <1>15, <1>a, <1>b, Zenon DEF EndDelete, Step, input, work, TypeOK
<1>16. CASE Arrive \/ AddStore
  <2>1. Synced \/ pc = "addStore"
    BY <1>16 DEF Arrive, AddStore, Step, Synced, AtRest
  <2>2. StoreNew /\ added' = added + 1
    BY <1>16 DEF Arrive, AddStore, StoreNew
  <2>3. added < MaxNumber
    BY <1>a, <2>2, PlacesAre DEF TypeOK
  <2>4. size' \in 0 .. MAX_MESSAGES
    BY <1>16, SizeIs DEF Arrive, AddStore, ListFull
  <2>5. /\ messages' \in [Places -> 0 .. MaxNumber] /\ replaced' \in 0 .. MaxNumber
        /\ deleting' \in 0 .. MaxNumber
    BY <2>1, <2>2, <2>3, StoreNewTypes
  <2> QED
    BY <1>16, <1>a, <2>4, <2>5, Zenon
    DEF Arrive, AddStore, Step, Announce, input, work, TypeOK
<1>17. CASE AddCount
  <2>1. size + 1 \in 0 .. MAX_MESSAGES
    BY <1>17, SizeIs DEF AddCount, Step, UIInv, ListInv, FilesGood, Adding
  <2> QED
    BY <1>17, <1>a, <2>1, Zenon DEF AddCount, Step, input, work, history, TypeOK
<1>18. CASE AddAnnounce
  BY <1>18, <1>a, Zenon DEF AddAnnounce, Step, Announce, list, work, history, TypeOK
<1>19. CASE \E button \in Buttons : Press(button)
  BY <1>19, <1>a, Zenon DEF Press, list, work, history, TypeOK
<1>20. CASE Restart
  <2>1. excused' \subseteq 0 .. MaxNumber
    <3>1. Unsaved \subseteq 0 .. MaxNumber
      BY <1>a DEF Unsaved, TypeOK
    <3>2. HalfDeleted \subseteq 0 .. MaxNumber
      <4>1. messages[size] \in 0 .. MaxNumber /\ messages[i] \in 0 .. MaxNumber
            /\ deleting \in 0 .. MaxNumber
        BY <1>a, SizeIs DEF TypeOK
      <4>2. CASE pc = "move"
        <5>1. i + 1 \in Places
          BY <4>2, SuccessorIs DEF UIInv, ListInv, FilesGood
        <5>2. messages[i + 1] \in 0 .. MaxNumber
          BY <1>a, <5>1 DEF TypeOK
        <5>3. HalfDeleted = {deleting, messages[size], messages[i + 1]}
          BY <4>2, Zenon DEF HalfDeleted, Successor
        <5> QED BY <4>1, <5>2, <5>3
      <4>3. CASE pc = "shift"
        <5>1. HalfDeleted = {deleting, messages[size], messages[i]}
          BY <4>3, Zenon DEF HalfDeleted
        <5> QED BY <4>1, <5>1
      <4>4. CASE pc \in {"eraseName", "erase"}
        <5>1. HalfDeleted = {deleting}
          BY <4>4, Zenon DEF HalfDeleted
        <5> QED BY <4>1, <5>1
      <4>5. CASE pc \notin {"move", "shift", "eraseName", "erase"}
        <5>1. HalfDeleted = {}
          BY <4>5, Zenon DEF HalfDeleted
        <5> QED BY <5>1
      <4> QED BY <4>2, <4>3, <4>4, <4>5
    <3> QED BY <1>20, <1>a, <3>1, <3>2 DEF Restart, TypeOK
  <2>2. messages' \in [Places -> 0 .. MaxNumber]
    BY <1>20, <1>b DEF Restart, MemoryCleared
  <2> QED
    BY <1>20, <1>a, <1>b, <2>1, <2>2, Zenon DEF Restart, MemoryCleared, TypeOK
<1>21. CASE UNCHANGED vars
  BY <1>21, <1>a, Zenon DEF vars, list, input, work, history, TypeOK
<1> QED
  BY <1>1, <1>2, <1>3, <1>4, <1>5, <1>6, <1>7, <1>8, <1>9, <1>10, <1>11, <1>12, <1>13, <1>14,
     <1>15, <1>16, <1>17, <1>18, <1>19, <1>20, <1>21
  DEF Next, UIThread, Interrupts

-----------------------------------------------------------------------------
(***************************************************************************)
(* The selected message.                                                   *)
(***************************************************************************)
LEMMA CursorStep == UIInv /\ ~ArrivalsDisturb /\ [Next]_vars => CursorGood'
<1> SUFFICES ASSUME UIInv, ~ArrivalsDisturb, [Next]_vars PROVE CursorGood'
  OBVIOUS
<1>a. CursorGood /\ TypeOK /\ size \in Nat /\ currentMessage \in Nat
  BY SizeIs, PlacesAre DEF UIInv, TypeOK
<1> USE DEF CursorGood, Loading, Erasing, Shifting, Adding, Step
<1>1. CASE LoadName \/ LoadRead \/ LoadStore
  <2>1. currentMessage = 0 /\ curState = "LIST"
    BY <1>1 DEF LoadName, LoadRead, LoadStore, UIInv, ListInv, LoadGood
  <2> QED
    BY <1>1, <2>1 DEF LoadName, LoadRead, LoadStore, list
<1>2. CASE Wake \/ CheckNew \/ NameFile \/ Save
  BY <1>2, <1>a DEF Wake, CheckNew, NameFile, Save, list
<1>3. CASE HandleScreen
  BY <1>3, <1>a, ScreensFollow DEF HandleScreen, list
<1>4. CASE HandleMove
  <2>1. currentMessage' < size /\ size' = size /\ curState' = curState /\ pc' = "wait"
    BY <1>4, <1>a, MoveStays DEF HandleMove
  <2> QED BY <1>4, <1>a, <2>1 DEF HandleMove
<1>5. CASE HandleSend
  <2>1. currentMessage <= size' /\ currentMessage' = currentMessage
    BY <1>5, <1>a, SizeIs DEF HandleSend, ListFull
  <2> QED BY <1>5, <2>1 DEF HandleSend
<1>6. CASE HandleDelete
  BY <1>6 DEF HandleDelete
<1>7. CASE EraseName \/ Erase \/ Shift \/ Move
  BY <1>7, <1>a DEF EraseName, Erase, Shift, Move, list
<1>8. CASE EndDelete
  <2>1. currentMessage <= size
    BY <1>8 DEF EndDelete, UIInv, ListInv, HoleGood
  <2> QED BY <1>8, <1>a, <2>1 DEF EndDelete
<1>9. CASE AddStore \/ AddCount \/ AddAnnounce
  <2>1. pc = "addStore" => ~ListFull
    BY SizeIs DEF UIInv, ListInv, FilesGood, ListFull
  <2> QED BY <1>9, <1>a, <2>1 DEF AddStore, AddCount, AddAnnounce, list
<1>10. CASE Interrupts \/ UNCHANGED vars
  BY <1>10, <1>a DEF Interrupts, Arrive, Press, list, vars
<1>11. CASE Restart
  BY <1>11 DEF Restart, MemoryCleared
<1> QED
  BY <1>1, <1>2, <1>3, <1>4, <1>5, <1>6, <1>7, <1>8, <1>9, <1>10, <1>11 DEF Next, UIThread

-----------------------------------------------------------------------------
(***************************************************************************)
(* The files are read.                                                     *)
(***************************************************************************)
LEMMA FilesSame == ASSUME files' = files PROVE OnFile' = OnFile /\ OnFilePlaces' = OnFilePlaces
BY DEF OnFile, OnFilePlaces

LEMMA LoadEnds ==
  ASSUME UIInv, Loading, size = MAX_MESSAGES \/ OnFile[size] = Absent
  PROVE  /\ GoodList(0 .. size - 1, messages, excused, added, removed)
         /\ \A p \in Places : OnFile[p] = IF p < size THEN messages[p] ELSE Absent
<1>1. /\ GoodList(OnFilePlaces, OnFile, excused, added, removed)
      /\ \A p, q \in Places : p < q /\ OnFile[q] # Absent => OnFile[p] # Absent
      /\ \A p \in Places : p >= MAX_MESSAGES => OnFile[p] = Absent
      /\ \A p \in 0 .. size - 1 : OnFile[p] # Absent /\ messages[p] = OnFile[p]
  BY DEF UIInv, ListInv, LoadGood
<1>2. \A p \in Places : p \in Nat /\ (p < size => p \in 0 .. size - 1)
  <2>1. \A p \in Places : p \in 0 .. 999
    BY PlacesAre
  <2>2. size \in Nat
    BY SizeIs
  <2> QED BY <2>1, <2>2
<1>3. \A p \in Places : ~(p < size) => OnFile[p] = Absent
  BY <1>1, <1>2, SizeIs
<1>4. \A p \in Places : OnFile[p] = IF p < size THEN messages[p] ELSE Absent
  BY <1>1, <1>2, <1>3
<1>5. OnFilePlaces = 0 .. size - 1
  <2>1. \A p \in 0 .. size - 1 : p \in Places /\ p < size
    BY SizeIs
  <2> QED BY <1>1, <1>2, <1>3, <2>1 DEF OnFilePlaces
<1>6. GoodList(0 .. size - 1, messages, excused, added, removed)
  BY <1>1, <1>5, GoodAlike
<1> QED BY <1>4, <1>6

\* The list of files is read to its end.
LEMMA ToRest ==
  ASSUME UIInv, Loading, size = MAX_MESSAGES \/ OnFile[size] = Absent, pc' = "wait",
         UNCHANGED <<size, messages, files, excused, added, removed, replaced, addNewMessage>>
  PROVE  ListInv'
<1>1. ~addNewMessage /\ replaced = Blank /\ replaced \in 0 .. added
  BY DEF UIInv, ListInv, FilesGood, Loading, AtRest, NewUnsaved, Adding
<1>2. OnFile' = OnFile
  BY FilesSame
<1>3. ListGood'
  BY LoadEnds DEF ListGood, Listed, Erasing, Shifting
<1>4. LoadGood' /\ HoleGood'
  BY DEF LoadGood, HoleGood, Loading, Erasing, Shifting
<1>5. FilesGood'
  BY <1>1, <1>2, LoadEnds DEF FilesGood, Synced, NewUnsaved, AtRest, Adding, Erasing
<1> QED BY <1>3, <1>4, <1>5 DEF ListInv

LEMMA LoadKeeps ==
  ASSUME UIInv, TypeOK', LoadName \/ LoadRead \/ LoadStore
  PROVE  ListInv'
<1>a. /\ Loading /\ ~addNewMessage /\ replaced = Blank /\ replaced \in 0 .. added
      /\ UNCHANGED <<files, excused, added, removed, replaced, addNewMessage, currentMessage,
                     curState>>
  BY DEF LoadName, LoadRead, LoadStore, Step, history, list, input,
         UIInv, ListInv, FilesGood, Loading, AtRest, NewUnsaved, Adding
<1>b. OnFile' = OnFile /\ OnFilePlaces' = OnFilePlaces
  BY <1>a, FilesSame
<1>1. CASE LoadName /\ size < MAX_MESSAGES
  <2>1. LoadGood'
    BY <1>1, <1>a, <1>b
    DEF LoadName, Step, list, UIInv, ListInv, LoadGood, Loading
  <2> QED
    BY <1>1, <1>a, <2>1
    DEF LoadName, Step, ListInv, ListGood, FilesGood, HoleGood, Loading, Synced, NewUnsaved,
        AtRest, Adding, Erasing, Shifting
<1>2. CASE LoadName /\ ~(size < MAX_MESSAGES)
  <2>1. size = MAX_MESSAGES
    BY <1>2, SizeIs
  <2> QED BY <1>2, <1>a, <2>1, ToRest DEF LoadName, Step, list
<1>3. CASE LoadRead
  <2>1. files[fileName] = OnFile[size] /\ size < MAX_MESSAGES
    BY <1>3, <1>a, SizeIs DEF LoadRead, Step, UIInv, ListInv, LoadGood, OnFile
  <2>2. CASE OnFile[size] = Absent
    BY <1>3, <1>a, <2>1, <2>2, ToRest DEF LoadRead, Step, list
  <2>3. CASE OnFile[size] # Absent
    <3>1. LoadGood'
      BY <1>3, <1>a, <1>b, <2>1, <2>3
      DEF LoadRead, Step, list, UIInv, ListInv, LoadGood, Loading
    <3> QED
      BY <1>3, <1>a, <2>1, <2>3, <3>1
      DEF LoadRead, Step, ListInv, ListGood, FilesGood, HoleGood, Loading, Synced, NewUnsaved,
          AtRest, Adding, Erasing, Shifting
  <2> QED BY <2>2, <2>3
<1>4. CASE LoadStore
  <2>1. /\ pc' = "load" /\ size' = size + 1 /\ messages' = [messages EXCEPT ![size] = loaded]
        /\ OnFile[size] # Absent /\ loaded = OnFile[size]
        /\ messages \in [Places -> 0 .. MaxNumber]
    BY <1>4 DEF LoadStore, Step, UIInv, ListInv, LoadGood, Loading, TypeOK
  <2>2. \A p \in 0 .. size' - 1 : OnFile[p] # Absent /\ messages'[p] = OnFile[p]
    <3> TAKE p \in 0 .. size' - 1
    <3>1. p \in 0 .. size - 1 \/ p = size
      BY <2>1, SizeIs
    <3>2. p \in 0 .. size - 1 => OnFile[p] # Absent /\ messages[p] = OnFile[p]
      BY <1>a DEF UIInv, ListInv, LoadGood
    <3>3. p \in Places /\ (p \in 0 .. size - 1 => p # size)
      BY <3>1, SizeIs
    <3> QED BY <2>1, <3>1, <3>2, <3>3
  <2>3. LoadGood'
    BY <1>a, <1>b, <2>1, <2>2 DEF UIInv, ListInv, LoadGood
  <2> QED
    BY <1>a, <2>1, <2>3
    DEF ListInv, ListGood, FilesGood, HoleGood, Loading, Synced, NewUnsaved,
        AtRest, Adding, Erasing, Shifting
<1> QED BY <1>1, <1>2, <1>3, <1>4

-----------------------------------------------------------------------------
(***************************************************************************)
(* The thread rests and saves new messages.                                *)
(***************************************************************************)
LEMMA RestKeeps ==
  ASSUME UIInv, Wake \/ CheckNew \/ NameFile \/ HandleScreen \/ HandleMove
  PROVE  ListInv'
<1>1. /\ UNCHANGED <<size, messages, files, excused, added, removed, replaced>>
      /\ Synced \/ NewUnsaved
      /\ ~Loading /\ ~Erasing /\ ~Shifting /\ ~Adding
      /\ Synced' <=> Synced
      /\ NewUnsaved' <=> NewUnsaved
      /\ pc' \in {"check", "name", "save", "handle", "wait"}
      /\ pc' = "save" => fileName' = createFileName(size - 1)
      /\ addNewMessage' => AtRest'
  BY DEF Wake, CheckNew, NameFile, HandleScreen, HandleMove, Step, history, list, input,
         UIInv, ListInv, FilesGood, Synced, NewUnsaved, AtRest, Loading, Erasing, Shifting, Adding
<1>2. OnFile' = OnFile
  BY <1>1, FilesSame
<1>3. ~Loading' /\ ~Erasing' /\ ~Shifting' /\ ~Adding' /\ pc' # "addCount"
  BY <1>1 DEF Loading, Erasing, Shifting, Adding
<1>4. GoodList(0 .. size - 1, messages, excused, added, removed)
  BY <1>1, ListedAre
<1>5. ListGood' /\ LoadGood' /\ HoleGood'
  BY <1>1, <1>3, <1>4 DEF ListGood, Listed, LoadGood, HoleGood
<1>6. FilesGood'
  BY <1>1, <1>2, <1>3 DEF UIInv, ListInv, FilesGood, Erasing, Shifting
<1> QED BY <1>5, <1>6 DEF ListInv

LEMMA SaveKeeps ==
  ASSUME UIInv, Save
  PROVE  ListInv'
<1>1. /\ pc' = "handle" /\ files' = [files EXCEPT ![createFileName(size - 1)] = messages[size - 1]]
      /\ replaced' = Blank /\ ~addNewMessage /\ NewUnsaved /\ size > 0
      /\ UNCHANGED <<size, messages, excused, added, removed, addNewMessage>>
  BY DEF Save, Step, list, input, UIInv, ListInv, FilesGood, AtRest, NewUnsaved
<1>2. size - 1 \in Places
  BY <1>1, SizeIs
<1>3. \A p \in Places : OnFile'[p] = IF p = size - 1 THEN messages[size - 1] ELSE OnFile[p]
  BY <1>1, <1>2, FileChanged DEF UIInv
<1>4. \A p \in Places : OnFile'[p] = IF p < size THEN messages[p] ELSE Absent
  <2>1. \A p \in Places : p \in Nat /\ (p < size <=> p < size - 1 \/ p = size - 1)
    <3>1. (\A p \in Places : p \in 0 .. 999) /\ size \in Nat
      BY SizeIs, PlacesAre
    <3> QED BY <3>1
  <2>2. \A p \in Places : OnFile[p] = IF p < size - 1 THEN messages[p]
                                      ELSE IF p = size - 1 THEN replaced ELSE Absent
    BY <1>1 DEF UIInv, ListInv, FilesGood
  <2> QED BY <1>3, <2>1, <2>2
<1>5. ListGood' /\ LoadGood' /\ HoleGood'
  BY <1>1, ListedAre DEF ListGood, Listed, LoadGood, HoleGood, Loading, Erasing, Shifting
<1>6. FilesGood'
  <2>1. 0 \in 0 .. added
    BY ListedAre
  <2> QED
    BY <1>1, <1>4, <2>1 DEF FilesGood, Synced, NewUnsaved, AtRest, Adding, Erasing, Blank
<1> QED BY <1>5, <1>6 DEF ListInv

-----------------------------------------------------------------------------
(***************************************************************************)
(* A message is added.                                                     *)
(***************************************************************************)
LEMMA SendKeeps ==
  ASSUME UIInv, HandleSend
  PROVE  ListInv'
<1>1. /\ pc = "handle" /\ pc' = "addStore" /\ Synced /\ ~addNewMessage /\ ~addNewMessage'
      /\ size' = IF ListFull THEN size - 1 ELSE size
      /\ removed' = IF ListFull THEN removed \cup {messages[size - 1]} ELSE removed
      /\ replaced' = IF ListFull THEN messages[size - 1] ELSE replaced
      /\ UNCHANGED <<messages, files, excused, added>>
  BY DEF HandleSend, Step, input, Synced, UIInv, ListInv, FilesGood, AtRest
<1>2. /\ OnFile' = OnFile /\ replaced = Blank
      /\ \A p \in Places : OnFile[p] = IF p < size THEN messages[p] ELSE Absent
  BY <1>1, FilesSame DEF UIInv, ListInv, FilesGood, NewUnsaved, AtRest, Adding
<1>3. GoodList(0 .. size - 1, messages, excused, added, removed)
  BY <1>1, ListedAre
<1>4. CASE ~ListFull
  <2>1. size < MAX_MESSAGES /\ 0 \in 0 .. added
    BY <1>4, SizeIs, ListedAre DEF ListFull
  <2>2. ListGood' /\ LoadGood' /\ HoleGood'
    BY <1>1, <1>3, <1>4 DEF ListGood, Listed, LoadGood, HoleGood, Loading, Erasing, Shifting
  <2>3. FilesGood'
    BY <1>1, <1>2, <1>4, <2>1
    DEF FilesGood, Synced, NewUnsaved, AtRest, Adding, Erasing, Blank, Absent
  <2> QED BY <2>2, <2>3 DEF ListInv
<1>5. CASE ListFull
  <2> DEFINE n == size - 1
  <2>1. /\ size' = n /\ n \in Nat /\ size = n + 1 /\ n < MAX_MESSAGES /\ n \in 0 .. size - 1
        /\ (0 .. size - 1) \ {n} = 0 .. n - 1
    <3>1. size \in 1 .. 998 /\ size = MAX_MESSAGES
      BY <1>5, SizeIs DEF ListFull
    <3> QED BY <1>1, <1>5, <3>1
  <2>2. GoodList(0 .. n - 1, messages, excused, added, removed')
    <3>1. GoodList((0 .. size - 1) \ {n}, messages, excused, added, removed \cup {messages[n]})
      BY <1>3, <2>1, GoodRemoved
    <3> QED BY <1>1, <1>5, <2>1, <3>1
  <2>3. ListGood' /\ LoadGood' /\ HoleGood'
    BY <1>1, <2>1, <2>2 DEF ListGood, Listed, LoadGood, HoleGood, Loading, Erasing, Shifting
  <2>4. messages[n] \in 1 .. added /\ \A p \in 0 .. n - 1 : messages[p] <= messages[n]
    BY <1>3, <2>1 DEF GoodList
  <2>5. \A p \in Places : OnFile[p] = IF p < n THEN messages[p]
                                      ELSE IF p = n THEN messages[n] ELSE Absent
    <3>1. \A p \in Places : p \in 0 .. 999
      BY PlacesAre
    <3> QED BY <1>2, <2>1, <3>1
  <2>6. FilesGood'
    <3>1. replaced' = messages[n] /\ replaced' \in 0 .. added'
      BY <1>1, <1>5, <2>4
    <3> QED
      BY <1>1, <1>2, <2>1, <2>4, <2>5, <3>1
      DEF FilesGood, Synced, NewUnsaved, AtRest, Adding, Erasing
  <2> QED BY <2>3, <2>6 DEF ListInv
<1> QED BY <1>4, <1>5

LEMMA AddStoreKeeps ==
  ASSUME UIInv, AddStore
  PROVE  ListInv'
<1>1. /\ pc = "addStore" /\ size < MAX_MESSAGES /\ ~addNewMessage /\ size \in Nat
      /\ size \in Places /\ messages \in [Places -> 0 .. MaxNumber] /\ added \in Nat
      /\ replaced \in 0 .. added
  BY SizeIs, ListedAre
  DEF AddStore, Step, UIInv, ListInv, FilesGood, AtRest, Adding
<1>2. ~ListFull
  BY <1>1, SizeIs DEF ListFull
<1>3. /\ pc' = "addCount" /\ messages' = [messages EXCEPT ![size] = added + 1]
      /\ added' = added + 1 /\ ~addNewMessage'
      /\ UNCHANGED <<size, files, excused, removed, replaced>>
  BY <1>1, <1>2 DEF AddStore, Step, StoreNew, input
<1>4. messages'[size] = added + 1 /\ \A p \in 0 .. size - 1 : messages'[p] = messages[p]
  <2>1. \A p \in 0 .. size - 1 : p \in Places /\ p # size
    BY SizeIs
  <2> QED BY <1>1, <1>3, <2>1
<1>5. GoodList(0 .. size, messages', excused, added + 1, removed)
  <2>1. GoodList(0 .. size - 1, messages, excused, added, removed) /\ removed \subseteq 1 .. added
    BY <1>1, ListedAre
  <2> QED BY <1>1, <1>4, <2>1, GoodAppended
<1>6. ListGood' /\ LoadGood' /\ HoleGood'
  BY <1>3, <1>5 DEF ListGood, Listed, LoadGood, HoleGood, Loading, Erasing, Shifting
<1>7. FilesGood'
  <2>1. OnFile' = OnFile
    BY <1>3, FilesSame
  <2>2. /\ \A p \in Places : OnFile[p] = IF p < size THEN messages[p]
                                         ELSE IF p = size THEN replaced ELSE Absent
        /\ replaced # Blank => \A p \in 0 .. size - 1 : messages[p] <= replaced
    BY <1>1 DEF UIInv, ListInv, FilesGood, Adding
  <2>3. \A p \in Places : p < size => p \in 0 .. size - 1
    <3>1. \A p \in Places : p \in 0 .. 999
      BY PlacesAre
    <3> QED BY <1>1, <3>1
  <2>4. \A p \in Places : OnFile[p] = IF p < size THEN messages'[p]
                                      ELSE IF p = size THEN replaced ELSE Absent
    BY <1>4, <2>2, <2>3
  <2>5. replaced # Blank => \A p \in 0 .. size - 1 : messages'[p] <= replaced
    BY <1>4, <2>2
  <2>6. replaced \in 0 .. added'
    BY <1>1, <1>3
  <2> QED
    BY <1>1, <1>3, <1>4, <2>1, <2>4, <2>5, <2>6
    DEF FilesGood, Synced, NewUnsaved, AtRest, Adding, Erasing
<1> QED BY <1>6, <1>7 DEF ListInv

LEMMA AddEndKeeps ==
  ASSUME UIInv, AddCount \/ AddAnnounce
  PROVE  ListInv'
<1>a. UNCHANGED <<files, messages, excused, added, removed, replaced>> /\ size \in Nat
  <2>1. size \in Nat
    BY SizeIs
  <2>2. CASE AddCount
    BY <2>1, <2>2 DEF AddCount, Step, history
  <2>3. CASE AddAnnounce
    BY <2>1, <2>3 DEF AddAnnounce, Step, list, history
  <2> QED BY <2>2, <2>3
<1>b. OnFile' = OnFile
  BY <1>a, FilesSame
<1>1. CASE AddCount
  <2>1. /\ pc = "addCount" /\ pc' = "announce" /\ size' = size + 1 /\ ~addNewMessage'
        /\ size + 1 > 0 /\ (size + 1) - 1 = size /\ (size + 1) - 2 = size - 1
    BY <1>1, <1>a DEF AddCount, Step, input, UIInv, ListInv, FilesGood, AtRest
  <2>2. GoodList(0 .. size, messages, excused, added, removed)
    BY <2>1, ListedAre
  <2>3. ListGood' /\ LoadGood' /\ HoleGood'
    BY <1>a, <2>1, <2>2 DEF ListGood, Listed, LoadGood, HoleGood, Loading, Erasing, Shifting
  <2>4. FilesGood'
    BY <1>a, <1>b, <2>1
    DEF UIInv, ListInv, FilesGood, Synced, NewUnsaved, AtRest, Adding, Erasing
  <2> QED BY <2>3, <2>4 DEF ListInv
<1>2. CASE AddAnnounce
  <2>1. pc = "announce" /\ pc' = "wait" /\ size' = size /\ addNewMessage'
    BY <1>2 DEF AddAnnounce, Step, Announce, list
  <2>2. GoodList(0 .. size - 1, messages, excused, added, removed)
    BY <2>1, ListedAre DEF NewUnsaved
  <2>3. ListGood' /\ LoadGood' /\ HoleGood'
    BY <1>a, <2>1, <2>2 DEF ListGood, Listed, LoadGood, HoleGood, Loading, Erasing, Shifting
  <2>4. FilesGood'
    BY <1>a, <1>b, <2>1
    DEF UIInv, ListInv, FilesGood, Synced, NewUnsaved, AtRest, Adding, Erasing
  <2> QED BY <2>3, <2>4 DEF ListInv
<1> QED BY <1>1, <1>2

\* One that arrives: in a full list it replaces the last.
LEMMA ArriveKeeps ==
  ASSUME UIInv, ~ArrivalsDisturb, Arrive
  PROVE  ListInv'
<1> DEFINE n == IF ListFull THEN size - 1 ELSE size
<1>1. /\ Synced /\ AtRest /\ pc' = pc /\ addNewMessage'
      /\ size \in Nat /\ messages \in [Places -> 0 .. MaxNumber] /\ added \in Nat
      /\ removed \subseteq 1 .. added
  BY SizeIs, ListedAre DEF Arrive, Announce, Synced, AtRest
<1>2. /\ n \in Nat /\ n \in Places /\ size' = n + 1 /\ (n + 1) - 1 = n /\ (n + 1) - 2 = n - 1
      /\ ListFull => n \in 0 .. size - 1 /\ (0 .. size - 1) \ {n} = 0 .. n - 1 /\ size = n + 1
  <2>1. CASE ListFull
    <3>1. size \in 1 .. 998 /\ size = MAX_MESSAGES /\ \A p \in 0 .. size : p \in Places
      BY <2>1, SizeIs DEF ListFull
    <3> QED BY <2>1, <3>1 DEF Arrive
  <2>2. CASE ~ListFull
    BY <2>2, SizeIs DEF Arrive
  <2> QED BY <2>1, <2>2
<1>3. /\ messages' = [messages EXCEPT ![n] = added + 1] /\ added' = added + 1
      /\ removed' = IF ListFull THEN removed \cup {messages[n]} ELSE removed
      /\ replaced' = IF ListFull THEN messages[n] ELSE replaced
      /\ UNCHANGED <<files, excused>>
  BY SizeIs DEF Arrive, StoreNew, ListFull
<1> HIDE DEF n
<1>4. GoodList(0 .. size - 1, messages, excused, added, removed)
  BY <1>1, ListedAre
<1>5. /\ \A p \in Places : OnFile[p] = IF p < size THEN messages[p] ELSE Absent
      /\ OnFile' = OnFile /\ replaced = Blank
  BY <1>1, <1>3, FilesSame DEF UIInv, ListInv, FilesGood, NewUnsaved, Synced, AtRest, Adding
<1>6. messages'[n] = added + 1 /\ \A p \in 0 .. n - 1 : p \in Places /\ messages'[p] = messages[p]
  <2>1. \A p \in 0 .. n - 1 : p \in Places /\ p # n
    BY <1>2, PlacesAre DEF Places
  <2> QED BY <1>1, <1>2, <1>3, <2>1
<1>7. /\ GoodList(0 .. n - 1, messages, excused, added, removed') /\ removed' \subseteq 1 .. added
      /\ replaced' \in 0 .. added'
      /\ \A p \in Places : OnFile[p] = IF p < n THEN messages[p]
                                       ELSE IF p = n THEN replaced' ELSE Absent
      /\ replaced' # Blank => \A p \in 0 .. n - 1 : messages[p] <= replaced'
  <2>1. CASE ListFull
    <3>1. GoodList((0 .. size - 1) \ {n}, messages, excused, added, removed \cup {messages[n]})
      BY <1>2, <1>4, <2>1, GoodRemoved
    <3>2. messages[n] \in 1 .. added /\ \A p \in 0 .. n - 1 : messages[p] <= messages[n]
      BY <1>2, <1>4, <2>1 DEF GoodList
    <3>3. \A p \in Places : (p < size) <=> (p < n \/ p = n)
      BY <1>2, <2>1, PlacesBelow
    <3>4. \A p \in Places : OnFile[p] = IF p < n THEN messages[p]
                                        ELSE IF p = n THEN messages[n] ELSE Absent
      BY <1>5, <3>3
    <3>5. messages[n] \in 0 .. added + 1
      BY <1>1, <3>2
    <3> QED BY <1>1, <1>2, <1>3, <2>1, <3>1, <3>2, <3>4, <3>5
  <2>2. CASE ~ListFull
    <3>1. n = size /\ replaced' = Blank /\ removed' = removed
      BY <1>3, <1>5, <2>2 DEF n
    <3>2. 0 \in 0 .. added'
      BY <1>1, <1>3
    <3> QED BY <1>1, <1>4, <1>5, <3>1, <3>2 DEF Blank, Absent
  <2> QED BY <2>1, <2>2
<1>8. GoodList(0 .. n, messages', excused, added + 1, removed')
  BY <1>1, <1>2, <1>6, <1>7, GoodAppended
<1>9. ListGood' /\ LoadGood' /\ HoleGood'
  BY <1>1, <1>2, <1>3, <1>8
  DEF ListGood, Listed, LoadGood, HoleGood, Loading, Erasing, Shifting, AtRest
<1>10. FilesGood'
  <2>1. \A p \in Places : p < n => p \in 0 .. n - 1
    <3>1. \A p \in Places : p \in 0 .. 999
      BY PlacesAre
    <3> QED BY <1>2, <3>1
  <2>2. \A p \in Places : OnFile[p] = IF p < n THEN messages'[p]
                                      ELSE IF p = n THEN replaced' ELSE Absent
    BY <1>6, <1>7, <2>1
  <2>3. replaced' # Blank => \A p \in 0 .. n - 1 : messages'[p] <= replaced'
    BY <1>6, <1>7
  <2> QED
    BY <1>1, <1>2, <1>3, <1>5, <1>6, <1>7, <2>2, <2>3
    DEF FilesGood, Synced, NewUnsaved, AtRest, Adding, Erasing
<1> QED BY <1>9, <1>10 DEF ListInv

-----------------------------------------------------------------------------
(***************************************************************************)
(* A message is deleted.                                                   *)
(***************************************************************************)
LEMMA DeleteKeeps ==
  ASSUME UIInv, HandleDelete
  PROVE  ListInv'
<1> DEFINE c == currentMessage
<1>1. /\ pc = "handle" /\ pc' = "eraseName" /\ Synced /\ ~addNewMessage /\ ~addNewMessage'
      /\ size > 0 /\ size' = size - 1 /\ UNCHANGED <<messages, files, excused, added, replaced>>
      /\ removed' = removed \cup {messages[c]} /\ deleting' = messages[c] /\ currentMessage' = c
  BY DEF HandleDelete, Step, Deletes, input, Synced, UIInv, ListInv, FilesGood, AtRest, CursorGood
<1>2. c \in 0 .. size - 1 /\ size' \in Nat /\ size = size' + 1 /\ size' < MAX_MESSAGES
      /\ 0 .. size - 1 = 0 .. size'
  <2>1. c \in 0 .. MAX_MESSAGES - 1 /\ (c = 0 \/ c < size)
    BY <1>1 DEF UIInv, TypeOK, CursorGood, Loading, Erasing, Shifting, Adding
  <2> QED BY <1>1, <2>1, SizeIs
<1>3. /\ GoodList(0 .. size', messages, excused, added, removed)
      /\ GoodList((0 .. size') \ {c}, messages, excused, added, removed')
  <2>1. GoodList(0 .. size', messages, excused, added, removed)
    BY <1>1, <1>2, ListedAre
  <2> QED BY <1>1, <1>2, <2>1, GoodRemoved
<1>4. Erasing' /\ Hole' = c /\ Listed' = (0 .. size') \ {c} /\ ~Loading' /\ ~Shifting'
      /\ ~Synced' /\ ~NewUnsaved' /\ ~Adding'
  BY <1>1 DEF Erasing, Hole, Listed, Loading, Shifting, Synced, NewUnsaved, Adding, AtRest
<1>5. ListGood' /\ LoadGood'
  BY <1>1, <1>3, <1>4 DEF ListGood, LoadGood
<1>6. HoleGood'
  <2>1. c \in 0 .. size' /\ c <= size' /\ c \in Int /\ \A p \in 0 .. size' : p \in Int
    <3>1. c \in 0 .. size'
      BY <1>2, Zenon
    <3>2. ASSUME NEW m \in Nat, NEW k \in 0 .. m
          PROVE  k <= m /\ k \in Int
      OBVIOUS
    <3> QED BY <1>2, <3>1, <3>2, Zenon
  <2>2. messages[c] \in 1 .. added
    BY <1>3, <2>1 DEF GoodList
  <2>3. \A p \in (0 .. size') \ {c} : /\ p < c => messages[p] <= messages[c]
                                      /\ p > c => messages[c] <= messages[p]
    BY <1>3, <2>1 DEF GoodList
  <2> QED BY <1>1, <1>2, <1>4, <2>1, <2>2, <2>3 DEF HoleGood
<1>7. FilesGood'
  <2>1. OnFile' = OnFile
    BY <1>1, FilesSame
  <2>2. /\ \A p \in Places : OnFile[p] = IF p < size THEN messages[p] ELSE Absent
        /\ replaced = Blank /\ replaced \in 0 .. added
    BY <1>1 DEF UIInv, ListInv, FilesGood, NewUnsaved, Adding, AtRest
  <2> QED BY <1>1, <1>2, <1>4, <2>1, <2>2 DEF FilesGood
<1> QED BY <1>5, <1>6, <1>7 DEF ListInv

LEMMA EraseKeeps ==
  ASSUME UIInv, EraseName \/ Erase
  PROVE  ListInv'
<1>1. /\ pc \in {"eraseName", "erase"} /\ Erasing /\ ~addNewMessage /\ ~addNewMessage'
      /\ UNCHANGED <<size, messages, currentMessage, excused, added, removed, deleting, replaced>>
      /\ replaced = Blank /\ replaced \in 0 .. added
      /\ pc' = "erase" \/ (pc' = "shift" /\ i' = currentMessage)
      /\ \A p \in Places : OnFile[p] = IF p < size + 1 THEN messages[p] ELSE Absent
  BY DEF EraseName, Erase, Step, list, input, history, Erasing,
         UIInv, ListInv, FilesGood, AtRest, Synced, NewUnsaved, Adding
<1>2. /\ Hole' = Hole /\ Listed' = Listed /\ (Erasing' \/ Shifting') /\ ~Loading' /\ ~Synced'
      /\ ~NewUnsaved' /\ ~Adding' /\ ~Loading
  BY <1>1 DEF Hole, Listed, Erasing, Shifting, Loading, Synced, NewUnsaved, Adding, AtRest
<1>3. ListGood' /\ LoadGood' /\ HoleGood'
  BY <1>1, <1>2 DEF UIInv, ListInv, ListGood, LoadGood, HoleGood
<1>4. CASE EraseName
  <2>1. pc' = "erase" /\ files' = files /\ fileName' = createFileName(size)
    BY <1>4 DEF EraseName, Step
  <2>2. FilesGood'
    BY <1>1, <1>2, <2>1, FilesSame DEF FilesGood
  <2> QED BY <1>3, <2>2 DEF ListInv
<1>5. CASE Erase
  <2>1. /\ pc' = "shift" /\ files' = [files EXCEPT ![createFileName(size)] = Absent]
        /\ size \in Places /\ size \in Nat
    BY <1>5, SizeIs DEF Erase, Step, UIInv, ListInv, FilesGood
  <2>2. \A p \in Places : OnFile'[p] = IF p = size THEN Absent ELSE OnFile[p]
    BY <2>1, FileChanged DEF UIInv
  <2>3. \A p \in Places : OnFile'[p] = IF p < size THEN messages[p] ELSE Absent
    BY <1>1, <2>1, <2>2, PlacesBelow
  <2>4. FilesGood'
    BY <1>1, <1>2, <2>1, <2>3 DEF FilesGood, Erasing
  <2> QED BY <1>3, <2>4 DEF ListInv
<1> QED BY <1>4, <1>5

LEMMA ShiftKeeps ==
  ASSUME UIInv, Shift
  PROVE  ListInv'
<1>1. /\ pc = "shift" /\ pc' = "move" /\ i < size /\ Shifting /\ ~addNewMessage /\ ~addNewMessage'
      /\ files' = [files EXCEPT ![createFileName(i)] = messages[i + 1]]
      /\ UNCHANGED <<size, messages, currentMessage, i, excused, added, removed, deleting, replaced>>
      /\ replaced = Blank /\ replaced \in 0 .. added
      /\ \A p \in Places : OnFile[p] = IF p < size THEN messages[p] ELSE Absent
  BY DEF Shift, Step, Successor, list, input, history, Shifting,
         UIInv, ListInv, FilesGood, AtRest, Synced, NewUnsaved, Adding
<1>2. /\ Hole' = Hole /\ Listed' = Listed /\ Shifting' /\ ~Erasing' /\ ~Erasing /\ ~Loading'
      /\ ~Synced' /\ ~NewUnsaved' /\ ~Adding' /\ ~Loading
  BY <1>1 DEF Hole, Listed, Erasing, Shifting, Loading, Synced, NewUnsaved, Adding, AtRest
<1>3. ListGood' /\ LoadGood' /\ HoleGood'
  BY <1>1, <1>2 DEF UIInv, ListInv, ListGood, LoadGood, HoleGood
<1>4. \A p \in Places : OnFile'[p] = IF p = i THEN messages[i + 1] ELSE OnFile[p]
  BY <1>1, SuccessorIs, FileChanged DEF UIInv
<1>5. FilesGood'
  BY <1>1, <1>2, <1>4 DEF FilesGood
<1> QED BY <1>3, <1>5 DEF ListInv

LEMMA MoveKeeps ==
  ASSUME UIInv, Move
  PROVE  ListInv'
<1>1. /\ pc = "move" /\ pc' = "shift" /\ i < size /\ Shifting /\ ~Erasing
      /\ ~addNewMessage /\ ~addNewMessage'
      /\ messages' = [messages EXCEPT ![i] = messages[i + 1]] /\ i' = i + 1
      /\ UNCHANGED <<size, files, currentMessage, excused, added, removed, deleting, replaced>>
      /\ replaced = Blank /\ replaced \in 0 .. added
      /\ \A p \in Places : OnFile[p] = IF p = i THEN messages[i + 1]
                                        ELSE IF p < size THEN messages[p] ELSE Absent
  BY DEF Move, Step, Successor, input, history, Shifting, Erasing,
         UIInv, ListInv, FilesGood, AtRest, Synced, NewUnsaved, Adding
<1>2. /\ i \in 0 .. size - 1 /\ i + 1 \in 0 .. size /\ size \in Nat /\ i \in Nat /\ i + 1 # i
      /\ \A p \in 0 .. size : p \in Places
      /\ messages \in [Places -> 0 .. MaxNumber]
  BY <1>1, SuccessorIs, SizeIs DEF UIInv, TypeOK
<1>3. messages'[i] = messages[i + 1] /\ \A p \in Places : p # i => messages'[p] = messages[p]
  BY <1>1, <1>2
<1>4. /\ Hole = i /\ Hole' = i + 1 /\ Listed' = (0 .. size) \ {i + 1} /\ Shifting' /\ ~Erasing'
      /\ ~Loading' /\ ~Synced' /\ ~NewUnsaved' /\ ~Adding'
  BY <1>1 DEF Hole, Listed, Erasing, Shifting, Loading, Synced, NewUnsaved, Adding, AtRest
<1>5. GoodList((0 .. size) \ {i}, messages, excused, added, removed)
  BY <1>1, <1>4, ListedAre
<1>6. GoodList((0 .. size) \ {i + 1}, messages', excused, added, removed)
  BY <1>2, <1>3, <1>5, GoodMoved
<1>7. ListGood' /\ LoadGood'
  BY <1>1, <1>4, <1>6 DEF ListGood, LoadGood
<1>8. HoleGood'
  <2>1. /\ \A p \in 0 .. size : p # i /\ p < i + 1 => p < i /\ p # i + 1
        /\ \A p \in 0 .. size : p > i + 1 => p # i
    BY <1>2
  <2>2. messages'[i + 1] = messages[i + 1] /\ messages[i + 1] \in 1 .. added
        /\ i + 1 \in (0 .. size) \ {i} /\ added \in Nat
    BY <1>2, <1>3, <1>5, ListedAre DEF GoodList
  <2>3. \A p \in (0 .. size) \ {i + 1} : p < i + 1 => messages'[p] <= messages[i + 1]
    <3> SUFFICES ASSUME NEW p \in (0 .. size) \ {i + 1}, p < i + 1
                 PROVE  messages'[p] <= messages[i + 1]
      OBVIOUS
    <3>1. CASE p = i
      BY <1>3, <2>2, <3>1
    <3>2. CASE p # i
      BY <1>2, <1>3, <1>5, <2>2, <3>2 DEF GoodList
    <3> QED BY <3>1, <3>2
  <2>4. \A p \in (0 .. size) \ {i + 1} : p > i + 1 => messages[i + 1] <= messages'[p]
    <3> SUFFICES ASSUME NEW p \in (0 .. size) \ {i + 1}, p > i + 1
                 PROVE  messages[i + 1] <= messages'[p]
      OBVIOUS
    <3>1. p # i /\ i + 1 < p
      BY <1>2
    <3> QED BY <1>2, <1>3, <1>5, <2>2, <3>1 DEF GoodList
  <2>5. size < MAX_MESSAGES /\ currentMessage <= size
    BY <1>1 DEF UIInv, ListInv, HoleGood
  <2> QED BY <1>1, <1>2, <1>4, <2>2, <2>3, <2>4, <2>5 DEF HoleGood
<1>9. FilesGood'
  <2>1. OnFile' = OnFile
    BY <1>1, FilesSame
  <2>2. \A p \in Places : OnFile[p] = IF p < size THEN messages'[p] ELSE Absent
    BY <1>1, <1>3
  <2> QED BY <1>1, <1>4, <2>1, <2>2 DEF FilesGood
<1> QED BY <1>7, <1>8, <1>9 DEF ListInv

LEMMA EndDeleteKeeps ==
  ASSUME UIInv, EndDelete
  PROVE  ListInv'
<1>1. /\ pc = "shift" /\ pc' = "wait" /\ i >= size /\ Shifting /\ ~Erasing
      /\ ~addNewMessage /\ ~addNewMessage'
      /\ UNCHANGED <<size, messages, files, excused, added, removed, replaced>>
      /\ replaced = Blank /\ replaced \in 0 .. added
      /\ \A p \in Places : OnFile[p] = IF p < size THEN messages[p] ELSE Absent
  BY DEF EndDelete, Step, input, work, Shifting, Erasing,
         UIInv, ListInv, FilesGood, AtRest, Synced, NewUnsaved, Adding
<1>2. /\ Hole = i /\ ~Shifting' /\ ~Erasing' /\ ~Loading' /\ Synced' /\ ~NewUnsaved' /\ ~Adding'
      /\ Listed' = 0 .. size - 1
  BY <1>1 DEF Hole, Listed, Erasing, Shifting, Loading, Synced, NewUnsaved, Adding, AtRest
<1>3. (0 .. size) \ {i} = 0 .. size - 1
  <2>1. i \in 0 .. size
    BY <1>1, <1>2 DEF UIInv, ListInv, HoleGood
  <2> QED BY <1>1, <2>1, SizeIs
<1>4. GoodList(0 .. size - 1, messages, excused, added, removed)
  BY <1>1, <1>2, <1>3, ListedAre
<1>5. ListGood' /\ LoadGood' /\ HoleGood'
  BY <1>1, <1>2, <1>4 DEF ListGood, LoadGood, HoleGood
<1>6. FilesGood'
  BY <1>1, <1>2, FilesSame DEF FilesGood, Erasing
<1> QED BY <1>5, <1>6 DEF ListInv

-----------------------------------------------------------------------------
(***************************************************************************)
(* The power fails, and what is on file is read.                           *)
(***************************************************************************)
\* The files are a good list, with no gap.
LEMMA RestartLoads ==
  ASSUME UIInv, Restart,
         GoodList(OnFilePlaces, OnFile, excused \cup (Unsaved \cup HalfDeleted), added, removed),
         \A p, q \in Places : p < q /\ OnFile[q] # Absent => OnFile[p] # Absent,
         \A p \in Places : p >= MAX_MESSAGES => OnFile[p] = Absent
  PROVE  ListInv'
<1>1. /\ pc' = "load" /\ size' = 0 /\ currentMessage' = 0 /\ curState' = "LIST" /\ ~addNewMessage'
      /\ replaced' = Blank /\ UNCHANGED <<files, added, removed>>
      /\ excused' = excused \cup (Unsaved \cup HalfDeleted)
  BY DEF Restart, MemoryCleared
<1>2. OnFile' = OnFile /\ OnFilePlaces' = OnFilePlaces
  BY <1>1, FilesSame
<1>3. /\ Loading' /\ ~Synced' /\ ~NewUnsaved' /\ ~Adding' /\ ~Erasing' /\ ~Shifting'
  BY <1>1 DEF Loading, Synced, NewUnsaved, AtRest, Adding, Erasing, Shifting
<1>4. LoadGood'
  <2>1. 0 .. size' - 1 = {}
    BY <1>1
  <2> QED BY <1>1, <1>2, <2>1 DEF LoadGood
<1>5. 0 \in 0 .. added'
  BY <1>1, ListedAre
<1> QED BY <1>1, <1>3, <1>4, <1>5 DEF ListInv, ListGood, FilesGood, HoleGood, Blank

\* The first n files are the list at P, but for messages that are excused.
LEMMA RestartReads ==
  ASSUME UIInv, Restart, NEW P, GoodList(P, messages, excused, added, removed),
         NEW n \in 0 .. MAX_MESSAGES,
         \A p \in Places : OnFile[p] # Absent <=> p < n,
         \A p \in 0 .. n - 1 : OnFile[p] \in 1 .. added,
         \A p, q \in 0 .. n - 1 : p < q => OnFile[p] <= OnFile[q],
         \A p \in 0 .. n - 1 : \/ OnFile[p] \in Unsaved \cup HalfDeleted
                               \/ p \in P /\ OnFile[p] = messages[p],
         \A p \in P : \/ messages[p] \in Unsaved \cup HalfDeleted
                      \/ p \in 0 .. n - 1 /\ OnFile[p] = messages[p]
  PROVE  ListInv'
<1>1. n \in Nat /\ MAX_MESSAGES \in Nat /\ n <= MAX_MESSAGES
  BY PlacesAre
<1>2. OnFilePlaces = 0 .. n - 1
  <2>1. \A p \in 0 .. n - 1 : p \in Places /\ p < n
    BY <1>1, PlacesAre DEF Places
  <2>2. \A p \in Places : p < n => p \in 0 .. n - 1
    BY <1>1, PlacesBelow
  <2> QED BY <2>1, <2>2 DEF OnFilePlaces
<1>3. \A p, q \in Places : p < q /\ OnFile[q] # Absent => OnFile[p] # Absent
  <2>1. ASSUME NEW p \in Nat, NEW q \in Nat, p < q, q < n
        PROVE  p < n
    BY <1>1, <2>1
  <2>2. \A p \in Places : p \in Nat
    BY <1>1, PlacesBelow
  <2> QED BY <2>1, <2>2, Zenon
<1>4. \A p \in Places : p >= MAX_MESSAGES => OnFile[p] = Absent
  <2>1. ASSUME NEW p \in Nat, p >= MAX_MESSAGES
        PROVE  ~(p < n)
    BY <1>1, <2>1
  <2>2. \A p \in Places : p \in Nat
    BY <1>1, PlacesBelow
  <2> QED BY <2>1, <2>2, Zenon
<1>5. GoodList(OnFilePlaces, OnFile, excused \cup (Unsaved \cup HalfDeleted), added, removed)
  <2>1. GoodList(0 .. n - 1, OnFile, excused \cup (Unsaved \cup HalfDeleted), added, removed)
    BY GoodButFor
  <2> QED BY <1>2, <2>1
<1> QED BY <1>3, <1>4, <1>5, RestartLoads

\* The new message, of place k, and the one it replaces are excused.
LEMMA RestartUnsaved ==
  ASSUME UIInv, Restart, NEW k \in Nat, k < MAX_MESSAGES, NEW P, P = 0 .. k - 1 \/ P = 0 .. k,
         GoodList(P, messages, excused, added, removed),
         k \in P => messages[k] = added,
         added \in Unsaved, replaced \in Unsaved, replaced \in 0 .. added,
         \A p \in Places : OnFile[p] = IF p < k THEN messages[p]
                                       ELSE IF p = k THEN replaced ELSE Absent,
         replaced # Blank => \A p \in 0 .. k - 1 : messages[p] <= replaced
  PROVE  ListInv'
<1> DEFINE n == IF replaced = Blank THEN k ELSE k + 1
<1>1. /\ n \in 0 .. MAX_MESSAGES /\ k \in Places /\ added \in Nat
      /\ \A p \in 0 .. n - 1 : p \in 0 .. k - 1 \/ (p = k /\ replaced # Blank)
      /\ \A p \in 0 .. k - 1 : p \in 0 .. n - 1 /\ p \in P /\ p < k /\ p # k /\ p \in Places
      /\ \A p \in P : p \in 0 .. k - 1 \/ p = k
  <2>1. n \in 0 .. MAX_MESSAGES /\ k \in Places /\ added \in Nat
    BY PlacesAre, ListedAre DEF Places
  <2>2. \A p \in 0 .. n - 1 : p \in 0 .. k - 1 \/ (p = k /\ replaced # Blank)
    OBVIOUS
  <2>3. \A p \in 0 .. k - 1 : p \in 0 .. n - 1 /\ p < k /\ p # k /\ p \in Places
    <3>1. \A p \in 0 .. k - 1 : p \in 0 .. n - 1 /\ p < k /\ p # k /\ p \in 0 .. MAX_MESSAGES - 1
      BY PlacesAre
    <3> QED BY <3>1, PlacesAre
  <2>4. /\ \A p \in 0 .. k - 1 : p \in P
        /\ \A p \in P : p \in 0 .. k - 1 \/ p = k
    OBVIOUS
  <2> QED BY <2>1, <2>2, <2>3, <2>4
<1>2. \A p \in 0 .. k - 1 : messages[p] \in 1 .. added /\ OnFile[p] = messages[p]
  BY <1>1 DEF GoodList
<1>3. replaced # Blank => OnFile[k] = replaced /\ replaced \in 1 .. added
  BY <1>1 DEF Blank
<1>4. \A p \in Places : OnFile[p] # Absent <=> p < n
  <2>1. \A p \in Places : p < k => OnFile[p] # Absent
    BY <1>1, <1>2, PlacesBelow DEF Absent
  <2>2. replaced # Blank => OnFile[k] # Absent
    BY <1>3 DEF Absent
  <2>3. \A p \in Places : (p < n) <=> (p < k \/ (p = k /\ replaced # Blank))
    BY PlacesBelow
  <2> QED BY <2>1, <2>2, <2>3 DEF Blank, Absent
<1> HIDE DEF n
<1>5. \A p \in 0 .. n - 1 : OnFile[p] \in 1 .. added
  BY <1>1, <1>2, <1>3
<1>6. \A p, q \in 0 .. n - 1 : p < q => OnFile[p] <= OnFile[q]
  <2> SUFFICES ASSUME NEW p \in 0 .. n - 1, NEW q \in 0 .. n - 1, p < q
               PROVE  OnFile[p] <= OnFile[q]
    OBVIOUS
  <2>1. p \in 0 .. k - 1
    BY <1>1
  <2>2. CASE q \in 0 .. k - 1
    BY <1>1, <1>2, <2>1, <2>2 DEF GoodList
  <2>3. CASE q = k /\ replaced # Blank
    BY <1>2, <1>3, <2>1, <2>3
  <2> QED BY <1>1, <2>2, <2>3
<1>7. \A p \in 0 .. n - 1 : \/ OnFile[p] \in Unsaved \cup HalfDeleted
                            \/ p \in P /\ OnFile[p] = messages[p]
  BY <1>1, <1>2, <1>3
<1>8. \A p \in P : \/ messages[p] \in Unsaved \cup HalfDeleted
                   \/ p \in 0 .. n - 1 /\ OnFile[p] = messages[p]
  BY <1>1, <1>2
<1> QED BY <1>1, <1>4, <1>5, <1>6, <1>7, <1>8, RestartReads

\* A deletion whose last file is still there.
LEMMA RestartErasing ==
  ASSUME UIInv, Restart, Erasing
  PROVE  ListInv'
<1> DEFINE c == currentMessage
           P == (0 .. size) \ {c}
           n == size + 1
<1>1. /\ GoodList(P, messages, excused, added, removed)
      /\ c \in 0 .. size /\ messages[c] \in 1 .. added /\ messages[c] = deleting
      /\ \A p \in P : (p < c => messages[p] <= messages[c]) /\ (p > c => messages[c] <= messages[p])
      /\ size < MAX_MESSAGES /\ size \in Nat /\ n \in 0 .. MAX_MESSAGES
  BY ListedAre, SizeIs DEF UIInv, ListInv, HoleGood, Hole, Listed
<1>2. /\ \A p \in Places : OnFile[p] = IF p < n THEN messages[p] ELSE Absent
      /\ \A p \in 0 .. n - 1 : p \in Places /\ p < n /\ (p \in P \/ p = c)
      /\ \A p \in P : p \in 0 .. n - 1
  BY <1>1, SizeIs DEF UIInv, ListInv, FilesGood
<1>3. deleting \in Unsaved \cup HalfDeleted
  BY Zenon DEF HalfDeleted, Erasing
<1>4. \A p \in 0 .. n - 1 : OnFile[p] = messages[p] /\ messages[p] \in 1 .. added
  BY <1>1, <1>2 DEF GoodList
<1>5. \A p \in Places : OnFile[p] # Absent <=> p < n
  <2>1. \A p \in Places : p < n => p \in 0 .. n - 1
    BY <1>1, PlacesBelow
  <2>2. \A p \in 0 .. n - 1 : OnFile[p] # Absent
    BY <1>4 DEF Absent
  <2> QED BY <1>2, <2>1, <2>2
<1>6. \A p, q \in 0 .. n - 1 : p < q => OnFile[p] <= OnFile[q]
  <2> SUFFICES ASSUME NEW p \in 0 .. n - 1, NEW q \in 0 .. n - 1, p < q
               PROVE  messages[p] <= messages[q]
    BY <1>4
  <2>1. CASE p \in P /\ q \in P
    BY <1>1, <2>1 DEF GoodList
  <2>2. CASE p = c \/ q = c
    BY <1>1, <1>2, <2>2
  <2> QED BY <1>2, <2>1, <2>2
<1> HIDE DEF n, P
<1>7. \A p \in 0 .. n - 1 : OnFile[p] \in 1 .. added
  BY <1>4
<1>8. \A p \in 0 .. n - 1 : \/ OnFile[p] \in Unsaved \cup HalfDeleted
                            \/ p \in P /\ OnFile[p] = messages[p]
  BY <1>1, <1>2, <1>3, <1>4
<1>9. \A p \in P : \/ messages[p] \in Unsaved \cup HalfDeleted
                   \/ p \in 0 .. n - 1 /\ OnFile[p] = messages[p]
  BY <1>2, <1>4
<1> QED BY <1>1, <1>5, <1>6, <1>7, <1>8, <1>9, RestartReads

\* A deletion whose last file is erased: the last message is not on file, the hole's place
\* holds what was there, or what will be.
LEMMA RestartShifting ==
  ASSUME UIInv, Restart, Shifting
  PROVE  ListInv'
<1> DEFINE n == size
           P == (0 .. n) \ {i}
           there == IF pc = "move" THEN messages[i + 1] ELSE messages[i]
<1>1. /\ GoodList(P, messages, excused, added, removed)
      /\ i \in 0 .. n /\ messages[i] \in 1 .. added
      /\ \A p \in P : (p < i => messages[p] <= messages[i]) /\ (p > i => messages[i] <= messages[p])
      /\ n \in Nat /\ n \in 0 .. MAX_MESSAGES /\ i \in Nat /\ i + 1 \in Nat
      /\ pc = "move" => i < n /\ i + 1 \in P
      /\ added \in Nat /\ \A p \in 0 .. n : messages[p] \in 1 .. added
  <2>1. ~Erasing /\ Hole = i /\ Listed = P
    BY DEF Erasing, Shifting, Hole, Listed
  <2>2. /\ i \in 0 .. n /\ messages[i] \in 1 .. added
        /\ \A p \in P : (p < i => messages[p] <= messages[i]) /\ (p > i => messages[i] <= messages[p])
    BY <2>1 DEF UIInv, ListInv, HoleGood
  <2>3. n \in Nat /\ n \in 0 .. MAX_MESSAGES /\ i \in Nat /\ i + 1 \in Nat
    BY <2>2, SizeIs
  <2>4. pc = "move" => i < n /\ i + 1 \in P
    BY <2>2, <2>3 DEF UIInv, ListInv, FilesGood
  <2>5. GoodList(P, messages, excused, added, removed) /\ added \in Nat
    BY <2>1, ListedAre
  <2> QED BY <2>2, <2>3, <2>4, <2>5, MessagesRead
<1>2. /\ \A p \in Places : OnFile[p] = IF p < n THEN IF p = i THEN there ELSE messages[p] ELSE Absent
      /\ \A p \in 0 .. n - 1 : p \in Places /\ p < n /\ p \in 0 .. n /\ (p \in P \/ p = i)
      /\ \A p \in P : p \in 0 .. n - 1 \/ p = n
  BY <1>1, SizeIs DEF UIInv, ListInv, FilesGood, Shifting
<1>3. {messages[n], there} \subseteq Unsaved \cup HalfDeleted
  <2>1. CASE pc = "shift"
    <3>1. HalfDeleted = {deleting, messages[size], messages[i]}
      BY <2>1, Zenon DEF HalfDeleted
    <3> QED BY <2>1, <3>1
  <2>2. CASE pc = "move"
    <3>1. HalfDeleted = {deleting, messages[size], messages[i + 1]}
      BY <2>2, Zenon DEF HalfDeleted, Successor
    <3> QED BY <2>2, <3>1
  <2> QED BY <2>1, <2>2 DEF Shifting
<1>4. \A p \in 0 .. n - 1 : /\ OnFile[p] = IF p = i THEN there ELSE messages[p]
                            /\ OnFile[p] \in 1 .. added
  <2>1. there \in 1 .. added
    BY <1>1
  <2> QED BY <1>1, <1>2, <2>1
<1>5. \A p \in Places : OnFile[p] # Absent <=> p < n
  <2>1. \A p \in Places : p < n => p \in 0 .. n - 1
    BY <1>1, PlacesBelow
  <2>2. \A p \in 0 .. n - 1 : OnFile[p] # Absent
    BY <1>4 DEF Absent
  <2> QED BY <1>2, <2>1, <2>2
<1>6. \A p, q \in 0 .. n - 1 : p < q => OnFile[p] <= OnFile[q]
  <2>1. \A p \in P : (p < i => messages[p] <= there) /\ (p > i => there <= messages[p])
    <3>1. CASE pc # "move"
      BY <1>1, <3>1
    <3>2. CASE pc = "move"
      <4>1. \A p \in P : p \in Nat /\ (p < i => p < i + 1) /\ (p > i => p = i + 1 \/ p > i + 1)
        BY <1>1
      <4>2. \A p, q \in P : p < q => messages[p] <= messages[q]
        BY <1>1 DEF GoodList
      <4>3. messages[i + 1] \in Int
        BY <1>1, <3>2
      <4> QED BY <1>1, <3>2, <4>1, <4>2, <4>3
    <3> QED BY <3>1, <3>2
  <2> SUFFICES ASSUME NEW p \in 0 .. n - 1, NEW q \in 0 .. n - 1, p < q
               PROVE  OnFile[p] <= OnFile[q]
    OBVIOUS
  <2>2. CASE p # i /\ q # i
    <3>1. p \in P /\ q \in P
      BY <1>2, <2>2
    <3>2. messages[p] <= messages[q]
      BY <1>1, <3>1 DEF GoodList
    <3> QED BY <1>4, <2>2, <3>2
  <2>3. CASE p = i
    <3>1. q \in P /\ q > i /\ q # i
      BY <1>1, <1>2, <2>3
    <3> QED BY <1>4, <2>1, <2>3, <3>1
  <2>4. CASE q = i
    <3>1. p \in P /\ p < i /\ p # i
      BY <1>1, <1>2, <2>4
    <3> QED BY <1>4, <2>1, <2>4, <3>1
  <2> QED BY <2>2, <2>3, <2>4
<1> HIDE DEF n, P, there
<1>7. \A p \in 0 .. n - 1 : \/ OnFile[p] \in Unsaved \cup HalfDeleted
                            \/ p \in P /\ OnFile[p] = messages[p]
  BY <1>2, <1>3, <1>4
<1>8. \A p \in P : \/ messages[p] \in Unsaved \cup HalfDeleted
                   \/ p \in 0 .. n - 1 /\ OnFile[p] = messages[p]
  <2>1. \A p \in P : p # i
    BY DEF P
  <2> QED BY <1>2, <1>3, <1>4, <2>1
<1> QED BY <1>1, <1>4, <1>5, <1>6, <1>7, <1>8, RestartReads

LEMMA RestartKeeps ==
  ASSUME UIInv, Restart
  PROVE  ListInv'
<1>1. CASE Loading
  <2>1. /\ GoodList(OnFilePlaces, OnFile, excused, added, removed)
        /\ \A p, q \in Places : p < q /\ OnFile[q] # Absent => OnFile[p] # Absent
        /\ \A p \in Places : p >= MAX_MESSAGES => OnFile[p] = Absent
    BY <1>1 DEF UIInv, ListInv, LoadGood
  <2>2. GoodList(OnFilePlaces, OnFile, excused \cup (Unsaved \cup HalfDeleted), added, removed)
    BY <2>1 DEF GoodList
  <2> QED BY <2>1, <2>2, RestartLoads
<1>2. CASE Synced
  <2> DEFINE n == size
             P == 0 .. n - 1
  <2>1. /\ GoodList(P, messages, excused, added, removed) /\ n \in 0 .. MAX_MESSAGES /\ n \in Nat
        /\ \A p \in Places : OnFile[p] = IF p < n THEN messages[p] ELSE Absent
        /\ \A p \in P : p \in Places /\ p < n
    BY <1>2, ListedAre, SizeIs DEF UIInv, ListInv, FilesGood
  <2>2. \A p \in P : OnFile[p] = messages[p] /\ messages[p] \in 1 .. added
    BY <2>1 DEF GoodList
  <2>3. \A p \in Places : OnFile[p] # Absent <=> p < n
    <3>1. \A p \in Places : p < n => p \in P
      BY <2>1, PlacesBelow
    <3>2. \A p \in P : OnFile[p] # Absent
      BY <2>2 DEF Absent
    <3> QED BY <2>1, <3>1, <3>2
  <2>4. \A p, q \in P : p < q => OnFile[p] <= OnFile[q]
    BY <2>1, <2>2 DEF GoodList
  <2> HIDE DEF n
  <2> QED BY <2>1, <2>2, <2>3, <2>4, RestartReads
<1>3. CASE NewUnsaved
  <2> DEFINE k == size - 1
  <2>1. /\ size > 0 /\ messages[k] = added /\ replaced \in 0 .. added
        /\ \A p \in Places : OnFile[p] = IF p < k THEN messages[p]
                                         ELSE IF p = k THEN replaced ELSE Absent
        /\ replaced # Blank => \A p \in 0 .. size - 2 : messages[p] <= replaced
    BY <1>3 DEF UIInv, ListInv, FilesGood
  <2>2. k \in Nat /\ k < MAX_MESSAGES /\ size - 2 = k - 1
    BY <2>1, SizeIs
  <2>3. GoodList(0 .. k, messages, excused, added, removed)
    BY <1>3, ListedAre
  <2>4. added \in Unsaved /\ replaced \in Unsaved
    BY <1>3 DEF Unsaved, NewUnsaved
  <2> QED BY <2>1, <2>2, <2>3, <2>4, RestartUnsaved
<1>4. CASE Adding
  <2>1. /\ size < MAX_MESSAGES /\ (pc = "addCount" => messages[size] = added)
        /\ replaced \in 0 .. added /\ size \in Nat
        /\ \A p \in Places : OnFile[p] = IF p < size THEN messages[p]
                                         ELSE IF p = size THEN replaced ELSE Absent
        /\ replaced # Blank => \A p \in 0 .. size - 1 : messages[p] <= replaced
    BY <1>4, SizeIs DEF UIInv, ListInv, FilesGood
  <2>2. added \in Unsaved /\ replaced \in Unsaved
    BY <1>4 DEF Unsaved, Adding
  <2>3. CASE pc = "addCount"
    <3>1. GoodList(0 .. size, messages, excused, added, removed)
      BY <2>3, ListedAre
    <3> QED BY <2>1, <2>2, <2>3, <3>1, RestartUnsaved
  <2>4. CASE pc = "addStore"
    <3>1. GoodList(0 .. size - 1, messages, excused, added, removed) /\ size \notin 0 .. size - 1
      BY <2>1, <2>4, ListedAre
    <3> QED BY <2>1, <2>2, <3>1, RestartUnsaved
  <2> QED BY <1>4, <2>3, <2>4 DEF Adding
<1> QED
  BY <1>1, <1>2, <1>3, <1>4, RestartErasing, RestartShifting
  DEF UIInv, TypeOK, Loading, Synced, NewUnsaved, AtRest, Adding, Erasing, Shifting

\* Keys change nothing of the list.
LEMMA OthersKeep ==
  ASSUME UIInv, (\E button \in Buttons : Press(button)) \/ UNCHANGED vars
  PROVE  ListInv'
<1>1. UNCHANGED <<pc, list, files, addNewMessage, work, history, excused, curState>>
  BY DEF Press, vars, input
<1> QED
  BY <1>1, FilesSame
  DEF list, work, history, UIInv, ListInv, ListGood, LoadGood, FilesGood, HoleGood, Listed, Hole,
      Loading, Synced, NewUnsaved, AtRest, Adding, Erasing, Shifting

-----------------------------------------------------------------------------
(***************************************************************************)
(* The theorems.                                                           *)
(***************************************************************************)
LEMMA UIStart == Init => UIInv
<1> SUFFICES ASSUME Init PROVE UIInv
  OBVIOUS
<1>1. TypeOK
  <2>1. /\ 0 \in 0 .. MAX_MESSAGES /\ 0 \in 0 .. MAX_MESSAGES - 1 /\ 0 \in Places
        /\ 0 \in 0 .. MaxNumber
    BY PlacesAre
  <2>2. messages \in [Places -> 0 .. MaxNumber] /\ files \in [FileNames -> 0 .. MaxNumber]
    BY <2>1 DEF Init, Blank, Absent
  <2> QED BY <2>1, <2>2, Zenon DEF Init, TypeOK, Blank
<1>2. pc = "load" /\ size = 0 /\ added = 0 /\ removed = {} /\ replaced = Blank /\ keys = 0
      /\ myButton = "none" /\ ~addNewMessage /\ currentMessage = 0 /\ curState = "LIST"
  BY DEF Init
<1>3. \A p \in Places : OnFile[p] = Absent
  BY NamesAre DEF Init, OnFile
<1>4. OnFilePlaces = {} /\ 1 .. added = {} /\ 0 .. size - 1 = {}
  BY <1>2, <1>3 DEF OnFilePlaces
<1>5. GoodList(OnFilePlaces, OnFile, excused, added, removed)
  BY <1>4 DEF GoodList
<1>6. ListInv
  BY <1>2, <1>3, <1>4, <1>5
  DEF ListInv, ListGood, LoadGood, FilesGood, HoleGood,
      Loading, Synced, NewUnsaved, AtRest, Adding, Erasing, Shifting, Blank
<1>7. CursorGood /\ Counted /\ Woken
  BY <1>2, PlacesAre DEF CursorGood, Counted, Owed, Woken
<1> QED BY <1>1, <1>6, <1>7 DEF UIInv

\* While no message arrives as the thread is at work, every step keeps the invariant.
LEMMA UIStep == UIInv /\ ~ArrivalsDisturb /\ [Next]_vars => UIInv'
<1> SUFFICES ASSUME UIInv, ~ArrivalsDisturb, [Next]_vars PROVE UIInv'
  OBVIOUS
<1>1. ListInv'
  BY LoadKeeps, RestKeeps, SaveKeeps, SendKeeps, AddStoreKeeps, AddEndKeeps, ArriveKeeps,
     DeleteKeeps, EraseKeeps, ShiftKeeps, MoveKeeps, EndDeleteKeeps, RestartKeeps, OthersKeep,
     TypesStep, Zenon
  DEF Next, UIThread, Interrupts
<1>2. Woken'
  <2> USE DEF UIInv, Woken
  <2>1. CASE Interrupts \/ Restart \/ UNCHANGED vars
    BY <2>1 DEF Interrupts, Arrive, Announce, Press, Restart, MemoryCleared, vars, input
  <2>2. CASE AddAnnounce \/ Wake
    BY <2>2 DEF AddAnnounce, Announce, Wake, Step
  <2>3. CASE UIThread /\ ~AddAnnounce /\ ~Wake
    <3>1. pc' # "wait" \/ ~addNewMessage' \/ (addNewMessage' = addNewMessage /\ ~AtRest)
      BY <2>3
      DEF UIThread, LoadName, LoadRead, LoadStore, CheckNew, NameFile, Save, HandleScreen,
          HandleMove, HandleSend, HandleDelete, EraseName, Erase, Shift, Move, EndDelete,
          AddStore, AddCount, Step, input, AtRest
    <3> QED BY <3>1 DEF ListInv, FilesGood
  <2> QED BY <2>1, <2>2, <2>3 DEF Next
<1> QED BY <1>1, <1>2, TypesStep, CountedStep, CursorStep DEF UIInv

\* The list where nothing moves.
LEMMA SettledIs ==
  ASSUME UIInv, Settled
  PROVE  /\ GoodList(Stored, messages, excused, added, removed)
         /\ \A p \in Places : OnFile[p] = IF p < size THEN messages[p] ELSE Absent
<1>1. Synced
  BY DEF Settled, UIInv, Woken, Synced, AtRest
<1> QED BY <1>1, ListedAre DEF UIInv, ListInv, FilesGood, Stored

LEMMA SettledListKept == UIInv => NothingLost /\ ListInOrder
<1> SUFFICES ASSUME UIInv, Settled
             PROVE  /\ {messages[p] : p \in Stored} \ excused = ((1 .. added) \ removed) \ excused
                    /\ \A p, q \in Stored : p < q =>
                         messages[p] < messages[q] \/ (messages[p] = messages[q] /\ messages[p] \in excused)
  BY Zenon DEF NothingLost, ListInOrder
<1>1. GoodList(Stored, messages, excused, added, removed)
  BY SettledIs
<1>2. {messages[p] : p \in Stored} \ excused = ((1 .. added) \ removed) \ excused
  BY <1>1 DEF GoodList
<1>3. \A p, q \in Stored : p < q =>
        messages[p] < messages[q] \/ (messages[p] = messages[q] /\ messages[p] \in excused)
  <2> TAKE p, q \in Stored
  <2>1. /\ messages[p] \in 1 .. added /\ messages[q] \in 1 .. added
        /\ p < q => messages[p] <= messages[q]
        /\ p # q /\ messages[p] = messages[q] => messages[p] \in excused
    BY <1>1 DEF GoodList
  <2>2. p \in Int /\ q \in Int /\ added \in Nat
    BY SizeIs, ListedAre DEF Stored
  <2> QED BY <2>1, <2>2
<1> QED BY <1>2, <1>3

LEMMA SettledFilesMatch == UIInv => FilesMatchList
<1> SUFFICES ASSUME UIInv, Settled, NEW p \in Places
             PROVE  files[createFileName(p)] = IF p \in Stored THEN messages[p] ELSE Absent
  BY DEF FilesMatchList
<1>1. p \in Stored <=> p < size
  <2>1. \A q \in Stored : q < size
    BY SizeIs DEF Stored
  <2>2. p < size => p \in Stored
    BY SizeIs, PlacesBelow DEF Stored
  <2> QED BY <2>1, <2>2
<1> QED BY <1>1, SettledIs DEF OnFile

LEMMA CursorIs == UIInv => CursorOnMessage
BY SizeIs DEF UIInv, CursorGood, CursorOnMessage, Loading, Erasing, Shifting, Adding

\* UIInv is invariant while no message arrives as the thread is at work.
LEMMA UIInvariant == ASSUME ~ArrivalsDisturb PROVE Spec => []UIInv
<1>1. UIInv /\ [Next]_vars => UIInv'
  BY UIStep
<1> QED BY <1>1, UIStart, PTL DEF Spec

\* Every variable of the phone's list keeps its type, and the list never outgrows its array,
\* while no message arrives as the thread is at work.
THEOREM UITypeCorrect == ASSUME ~ArrivalsDisturb PROVE Spec => []TypeOK
<1>1. UIInv => TypeOK
  BY DEF UIInv
<1> QED BY <1>1, UIInvariant, PTL

\* addNewMessageToMessages, deleteCurrentMessage and loadMessages lose no message and bring
\* none back, but for those a power failure found unsaved or half deleted.
THEOREM MessagesKept == ASSUME ~ArrivalsDisturb PROVE Spec => []NothingLost
<1>1. UIInv => NothingLost
  BY SettledListKept
<1> QED BY <1>1, UIInvariant, PTL

\* Deletions, replacements and restarts leave the list in the order of arrival.
THEOREM OrderKept == ASSUME ~ArrivalsDisturb PROVE Spec => []ListInOrder
<1>1. UIInv => ListInOrder
  BY SettledListKept
<1> QED BY <1>1, UIInvariant, PTL

\* When the thread rests the files are the list: loadMessages will read what is there.
THEOREM FilesHoldTheList == ASSUME ~ArrivalsDisturb PROVE Spec => []FilesMatchList
<1>1. UIInv => FilesMatchList
  BY SettledFilesMatch
<1> QED BY <1>1, UIInvariant, PTL

\* The selected place holds a message: showing and deleting find one.
THEOREM CursorSelectsMessage == ASSUME ~ArrivalsDisturb PROVE Spec => []CursorOnMessage
<1>1. UIInv => CursorOnMessage
  BY CursorIs
<1> QED BY <1>1, UIInvariant, PTL

-----------------------------------------------------------------------------
(***************************************************************************)
(* The list is scrolled with the cursor.                                   *)
(***************************************************************************)
\* The remainder is zero or one subtraction on the arguments it gets.
LEMMA RemainderOnce ==
  ASSUME NEW n \in Nat \ {0}, NEW a \in 0 .. 2 * n - 1
  PROVE  a % n = IF a < n THEN a ELSE a - n
<1>1. CASE a < n
  BY <1>1, SMT
<1>2. CASE a >= n
  <2>1. a \in n .. 2 * n - 1 /\ a - n \in 0 .. n - 1
    BY <1>2, SMT
  <2>2. a % n = a - n
    BY <2>1, SMT
  <2> QED BY <1>2, <2>2, SMT
<1> QED BY <1>1, <1>2, SMT

\* How many places c is behind t in a list of n that wraps.
Behind(c, t, n) == IF c >= t THEN c - t ELSE c + n - t

\* The messages on a screen of L lines that begins at t: all of a short list, or the next L - 1.
LEMMA OnScreen ==
  ASSUME NEW n \in Nat \ {0}, NEW L \in Nat \ {0, 1}, NEW t \in 0 .. n - 1, NEW c
  PROVE  c \in {(t + l) % n : l \in 0 .. L - 2}
           <=> c \in 0 .. n - 1 /\ (L > n \/ Behind(c, t, n) <= L - 2)
<1>1. ASSUME NEW l \in 0 .. L - 2, c = (t + l) % n
      PROVE  c \in 0 .. n - 1 /\ (L > n \/ Behind(c, t, n) <= L - 2)
  <2>1. ASSUME NEW a \in Nat PROVE a % n \in 0 .. n - 1
    OBVIOUS
  <2>2. c \in 0 .. n - 1
    <3>1. t + l \in Nat
      OBVIOUS
    <3> QED BY <1>1, <2>1, <3>1, Zenon
  <2>3. CASE L <= n
    <3>1. t + l \in 0 .. 2 * n - 1
      BY <2>3
    <3>2. (t + l) % n = IF t + l < n THEN t + l ELSE t + l - n
      <4> DEFINE Rem(a) == IF a < n THEN a ELSE a - n
      <4>1. \A a \in 0 .. 2 * n - 1 : a % n = Rem(a)
        BY RemainderOnce
      <4> HIDE DEF Rem
      <4>2. (t + l) % n = Rem(t + l)
        BY <3>1, <4>1, Zenon
      <4> QED BY <4>2 DEF Rem
    <3>3. c = IF t + l < n THEN t + l ELSE t + l - n
      BY <1>1, <3>2
    <3> QED BY <2>2, <2>3, <3>3 DEF Behind
  <2> QED BY <2>2, <2>3
<1>2. ASSUME c \in 0 .. n - 1, L > n \/ Behind(c, t, n) <= L - 2
      PROVE  \E l \in 0 .. L - 2 : c = (t + l) % n
  <2>1. Behind(c, t, n) \in 0 .. L - 2 /\ t + Behind(c, t, n) \in 0 .. 2 * n - 1
        /\ c = IF t + Behind(c, t, n) < n THEN t + Behind(c, t, n) ELSE t + Behind(c, t, n) - n
    BY <1>2 DEF Behind
  <2>2. c = (t + Behind(c, t, n)) % n
    BY <2>1, RemainderOnce
  <2> QED BY <2>1, <2>2
<1> QED BY <1>1, <1>2

\* 2 and 8 keep the selected message on the screen.
LEMMA MoveShows ==
  ASSUME TypeOK, HandleMove, topMessage < size, CursorVisible
  PROVE  CursorVisible'
<1> DEFINE n == size
           c == currentMessage
           t == topMessage
           L == LCD_NUM_LINES
           Rem(a) == IF a < n THEN a ELSE a - n
<1>1. /\ n \in Nat \ {0} /\ L \in Nat \ {0, 1} /\ t \in 0 .. n - 1
      /\ size' = n /\ c \in Lines
  BY PlacesAre, ConstantsAssumption
  DEF TypeOK, HandleMove, Moves, CursorVisible
<1>2. c \in 0 .. n - 1 /\ (L > n \/ Behind(c, t, n) <= L - 2)
  BY <1>1, OnScreen DEF Lines
<1>3. /\ (c + n - 1) % n = Rem(c + n - 1) /\ (c + 1) % n = Rem(c + 1)
      /\ (t + 1) % n = Rem(t + 1) /\ (n >= L => (t + L - 2) % n = Rem(t + L - 2))
  <2>1. /\ c + n - 1 \in 0 .. 2 * n - 1 /\ c + 1 \in 0 .. 2 * n - 1
        /\ t + 1 \in 0 .. 2 * n - 1 /\ (n >= L => t + L - 2 \in 0 .. 2 * n - 1)
    BY <1>1, <1>2
  <2>2. \A a \in 0 .. 2 * n - 1 : a % n = Rem(a)
    BY <1>1, RemainderOnce
  <2> QED BY <2>1, <2>2, Zenon
<1>4. \/ /\ currentMessage' = Rem(c + n - 1)
         /\ topMessage' = IF n >= L /\ c = t THEN Rem(c + n - 1) ELSE t
      \/ /\ currentMessage' = Rem(c + 1)
         /\ topMessage' = IF n >= L /\ c = Rem(t + L - 2) THEN Rem(t + 1) ELSE t
  BY <1>3 DEF HandleMove, BottomMessage
<1>5. ASSUME NEW d, NEW u,
             \/ d = Rem(c + n - 1) /\ u = IF n >= L /\ c = t THEN Rem(c + n - 1) ELSE t
             \/ d = Rem(c + 1) /\ u = IF n >= L /\ c = Rem(t + L - 2) THEN Rem(t + 1) ELSE t
      PROVE  u \in 0 .. n - 1 /\ d \in 0 .. n - 1 /\ (L > n \/ Behind(d, u, n) <= L - 2)
  BY <1>1, <1>2, <1>5 DEF Behind
<1>6. topMessage' \in 0 .. n - 1 /\ currentMessage' \in {(topMessage' + l) % n : l \in 0 .. L - 2}
  <2>1. /\ topMessage' \in 0 .. n - 1 /\ currentMessage' \in 0 .. n - 1
        /\ L > n \/ Behind(currentMessage', topMessage', n) <= L - 2
    BY <1>4, <1>5, Zenon
  <2> QED BY <1>1, <2>1, OnScreen
<1> QED BY <1>1, <1>6 DEF CursorVisible, Lines

LEMMA MovesShow ==
  TypeOK /\ ~ArrivalsDisturb /\ [Next]_vars =>
    [pc = "handle" /\ Moves /\ topMessage < size /\ CursorVisible => CursorVisible']_vars
<1> SUFFICES ASSUME TypeOK, ~ArrivalsDisturb, Next, pc = "handle", Moves, topMessage < size,
                    CursorVisible
             PROVE  CursorVisible'
  OBVIOUS
<1>1. CASE HandleMove
  BY <1>1, MoveShows
<1>2. CASE Restart
  <2>1. size' = 0
    BY <1>2 DEF Restart, MemoryCleared
  <2> QED BY <2>1 DEF CursorVisible
<1>3. CASE \E button \in Buttons : Press(button)
  BY <1>3 DEF Press, list, CursorVisible, Lines
<1>4. CASE Arrive
  BY <1>4 DEF Arrive
<1>5. CASE UIThread
  BY <1>1, <1>5
  DEF UIThread, LoadName, LoadRead, LoadStore, Wake, CheckNew, NameFile, Save,
      HandleScreen, HandleSend, HandleDelete, EraseName, Erase, Shift, Move, EndDelete,
      AddStore, AddCount, AddAnnounce, Step, Moves, Sends, Deletes
<1> QED BY <1>1, <1>2, <1>3, <1>4, <1>5 DEF Next, Interrupts

\* The list is scrolled with the cursor round both ends: 2 and 8 keep it on the screen.
THEOREM MovesKeepCursorOnScreen == ASSUME ~ArrivalsDisturb PROVE Spec => MovesStayVisible
<1>1. TypeOK /\ [Next]_vars =>
        [pc = "handle" /\ Moves /\ topMessage < size /\ CursorVisible => CursorVisible']_vars
  BY MovesShow
<1> QED BY <1>1, UITypeCorrect, PTL DEF MovesStayVisible, Spec
=============================================================================
