------------------------------ MODULE StringMap ------------------------------
(***************************************************************************)
(* The string map of levitz/cp2 (StringMap.cpp, StringMap.h): a binary     *)
(* search tree with parent pointers, and its iterator.  A node is named by *)
(* its key; a field of a node that does not exist is Null.  A key is the   *)
(* sequence of its characters' codes.                                      *)
(***************************************************************************)
EXTENDS Integers, Sequences

CONSTANTS Keys, Values, Null

ASSUME MapAssumption ==
  Keys \subseteq Seq(Nat) /\ Values \subseteq Int /\ Null \notin Keys /\ Null \notin Values

VARIABLES
  root, left, right, parent, value,  \* _root and the fields of the nodes
  nodes,                             \* _size
  current,                           \* _current of an iterator
  answer                             \* what getValue found last, or Null

tree == <<root, left, right, parent, value, nodes>>
mapVars == <<tree, current, answer>>

\* std::string's operator <: one is a prefix of the other, or they differ somewhere.
Precedes(k, l) ==
  \E n \in 0 .. Len(k) :
    /\ n < Len(l)
    /\ SubSeq(k, 1, n) = SubSeq(l, 1, n)
    /\ n = Len(k) \/ k[n + 1] < l[n + 1]

NoFields == [k \in Keys |-> Null]

MapInit ==
  /\ root = Null /\ nodes = 0
  /\ left = NoFields /\ right = NoFields /\ parent = NoFields /\ value = NoFields
  /\ current = Null /\ answer = Null

-----------------------------------------------------------------------------
(***************************************************************************)
(* find, min, succsor.  A loop down or up the tree is a function of the    *)
(* node it has reached.                                                    *)
(***************************************************************************)

\* The node with the key and HIMSELF, or the node it belongs under, and on which side.
find(key) ==
  LET from[x \in Keys] ==
        LET side == IF Precedes(key, x) THEN "LEFT" ELSE "RIGHT"
            below == IF side = "LEFT" THEN left[x] ELSE right[x]
        IN CASE x = key -> [node |-> x, def |-> "HIMSELF"]
             [] x # key /\ below = Null -> [node |-> x, def |-> side]
             [] OTHER -> from[below]
  IN from[root]

min(a) == LET down[x \in Keys] == IF left[x] = Null THEN x ELSE down[left[x]] IN down[a]

\* Mutant of succsor: it goes up one node only.
succsorOneUp(a) == IF right[a] # Null THEN min(right[a]) ELSE parent[a]

succsor(a) ==
  LET up[x \in Keys] ==
        IF parent[x] = Null \/ x # right[parent[x]] THEN parent[x] ELSE up[parent[x]]
  IN IF right[a] # Null THEN min(right[a]) ELSE up[a]

-----------------------------------------------------------------------------
(***************************************************************************)
(* The operations.                                                         *)
(***************************************************************************)

\* What getValue stores through its pointer, or Null where it returns false.
Lookup(key) ==
  IF root = Null \/ find(key).def # "HIMSELF" THEN Null ELSE value[find(key).node]

getValue(key) == answer' = Lookup(key) /\ UNCHANGED <<tree, current>>

FirstNode(key, v) ==
  /\ root = Null
  /\ root' = key
  /\ value' = [value EXCEPT ![key] = v]
  /\ nodes' = nodes + 1
  /\ UNCHANGED <<left, right, parent>>

Update(key, v) ==
  /\ root # Null /\ find(key).def = "HIMSELF"
  /\ value' = [value EXCEPT ![key] = v]
  /\ UNCHANGED <<root, left, right, parent, nodes>>

NewNode(key, v, above) ==
  /\ value' = [value EXCEPT ![key] = v]
  /\ parent' = [parent EXCEPT ![key] = above]

Attach(key, v) ==
  /\ root # Null /\ find(key).def # "HIMSELF"
  /\ LET above == find(key).node
     IN /\ NewNode(key, v, above)
        /\ IF find(key).def = "RIGHT"
             THEN right' = [right EXCEPT ![above] = key] /\ UNCHANGED left
             ELSE left' = [left EXCEPT ![above] = key] /\ UNCHANGED right
  /\ nodes' = nodes + 1
  /\ UNCHANGED root

setValue(key, v) == FirstNode(key, v) \/ Update(key, v) \/ Attach(key, v)

getIterator == current' = (IF root = Null THEN Null ELSE min(root)) /\ UNCHANGED <<tree, answer>>

atEnd == current = Null
KeyAt == current
ValueAt == value[current]

goNext == ~atEnd /\ current' = succsor(current) /\ UNCHANGED <<tree, answer>>

MapNext ==
  \/ \E key \in Keys : getValue(key)
  \/ \E key \in Keys, v \in Values : setValue(key, v) /\ UNCHANGED <<current, answer>>
  \/ getIterator \/ goNext

MapSpec == MapInit /\ [][MapNext]_mapVars

-----------------------------------------------------------------------------
MapTypeOK ==
  /\ root \in Keys \cup {Null} /\ current \in Keys \cup {Null}
  /\ \A links \in {left, right, parent} : links \in [Keys -> Keys \cup {Null}]
  /\ nodes \in Nat

\* The tree is a dictionary, whatever the order in which keys come in, and its
\* iterator "visits each node in the tree in ascending alphabetical order"
\* (StringMap.h:34-35), also while nodes are added.
Map == INSTANCE Dictionary WITH
  None <- Null,
  dict <- [k \in {l \in Keys : value[l] # Null} |-> value[k]],
  at <- current,
  count <- nodes

ImplementsDictionary == Map!Spec
=============================================================================
