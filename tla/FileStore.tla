------------------------------ MODULE FileStore ------------------------------
(***************************************************************************)
(* What a file system promises its one caller: an operation that changes a *)
(* file takes effect at one moment while it is called, or not at all when  *)
(* the power fails; what is read is what was last written.                 *)
(***************************************************************************)
EXTENDS Sequences, FiniteSets

CONSTANTS Names, Absent, NoRequest

VARIABLES
  contents,  \* file -> what is stored in it, or Absent
  request,   \* the operation being carried out, or NoRequest
  answer     \* what the last operation returned

vars == <<contents, request, answer>>

NoAnswer == [status |-> "none"]
Success == [status |-> "FS_SUCCESS"]
NotFound == [status |-> "FILE_NOT_FOUND"]
Full == [status |-> "MAXIMUM_FLASH_SIZE_EXCEEDED"]

Init ==
  /\ contents = [n \in Names |-> Absent]
  /\ request = NoRequest
  /\ answer = NoAnswer

Call ==
  /\ request = NoRequest
  /\ request' # NoRequest
  /\ answer' = NoAnswer
  /\ UNCHANGED contents

\* The call takes effect.
Perform ==
  /\ \/ request.op = "write" /\ contents' = [contents EXCEPT ![request.name] = request.data]
     \/ request.op = "erase" /\ contents' = [contents EXCEPT ![request.name] = Absent]
  /\ UNCHANGED <<request, answer>>

Stored == {n \in Names : contents[n] # Absent}

\* The answers the contents allow.
Answers(r) ==
  LET found == r.name \in Stored IN
  CASE r.op = "read"  ->
         {IF found THEN [status |-> "FS_SUCCESS", data |-> contents[r.name]] ELSE NotFound}
    [] r.op = "filesize" ->
         {IF found THEN [status |-> "FS_SUCCESS", size |-> Len(contents[r.name])] ELSE NotFound}
    [] r.op = "erase" -> IF found THEN {} ELSE {Success, NotFound}
    [] r.op = "write" ->
         {Full} \cup (IF found /\ contents[r.name] = r.data THEN {Success} ELSE {})
    [] r.op = "list"  -> {[count |-> Cardinality(Stored), names |-> Stored]}

Return ==
  /\ request # NoRequest /\ request' = NoRequest
  /\ answer' \in Answers(request)
  /\ UNCHANGED contents

PowerLost ==
  /\ request' = NoRequest
  /\ answer' = NoAnswer
  /\ UNCHANGED contents

Next == Call \/ Perform \/ Return \/ PowerLost

Spec == Init /\ [][Next]_vars
=============================================================================
