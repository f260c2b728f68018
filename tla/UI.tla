---------------------------------- MODULE UI ----------------------------------
(***************************************************************************)
(* The message list of the phone (ex4/UI.c), in memory and on file.        *)
(*                                                                         *)
(* The UI thread sleeps until a key or a message wakes it, saves a new     *)
(* message, and carries out the key.  addNewMessageToMessages is called    *)
(* from the network interrupt and from the thread itself, and the list has *)
(* no lock.  A file operation takes effect at one moment, as FileStore     *)
(* says.  Messages are numbered in the order they were added.              *)
(*                                                                         *)
(* The power may fail at any time.  The text typed is Editor's.  A key is  *)
(* read once for each time round the loop.                                 *)
(***************************************************************************)
EXTENDS Integers, FiniteSets

CONSTANTS
  MAX_MESSAGES,     \* places of the list
  LCD_NUM_LINES,    \* lines of the screen, the bottom line is a menu
  ArrivalsDisturb,  \* whether messages arrive while the thread is at work
  MaxAdded,         \* bound: messages added when one arrives
  MaxKeys,          \* bound: keys pressed
  MaxRestarts       \* bound: restarts

ASSUME ConstantsAssumption ==
  /\ MAX_MESSAGES \in 1 .. 998 /\ MaxAdded \in Nat
  /\ LCD_NUM_LINES \in Nat \ {0, 1}
  /\ MaxKeys \in Nat /\ MaxRestarts \in Nat
  /\ ArrivalsDisturb \in BOOLEAN

VARIABLES
  pc,              \* where the thread is
  size,            \* messages in the list
  messages,        \* messages.Messages, and what is behind it
  currentMessage,  \* the selected one
  topMessage,      \* the one on the top line
  curState,        \* the screen
  myButton,        \* the last key, or "none" after a message
  addNewMessage,   \* a message waits to be saved
  wake,            \* event_flags_0
  files,           \* name -> the message in the file, or Absent
  fileName,        \* TMP_FileName
  loaded,          \* TMP_load_Message
  i,               \* the loop of deleteCurrentMessage
  added,           \* history: messages added
  removed,         \* history: those deleted by the user or replaced in a full list
  deleting,        \* history: the one being deleted, or Blank
  replaced,        \* history: the one replaced by a message not yet saved
  excused,         \* history: what power failures came in the way of
  keys, restarts   \* bound the model

list == <<size, messages, currentMessage, topMessage>>
input == <<myButton, addNewMessage, wake>>
work == <<fileName, loaded, i>>
history == <<added, removed, deleting, replaced>>
vars == <<pc, list, curState, input, files, work, history, excused, keys, restarts>>

Blank == 0
Absent == 0
Places == 0 .. MAX_MESSAGES + 1
Buttons == {"star", "ok", "2", "8", "#"}

\* "Mess" and three digits.
createFileName(num) == <<num \div 100, (num % 100) \div 10, num % 10>>
NoName == <<>>
FileNames == {createFileName(p) : p \in Places}

\* initUI, and memory when the power comes on.
MemoryCleared ==
  /\ pc' = "load" /\ size' = 0
  /\ messages' = [p \in Places |-> Blank]
  /\ currentMessage' = 0 /\ topMessage' = 0 /\ curState' = "LIST"
  /\ myButton' = "none" /\ addNewMessage' = FALSE /\ wake' = FALSE
  /\ fileName' = NoName /\ loaded' = Blank /\ i' = 0

Init ==
  /\ pc = "load" /\ size = 0
  /\ messages = [p \in Places |-> Blank]
  /\ currentMessage = 0 /\ topMessage = 0 /\ curState = "LIST"
  /\ myButton = "none" /\ addNewMessage = FALSE /\ wake = FALSE
  /\ fileName = NoName /\ loaded = Blank /\ i = 0
  /\ files = [name \in FileNames |-> Absent]
  /\ added = 0 /\ removed = {} /\ deleting = Blank /\ replaced = Blank /\ excused = {}
  /\ keys = 0 /\ restarts = 0

Step(from, to) == pc = from /\ pc' = to /\ UNCHANGED <<excused, keys, restarts>>

-----------------------------------------------------------------------------
(***************************************************************************)
(* addNewMessageToMessages.                                                *)
(***************************************************************************)

\* Mutant of ListFull: the list is never full.
NeverFull == FALSE

ListFull == size = MAX_MESSAGES

\* A full list has its last message replaced.
StoreNew ==
  LET place == IF ListFull THEN MAX_MESSAGES - 1 ELSE size
  IN /\ messages' = [messages EXCEPT ![place] = added + 1]
     /\ added' = added + 1
     /\ removed' = IF ListFull THEN removed \cup {messages[place]} ELSE removed
     /\ replaced' = IF ListFull THEN messages[place] ELSE replaced
     /\ UNCHANGED deleting

Announce == addNewMessage' = TRUE /\ myButton' = "none" /\ wake' = TRUE

\* The received callback adds a message: an interrupt, in one step.
Arrive ==
  /\ added < MaxAdded
  /\ ArrivalsDisturb \/ (pc \in {"wait", "check"} /\ ~addNewMessage)
  /\ StoreNew
  /\ size' = IF ListFull THEN size ELSE size + 1
  /\ Announce
  /\ UNCHANGED <<pc, currentMessage, topMessage, curState, files, work, excused, keys, restarts>>

\* The thread adds the message that it sends: the place first, then the size.
AddStore ==
  /\ Step("addStore", IF ListFull THEN "announce" ELSE "addCount")
  /\ StoreNew
  /\ UNCHANGED <<size, currentMessage, topMessage, curState, input, files, work>>

AddCount ==
  /\ Step("addCount", "announce")
  /\ size' = size + 1
  /\ UNCHANGED <<messages, currentMessage, topMessage, curState, input, files, work, history>>

AddAnnounce ==
  /\ Step("announce", "wait")
  /\ Announce
  /\ UNCHANGED <<list, curState, files, work, history>>

\* inputPanelCallBack.
Press(button) ==
  /\ keys < MaxKeys /\ keys' = keys + 1
  /\ myButton' = button /\ wake' = TRUE
  /\ UNCHANGED <<pc, list, curState, addNewMessage, files, work, history, excused, restarts>>

-----------------------------------------------------------------------------
(***************************************************************************)
(* loadMessages: size is the loop's variable.                              *)
(***************************************************************************)
LoadName ==
  /\ Step("load", IF size < MAX_MESSAGES THEN "loadRead" ELSE "wait")
  /\ fileName' = IF size < MAX_MESSAGES THEN createFileName(size) ELSE fileName
  /\ UNCHANGED <<list, curState, input, files, loaded, i, history>>

LoadRead ==
  /\ Step("loadRead", IF files[fileName] = Absent THEN "wait" ELSE "loadStore")
  /\ loaded' = files[fileName]
  /\ UNCHANGED <<list, curState, input, files, fileName, i, history>>

LoadStore ==
  /\ Step("loadStore", "load")
  /\ messages' = [messages EXCEPT ![size] = loaded]
  /\ loaded' = Blank
  /\ size' = size + 1
  /\ UNCHANGED <<currentMessage, topMessage, curState, input, files, fileName, i, history>>

-----------------------------------------------------------------------------
(***************************************************************************)
(* inputPanelLoop.                                                         *)
(***************************************************************************)

\* Mutant of Wake: the flag is not cleared.
WakeKeepsFlag ==
  /\ Step("wait", "check")
  /\ wake
  /\ UNCHANGED <<list, curState, input, files, work, history>>

Wake ==
  /\ Step("wait", "check")
  /\ wake /\ wake' = FALSE
  /\ UNCHANGED <<list, curState, myButton, addNewMessage, files, work, history>>

CheckNew ==
  /\ Step("check", IF addNewMessage THEN "name" ELSE "handle")
  /\ addNewMessage' = FALSE
  /\ UNCHANGED <<list, curState, myButton, wake, files, work, history>>

\* The file's name and its contents are both taken from size.
NameFile ==
  /\ Step("name", "save")
  /\ fileName' = createFileName(size - 1)
  /\ UNCHANGED <<list, curState, input, files, loaded, i, history>>

Save ==
  /\ Step("save", "handle")
  /\ files' = [files EXCEPT ![fileName] = messages[size - 1]]
  /\ replaced' = Blank
  /\ UNCHANGED <<list, curState, input, work, added, removed, deleting>>

\* Keys that change the screen, or nothing.
NextScreen ==
  CASE curState = "LIST" /\ myButton = "star" -> "WRITE_TEXT"
    [] curState = "LIST" /\ myButton = "ok" /\ size > 0 -> "SHOW"
    [] curState = "WRITE_TEXT" /\ myButton = "ok" -> "WRITE_NUMBER"
    [] curState # "LIST" /\ myButton = "star" -> "LIST"
    [] OTHER -> curState

Moves == curState = "LIST" /\ myButton \in {"2", "8"} /\ size > 0
Deletes == \/ curState = "LIST" /\ myButton = "#" /\ size > 0
           \/ curState = "SHOW" /\ myButton = "#"
Sends == curState = "WRITE_NUMBER" /\ myButton = "ok"

HandleScreen ==
  /\ Step("handle", "wait")
  /\ ~Moves /\ ~Deletes /\ ~Sends
  /\ curState' = NextScreen
  /\ UNCHANGED <<list, input, files, work, history>>

\* Mutant of BottomMessage: the menu's line is taken for one of the list.
BottomOnMenu == (topMessage + LCD_NUM_LINES - 1) % size

\* The message on the last line above the menu.
BottomMessage == (topMessage + LCD_NUM_LINES - 2) % size

\* The list wraps at both ends; it is scrolled when the cursor leaves the screen.
HandleMove ==
  /\ Step("handle", "wait")
  /\ Moves
  /\ LET up == (currentMessage + size - 1) % size
         scrolls == size >= LCD_NUM_LINES
     IN \/ /\ myButton = "2" /\ currentMessage' = up
           /\ topMessage' = IF scrolls /\ currentMessage = topMessage THEN up ELSE topMessage
        \/ /\ myButton = "8" /\ currentMessage' = (currentMessage + 1) % size
           /\ topMessage' = IF scrolls /\ currentMessage = BottomMessage
                              THEN (topMessage + 1) % size ELSE topMessage
  /\ UNCHANGED <<size, messages, curState, input, files, work, history>>

\* Sending to the network is SmsClient's.  In a full list the last message gives way.
HandleSend ==
  /\ Step("handle", "addStore")
  /\ Sends
  /\ size' = IF ListFull THEN size - 1 ELSE size
  /\ removed' = IF ListFull THEN removed \cup {messages[size - 1]} ELSE removed
  /\ replaced' = IF ListFull THEN messages[size - 1] ELSE replaced
  /\ curState' = "LIST"
  /\ UNCHANGED <<messages, currentMessage, topMessage, input, files, work, added, deleting>>

-----------------------------------------------------------------------------
(***************************************************************************)
(* deleteCurrentMessage.                                                   *)
(***************************************************************************)
HandleDelete ==
  /\ Step("handle", "eraseName")
  /\ Deletes
  /\ size' = size - 1
  /\ removed' = removed \cup {messages[currentMessage]}
  /\ deleting' = messages[currentMessage]
  /\ curState' = "LIST"
  /\ UNCHANGED <<messages, currentMessage, topMessage, input, files, work, added, replaced>>

EraseName ==
  /\ Step("eraseName", "erase")
  /\ fileName' = createFileName(size)
  /\ UNCHANGED <<list, curState, input, files, loaded, i, history>>

\* Mutant of Erase: the last file stays.
EraseKeepsFile ==
  /\ Step("erase", "shift")
  /\ i' = currentMessage
  /\ UNCHANGED <<list, curState, input, files, fileName, loaded, history>>

\* Mutant of Erase: the loop starts behind the message to be deleted.
EraseFromNext ==
  /\ Step("erase", "shift")
  /\ files' = [files EXCEPT ![fileName] = Absent]
  /\ i' = currentMessage + 1
  /\ UNCHANGED <<list, curState, input, fileName, loaded, history>>

Erase ==
  /\ Step("erase", "shift")
  /\ files' = [files EXCEPT ![fileName] = Absent]
  /\ i' = currentMessage
  /\ UNCHANGED <<list, curState, input, fileName, loaded, history>>

\* Mutant of Successor: the last message takes the deleted one's place.
LastInstead == messages[size]

\* What moves into place i.
Successor == messages[i + 1]

Shift ==
  /\ Step("shift", "move")
  /\ i < size
  /\ fileName' = createFileName(i)
  /\ files' = [files EXCEPT ![fileName'] = Successor]
  /\ UNCHANGED <<list, curState, input, loaded, i, history>>

Move ==
  /\ Step("move", "shift")
  /\ messages' = [messages EXCEPT ![i] = Successor]
  /\ i' = i + 1
  /\ UNCHANGED <<size, currentMessage, topMessage, curState, input, files, fileName, loaded,
                 history>>

EndDelete ==
  /\ Step("shift", "wait")
  /\ i >= size
  /\ IF currentMessage = size THEN currentMessage' = 0 /\ topMessage' = 0
                              ELSE UNCHANGED <<currentMessage, topMessage>>
  /\ deleting' = Blank
  /\ UNCHANGED <<size, messages, curState, input, files, work, added, removed, replaced>>

-----------------------------------------------------------------------------
Settled == pc = "wait" /\ ~wake

\* A message that is not on file yet; the one whose place it takes may still be.
Unsaved ==
  IF addNewMessage \/ pc \in {"name", "save", "addStore", "addCount", "announce"}
    THEN {added, replaced} ELSE {}

\* A deletion begun may not have happened; once the last file is erased, the last message
\* is lost until all are shifted, and the one that was shifted last is there twice.
HalfDeleted ==
  CASE pc \in {"eraseName", "erase"} -> {deleting}
    [] pc = "shift" -> {deleting, messages[size], messages[i]}
    [] pc = "move" -> {deleting, messages[size], Successor}
    [] OTHER -> {}

\* The power fails, and comes back.
Restart ==
  /\ restarts < MaxRestarts /\ restarts' = restarts + 1
  /\ excused' = excused \cup Unsaved \cup HalfDeleted
  /\ deleting' = Blank /\ replaced' = Blank
  /\ MemoryCleared
  /\ UNCHANGED <<files, added, removed, keys>>

UIThread ==
  \/ LoadName \/ LoadRead \/ LoadStore
  \/ Wake \/ CheckNew \/ NameFile \/ Save
  \/ HandleScreen \/ HandleMove \/ HandleSend \/ HandleDelete
  \/ EraseName \/ Erase \/ Shift \/ Move \/ EndDelete
  \/ AddStore \/ AddCount \/ AddAnnounce

Interrupts == Arrive \/ \E button \in Buttons : Press(button)

Next == UIThread \/ Interrupts \/ Restart

Spec == Init /\ [][Next]_vars

\* The scheduler is round robin among the threads: the UI thread gets its turn.
FairSpec == Spec /\ WF_vars(UIThread)

-----------------------------------------------------------------------------
(***************************************************************************)
(* Properties.                                                             *)
(***************************************************************************)
Stored == 0 .. size - 1

\* A message sent takes a key.
MaxNumber == MaxAdded + MaxKeys

\* Every variable has its type; the list does not outgrow its array.
TypeOK ==
  /\ pc \in {"load", "loadRead", "loadStore", "wait", "check", "name", "save", "handle",
             "eraseName", "erase", "shift", "move", "addStore", "addCount", "announce"}
  /\ size \in 0 .. MAX_MESSAGES
  /\ messages \in [Places -> 0 .. MaxNumber]
  /\ currentMessage \in 0 .. MAX_MESSAGES - 1 /\ topMessage \in 0 .. MAX_MESSAGES - 1
  /\ curState \in {"LIST", "SHOW", "WRITE_TEXT", "WRITE_NUMBER"}
  /\ myButton \in Buttons \cup {"none"}
  /\ addNewMessage \in BOOLEAN /\ wake \in BOOLEAN
  /\ files \in [FileNames -> 0 .. MaxNumber]
  /\ fileName \in FileNames \cup {NoName} /\ loaded \in 0 .. MaxNumber /\ i \in Places
  /\ added \in 0 .. MaxNumber /\ removed \subseteq 1 .. MaxNumber
  /\ deleting \in 0 .. MaxNumber /\ replaced \in 0 .. MaxNumber
  /\ excused \subseteq 0 .. MaxNumber

\* addNewMessageToMessages "adds message to list" (UI.c:456): every message added is in
\* the list until the user deletes it or a full list replaces it.  A power failure can
\* cost or bring back no other message than those it found unsaved or half deleted.
NothingLost ==
  Settled => {messages[p] : p \in Stored} \ excused = ((1 .. added) \ removed) \ excused

\* The list is in the order of arrival, every message once, through deletions,
\* replacements and restarts; only a deletion cut short leaves a message twice.
ListInOrder ==
  Settled => \A p, q \in Stored : p < q =>
    messages[p] < messages[q] \/ (messages[p] = messages[q] /\ messages[p] \in excused)

\* The files Mess000, Mess001, ... hold the list, with no gap and nothing behind it,
\* so that loadMessages will find it again.
FilesMatchList ==
  Settled => \A p \in Places : files[createFileName(p)] = IF p \in Stored THEN messages[p] ELSE Absent

\* The screens that show or delete the selected message have one to show.
CursorOnMessage ==
  /\ pc = "wait" /\ size > 0 => currentMessage < size
  /\ curState = "SHOW" => size > 0

\* The lines of showListScreen, and whether the selected message is on one.
Lines == {(topMessage + l) % size : l \in 0 .. LCD_NUM_LINES - 2}
CursorVisible == size > 0 => currentMessage \in Lines

\* "2,8 up down in screen" (UI.c:501): the list is scrolled with the cursor, round both
\* ends.  What else brings the cursor out of the screen is not undone by a key, and a
\* deletion may leave topMessage behind the end of the list.
MovesStayVisible ==
  [][pc = "handle" /\ Moves /\ topMessage < size /\ CursorVisible => CursorVisible']_vars

\* Whatever happened, the thread comes to rest with every message saved and the last
\* key carried out.
ComesToRest == wake ~> Settled
=============================================================================
