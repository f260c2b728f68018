----------------------------- MODULE MessageList -----------------------------
(***************************************************************************)
(* The message list of exercise 3 (ex3/UI.c), which is kept in memory      *)
(* only, and the screens that show it.                                     *)
(*                                                                         *)
(* The network interrupt adds to the list at any time, also while the UI   *)
(* thread draws the list line by line or deletes from it.  A key is read   *)
(* once for each time round the loop; how the screen gets to the display   *)
(* and what is typed are Editor's.  Messages are numbered in the order     *)
(* they were added.                                                        *)
(***************************************************************************)
EXTENDS Screen, Sequences

CONSTANTS
  MAX_MESSAGES,  \* places of the list
  Listed,        \* what the messages are, by their numbers
  MaxListed      \* bound: messages added when one arrives

ASSUME ListAssumption ==
  /\ MAX_MESSAGES \in 1 .. 100 /\ MaxListed \in Nat
  /\ Listed \in [1 .. MaxListed + 1 -> MessageType]

VARIABLES
  pc,              \* where the UI thread is
  i,               \* the loop's variable
  size, messages, currentMessage, topMessage,
  listState,       \* curState
  myButton,
  wake,            \* event_flags_0
  lines,           \* the lines of screenBuffer above the menu
  menu,            \* and what the menu says
  added,           \* history: messages added
  kept,            \* history: those that should be in the list, oldest first
  disturbed        \* history: a message arrived during a change of the list

place == <<pc, i>>
shown == <<size, messages, currentMessage, topMessage>>
told == <<added, kept, disturbed>>
drawn == <<lines, menu>>
listVars == <<place, shown, listState, myButton, wake, drawn, told>>

Blank == 0
\* What is behind the array's end belongs to something else.
ListPlaces == 0 .. MAX_MESSAGES
Buttons == {"star", "ok", "2", "8", "#"}
EmptyScreen == [r \in Rows |-> emptyLine]

\* Memory never written is zero.
Unwritten == [numberFromTo |-> [k \in 0 .. ShownDigits - 1 |-> 0], inOrOut |-> 0, size |-> 0]

\* What is in a place of the list.
MessageAt(p) == IF messages[p] = Blank THEN Unwritten ELSE Listed[messages[p]]

\* initUI; inputPanelLoop begins with the list.
ListInit ==
  /\ pc = "draw" /\ i = 0
  /\ size = 0 /\ messages = [p \in ListPlaces |-> Blank]
  /\ currentMessage = 0 /\ topMessage = 0 /\ listState = "LIST"
  /\ myButton = "none" /\ wake = FALSE
  /\ lines = [r \in Rows |-> [c \in Columns |-> [gsm7 |-> 0, selcted |-> FALSE]]] /\ menu = "none"
  /\ added = 0 /\ kept = <<>> /\ disturbed = FALSE

-----------------------------------------------------------------------------
(***************************************************************************)
(* The interrupts.                                                         *)
(***************************************************************************)
\* Mutant of Announced: the thread is not woken.
AnnouncedSilently == myButton' = "none" /\ UNCHANGED wake

Announced == myButton' = "none" /\ wake' = TRUE

\* addNewMessageToMessages does not ask whether the list is full, and would write behind
\* the array: messages arrive only while there is room, also for one just being added.
Room == size < IF pc = "count" THEN MAX_MESSAGES - 1 ELSE MAX_MESSAGES

\* addNewMessageToMessages in the interrupt.
Arrive ==
  /\ added < MaxListed /\ Room
  /\ messages' = [messages EXCEPT ![size] = added + 1]
  /\ size' = size + 1
  /\ Announced
  /\ added' = added + 1 /\ kept' = Append(kept, added + 1)
  /\ disturbed' = (disturbed \/ pc \in {"shift", "count"})
  /\ UNCHANGED <<place, currentMessage, topMessage, listState, drawn>>

\* inputPanelCallBack.
Press(button) ==
  /\ myButton' = button /\ wake' = TRUE
  /\ UNCHANGED <<place, shown, listState, drawn, told>>

-----------------------------------------------------------------------------
(***************************************************************************)
(* showListScreen and showMessage.                                         *)
(***************************************************************************)

ListLine(n) == getMessage(n, MessageAt(n), n = currentMessage)

\* A line of the list; size is read again for each.
DrawLine ==
  /\ pc = "draw" /\ i \in Rows
  /\ lines' = [lines EXCEPT ![i] =
                 IF i < size THEN ListLine((topMessage + i) % size) ELSE emptyLine]
  /\ i' = i + 1
  /\ UNCHANGED <<pc, shown, listState, myButton, wake, menu, told>>

DrawEnds ==
  /\ pc = "draw" /\ i \notin Rows
  /\ pc' = "wait" /\ i' = 0 /\ menu' = menuLine(listState)
  /\ UNCHANGED <<shown, listState, myButton, wake, lines, told>>

\* Goes on with showListScreen.
ShowList == pc' = "draw" /\ i' = 0

\* The selected message takes the whole screen.
MessageShown == MessageScreen(MessageAt(currentMessage))

-----------------------------------------------------------------------------
(***************************************************************************)
(* inputPanelLoop.                                                         *)
(***************************************************************************)
Wake ==
  /\ pc = "wait" /\ wake
  /\ pc' = "handle" /\ wake' = FALSE
  /\ UNCHANGED <<i, shown, listState, myButton, drawn, told>>

ListKey(state, button) == pc = "handle" /\ listState = state /\ myButton = button

\* To the screens the message is written on, which Editor has.
StartWriting ==
  /\ ListKey("LIST", "star") \/ ListKey("TEXT", "ok")
  /\ listState' = IF listState = "LIST" THEN "TEXT" ELSE "NUMBER"
  /\ pc' = "wait" /\ lines' = EmptyScreen /\ menu' = menuLine(listState')
  /\ UNCHANGED <<i, shown, myButton, wake, told>>

Open ==
  /\ ListKey("LIST", "ok") /\ size > 0
  /\ listState' = "SHOW" /\ pc' = "wait" /\ lines' = MessageShown /\ menu' = menuLine("SHOW")
  /\ UNCHANGED <<i, shown, myButton, wake, told>>

Back ==
  /\ pc = "handle" /\ listState # "LIST" /\ myButton = "star"
  /\ listState' = "LIST" /\ ShowList
  /\ UNCHANGED <<shown, myButton, wake, drawn, told>>

\* The message on the last line.
Bottom == (topMessage + LCD_NUM_LINES - 2) % size

Up == (currentMessage + size - 1) % size

\* Any other key on the list, or a new message, draws it again.
Move ==
  /\ pc = "handle" /\ listState = "LIST" /\ myButton \notin {"star", "ok", "#"} /\ size > 0
  /\ currentMessage' = CASE myButton = "2" -> Up
                         [] myButton = "8" -> (currentMessage + 1) % size
                         [] OTHER -> currentMessage
  /\ topMessage' = CASE myButton = "2" /\ currentMessage = topMessage
                          /\ size >= LCD_NUM_LINES -> Up
                     [] myButton = "8" /\ currentMessage = Bottom
                          /\ size >= LCD_NUM_LINES -> (topMessage + 1) % size
                     [] OTHER -> topMessage
  /\ ShowList
  /\ UNCHANGED <<size, messages, listState, myButton, wake, drawn, told>>

\* kept without m, which is in it once.
Without(m) ==
  [k \in 1 .. Len(kept) - 1 |-> kept[IF \E j \in 1 .. k : kept[j] = m THEN k + 1 ELSE k]]

Delete ==
  /\ (ListKey("LIST", "#") /\ size > 0) \/ ListKey("SHOW", "#")
  /\ size' = size - 1 /\ kept' = Without(messages[currentMessage])
  /\ listState' = "LIST" /\ pc' = "shift" /\ i' = currentMessage
  /\ UNCHANGED <<messages, currentMessage, topMessage, myButton, wake, drawn, added, disturbed>>

\* Mutant of Shift: the last place is left as it was.
ShiftTooFew ==
  /\ pc = "shift" /\ i < size
  /\ messages' = [messages EXCEPT ![i] = IF i < size - 1 THEN messages[i + 1] ELSE messages[i]]
  /\ i' = i + 1
  /\ UNCHANGED <<pc, size, currentMessage, topMessage, listState, myButton, wake, drawn, told>>

Shift ==
  /\ pc = "shift" /\ i < size
  /\ messages' = [messages EXCEPT ![i] = messages[i + 1]]
  /\ i' = i + 1
  /\ UNCHANGED <<pc, size, currentMessage, topMessage, listState, myButton, wake, drawn, told>>

DeleteEnds ==
  /\ pc = "shift" /\ i >= size
  /\ IF currentMessage = size THEN currentMessage' = 0 /\ topMessage' = 0
                              ELSE UNCHANGED <<currentMessage, topMessage>>
  /\ ShowList
  /\ UNCHANGED <<size, messages, listState, myButton, wake, drawn, told>>

\* Sending: the last message of a full list gives way.
SendListed ==
  /\ ListKey("NUMBER", "ok") /\ added < MaxListed + 1
  /\ LET n == IF size = MAX_MESSAGES THEN size - 1 ELSE size
     IN /\ size' = n
        /\ messages' = [messages EXCEPT ![n] = added + 1]
        /\ kept' = Append(IF n < size THEN Without(messages[n]) ELSE kept, added + 1)
  /\ added' = added + 1
  /\ listState' = "LIST" /\ pc' = "count"
  /\ UNCHANGED <<i, currentMessage, topMessage, myButton, wake, drawn, disturbed>>

\* The rest of addNewMessageToMessages, in the thread.
Count ==
  /\ pc = "count" /\ size' = size + 1
  /\ Announced /\ ShowList
  /\ UNCHANGED <<messages, currentMessage, topMessage, listState, drawn, told>>

\* Keys that only the text or the number knows, or nobody.
Ignore ==
  /\ pc = "handle"
  /\ \/ listState = "LIST" /\ size = 0 /\ myButton # "star"
     \/ listState = "SHOW" /\ myButton \notin {"star", "#"}
     \/ listState \in {"TEXT", "NUMBER"} /\ myButton \notin {"star", "ok"}
  /\ pc' = "wait"
  /\ UNCHANGED <<i, shown, listState, myButton, wake, drawn, told>>

ListThread ==
  \/ DrawLine \/ DrawEnds \/ Wake \/ StartWriting \/ Open \/ Back \/ Move
  \/ Delete \/ Shift \/ DeleteEnds \/ SendListed \/ Count \/ Ignore

ListNext == ListThread \/ Arrive \/ \E button \in Buttons : Press(button)

ListSpec == ListInit /\ [][ListNext]_listVars
-----------------------------------------------------------------------------
(***************************************************************************)
(* Properties.                                                             *)
(***************************************************************************)
ListSettled == pc = "wait" /\ ~wake

\* Every variable has its type; the list does not outgrow its array.
ListTypeOK ==
  /\ pc \in {"draw", "wait", "handle", "shift", "count"}
  /\ i \in ListPlaces \cup 0 .. LCD_NUM_LINES - 1
  /\ size \in 0 .. MAX_MESSAGES
  /\ messages \in [ListPlaces -> 0 .. MaxListed + 1]
  /\ currentMessage \in 0 .. MAX_MESSAGES - 1 /\ topMessage \in 0 .. MAX_MESSAGES - 1
  /\ listState \in {"LIST", "SHOW", "TEXT", "NUMBER"} /\ myButton \in Buttons \cup {"none"}
  /\ wake \in BOOLEAN /\ disturbed \in BOOLEAN /\ added \in 0 .. MaxListed + 1
  /\ lines \in [Rows -> [Columns -> CHARACTER]]

\* Once the thread sleeps the screen says what the list is, each line which message it is
\* and who it is from or to, the selected one and no other highlighted; or the selected
\* message says what it is, letter by letter; and the menu is that of the state the keys
\* act in: whatever arrived while the lines were drawn, and whatever key it replaced.
\* Nothing is said of a place that an arrival in the middle of a change left unwritten.
ScreenUpToDate ==
  ListSettled =>
    /\ listState = "LIST" =>
         \A r \in Rows :
           LET n == (topMessage + r) % size
           IN IF r >= size THEN lines[r] = emptyLine
              ELSE messages[n] # Blank => SaysEntry(lines[r], n, MessageAt(n), n = currentMessage)
    /\ listState = "SHOW" /\ messages[currentMessage] # Blank =>
         SaysMessage(lines, MessageAt(currentMessage))
    /\ listState \in {"TEXT", "NUMBER"} => lines = EmptyScreen
    /\ listState = "LIST" <=> menu = "New   Delete"

\* "adds message to list" (ex3/UI.c:533): the list has every message added, in order, but
\* those deleted and those that gave way; only an arrival in the middle of a change
\* of the list can disturb it.
ListKept ==
  ListSettled /\ ~disturbed =>
    /\ size = Len(kept)
    /\ \A n \in DOMAIN kept : messages[n - 1] = kept[n]
=============================================================================
