-------------------------------- MODULE Screen --------------------------------
(***************************************************************************)
(* What the UI draws of a message (UI.c of both exercises and Loader_UI.c, *)
(* which share the text).  A line is a function from its columns to        *)
(* CHARACTERs; a char is its ASCII code, and a glyph what tebahpla[]       *)
(* makes of it.                                                            *)
(*                                                                         *)
(* showMessageSource, showTimeRecived and showMessageContent draw what     *)
(* showMessage draws in its own loops.                                     *)
(***************************************************************************)
EXTENDS Integers

CONSTANTS
  LCD_NUM_LINES,  \* lines of the screen, the last one is a menu
  ShownDigits,    \* NUMBER_DIGTS: chars of a number
  StampDigits     \* TIME_STAMP_DIGITS

\* 12 for numbers of 8 digits: a line of the list is exactly full.
LCD_LINE_LENGTH == ShownDigits + 4

ASSUME ScreenAssumption ==
  /\ LCD_NUM_LINES \in Nat \ {0, 1, 2} /\ ShownDigits \in Nat \ {0}
  /\ StampDigits \in 0 .. LCD_LINE_LENGTH

Rows == 0 .. LCD_NUM_LINES - 2
Columns == 0 .. LCD_LINE_LENGTH - 1

\* The cells of the text of a message, behind its two lines of heading.
TextArea == (LCD_NUM_LINES - 3) * LCD_LINE_LENGTH

EndOfNumber == 0
Space == 32
Digit(n) == 48 + n
Incoming == 73  \* IN, 'I'
Outgoing == 79  \* OUT, 'O'

\* What the display has no sign for.
NULL_CHAR == 127

\* '$', '@' and '_' stand elsewhere in GSM 7 bit.  The array ends with 126.
tebahpla(ch) ==
  CASE ch = 36 -> 2
    [] ch = 64 -> 0
    [] ch = 95 -> 17
    [] ch \in (32 .. 90 \cup 97 .. 122) \ {36, 64} -> ch
    [] OTHER -> NULL_CHAR

CHARACTER == [gsm7 : 0 .. 127, selcted : BOOLEAN]

getCHAR(ch, selected) == [gsm7 |-> tebahpla(ch), selcted |-> selected]

\* The chars there is a sign for.
Signs == {ch \in 0 .. 126 : tebahpla(ch) # NULL_CHAR}

\* A text that fits the screen; a number is terminated if it is short.
MessageType ==
  [numberFromTo : [0 .. ShownDigits - 1 -> Signs \cup {EndOfNumber}],
   inOrOut : {Incoming, Outgoing},
   timeStamp : [0 .. StampDigits - 1 -> Signs],
   content : [0 .. TextArea - 1 -> 0 .. 126], size : 0 .. TextArea]

EmptyCell == getCHAR(Space, FALSE)

emptyLine == [c \in Columns |-> EmptyCell]

menuLine(state) == IF state = "LIST" THEN "New   Delete" ELSE "Back   Delete"

\* The number up to its terminator, padded.
drawNum(message, selected) ==
  [c \in 0 .. ShownDigits - 1 |->
     LET ended == \E k \in 0 .. c : message.numberFromTo[k] = EndOfNumber
     IN getCHAR(IF ended THEN Space ELSE message.numberFromTo[c], selected)]

\* A line of the list: the place of the message, its number, and where it went.
getMessage(n, message, selected) ==
  [c \in Columns |->
     CASE c = 0 -> getCHAR(Digit(n \div 10), selected)
       [] c = 1 -> getCHAR(Digit(n % 10), selected)
       [] c = 2 -> getCHAR(Space, selected)
       [] c \in 3 .. ShownDigits + 2 -> drawNum(message, selected)[c - 3]
       [] OTHER -> getCHAR(message.inOrOut, selected)]

SourceLine(message) ==
  [c \in Columns |-> IF c < ShownDigits THEN drawNum(message, TRUE)[c] ELSE getCHAR(Space, TRUE)]

\* Only a message that was received has a time.
TimeLine(message) ==
  [c \in Columns |->
     IF message.inOrOut # Incoming THEN EmptyCell
     ELSE getCHAR(IF c < StampDigits THEN message.timeStamp[c] ELSE Space, TRUE)]

ContentCell(message, k) ==
  IF k < message.size THEN getCHAR(message.content[k], FALSE) ELSE EmptyCell

\* The message on the whole screen.
MessageScreen(message) ==
  [r \in Rows |->
     CASE r = 0 -> SourceLine(message)
       [] r = 1 -> TimeLine(message)
       [] OTHER -> [c \in Columns |-> ContentCell(message, (r - 2) * LCD_LINE_LENGTH + c)]]

-----------------------------------------------------------------------------
(***************************************************************************)
(* Reading a screen, for the properties.                                   *)
(***************************************************************************)
Upto(n, Ends(_)) == CHOOSE k \in 0 .. n : (k = n \/ Ends(k)) /\ \A j \in 0 .. k - 1 : ~Ends(j)

\* The char a sign is read as: GSM 7 bit, as the display shows it.
Read(cell) ==
  CASE cell.gsm7 = 0 -> 64
    [] cell.gsm7 = 2 -> 36
    [] cell.gsm7 = 17 -> 95
    [] OTHER -> cell.gsm7

\* The number that stands in a line from a column on, and the number of a message.
NumberRead(line, from) ==
  LET n == Upto(ShownDigits, LAMBDA k : Read(line[from + k]) = Space)
  IN [k \in 0 .. n - 1 |-> Read(line[from + k])]
NumberOf(message) ==
  LET n == Upto(ShownDigits, LAMBDA k : message.numberFromTo[k] = EndOfNumber)
  IN [k \in 0 .. n - 1 |-> message.numberFromTo[k]]

Highlighted(line) == \A c \in Columns : line[c].selcted
Plain(line) == \A c \in Columns : ~line[c].selcted

\* The line says which message of the list it is, from or to whom, and whether it is selected.
SaysEntry(line, n, message, selected) ==
  /\ 10 * (Read(line[0]) - Digit(0)) + Read(line[1]) - Digit(0) = n
  /\ NumberRead(line, 3) = NumberOf(message)
  /\ Read(line[LCD_LINE_LENGTH - 1]) = message.inOrOut
  /\ IF selected THEN Highlighted(line) ELSE Plain(line)

\* The screen says from or to whom the message is, when it came if it did, and, as far as
\* there are signs for it, what it says.
SaysMessage(screen, message) ==
  /\ Highlighted(screen[0]) /\ NumberRead(screen[0], 0) = NumberOf(message)
  /\ Highlighted(screen[1]) <=> message.inOrOut = Incoming
  /\ Highlighted(screen[1]) => \A k \in DOMAIN message.timeStamp :
                                 Read(screen[1][k]) = message.timeStamp[k]
  /\ \A r \in Rows \ {0, 1} : Plain(screen[r])
  /\ \A k \in 0 .. TextArea - 1 :
       LET cell == screen[2 + k \div LCD_LINE_LENGTH][k % LCD_LINE_LENGTH]
       IN IF k >= message.size THEN Read(cell) = Space
          ELSE message.content[k] \in Signs => Read(cell) = message.content[k]
=============================================================================
