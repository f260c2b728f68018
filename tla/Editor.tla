-------------------------------- MODULE Editor --------------------------------
(***************************************************************************)
(* Writing a message (ex4/UI.c) on the display (ex4/LCD.c).  The UI thread *)
(* carries out a key and asks for the new screen; the display copies it    *)
(* meanwhile, and refuses another one until its interrupt was taken.       *)
(*                                                                         *)
(* A cell of the screen, a char of the text and a digit are the same       *)
(* thing: a pair of a button and how often it was pressed.  What a screen  *)
(* that is not edited looks like is left out: its cells are Other.         *)
(***************************************************************************)
EXTENDS Integers

CONSTANTS
  MESSAGE_CUTOFF_LENGTH,  \* letters of a message
  NUMBER_DIGTS,           \* digits of a number
  TEXT_AREA,              \* LCD_TOTAL_CHARS - LCD_LINE_LENGTH, cells above the bottom line
  Pressed                 \* the buttons that are pressed

BUTTON_OK == 10
BUTTON_STAR == 11
BUTTON_NUMBER_SIGN == 12
DigitButtons == 0 .. 9

ASSUME EditorAssumption ==
  /\ TEXT_AREA \in Nat
  /\ MESSAGE_CUTOFF_LENGTH \in 1 .. TEXT_AREA /\ NUMBER_DIGTS \in 1 .. TEXT_AREA
  /\ Pressed \subseteq DigitButtons \cup {BUTTON_OK, BUTTON_STAR, BUTTON_NUMBER_SIGN}

EMPTY == <<-1, 0>>
NULL_DIGIT == <<-1, 1>>
Other == <<-1, 2>>

VARIABLES
  curState,             \* the screen, LIST for those that are not edited
  content, textEnd,     \* toSend.content, toSend.size
  numberFromTo,         \* toSend.numberFromTo
  newMessageNumberPos,
  lastButton, numOfTimes,
  screenBuffer,         \* without the bottom line
  shownText,            \* history: the screen when the text was finished
  LCD_DCMD, LCD_DICR, LCD_DIER,
  copying,              \* the copy of the display: "none", "whole" or "torn"
  lcdFrame, shownFrame, \* _lcdData and the glass, compared with screenBuffer
  refused               \* history: the last screen was refused

toSend == <<content, textEnd, numberFromTo, newMessageNumberPos>>
lcd == <<LCD_DCMD, LCD_DICR, LCD_DIER, copying, lcdFrame, shownFrame, refused>>
editorVars == <<curState, toSend, lastButton, numOfTimes, screenBuffer, shownText, lcd>>

Cells == 0 .. TEXT_AREA - 1
Fill(cell) == [k \in Cells |-> cell]

EditorInit ==
  /\ curState = "LIST"
  /\ content = [k \in 0 .. MESSAGE_CUTOFF_LENGTH - 1 |-> NULL_DIGIT] /\ textEnd = 0
  /\ numberFromTo = [k \in 0 .. NUMBER_DIGTS - 1 |-> NULL_DIGIT] /\ newMessageNumberPos = 0
  /\ lastButton = BUTTON_STAR /\ numOfTimes = 0
  /\ screenBuffer = Fill(Other) /\ shownText = Fill(Other)
  /\ LCD_DCMD = FALSE /\ LCD_DICR = FALSE /\ LCD_DIER = FALSE
  /\ copying = "none" /\ lcdFrame = "older" /\ shownFrame = "older" /\ refused = FALSE

-----------------------------------------------------------------------------
(***************************************************************************)
(* The display.                                                            *)
(***************************************************************************)

\* Mutant of Ready: the interrupt cause is asked for, the copy in progress is not.
ReadyWhileCopying == ~LCD_DICR

Ready == ~LCD_DICR /\ ~LCD_DCMD

\* A new screen makes every screen drawn before an older one.
Aged(frame) == IF frame = "latest" THEN "older" ELSE frame

\* A copy that has begun is torn if the buffer is written now.
lcd_set_new_buffer ==
  IF Ready
    THEN /\ lcdFrame' = "latest"
         /\ LCD_DIER' = TRUE /\ LCD_DCMD' = TRUE
         /\ copying' = IF copying = "none" THEN "whole" ELSE "torn"
         /\ refused' = FALSE
         /\ shownFrame' = Aged(shownFrame) /\ UNCHANGED LCD_DICR
    ELSE /\ refused' = TRUE
         /\ lcdFrame' = Aged(lcdFrame) /\ shownFrame' = Aged(shownFrame)
         /\ UNCHANGED <<LCD_DCMD, LCD_DICR, LCD_DIER, copying>>

\* UPDATE_SCREEN ignores whether the screen was refused.
Show(buffer) == screenBuffer' = buffer /\ lcd_set_new_buffer

CopyEnds ==
  /\ LCD_DCMD
  /\ LCD_DCMD' = FALSE /\ LCD_DICR' = TRUE /\ copying' = "none"
  /\ shownFrame' = IF copying = "torn" THEN "torn" ELSE lcdFrame
  /\ UNCHANGED <<curState, toSend, lastButton, numOfTimes, screenBuffer, shownText, LCD_DIER,
                 lcdFrame, refused>>

\* The interrupt; ex4.c registers a callback that does nothing.
lcd_done ==
  /\ LCD_DICR /\ LCD_DIER
  /\ LCD_DIER' = FALSE /\ LCD_DICR' = FALSE
  /\ UNCHANGED <<curState, toSend, lastButton, numOfTimes, screenBuffer, shownText, LCD_DCMD,
                 copying, lcdFrame, shownFrame, refused>>

-----------------------------------------------------------------------------
(***************************************************************************)
(* The keys of inputPanelLoop.                                             *)
(***************************************************************************)
Letters(button) == IF button \in {7, 9} THEN 5 ELSE IF button = 0 THEN 2 ELSE 4

\* getLetter for the digit buttons; the last letter of each is its digit.
getLetter(button, times) == <<button, times % Letters(button)>>

Key(state, button) == curState = state /\ button \in Pressed

\* The list and the message shown, which redraw for every key they know.
ShowOther ==
  /\ curState = "LIST" /\ Show(Fill(Other))
  /\ UNCHANGED <<curState, toSend, lastButton, numOfTimes, shownText>>

createNewMessage ==
  /\ Key("LIST", BUTTON_STAR)
  /\ curState' = "WRITE_TEXT"
  /\ textEnd' = -1 /\ lastButton' = BUTTON_STAR
  /\ Show(Fill(EMPTY))
  /\ UNCHANGED <<content, numberFromTo, newMessageNumberPos, numOfTimes, shownText>>

\* The last place is written over.
Advance(place, length) == IF place < length - 1 THEN place + 1 ELSE place

\* late: MOVE_CURSOR_INTERVAL has passed since the last letter.
writeLetter(button, late) ==
  /\ Key("WRITE_TEXT", button) /\ button \in DigitButtons
  /\ IF button # lastButton \/ late
       THEN /\ numOfTimes' = 0 /\ lastButton' = button
            /\ textEnd' = Advance(textEnd, MESSAGE_CUTOFF_LENGTH)
       ELSE /\ numOfTimes' = (numOfTimes + 1) % Letters(button)
            /\ UNCHANGED <<lastButton, textEnd>>
  /\ LET currChar == getLetter(button, numOfTimes')
     IN /\ content' = [content EXCEPT ![textEnd'] = currChar]
        /\ Show([screenBuffer EXCEPT ![textEnd'] = currChar])
  /\ UNCHANGED <<curState, numberFromTo, newMessageNumberPos, shownText>>

eraseLetter ==
  /\ Key("WRITE_TEXT", BUTTON_NUMBER_SIGN) /\ textEnd >= 0
  /\ textEnd' = textEnd - 1 /\ lastButton' = BUTTON_STAR
  /\ Show([screenBuffer EXCEPT ![textEnd] = EMPTY])
  /\ UNCHANGED <<curState, content, numberFromTo, newMessageNumberPos, numOfTimes, shownText>>

createNewMessageNumber ==
  /\ Key("WRITE_TEXT", BUTTON_OK)
  /\ curState' = "WRITE_NUMBER"
  /\ newMessageNumberPos' = -1 /\ lastButton' = BUTTON_STAR
  /\ numberFromTo' = [k \in DOMAIN numberFromTo |-> NULL_DIGIT]
  /\ shownText' = screenBuffer
  /\ Show(Fill(EMPTY))
  /\ UNCHANGED <<content, textEnd, numOfTimes>>

\* A digit is the button's last letter.
writeDigit(button) ==
  /\ Key("WRITE_NUMBER", button) /\ button \in DigitButtons
  /\ lastButton' = button
  /\ newMessageNumberPos' = Advance(newMessageNumberPos, NUMBER_DIGTS)
  /\ LET currChar == getLetter(button, IF button \in {7, 9} THEN 4 ELSE 3)
     IN /\ numberFromTo' = [numberFromTo EXCEPT ![newMessageNumberPos'] = currChar]
        /\ Show([screenBuffer EXCEPT ![newMessageNumberPos'] = currChar])
  /\ UNCHANGED <<curState, content, textEnd, numOfTimes, shownText>>

eraseDigit ==
  /\ Key("WRITE_NUMBER", BUTTON_NUMBER_SIGN) /\ newMessageNumberPos >= 0
  /\ newMessageNumberPos' = newMessageNumberPos - 1 /\ lastButton' = BUTTON_STAR
  /\ Show([screenBuffer EXCEPT ![newMessageNumberPos] = EMPTY])
  /\ UNCHANGED <<curState, content, textEnd, numberFromTo, numOfTimes, shownText>>

\* The message is given up.
Cancel ==
  /\ Key(curState, BUTTON_STAR) /\ curState # "LIST"
  /\ curState' = "LIST" /\ shownText' = Fill(Other)
  /\ Show(Fill(Other))
  /\ UNCHANGED <<toSend, lastButton, numOfTimes>>

\* Mutant of NumberToSend: the digits erased last stay behind the others.
NumberToSendAsIs == numberFromTo

NumberToSend ==
  [k \in DOMAIN numberFromTo |-> IF k > newMessageNumberPos THEN NULL_DIGIT ELSE numberFromTo[k]]

\* The index of the last letter becomes the length, and toSend goes to sendMessage.
Send ==
  /\ Key("WRITE_NUMBER", BUTTON_OK)
  /\ textEnd' = textEnd + 1
  /\ numberFromTo' = NumberToSend
  /\ curState' = "LIST" /\ shownText' = Fill(Other)
  /\ Show(Fill(Other))
  /\ UNCHANGED <<content, newMessageNumberPos, lastButton, numOfTimes>>

EditorNext ==
  \/ ShowOther \/ createNewMessage \/ createNewMessageNumber
  \/ \E button \in DigitButtons :
       writeDigit(button) \/ \E late \in BOOLEAN : writeLetter(button, late)
  \/ eraseLetter \/ eraseDigit \/ Cancel \/ Send
  \/ CopyEnds \/ lcd_done

EditorSpec == EditorInit /\ [][EditorNext]_editorVars

-----------------------------------------------------------------------------
(***************************************************************************)
(* Properties.                                                             *)
(***************************************************************************)
EditorTypeOK ==
  /\ curState \in {"LIST", "WRITE_TEXT", "WRITE_NUMBER"}
  /\ textEnd \in -1 .. MESSAGE_CUTOFF_LENGTH
  /\ newMessageNumberPos \in -1 .. NUMBER_DIGTS - 1
  /\ lastButton \in DigitButtons \cup {BUTTON_STAR} /\ numOfTimes \in 0 .. 4
  /\ copying \in {"none", "whole", "torn"}
  /\ lcdFrame \in {"latest", "older"} /\ shownFrame \in {"latest", "older", "torn"}

\* What is sent is what was on the screen when OK was pressed, letter by letter and
\* digit by digit, however it was typed, erased and typed over: nothing of an earlier
\* message, no letter lost behind the last place.
SentAsShown ==
  [][curState = "WRITE_NUMBER" /\ textEnd' # textEnd =>
       /\ \A k \in Cells :
            shownText[k] = IF k < textEnd' THEN content'[k] ELSE EMPTY
       /\ \A k \in DOMAIN numberFromTo :
            numberFromTo'[k] = IF screenBuffer[k] = EMPTY THEN NULL_DIGIT ELSE screenBuffer[k]
    ]_editorVars

\* The glass never shows parts of two screens, and once the display is at rest it shows
\* the last screen drawn, unless that one was refused: UPDATE_SCREEN then leaves the
\* older one there until the next key.
DisplayWhole ==
  /\ shownFrame # "torn"
  /\ ~LCD_DCMD /\ ~refused /\ lcdFrame = "latest" => shownFrame = "latest"
  /\ lcdFrame = "older" /\ screenBuffer # Fill(Other) => refused
=============================================================================
