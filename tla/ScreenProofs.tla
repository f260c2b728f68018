----------------------------- MODULE ScreenProofs -----------------------------
(***************************************************************************)
(* Proofs about the screens of the UI: Editor, for messages, numbers and   *)
(* screens of every length and for every set of buttons; and MessageList,  *)
(* for lists, lines and numbers of every length and whatever is in them.   *)
(***************************************************************************)
EXTENDS Editor, MessageList, SequenceTheorems, WellFoundedInduction, TLAPS


-----------------------------------------------------------------------------
(***************************************************************************)
(* Editor: the inductive invariant.                                        *)
(***************************************************************************)
\* A char, a digit and a cell.
SignPairs == Int \X Int
Indices(length) == 0 .. length - 1

\* The first cells hold what was typed up to the last place, the others nothing.
Typed(cells, typed, last) == \A k \in Cells : cells[k] = IF k <= last THEN typed[k] ELSE EMPTY

EditorTypes ==
  /\ EditorTypeOK
  /\ content \in [Indices(MESSAGE_CUTOFF_LENGTH) -> SignPairs]
  /\ numberFromTo \in [Indices(NUMBER_DIGTS) -> SignPairs]
  /\ screenBuffer \in [Cells -> SignPairs] /\ shownText \in [Cells -> SignPairs]
  /\ {LCD_DCMD, LCD_DICR, LCD_DIER, refused} \subseteq BOOLEAN

\* While the text is written the screen is the text.  No letter is repeated before the first:
\* the letter's place would be in front of the text.
TextOnScreen ==
  curState = "WRITE_TEXT" =>
    /\ Typed(screenBuffer, content, textEnd) /\ textEnd < MESSAGE_CUTOFF_LENGTH
    /\ textEnd = -1 => lastButton = BUTTON_STAR

\* While the number is written the screen is the number, and the text is as it was shown.
NumberOnScreen ==
  curState = "WRITE_NUMBER" =>
    /\ Typed(shownText, content, textEnd) /\ textEnd < MESSAGE_CUTOFF_LENGTH
    /\ Typed(screenBuffer, numberFromTo, newMessageNumberPos)
    /\ \A k \in 0 .. newMessageNumberPos : numberFromTo[k] # EMPTY

\* The display copies while its command bit is set, and nobody writes meanwhile.
CopyUntorn ==
  /\ copying # "torn" /\ (copying = "none" <=> ~LCD_DCMD)
  /\ DisplayWhole

EditorInv == EditorTypes /\ TextOnScreen /\ NumberOnScreen /\ CopyUntorn

-----------------------------------------------------------------------------
(***************************************************************************)
(* Types.                                                                  *)
(***************************************************************************)
LEMMA EditorConstants ==
  /\ TEXT_AREA \in Nat /\ MESSAGE_CUTOFF_LENGTH \in 1 .. TEXT_AREA /\ NUMBER_DIGTS \in 1 .. TEXT_AREA
  /\ Pressed \subseteq DigitButtons \cup {BUTTON_OK, BUTTON_STAR, BUTTON_NUMBER_SIGN}
  /\ EMPTY \in SignPairs /\ NULL_DIGIT \in SignPairs /\ Other \in SignPairs
  /\ \A cell \in SignPairs : Fill(cell) \in [Cells -> SignPairs]
BY EditorAssumption DEF EMPTY, NULL_DIGIT, Other, SignPairs, Fill

\* A letter of a digit button is a sign, and not an empty cell.
LEMMA LettersAre ==
  ASSUME NEW button \in DigitButtons, NEW times \in Nat
  PROVE  /\ times % Letters(button) \in 0 .. 4
         /\ getLetter(button, times) \in SignPairs /\ getLetter(button, times) # EMPTY
<1>1. Letters(button) \in {2, 4, 5}
  BY DEF Letters
<1>2. times % 2 \in 0 .. 1 /\ times % 4 \in 0 .. 3 /\ times % 5 \in 0 .. 4
  OBVIOUS
<1>3. times % Letters(button) \in 0 .. 4
  BY <1>1, <1>2
<1> QED BY <1>3 DEF getLetter, SignPairs, DigitButtons, EMPTY

\* The next place is a place.
LEMMA Advances ==
  ASSUME NEW length \in Nat \ {0}, NEW at \in -1 .. length - 1
  PROVE  Advance(at, length) \in 0 .. length - 1 /\ Advance(at, length) \in {at, at + 1}
BY DEF Advance

\* Typing writes a sign into its place and into its cell, erasing empties the cell.
LEMMA TypedMore ==
  ASSUME NEW length \in 1 .. TEXT_AREA, NEW last \in -1 .. length - 1, NEW next \in 0 .. length - 1,
         next \in {last, last + 1},
         NEW typed \in [Indices(length) -> SignPairs], NEW cells \in [Cells -> SignPairs],
         Typed(cells, typed, last), NEW sign \in SignPairs
  PROVE  /\ Typed([cells EXCEPT ![next] = sign], [typed EXCEPT ![next] = sign], next)
         /\ [cells EXCEPT ![next] = sign] \in [Cells -> SignPairs]
         /\ [typed EXCEPT ![next] = sign] \in [Indices(length) -> SignPairs]
<1>1. TEXT_AREA \in Nat /\ next \in Indices(length) /\ next \in Cells
  BY EditorConstants DEF Indices, Cells
<1>2. \A k \in Cells : k <= next => k \in Indices(length) /\ (k # next => k <= last)
  BY <1>1 DEF Indices, Cells
<1>3. \A k \in Cells : ~(k <= next) => ~(k <= last) /\ k # next
  BY <1>1 DEF Cells
<1> QED BY <1>1, <1>2, <1>3 DEF Typed

LEMMA TypedLess ==
  ASSUME NEW length \in 1 .. TEXT_AREA, NEW last \in 0 .. length - 1,
         NEW typed, NEW cells \in [Cells -> SignPairs], Typed(cells, typed, last)
  PROVE  /\ Typed([cells EXCEPT ![last] = EMPTY], typed, last - 1)
         /\ [cells EXCEPT ![last] = EMPTY] \in [Cells -> SignPairs]
<1>1. last \in Cells
  BY EditorConstants DEF Cells
<1>2. \A k \in Cells : (k <= last - 1) <=> (k <= last /\ k # last)
  BY <1>1 DEF Cells
<1> QED BY <1>1, <1>2, EditorConstants DEF Typed

LEMMA TypedNothing ==
  ASSUME NEW typed
  PROVE  Typed(Fill(EMPTY), typed, -1)
BY EditorConstants DEF Typed, Fill, Cells

-----------------------------------------------------------------------------
(***************************************************************************)
(* The display.                                                            *)
(***************************************************************************)
\* Handing over a screen, accepted or refused.
LEMMA ShowKeeps ==
  ASSUME EditorTypes, CopyUntorn, lcd_set_new_buffer
  PROVE  /\ CopyUntorn'
         /\ copying' \in {"none", "whole", "torn"}
         /\ lcdFrame' \in {"latest", "older"} /\ shownFrame' \in {"latest", "older", "torn"}
         /\ {LCD_DCMD', LCD_DICR', LCD_DIER', refused'} \subseteq BOOLEAN
<1> USE DEF EditorTypes, EditorTypeOK, CopyUntorn, DisplayWhole, lcd_set_new_buffer, Aged, Ready
<1>1. CASE Ready
  BY <1>1
<1>2. CASE ~Ready
  BY <1>2
<1> QED BY <1>1, <1>2

-----------------------------------------------------------------------------
(***************************************************************************)
(* The steps.                                                              *)
(***************************************************************************)
LEMMA EditorStart == EditorInit => EditorInv
<1> SUFFICES ASSUME EditorInit PROVE EditorInv
  OBVIOUS
<1>1. EditorTypeOK
  BY EditorConstants
  DEF EditorInit, EditorTypeOK, BUTTON_STAR
<1>2. EditorTypes
  BY <1>1, EditorConstants DEF EditorInit, EditorTypes, Indices
<1>3. TextOnScreen /\ NumberOnScreen /\ CopyUntorn
  BY DEF EditorInit, TextOnScreen, NumberOnScreen, CopyUntorn, DisplayWhole
<1> QED BY <1>2, <1>3 DEF EditorInv

\* The display's own steps, and keys that lead to a screen that is not edited.
LEMMA DisplayKeeps ==
  ASSUME EditorInv, CopyEnds \/ lcd_done
  PROVE  EditorInv'
<1>1. UNCHANGED <<curState, toSend, lastButton, numOfTimes, screenBuffer, shownText, lcdFrame, refused>>
  BY DEF CopyEnds, lcd_done
<1>2. CopyUntorn'
  BY <1>1 DEF EditorInv, EditorTypes, EditorTypeOK, CopyUntorn, DisplayWhole, CopyEnds, lcd_done
<1>3. TextOnScreen' /\ NumberOnScreen'
  BY <1>1 DEF EditorInv, TextOnScreen, NumberOnScreen, toSend, Typed
<1>4. EditorTypes'
  BY <1>1 DEF EditorInv, EditorTypes, EditorTypeOK, CopyEnds, lcd_done, toSend
<1> QED BY <1>2, <1>3, <1>4 DEF EditorInv

LEMMA OtherKeeps ==
  ASSUME EditorInv, ShowOther \/ Cancel \/ Send
  PROVE  EditorInv'
<1>1. /\ curState' = "LIST" /\ screenBuffer' = Fill(Other) /\ lcd_set_new_buffer
      /\ UNCHANGED <<content, newMessageNumberPos, lastButton, numOfTimes>>
      /\ shownText' = shownText \/ shownText' = Fill(Other)
  BY DEF ShowOther, Cancel, Send, Show, toSend
<1>2. CopyUntorn' /\ TextOnScreen' /\ NumberOnScreen'
  BY <1>1, ShowKeeps DEF EditorInv, TextOnScreen, NumberOnScreen
<1>3. textEnd' \in -1 .. MESSAGE_CUTOFF_LENGTH
  <2>1. textEnd' = textEnd \/ (Send /\ textEnd' = textEnd + 1)
    BY DEF ShowOther, Cancel, Send, toSend
  <2>2. Send => textEnd < MESSAGE_CUTOFF_LENGTH
    BY DEF Send, Key, EditorInv, NumberOnScreen
  <2> QED BY <2>1, <2>2, EditorConstants DEF EditorInv, EditorTypes, EditorTypeOK
<1>4. numberFromTo' \in [Indices(NUMBER_DIGTS) -> SignPairs]
  <2>1. CASE Send
    BY <2>1, EditorConstants DEF Send, NumberToSend, EditorInv, EditorTypes
  <2>2. CASE ShowOther \/ Cancel
    BY <2>2 DEF ShowOther, Cancel, toSend, EditorInv, EditorTypes
  <2> QED BY <2>1, <2>2
<1>5. EditorTypes'
  BY <1>1, <1>3, <1>4, ShowKeeps, EditorConstants DEF EditorInv, EditorTypes, EditorTypeOK
<1> QED BY <1>2, <1>5 DEF EditorInv

\* A new message, and its number.
LEMMA NewKeeps ==
  ASSUME EditorInv, createNewMessage \/ createNewMessageNumber
  PROVE  EditorInv'
<1>1. /\ screenBuffer' = Fill(EMPTY) /\ lcd_set_new_buffer /\ lastButton' = BUTTON_STAR
      /\ UNCHANGED <<content, numOfTimes>>
  BY DEF createNewMessage, createNewMessageNumber, Show
<1>2. CASE createNewMessage
  <2>1. curState' = "WRITE_TEXT" /\ textEnd' = -1
        /\ UNCHANGED <<numberFromTo, newMessageNumberPos, shownText>>
    BY <1>2 DEF createNewMessage
  <2>2. TextOnScreen' /\ NumberOnScreen' /\ CopyUntorn'
    BY <1>1, <2>1, TypedNothing, ShowKeeps, EditorConstants
    DEF EditorInv, TextOnScreen, NumberOnScreen
  <2>3. EditorTypes'
    BY <1>1, <2>1, ShowKeeps, EditorConstants DEF EditorInv, EditorTypes, EditorTypeOK
  <2> QED BY <2>2, <2>3 DEF EditorInv
<1>3. CASE createNewMessageNumber
  <2>1. /\ curState = "WRITE_TEXT" /\ curState' = "WRITE_NUMBER" /\ newMessageNumberPos' = -1
        /\ numberFromTo' = [k \in DOMAIN numberFromTo |-> NULL_DIGIT]
        /\ shownText' = screenBuffer /\ textEnd' = textEnd
    BY <1>3 DEF createNewMessageNumber, Key
  <2>2. TextOnScreen' /\ NumberOnScreen' /\ CopyUntorn'
    <3>1. Typed(shownText', content', textEnd') /\ textEnd' < MESSAGE_CUTOFF_LENGTH
      BY <1>1, <2>1 DEF EditorInv, TextOnScreen
    <3>2. Typed(screenBuffer', numberFromTo', newMessageNumberPos')
      BY <1>1, <2>1, TypedNothing
    <3>3. 0 .. newMessageNumberPos' = {}
      BY <2>1
    <3> QED BY <2>1, <1>1, <3>1, <3>2, <3>3, ShowKeeps DEF EditorInv, TextOnScreen, NumberOnScreen
  <2>3. EditorTypes'
    <3>1. numberFromTo' \in [Indices(NUMBER_DIGTS) -> SignPairs] /\ -1 \in -1 .. NUMBER_DIGTS - 1
      BY <2>1, EditorConstants DEF EditorInv, EditorTypes
    <3> QED
      BY <1>1, <2>1, <3>1, ShowKeeps, EditorConstants DEF EditorInv, EditorTypes, EditorTypeOK
  <2> QED BY <2>2, <2>3 DEF EditorInv
<1> QED BY <1>2, <1>3

LEMMA LetterKeeps ==
  ASSUME EditorInv, NEW button \in DigitButtons, NEW late \in BOOLEAN, writeLetter(button, late)
  PROVE  EditorInv'
<1> DEFINE sign == getLetter(button, numOfTimes')
<1>1. /\ curState = "WRITE_TEXT" /\ curState' = "WRITE_TEXT" /\ lcd_set_new_buffer
      /\ content' = [content EXCEPT ![textEnd'] = sign]
      /\ screenBuffer' = [screenBuffer EXCEPT ![textEnd'] = sign]
      /\ UNCHANGED <<numberFromTo, newMessageNumberPos, shownText>>
  BY DEF writeLetter, Key, Show
<1>2. /\ Typed(screenBuffer, content, textEnd) /\ textEnd < MESSAGE_CUTOFF_LENGTH
      /\ textEnd = -1 => lastButton = BUTTON_STAR
      /\ content \in [Indices(MESSAGE_CUTOFF_LENGTH) -> SignPairs] /\ screenBuffer \in [Cells -> SignPairs]
      /\ numOfTimes \in 0 .. 4
      /\ textEnd \in -1 .. MESSAGE_CUTOFF_LENGTH - 1 /\ MESSAGE_CUTOFF_LENGTH \in 1 .. TEXT_AREA
      /\ MESSAGE_CUTOFF_LENGTH \in Nat \ {0}
  BY <1>1, EditorConstants DEF EditorInv, TextOnScreen, EditorTypes, EditorTypeOK
<1>3. /\ textEnd' \in 0 .. MESSAGE_CUTOFF_LENGTH - 1 /\ textEnd' \in {textEnd, textEnd + 1}
      /\ lastButton' = button /\ numOfTimes' \in 0 .. 4
  <2>1. CASE button # lastButton \/ late
    BY <1>2, <2>1, Advances DEF writeLetter
  <2>2. CASE ~(button # lastButton \/ late)
    <3>1. button # BUTTON_STAR
      BY DEF DigitButtons, BUTTON_STAR
    <3>2. /\ textEnd' = textEnd /\ lastButton' = button /\ textEnd # -1
          /\ numOfTimes' = (numOfTimes + 1) % Letters(button)
      BY <1>2, <2>2, <3>1 DEF writeLetter
    <3>3. numOfTimes + 1 \in Nat
      BY <1>2
    <3>4. numOfTimes' \in 0 .. 4
      BY <3>2, <3>3, LettersAre, Zenon
    <3> QED BY <1>2, <3>2, <3>4
  <2> QED BY <2>1, <2>2
<1>4. sign \in SignPairs
  BY <1>3, LettersAre
<1>5. /\ Typed(screenBuffer', content', textEnd') /\ screenBuffer' \in [Cells -> SignPairs]
      /\ content' \in [Indices(MESSAGE_CUTOFF_LENGTH) -> SignPairs]
  BY <1>1, <1>2, <1>3, <1>4, TypedMore
<1>6. TextOnScreen' /\ NumberOnScreen' /\ CopyUntorn'
  BY <1>1, <1>2, <1>3, <1>5, ShowKeeps DEF EditorInv, TextOnScreen, NumberOnScreen
<1>7. EditorTypes'
  BY <1>1, <1>2, <1>3, <1>5, ShowKeeps DEF EditorInv, EditorTypes, EditorTypeOK
<1> QED BY <1>6, <1>7 DEF EditorInv

LEMMA DigitKeeps ==
  ASSUME EditorInv, NEW button \in DigitButtons, writeDigit(button)
  PROVE  EditorInv'
<1> DEFINE sign == getLetter(button, IF button \in {7, 9} THEN 4 ELSE 3)
           pos == newMessageNumberPos
<1>1. /\ curState = "WRITE_NUMBER" /\ curState' = "WRITE_NUMBER" /\ lcd_set_new_buffer
      /\ pos' = Advance(pos, NUMBER_DIGTS) /\ lastButton' = button
      /\ numberFromTo' = [numberFromTo EXCEPT ![pos'] = sign]
      /\ screenBuffer' = [screenBuffer EXCEPT ![pos'] = sign]
      /\ UNCHANGED <<content, textEnd, numOfTimes, shownText>>
  BY DEF writeDigit, Key, Show
<1>2. /\ Typed(shownText, content, textEnd) /\ textEnd < MESSAGE_CUTOFF_LENGTH
      /\ Typed(screenBuffer, numberFromTo, pos)
      /\ \A k \in 0 .. pos : numberFromTo[k] # EMPTY
      /\ numberFromTo \in [Indices(NUMBER_DIGTS) -> SignPairs] /\ screenBuffer \in [Cells -> SignPairs]
      /\ pos \in -1 .. NUMBER_DIGTS - 1 /\ NUMBER_DIGTS \in 1 .. TEXT_AREA
      /\ NUMBER_DIGTS \in Nat \ {0}
  BY <1>1, EditorConstants DEF EditorInv, NumberOnScreen, EditorTypes, EditorTypeOK
<1>3. pos' \in 0 .. NUMBER_DIGTS - 1 /\ pos' \in {pos, pos + 1}
  BY <1>1, <1>2, Advances
<1>4. sign \in SignPairs /\ sign # EMPTY
  <2>1. (IF button \in {7, 9} THEN 4 ELSE 3) \in Nat
    OBVIOUS
  <2> QED BY <2>1, LettersAre
<1> HIDE DEF sign
<1>5. /\ Typed(screenBuffer', numberFromTo', pos') /\ screenBuffer' \in [Cells -> SignPairs]
      /\ numberFromTo' \in [Indices(NUMBER_DIGTS) -> SignPairs]
  BY <1>1, <1>2, <1>3, <1>4, TypedMore
<1>6. \A k \in 0 .. pos' : numberFromTo'[k] # EMPTY
  <2>1. \A k \in 0 .. pos' : k \in Indices(NUMBER_DIGTS) /\ (k = pos' \/ k \in 0 .. pos)
    BY <1>2, <1>3 DEF Indices
  <2> QED BY <1>1, <1>2, <1>4, <2>1
<1>7. TextOnScreen' /\ NumberOnScreen' /\ CopyUntorn'
  BY <1>1, <1>2, <1>5, <1>6, ShowKeeps DEF EditorInv, TextOnScreen, NumberOnScreen
<1>8. EditorTypes'
  BY <1>1, <1>2, <1>3, <1>5, ShowKeeps DEF EditorInv, EditorTypes, EditorTypeOK
<1> QED BY <1>7, <1>8 DEF EditorInv

LEMMA EraseKeeps ==
  ASSUME EditorInv, eraseLetter \/ eraseDigit
  PROVE  EditorInv'
<1>1. CASE eraseLetter
  <2>1. /\ curState = "WRITE_TEXT" /\ curState' = "WRITE_TEXT" /\ lcd_set_new_buffer
        /\ textEnd >= 0 /\ textEnd' = textEnd - 1 /\ lastButton' = BUTTON_STAR
        /\ screenBuffer' = [screenBuffer EXCEPT ![textEnd] = EMPTY]
        /\ UNCHANGED <<content, numberFromTo, newMessageNumberPos, numOfTimes, shownText>>
    BY <1>1 DEF eraseLetter, Key, Show
  <2>2. /\ Typed(screenBuffer, content, textEnd) /\ textEnd \in 0 .. MESSAGE_CUTOFF_LENGTH - 1
        /\ screenBuffer \in [Cells -> SignPairs] /\ MESSAGE_CUTOFF_LENGTH \in 1 .. TEXT_AREA
    BY <2>1, EditorConstants DEF EditorInv, TextOnScreen, EditorTypes, EditorTypeOK
  <2>3. /\ Typed(screenBuffer', content', textEnd') /\ screenBuffer' \in [Cells -> SignPairs]
        /\ textEnd' \in -1 .. MESSAGE_CUTOFF_LENGTH /\ textEnd' < MESSAGE_CUTOFF_LENGTH
    <3>1. /\ Typed([screenBuffer EXCEPT ![textEnd] = EMPTY], content, textEnd - 1)
          /\ [screenBuffer EXCEPT ![textEnd] = EMPTY] \in [Cells -> SignPairs]
      BY <2>2, TypedLess
    <3>2. textEnd - 1 \in -1 .. MESSAGE_CUTOFF_LENGTH /\ textEnd - 1 < MESSAGE_CUTOFF_LENGTH
      BY <2>2
    <3> QED BY <2>1, <3>1, <3>2
  <2>4. TextOnScreen' /\ NumberOnScreen' /\ CopyUntorn'
    BY <2>1, <2>3, ShowKeeps DEF EditorInv, TextOnScreen, NumberOnScreen
  <2>5. EditorTypes'
    BY <2>1, <2>3, ShowKeeps DEF EditorInv, EditorTypes, EditorTypeOK
  <2> QED BY <2>4, <2>5 DEF EditorInv
<1>2. CASE eraseDigit
  <2> DEFINE pos == newMessageNumberPos
  <2>1. /\ curState = "WRITE_NUMBER" /\ curState' = "WRITE_NUMBER" /\ lcd_set_new_buffer
        /\ pos >= 0 /\ pos' = pos - 1 /\ lastButton' = BUTTON_STAR
        /\ screenBuffer' = [screenBuffer EXCEPT ![pos] = EMPTY]
        /\ UNCHANGED <<content, textEnd, numberFromTo, numOfTimes, shownText>>
    BY <1>2 DEF eraseDigit, Key, Show
  <2>2. /\ Typed(screenBuffer, numberFromTo, pos) /\ pos \in 0 .. NUMBER_DIGTS - 1
        /\ Typed(shownText, content, textEnd) /\ textEnd < MESSAGE_CUTOFF_LENGTH
        /\ \A k \in 0 .. pos : numberFromTo[k] # EMPTY
        /\ screenBuffer \in [Cells -> SignPairs] /\ NUMBER_DIGTS \in 1 .. TEXT_AREA
    BY <2>1, EditorConstants DEF EditorInv, NumberOnScreen, EditorTypes, EditorTypeOK
  <2>3. /\ Typed(screenBuffer', numberFromTo', pos') /\ screenBuffer' \in [Cells -> SignPairs]
        /\ pos' \in -1 .. NUMBER_DIGTS - 1 /\ \A k \in 0 .. pos' : k \in 0 .. pos
    <3>1. /\ Typed([screenBuffer EXCEPT ![pos] = EMPTY], numberFromTo, pos - 1)
          /\ [screenBuffer EXCEPT ![pos] = EMPTY] \in [Cells -> SignPairs]
      BY <2>2, TypedLess
    <3>2. pos - 1 \in -1 .. NUMBER_DIGTS - 1 /\ \A k \in 0 .. pos - 1 : k \in 0 .. pos
      BY <2>2
    <3> QED BY <2>1, <3>1, <3>2
  <2>4. TextOnScreen' /\ NumberOnScreen' /\ CopyUntorn'
    BY <2>1, <2>2, <2>3, ShowKeeps DEF EditorInv, TextOnScreen, NumberOnScreen
  <2>5. EditorTypes'
    BY <2>1, <2>3, ShowKeeps DEF EditorInv, EditorTypes, EditorTypeOK
  <2> QED BY <2>4, <2>5 DEF EditorInv
<1> QED BY <1>1, <1>2

LEMMA EditorStep == EditorInv /\ [EditorNext]_editorVars => EditorInv'
<1> SUFFICES ASSUME EditorInv, [EditorNext]_editorVars PROVE EditorInv'
  OBVIOUS
<1>1. CASE EditorNext
  BY <1>1, DisplayKeeps, OtherKeeps, NewKeeps, LetterKeeps, DigitKeeps, EraseKeeps, Zenon
  DEF EditorNext
<1>2. CASE UNCHANGED editorVars
  BY <1>2
  DEF editorVars, toSend, lcd, EditorInv, EditorTypes, EditorTypeOK, TextOnScreen, NumberOnScreen,
      CopyUntorn, DisplayWhole, Typed
<1> QED BY <1>1, <1>2

-----------------------------------------------------------------------------
(***************************************************************************)
(* The theorems.                                                           *)
(***************************************************************************)
\* What a key does with the text, the number and the screen is in the invariant's range: no
\* letter or digit is written outside the message, the number or the screen.
THEOREM EditorInvCorrect == EditorSpec => []EditorInv
BY EditorStart, EditorStep, PTL DEF EditorSpec

\* The glass shows no torn frame, and is older than the last screen only when that one was
\* refused.
THEOREM DisplayStaysWhole == EditorSpec => []DisplayWhole
<1>1. EditorInv => DisplayWhole
  BY DEF EditorInv, CopyUntorn
<1> QED BY <1>1, EditorInvCorrect, PTL

LEMMA SendSendsShown ==
  ASSUME EditorInv, Send
  PROVE  /\ \A k \in Cells : shownText[k] = IF k < textEnd' THEN content'[k] ELSE EMPTY
         /\ \A k \in DOMAIN numberFromTo :
              numberFromTo'[k] = IF screenBuffer[k] = EMPTY THEN NULL_DIGIT ELSE screenBuffer[k]
<1>1. /\ curState = "WRITE_NUMBER" /\ textEnd' = textEnd + 1 /\ content' = content
      /\ numberFromTo' = [k \in DOMAIN numberFromTo |->
                             IF k > newMessageNumberPos THEN NULL_DIGIT ELSE numberFromTo[k]]
  BY DEF Send, Key, NumberToSend
<1>2. /\ Typed(shownText, content, textEnd) /\ Typed(screenBuffer, numberFromTo, newMessageNumberPos)
      /\ \A k \in 0 .. newMessageNumberPos : numberFromTo[k] # EMPTY
      /\ newMessageNumberPos \in Int /\ textEnd \in Int
      /\ DOMAIN numberFromTo = Indices(NUMBER_DIGTS)
  BY <1>1 DEF EditorInv, NumberOnScreen, EditorTypes, EditorTypeOK
<1>3. \A k \in Cells : shownText[k] = IF k < textEnd' THEN content'[k] ELSE EMPTY
  <2>1. \A k \in Cells : (k < textEnd + 1) <=> k <= textEnd
    BY <1>2 DEF Cells
  <2> QED BY <1>1, <1>2, <2>1 DEF Typed
<1>4. ASSUME NEW k \in DOMAIN numberFromTo
      PROVE  numberFromTo'[k] = IF screenBuffer[k] = EMPTY THEN NULL_DIGIT ELSE screenBuffer[k]
  <2>1. k \in Cells /\ k \in Nat
    BY <1>2, EditorConstants DEF Indices, Cells
  <2>2. CASE k > newMessageNumberPos
    BY <1>1, <1>2, <2>1, <2>2 DEF Typed
  <2>3. CASE k <= newMessageNumberPos
    <3>1. k \in 0 .. newMessageNumberPos
      BY <1>2, <2>1, <2>3
    <3>2. screenBuffer[k] = numberFromTo[k] /\ screenBuffer[k] # EMPTY
      BY <1>2, <2>1, <2>3, <3>1 DEF Typed
    <3> QED BY <1>1, <1>2, <2>1, <2>3, <3>2
  <2> QED BY <1>2, <2>1, <2>2, <2>3
<1> QED BY <1>3, <1>4

LEMMA SendStep ==
  EditorInv /\ [EditorNext]_editorVars =>
    [curState = "WRITE_NUMBER" /\ textEnd' # textEnd =>
       /\ \A k \in Cells :
            shownText[k] = IF k < textEnd' THEN content'[k] ELSE EMPTY
       /\ \A k \in DOMAIN numberFromTo :
            numberFromTo'[k] = IF screenBuffer[k] = EMPTY THEN NULL_DIGIT ELSE screenBuffer[k]
    ]_editorVars
<1> SUFFICES ASSUME EditorInv, EditorNext, curState = "WRITE_NUMBER", textEnd' # textEnd
             PROVE  Send
  BY SendSendsShown
<1> QED
  BY DEF EditorNext, ShowOther, createNewMessage, createNewMessageNumber, writeLetter, writeDigit,
         eraseLetter, eraseDigit, Cancel, CopyEnds, lcd_done, Key, toSend

\* Send sends the letters and the digits that were on the screen when OK was pressed.
THEOREM SentIsShown == EditorSpec => SentAsShown
BY SendStep, EditorInvCorrect, PTL DEF EditorSpec, SentAsShown

-----------------------------------------------------------------------------
(***************************************************************************)
(* MessageList: the inductive invariant.                                   *)
(***************************************************************************)
Idle == pc \in {"draw", "wait", "handle"}

\* What ListTypeOK rests on: the cursor is on a message, and the place of a message that is
\* being added or taken away is in the list.
Bounds ==
  /\ IF Idle THEN currentMessage < size \/ currentMessage = 0 ELSE currentMessage <= size
  /\ pc = "draw" => i \in 0 .. LCD_NUM_LINES - 1
  /\ pc = "shift" => i \in 0 .. size /\ size < MAX_MESSAGES + 1
  /\ pc = "count" => size < MAX_MESSAGES
  /\ listState = "SHOW" => size > 0
  /\ ~Idle \/ pc = "draw" => listState = "LIST"

\* Every message added is in kept once at most.
KeptOnce ==
  /\ kept \in Seq(1 .. added)
  /\ \A j, k \in 1 .. Len(kept) : kept[j] = kept[k] => j = k

\* The list is kept, but for the place that a deletion is moving down, and the message that
\* the thread has not counted yet.
ListHasKept ==
  ~disturbed =>
    /\ Len(kept) = IF pc = "count" THEN size + 1 ELSE size
    /\ pc = "shift" => currentMessage <= i
    /\ \A n \in 1 .. Len(kept) :
         kept[n] = messages[IF pc = "shift" /\ n > i THEN n ELSE n - 1]

\* A line of the list is what DrawLine makes of it.
LineDrawn(r) ==
  lines[r] = IF r < size THEN ListLine((topMessage + r) % size) ELSE emptyLine

\* The screen is the state's, or a message has arrived and the thread will draw it again.
ScreenDrawn ==
  /\ pc = "draw" => (size > 0 /\ wake) \/ \A r \in Rows : r < i => LineDrawn(r)
  /\ pc \in {"wait", "handle"} =>
       /\ menu = menuLine(listState)
       /\ listState = "LIST" =>
            (size > 0 /\ (wake \/ pc = "handle")) \/ \A r \in Rows : LineDrawn(r)
       /\ listState = "SHOW" => lines = MessageShown
       /\ listState \in {"TEXT", "NUMBER"} => lines = EmptyScreen

ListInv == ListTypeOK /\ Bounds /\ KeptOnce /\ ListHasKept /\ ScreenDrawn

-----------------------------------------------------------------------------
(***************************************************************************)
(* Drawing.                                                                *)
(***************************************************************************)
LEMMA ListConstants ==
  /\ MAX_MESSAGES \in 1 .. 100 /\ MaxListed \in Nat
  /\ Listed \in [1 .. MaxListed + 1 -> MessageType]
  /\ LCD_NUM_LINES \in Nat /\ LCD_NUM_LINES > 2 /\ ShownDigits \in Nat /\ ShownDigits > 0
  /\ LCD_LINE_LENGTH = ShownDigits + 4 /\ LCD_LINE_LENGTH \in Nat
  /\ StampDigits \in Nat /\ StampDigits <= LCD_LINE_LENGTH
BY ListAssumption, ScreenAssumption DEF LCD_LINE_LENGTH

\* What stands for a char on the display, and how that is read.
LEMMA Glyphs ==
  ASSUME NEW ch
  PROVE  /\ tebahpla(ch) \in 0 .. 127
         /\ ch \in Signs => tebahpla(ch) # NULL_CHAR
         /\ ch \in Signs /\ ch \notin {36, 64, 95} => tebahpla(ch) = ch
         /\ tebahpla(36) = 2 /\ tebahpla(64) = 0 /\ tebahpla(95) = 17
<1>1. tebahpla(36) = 2 /\ tebahpla(64) = 0 /\ tebahpla(95) = 17
  <2>1. 36 # 64 /\ 36 # 95 /\ 64 # 95 /\ 95 \notin 32 .. 90 \cup 97 .. 122
    OBVIOUS
  <2> QED BY <2>1, Zenon DEF tebahpla
<1>2. CASE ch \in {36, 64, 95}
  BY <1>1, <1>2 DEF NULL_CHAR
<1>3. CASE ch \notin {36, 64, 95} /\ ch \in 32 .. 90 \cup 97 .. 122
  <2>1. tebahpla(ch) = ch
    BY <1>3, Zenon DEF tebahpla
  <2>2. ch \in 0 .. 127 /\ ch # 127
    BY <1>3
  <2> QED BY <1>1, <1>3, <2>1, <2>2 DEF NULL_CHAR
<1>4. CASE ch \notin {36, 64, 95} /\ ch \notin 32 .. 90 \cup 97 .. 122
  <2>1. tebahpla(ch) = NULL_CHAR
    BY <1>4, Zenon DEF tebahpla
  <2> QED BY <1>1, <1>4, <2>1 DEF NULL_CHAR, Signs
<1> QED BY <1>2, <1>3, <1>4

LEMMA CellsAre ==
  ASSUME NEW ch, NEW selected \in BOOLEAN
  PROVE  /\ getCHAR(ch, selected) \in CHARACTER
         /\ getCHAR(ch, selected).selcted = selected
         /\ ch \in Signs => Read(getCHAR(ch, selected)) = ch
<1>1. getCHAR(ch, selected) \in CHARACTER /\ getCHAR(ch, selected).selcted = selected
      /\ getCHAR(ch, selected).gsm7 = tebahpla(ch)
  BY Glyphs DEF getCHAR, CHARACTER
<1>2. ASSUME ch \in Signs PROVE Read(getCHAR(ch, selected)) = ch
  <2>1. CASE ch = 36
    <3>1. getCHAR(ch, selected).gsm7 = 2 /\ 2 # 0 /\ 2 # 17
      BY <1>1, <2>1, Glyphs
    <3> QED BY <2>1, <3>1, Zenon DEF Read
  <2>2. CASE ch = 64
    <3>1. getCHAR(ch, selected).gsm7 = 0 /\ 0 # 2 /\ 0 # 17
      BY <1>1, <2>2, Glyphs
    <3> QED BY <2>2, <3>1, Zenon DEF Read
  <2>3. CASE ch = 95
    <3>1. getCHAR(ch, selected).gsm7 = 17 /\ 17 # 2 /\ 17 # 0
      BY <1>1, <2>3, Glyphs
    <3> QED BY <2>3, <3>1, Zenon DEF Read
  <2>4. CASE ch \notin {36, 64, 95}
    <3>1. tebahpla(ch) = ch /\ tebahpla(ch) # NULL_CHAR
      BY <1>2, <2>4, Glyphs
    <3>2. ch \in 32 .. 90 \cup 97 .. 122
      <4> SUFFICES ASSUME ch \notin 32 .. 90 \cup 97 .. 122 PROVE FALSE
        OBVIOUS
      <4>1. tebahpla(ch) = NULL_CHAR
        BY <2>4, Zenon DEF tebahpla
      <4> QED BY <3>1, <4>1
    <3>3. ch # 0 /\ ch # 2 /\ ch # 17
      BY <3>2
    <3> QED BY <1>1, <3>1, <3>3, Zenon DEF Read
  <2> QED BY <2>1, <2>2, <2>3, <2>4
<1> QED BY <1>1, <1>2

\* Digits and the kinds of messages are signs.
LEMMA SignsAre ==
  /\ Space \in Signs /\ Incoming \in Signs /\ Outgoing \in Signs
  /\ \A n \in 0 .. 9 : Digit(n) \in Signs
  /\ EndOfNumber \notin Signs
<1>1. ASSUME NEW ch \in 32 .. 90, ch # 36, ch # 64 PROVE ch \in Signs
  <2>1. ch \notin {36, 64, 95} /\ ch \in 32 .. 90 \cup 97 .. 122 /\ ch \in 0 .. 126 /\ ch # 127
    BY <1>1
  <2>2. tebahpla(ch) = ch
    BY <2>1, Zenon DEF tebahpla
  <2> QED BY <2>1, <2>2 DEF Signs, NULL_CHAR
<1>2. EndOfNumber \notin Signs
  <2>1. 0 \notin {36, 64, 95} /\ 0 \notin 32 .. 90 \cup 97 .. 122
    OBVIOUS
  <2>2. tebahpla(0) = NULL_CHAR
    BY <2>1, Zenon DEF tebahpla
  <2> QED BY <2>2 DEF Signs, EndOfNumber
<1> QED BY <1>1, <1>2 DEF Space, Incoming, Outgoing, Digit

\* Every line drawn is a line.
LEMMA LinesAre ==
  ASSUME NEW n, NEW message, NEW selected \in BOOLEAN
  PROVE  /\ emptyLine \in [Columns -> CHARACTER]
         /\ getMessage(n, message, selected) \in [Columns -> CHARACTER]
         /\ MessageScreen(message) \in [Rows -> [Columns -> CHARACTER]]
<1>1. \A ch : /\ getCHAR(ch, selected) \in CHARACTER /\ getCHAR(ch, TRUE) \in CHARACTER
              /\ getCHAR(ch, FALSE) \in CHARACTER
  BY CellsAre
<1>2. emptyLine \in [Columns -> CHARACTER]
  BY <1>1 DEF emptyLine, EmptyCell
<1>3. \A s \in BOOLEAN : \A c \in 0 .. ShownDigits - 1 : drawNum(message, s)[c] \in CHARACTER
  BY CellsAre DEF drawNum
<1>4. ASSUME NEW c \in Columns PROVE getMessage(n, message, selected)[c] \in CHARACTER
  <2>1. c - 3 \in 0 .. ShownDigits - 1 \/ ~(c \in 3 .. ShownDigits + 2)
    BY ListConstants DEF Columns
  <2>2. /\ c = 0 => c # 1 /\ c # 2 /\ c \notin 3 .. ShownDigits + 2
        /\ c = 1 => c # 0 /\ c # 2 /\ c \notin 3 .. ShownDigits + 2
        /\ c = 2 => c # 0 /\ c # 1 /\ c \notin 3 .. ShownDigits + 2
        /\ c \in 3 .. ShownDigits + 2 => c # 0 /\ c # 1 /\ c # 2
    OBVIOUS
  <2>3. CASE c \in {0, 1, 2}
    BY <1>1, <2>2, <2>3, Zenon DEF getMessage
  <2>4. CASE c \in 3 .. ShownDigits + 2
    <3>1. getMessage(n, message, selected)[c] = drawNum(message, selected)[c - 3]
      BY <2>2, <2>4, Zenon DEF getMessage
    <3> QED BY <1>3, <2>1, <2>4, <3>1
  <2>5. CASE c \notin {0, 1, 2} /\ c \notin 3 .. ShownDigits + 2
    <3>1. getMessage(n, message, selected)[c] = getCHAR(message.inOrOut, selected)
      BY <2>5, Zenon DEF getMessage
    <3> QED BY <1>1, <3>1
  <2> QED BY <2>3, <2>4, <2>5
<1>5. getMessage(n, message, selected) \in [Columns -> CHARACTER]
  BY <1>4 DEF getMessage
<1>6. SourceLine(message) \in [Columns -> CHARACTER]
  <2>1. \A c \in Columns : c < ShownDigits => c \in 0 .. ShownDigits - 1
    BY ListConstants DEF Columns
  <2> QED BY <1>1, <1>3, <2>1 DEF SourceLine
<1>7. TimeLine(message) \in [Columns -> CHARACTER]
  BY <1>1 DEF TimeLine, EmptyCell
<1>8. \A k : ContentCell(message, k) \in CHARACTER
  BY <1>1, Zenon DEF ContentCell, EmptyCell
<1>9. ASSUME NEW r \in Rows PROVE MessageScreen(message)[r] \in [Columns -> CHARACTER]
  <2>1. CASE r = 0
    <3>1. MessageScreen(message)[r] = SourceLine(message)
      <4>1. 0 # 1
        OBVIOUS
      <4> QED BY <2>1, <4>1, Zenon DEF MessageScreen
    <3> QED BY <1>6, <3>1
  <2>2. CASE r = 1
    <3>1. MessageScreen(message)[r] = TimeLine(message)
      <4>1. 1 # 0
        OBVIOUS
      <4> QED BY <2>2, <4>1, Zenon DEF MessageScreen
    <3> QED BY <1>7, <3>1
  <2>3. CASE r # 0 /\ r # 1
    <3>1. MessageScreen(message)[r] =
            [c \in Columns |-> ContentCell(message, (r - 2) * LCD_LINE_LENGTH + c)]
      BY <2>3, Zenon DEF MessageScreen
    <3> QED BY <1>8, <3>1
  <2> QED BY <2>1, <2>2, <2>3
<1>10. MessageScreen(message) \in [Rows -> [Columns -> CHARACTER]]
  BY <1>9 DEF MessageScreen
<1> QED BY <1>2, <1>5, <1>10

-----------------------------------------------------------------------------
(***************************************************************************)
(* Reading what was drawn.                                                 *)
(***************************************************************************)
\* The least number with a property, as a set of numbers with an element.
LEMMA LeastOf ==
  ASSUME NEW S, S \subseteq Nat, S # {}
  PROVE  \E k \in S : \A j \in S : k <= j
<1> DEFINE Less == {ss \in Nat \X Nat : ss[1] < ss[2]}
<1>1. IsWellFoundedOn(Less, Nat)
  BY NatLessThanWellFounded, Zenon DEF OpToRel
<1> HIDE DEF Less
<1>2. PICK k \in S : \A y \in S : ~ (<<y, k>> \in Less)
  BY <1>1, WFMin
<1>3. \A y \in S : ~(y < k)
  BY <1>2 DEF Less
<1> QED BY <1>3

\* No char of the number is a space, which would look like its end.
PlainNumber(message) == \A k \in 0 .. ShownDigits - 1 : message.numberFromTo[k] # Space

\* A number is read as it is, where it was drawn.
LEMMA NumberReads ==
  ASSUME NEW message \in MessageType, PlainNumber(message), NEW selected \in BOOLEAN,
         NEW line, NEW from \in Nat,
         \A k \in 0 .. ShownDigits - 1 : line[from + k] = drawNum(message, selected)[k]
  PROVE  NumberRead(line, from) = NumberOf(message)
<1> DEFINE number == message.numberFromTo
           D == ShownDigits
           Looks(k) == (k = D \/ Read(line[from + k]) = Space)
                         /\ \A j \in 0 .. k - 1 : ~(Read(line[from + j]) = Space)
           Is(k) == (k = D \/ number[k] = EndOfNumber)
                      /\ \A j \in 0 .. k - 1 : ~(number[j] = EndOfNumber)
           nLooks == CHOOSE k \in 0 .. D : Looks(k)
           nIs == CHOOSE k \in 0 .. D : Is(k)
<1>1. D \in Nat /\ \A k \in 0 .. D - 1 : number[k] \in Signs \/ number[k] = EndOfNumber
  BY ListConstants DEF MessageType
<1>2. \A k \in 0 .. D - 1 :
        Read(line[from + k]) = IF \E j \in 0 .. k : number[j] = EndOfNumber THEN Space ELSE number[k]
  <2> TAKE k \in 0 .. D - 1
  <2>1. line[from + k] = getCHAR(IF \E j \in 0 .. k : number[j] = EndOfNumber
                                   THEN Space ELSE number[k], selected)
    BY DEF drawNum
  <2>2. (\E j \in 0 .. k : number[j] = EndOfNumber) \/ number[k] \in Signs
    BY <1>1
  <2> QED BY <2>1, <2>2, CellsAre, SignsAre
<1>3. \A k \in 0 .. D - 1 :
        Read(line[from + k]) = Space <=> \E j \in 0 .. k : number[j] = EndOfNumber
  BY <1>2 DEF PlainNumber
<1>4. \A k \in 0 .. D : Looks(k) <=> Is(k)
  <2> TAKE k \in 0 .. D
  <2>1. \A j \in 0 .. k - 1 : j \in 0 .. D - 1 /\ \A m \in 0 .. j : m \in 0 .. k - 1
    BY <1>1
  <2>2. (\A j \in 0 .. k - 1 : ~(Read(line[from + j]) = Space))
          <=> \A j \in 0 .. k - 1 : ~(number[j] = EndOfNumber)
    <3>1. \A j \in 0 .. k - 1 : j \in 0 .. j
      OBVIOUS
    <3> QED BY <1>3, <2>1, <3>1, Zenon
  <2>3. ASSUME k # D, \A j \in 0 .. k - 1 : ~(number[j] = EndOfNumber)
        PROVE  Read(line[from + k]) = Space <=> number[k] = EndOfNumber
    <3>1. k \in 0 .. D - 1 /\ \A j \in 0 .. k : j = k \/ j \in 0 .. k - 1
      BY <1>1, <2>3
    <3> QED BY <1>3, <2>3, <3>1
  <2> QED BY <2>2, <2>3, Zenon
<1>5. nLooks = nIs
  <2> HIDE DEF Looks, Is
  <2> QED BY <1>4, Zenon
<1>6. \E k \in 0 .. D : Is(k)
  <2> DEFINE S == {k \in 0 .. D : k = D \/ number[k] = EndOfNumber}
  <2>1. S \subseteq Nat /\ D \in S
    BY <1>1
  <2>2. PICK k \in S : \A j \in S : k <= j
    <3> HIDE DEF S
    <3> QED BY <2>1, LeastOf
  <2>3. \A j \in 0 .. k - 1 : j \in 0 .. D /\ ~(k <= j)
    BY <2>1
  <2> QED BY <2>2, <2>3
<1>7. nIs \in 0 .. D /\ Is(nIs)
  <2> HIDE DEF Is
  <2> QED BY <1>6, Zenon
<1>8. NumberRead(line, from) = [k \in 0 .. nLooks - 1 |-> Read(line[from + k])]
  BY DEF NumberRead, Upto
<1>9. NumberOf(message) = [k \in 0 .. nIs - 1 |-> number[k]]
  BY DEF NumberOf, Upto
<1> HIDE DEF nIs, nLooks
<1>10. \A k \in 0 .. nIs - 1 : Read(line[from + k]) = number[k]
  <2> TAKE k \in 0 .. nIs - 1
  <2>1. k \in 0 .. D - 1 /\ \A j \in 0 .. k : j \in 0 .. nIs - 1
    BY <1>1, <1>7
  <2> QED BY <1>2, <1>7, <2>1
<1> QED BY <1>5, <1>8, <1>9, <1>10, Zenon

\* The parts of a line of the list.
LaidOut(line, n, message, selected) ==
  /\ line[0] = getCHAR(Digit(n \div 10), selected)
  /\ line[1] = getCHAR(Digit(n % 10), selected)
  /\ line[2] = getCHAR(Space, selected)
  /\ \A k \in 0 .. ShownDigits - 1 : line[3 + k] = drawNum(message, selected)[k]
  /\ line[LCD_LINE_LENGTH - 1] = getCHAR(message.inOrOut, selected)
  /\ 0 \in Columns
  /\ \A c \in Columns : c \in {0, 1, 2, LCD_LINE_LENGTH - 1} \/ c - 3 \in 0 .. ShownDigits - 1

LEMMA EntryCells ==
  ASSUME NEW n, NEW message, NEW selected, NEW line, line = getMessage(n, message, selected)
  PROVE  LaidOut(line, n, message, selected)
<1>1. /\ {0, 1, 2, LCD_LINE_LENGTH - 1} \subseteq Columns
      /\ LCD_LINE_LENGTH - 1 \notin {0, 1, 2} /\ LCD_LINE_LENGTH - 1 \notin 3 .. ShownDigits + 2
      /\ \A k \in 0 .. ShownDigits - 1 :
           3 + k \in Columns /\ 3 + k \in 3 .. ShownDigits + 2 /\ 3 + k - 3 = k
      /\ \A c \in Columns : c \in {0, 1, 2, LCD_LINE_LENGTH - 1} \/ c - 3 \in 0 .. ShownDigits - 1
  BY ListConstants DEF Columns
<1>2. \A c \in 3 .. ShownDigits + 2 : c # 0 /\ c # 1 /\ c # 2
  OBVIOUS
<1>3. 0 # 1 /\ 0 # 2 /\ 1 # 2 /\ \A c \in {0, 1, 2} : c \notin 3 .. ShownDigits + 2
  OBVIOUS
<1>4. line[0] = getCHAR(Digit(n \div 10), selected)
  BY <1>1, <1>3, Zenon DEF getMessage
<1>5. line[1] = getCHAR(Digit(n % 10), selected)
  BY <1>1, <1>3, Zenon DEF getMessage
<1>6. line[2] = getCHAR(Space, selected)
  BY <1>1, <1>3, Zenon DEF getMessage
<1>7. \A c \in Columns : c \in 3 .. ShownDigits + 2 => line[c] = drawNum(message, selected)[c - 3]
  BY <1>2, Zenon DEF getMessage
<1>8. \A k \in 0 .. ShownDigits - 1 : line[3 + k] = drawNum(message, selected)[k]
  BY <1>1, <1>7
<1>9. line[LCD_LINE_LENGTH - 1] = getCHAR(message.inOrOut, selected)
  BY <1>1, Zenon DEF getMessage
<1>10. 0 \in Columns
  BY <1>1
<1> QED BY <1>1, <1>4, <1>5, <1>6, <1>8, <1>9, <1>10, Zenon DEF LaidOut

\* A line of the list says which message it is.
LEMMA EntryReads ==
  ASSUME NEW n \in 0 .. 99, NEW message \in MessageType, PlainNumber(message),
         NEW selected \in BOOLEAN, NEW line, line = getMessage(n, message, selected)
  PROVE  SaysEntry(line, n, message, selected)
<1>1. /\ line[0] = getCHAR(Digit(n \div 10), selected)
      /\ line[1] = getCHAR(Digit(n % 10), selected)
      /\ line[2] = getCHAR(Space, selected)
      /\ \A k \in 0 .. ShownDigits - 1 : line[3 + k] = drawNum(message, selected)[k]
      /\ line[LCD_LINE_LENGTH - 1] = getCHAR(message.inOrOut, selected)
      /\ 0 \in Columns
      /\ \A c \in Columns : c \in {0, 1, 2, LCD_LINE_LENGTH - 1} \/ c - 3 \in 0 .. ShownDigits - 1
  <2>1. LaidOut(line, n, message, selected)
    BY EntryCells
  <2> QED BY <2>1, Zenon DEF LaidOut
<1>2. n \div 10 \in 0 .. 9 /\ n % 10 \in 0 .. 9 /\ n = 10 * (n \div 10) + (n % 10)
  OBVIOUS
<1>3. Read(line[0]) = Digit(n \div 10) /\ Read(line[1]) = Digit(n % 10)
  BY <1>1, <1>2, CellsAre, SignsAre
<1>4. 10 * (Read(line[0]) - Digit(0)) + Read(line[1]) - Digit(0) = n
  BY <1>2, <1>3 DEF Digit
<1>5. NumberRead(line, 3) = NumberOf(message)
  BY <1>1, NumberReads
<1>6. Read(line[LCD_LINE_LENGTH - 1]) = message.inOrOut
  BY <1>1, CellsAre, SignsAre DEF MessageType
<1>7. \A c \in Columns : line[c].selcted = selected
  <2> TAKE c \in Columns
  <2>1. CASE c \in {0, 1, 2, LCD_LINE_LENGTH - 1}
    BY <1>1, <2>1, CellsAre
  <2>2. CASE c - 3 \in 0 .. ShownDigits - 1
    <3>1. c = 3 + (c - 3)
      BY ListConstants DEF Columns
    <3>2. line[c] = drawNum(message, selected)[c - 3]
      BY <1>1, <2>2, <3>1
    <3>3. drawNum(message, selected)[c - 3].selcted = selected
      BY <2>2, CellsAre DEF drawNum
    <3> QED BY <3>2, <3>3
  <2> QED BY <1>1, <2>1, <2>2
<1>8. IF selected THEN Highlighted(line) ELSE Plain(line)
  BY <1>7 DEF Highlighted, Plain
<1> QED BY <1>4, <1>5, <1>6, <1>8 DEF SaysEntry

\* Where a letter of the text stands.
LEMMA RowAndColumn ==
  ASSUME NEW L \in Nat \ {0}, NEW M \in Nat, NEW k \in 0 .. M * L - 1
  PROVE  /\ k \div L \in 0 .. M - 1 /\ k % L \in 0 .. L - 1
         /\ (k \div L) * L + (k % L) = k
<1>1. k \in Nat /\ k \div L \in Int /\ k % L \in 0 .. L - 1 /\ k = L * (k \div L) + (k % L)
  OBVIOUS
<1>2. \A q, r \in Int : k = L * q + r /\ r \in 0 .. L - 1 => q \in 0 .. M - 1
  <2> SUFFICES ASSUME NEW q \in Int, NEW r \in Int, k = L * q + r, r \in 0 .. L - 1
               PROVE  q >= 0 /\ q < M
    OBVIOUS
  <2>1. q >= 0
    <3> SUFFICES ASSUME q <= -1 PROVE FALSE
      OBVIOUS
    <3>1. L * q <= -L
      BY Z3
    <3> QED BY <1>1, <3>1
  <2>2. q < M
    <3> SUFFICES ASSUME q >= M PROVE FALSE
      OBVIOUS
    <3>1. L * q >= M * L
      BY Z3
    <3> QED BY <1>1, <3>1
  <2> QED BY <2>1, <2>2
<1>3. (k \div L) * L + (k % L) = k
  BY <1>1
<1> QED BY <1>1, <1>2, <1>3

\* The screen of a message says what the message is.
LEMMA MessageReads ==
  ASSUME NEW message \in MessageType, PlainNumber(message)
  PROVE  SaysMessage(MessageScreen(message), message)
<1> DEFINE screen == MessageScreen(message)
           Text(r) == [c \in Columns |-> ContentCell(message, (r - 2) * LCD_LINE_LENGTH + c)]
<1>1. /\ 0 \in Rows /\ 1 \in Rows /\ 0 # 1 /\ 0 \in Columns
      /\ \A k \in 0 .. ShownDigits - 1 : 0 + k \in Columns /\ k < ShownDigits /\ 0 + k = k
      /\ \A k \in 0 .. StampDigits - 1 : k \in Columns /\ k < StampDigits
      /\ \A c \in Columns : c < ShownDigits => c \in 0 .. ShownDigits - 1
  BY ListConstants DEF Rows, Columns
<1>2. screen[0] = SourceLine(message)
  BY <1>1, Zenon DEF MessageScreen
<1>3. screen[1] = TimeLine(message)
  BY <1>1, Zenon DEF MessageScreen
<1>4. \A r \in Rows : r # 0 /\ r # 1 => screen[r] = Text(r)
  BY Zenon DEF MessageScreen
<1> HIDE DEF screen
<1>5. Highlighted(screen[0])
  <2>1. \A c \in 0 .. ShownDigits - 1 : drawNum(message, TRUE)[c].selcted
    BY CellsAre DEF drawNum
  <2> QED BY <1>1, <1>2, <2>1, CellsAre DEF Highlighted, SourceLine
<1>6. NumberRead(screen[0], 0) = NumberOf(message)
  <2>1. \A k \in 0 .. ShownDigits - 1 : screen[0][0 + k] = drawNum(message, TRUE)[k]
    BY <1>1, <1>2 DEF SourceLine
  <2> QED BY <2>1, NumberReads
<1>7. /\ Highlighted(screen[1]) <=> message.inOrOut = Incoming
      /\ Highlighted(screen[1]) => \A k \in DOMAIN message.timeStamp :
                                     Read(screen[1][k]) = message.timeStamp[k]
  <2>1. CASE message.inOrOut = Incoming
    <3>1. \A c \in Columns : screen[1][c] =
            getCHAR(IF c < StampDigits THEN message.timeStamp[c] ELSE Space, TRUE)
      BY <1>3, <2>1 DEF TimeLine
    <3>2. Highlighted(screen[1])
      BY <3>1, CellsAre DEF Highlighted
    <3>3. \A k \in 0 .. StampDigits - 1 : Read(screen[1][k]) = message.timeStamp[k]
      BY <1>1, <3>1, CellsAre DEF MessageType
    <3> QED BY <2>1, <3>2, <3>3 DEF MessageType
  <2>2. CASE message.inOrOut # Incoming
    <3>1. screen[1][0] = EmptyCell
      BY <1>1, <1>3, <2>2 DEF TimeLine
    <3> QED BY <1>1, <2>2, <3>1, CellsAre DEF Highlighted, EmptyCell
  <2> QED BY <2>1, <2>2
<1>8. \A k : ContentCell(message, k).selcted = FALSE
  BY CellsAre DEF ContentCell, EmptyCell
<1>9. \A r \in Rows \ {0, 1} : Plain(screen[r])
  <2> SUFFICES ASSUME NEW r \in Rows \ {0, 1}, NEW c \in Columns PROVE ~screen[r][c].selcted
    BY DEF Plain
  <2>1. screen[r][c] = ContentCell(message, (r - 2) * LCD_LINE_LENGTH + c)
    BY <1>4
  <2> HIDE DEF Text
  <2> QED BY <1>8, <2>1, Zenon
<1>10. \A k \in 0 .. TextArea - 1 :
         LET cell == screen[2 + k \div LCD_LINE_LENGTH][k % LCD_LINE_LENGTH]
         IN IF k >= message.size THEN Read(cell) = Space
            ELSE message.content[k] \in Signs => Read(cell) = message.content[k]
  <2> TAKE k \in 0 .. TextArea - 1
  <2> DEFINE r == 2 + k \div LCD_LINE_LENGTH
             c == k % LCD_LINE_LENGTH
  <2>1. LCD_LINE_LENGTH \in Nat \ {0} /\ LCD_NUM_LINES - 3 \in Nat
        /\ k \in 0 .. (LCD_NUM_LINES - 3) * LCD_LINE_LENGTH - 1 /\ k \in Nat
    BY ListConstants DEF TextArea
  <2>2. /\ k \div LCD_LINE_LENGTH \in 0 .. (LCD_NUM_LINES - 3) - 1
        /\ k % LCD_LINE_LENGTH \in 0 .. LCD_LINE_LENGTH - 1
        /\ (k \div LCD_LINE_LENGTH) * LCD_LINE_LENGTH + (k % LCD_LINE_LENGTH) = k
    BY <2>1, RowAndColumn, Zenon
  <2>3. r \in Rows /\ r # 0 /\ r # 1 /\ r - 2 = k \div LCD_LINE_LENGTH
    <3>1. \A q \in Int : q \in 0 .. (LCD_NUM_LINES - 3) - 1 =>
            2 + q \in 0 .. LCD_NUM_LINES - 2 /\ 2 + q # 0 /\ 2 + q # 1 /\ 2 + q - 2 = q
      BY <2>1, ListConstants
    <3> QED BY <2>2, <3>1 DEF Rows
  <2>4. c \in Columns /\ (r - 2) * LCD_LINE_LENGTH + c = k
    BY <2>2, <2>3 DEF Columns
  <2> HIDE DEF r, c
  <2>5. screen[r][c] = ContentCell(message, k)
    BY <1>4, <2>3, <2>4
  <2>6. message.size \in Nat
    BY <2>1 DEF MessageType, TextArea
  <2>7. IF k >= message.size THEN Read(screen[r][c]) = Space
        ELSE message.content[k] \in Signs => Read(screen[r][c]) = message.content[k]
    <3>1. CASE k >= message.size
      <4>1. ~(k < message.size)
        BY <2>1, <2>6, <3>1
      <4>2. screen[r][c] = getCHAR(Space, FALSE)
        BY <2>5, <4>1 DEF ContentCell, EmptyCell
      <4> QED BY <3>1, <4>2, CellsAre, SignsAre
    <3>2. CASE ~(k >= message.size)
      <4>1. k < message.size
        BY <2>1, <2>6, <3>2
      <4>2. screen[r][c] = getCHAR(message.content[k], FALSE)
        BY <2>5, <4>1 DEF ContentCell
      <4> QED BY <3>2, <4>2, CellsAre
    <3> QED BY <3>1, <3>2
  <2> QED BY <2>7 DEF r, c
<1> QED BY <1>5, <1>6, <1>7, <1>9, <1>10 DEF SaysMessage, screen

-----------------------------------------------------------------------------
(***************************************************************************)
(* Types and bounds.                                                       *)
(***************************************************************************)
LEMMA ListStart == ListInit => ListInv
<1> SUFFICES ASSUME ListInit PROVE ListInv
  OBVIOUS
<1> USE DEF ListInit
<1>1. ListTypeOK
  <2>1. lines \in [Rows -> [Columns -> CHARACTER]]
    BY DEF CHARACTER
  <2>2. messages \in [ListPlaces -> 0 .. MaxListed + 1] /\ 0 \in ListPlaces
        /\ 0 \in 0 .. MAX_MESSAGES /\ 0 \in 0 .. MAX_MESSAGES - 1 /\ 0 \in 0 .. MaxListed + 1
    BY ListConstants DEF Blank, ListPlaces
  <2> QED BY <2>1, <2>2 DEF ListTypeOK, Buttons
<1>2. Bounds
  BY ListConstants DEF Bounds, Idle
<1>3. KeptOnce /\ ListHasKept
  BY DEF KeptOnce, ListHasKept
<1>4. ScreenDrawn
  BY DEF ScreenDrawn, Rows
<1> QED BY <1>1, <1>2, <1>3, <1>4 DEF ListInv

\* The bounds as numbers.
LEMMA SizesAre ==
  ASSUME ListTypeOK, Bounds
  PROVE  /\ MAX_MESSAGES \in Nat /\ MAX_MESSAGES > 0 /\ MaxListed \in Nat
         /\ size \in Nat /\ size <= MAX_MESSAGES /\ currentMessage \in Nat
         /\ currentMessage < MAX_MESSAGES /\ topMessage \in Nat
         /\ Idle => currentMessage < size \/ currentMessage = 0
         /\ currentMessage <= size
         /\ Idle /\ size > 0 => currentMessage < size
         /\ i \in Nat
BY ListConstants DEF ListTypeOK, Bounds, ListPlaces, Idle

\* Going round the list stays in it.
LEMMA GoesRound ==
  ASSUME ListTypeOK, Bounds, size > 0
  PROVE  /\ \A k \in Nat : k % size \in 0 .. size - 1 /\ k % size \in 0 .. MAX_MESSAGES - 1
         /\ Up \in 0 .. size - 1 /\ Up \in 0 .. MAX_MESSAGES - 1
<1>1. \A k \in Nat : k % size \in 0 .. size - 1
  BY SizesAre
<1>2. \A r \in 0 .. size - 1 : r \in 0 .. MAX_MESSAGES - 1
  BY SizesAre
<1>3. currentMessage + size - 1 \in Nat
  BY SizesAre
<1> QED BY <1>1, <1>2, <1>3 DEF Up

\* The steps that only draw, read a key, or change the state the keys act in.
LooksOnly == DrawLine \/ DrawEnds \/ Wake \/ StartWriting \/ Open \/ Back \/ Ignore

LEMMA LooksChange ==
  ASSUME ListTypeOK, Bounds, LooksOnly
  PROVE  /\ UNCHANGED <<shown, told>> /\ Idle /\ Idle'
         /\ pc' \in {"draw", "wait", "handle"}
         /\ i' \in ListPlaces \cup 0 .. LCD_NUM_LINES - 1
         /\ pc' = "draw" => i' \in 0 .. LCD_NUM_LINES - 1 /\ listState' = "LIST"
         /\ listState' \in {"LIST", "SHOW", "TEXT", "NUMBER"}
         /\ listState' = "SHOW" => size > 0
         /\ myButton' \in Buttons \cup {"none"} /\ wake' \in BOOLEAN
         /\ lines' \in [Rows -> [Columns -> CHARACTER]]
<1> USE DEF ListTypeOK, Bounds, shown, told, drawn, place, Idle
<1>1. CASE DrawLine
  <2>1. i + 1 \in 0 .. LCD_NUM_LINES - 1
    BY <1>1, ListConstants DEF DrawLine, Rows
  <2>2. lines' \in [Rows -> [Columns -> CHARACTER]]
    <3>1. \A n : ListLine(n) \in [Columns -> CHARACTER]
      BY LinesAre DEF ListLine
    <3>2. emptyLine \in [Columns -> CHARACTER]
      BY LinesAre
    <3> QED BY <1>1, <3>1, <3>2 DEF DrawLine
  <2> QED BY <1>1, <2>1, <2>2 DEF DrawLine
<1>2. CASE DrawEnds
  BY <1>2, ListConstants DEF DrawEnds, ListPlaces
<1>3. CASE Wake
  BY <1>3 DEF Wake
<1>4. CASE StartWriting
  <2>1. EmptyScreen \in [Rows -> [Columns -> CHARACTER]]
    BY LinesAre DEF EmptyScreen
  <2> QED BY <1>4, <2>1 DEF StartWriting, ListKey
<1>5. CASE Open
  <2>1. MessageShown \in [Rows -> [Columns -> CHARACTER]]
    BY LinesAre DEF MessageShown
  <2> QED BY <1>5, <2>1 DEF Open, ListKey
<1>6. CASE Back
  BY <1>6, ListConstants DEF Back, ShowList, ListPlaces
<1>7. CASE Ignore
  BY <1>7 DEF Ignore
<1> QED BY <1>1, <1>2, <1>3, <1>4, <1>5, <1>6, <1>7 DEF LooksOnly

LEMMA LooksBounds ==
  ASSUME ListTypeOK, Bounds, LooksOnly
  PROVE  ListTypeOK' /\ Bounds'
<1>1. ListTypeOK'
  BY LooksChange DEF ListTypeOK, shown, told
<1>2. Bounds'
  BY LooksChange DEF Bounds, shown, Idle
<1> QED BY <1>1, <1>2

LEMMA PressBounds ==
  ASSUME ListTypeOK, Bounds, NEW button \in Buttons, Press(button)
  PROVE  ListTypeOK' /\ Bounds'
BY DEF Press, place, shown, drawn, told, ListTypeOK, Bounds, Idle

LEMMA ArriveBounds ==
  ASSUME ListTypeOK, Bounds, Arrive
  PROVE  ListTypeOK' /\ Bounds'
<1>1. /\ size' = size + 1 /\ size < MAX_MESSAGES /\ (pc = "count" => size < MAX_MESSAGES - 1)
      /\ added < MaxListed /\ added' = added + 1
      /\ messages' = [messages EXCEPT ![size] = added + 1]
      /\ myButton' = "none" /\ wake' = TRUE /\ disturbed' \in BOOLEAN
      /\ UNCHANGED <<pc, i, currentMessage, topMessage, listState, lines>>
  BY ListConstants, SizesAre DEF Arrive, Room, Announced, place, drawn, ListTypeOK
<1>2. /\ size + 1 \in 0 .. MAX_MESSAGES /\ added + 1 \in 0 .. MaxListed + 1 /\ size + 1 > 0
      /\ pc = "count" => size + 1 < MAX_MESSAGES
      /\ size \in ListPlaces
      /\ currentMessage < size => currentMessage < size + 1
      /\ currentMessage = 0 => currentMessage < size + 1
      /\ currentMessage <= size + 1
      /\ i \in 0 .. size => i \in 0 .. size + 1
      /\ size + 1 < MAX_MESSAGES + 1
  BY <1>1, SizesAre DEF ListTypeOK, ListPlaces
<1>3. ListTypeOK'
  BY <1>1, <1>2 DEF ListTypeOK
<1>4. Bounds'
  BY <1>1, <1>2, SizesAre DEF Bounds, Idle
<1> QED BY <1>3, <1>4

LEMMA MoveBounds ==
  ASSUME ListTypeOK, Bounds, Move
  PROVE  ListTypeOK' /\ Bounds'
<1>1. /\ pc = "handle" /\ pc' = "draw" /\ i' = 0 /\ size > 0 /\ listState = "LIST"
      /\ UNCHANGED <<size, messages, listState, myButton, wake, lines, added, disturbed>>
  BY DEF Move, ShowList, drawn, told
<1>2. Idle /\ currentMessage < size /\ currentMessage \in 0 .. size - 1
  BY <1>1, SizesAre DEF Idle
<1>3. /\ Up \in 0 .. size - 1 /\ (currentMessage + 1) % size \in 0 .. size - 1
      /\ Up \in 0 .. MAX_MESSAGES - 1 /\ (topMessage + 1) % size \in 0 .. MAX_MESSAGES - 1
  <2>1. currentMessage + 1 \in Nat /\ topMessage + 1 \in Nat
    BY SizesAre
  <2> QED BY <1>1, <2>1, GoesRound
<1>4. currentMessage' \in 0 .. size - 1
  <2>1. "2" # "8"
    OBVIOUS
  <2> QED BY <1>2, <1>3, <2>1 DEF Move
<1>5. topMessage' \in 0 .. MAX_MESSAGES - 1
  <2> DEFINE up == myButton = "2" /\ currentMessage = topMessage /\ size >= LCD_NUM_LINES
             down == myButton = "8" /\ currentMessage = Bottom /\ size >= LCD_NUM_LINES
  <2>1. topMessage' = CASE up -> Up [] down -> (topMessage + 1) % size [] OTHER -> topMessage
    BY DEF Move
  <2>2. ~(up /\ down)
    OBVIOUS
  <2> HIDE DEF up, down
  <2>3. topMessage' \in {Up, (topMessage + 1) % size, topMessage}
    BY <2>1, <2>2
  <2> QED BY <1>3, <2>3 DEF ListTypeOK
<1>6. currentMessage' \in 0 .. MAX_MESSAGES - 1 /\ 0 \in 0 .. LCD_NUM_LINES - 1
      /\ currentMessage' < size
  <2>1. \A k \in 0 .. size - 1 : k \in 0 .. MAX_MESSAGES - 1 /\ k < size
    BY SizesAre
  <2> QED BY <1>4, <2>1, ListConstants
<1>7. ListTypeOK'
  BY <1>1, <1>5, <1>6 DEF ListTypeOK
<1>8. Bounds'
  BY <1>1, <1>6 DEF Bounds, Idle
<1> QED BY <1>7, <1>8

LEMMA DeleteBounds ==
  ASSUME ListTypeOK, Bounds, Delete \/ Shift \/ DeleteEnds
  PROVE  ListTypeOK' /\ Bounds'
<1>1. CASE Delete
  <2>1. /\ pc = "handle" /\ size > 0 /\ size' = size - 1 /\ listState' = "LIST" /\ pc' = "shift"
        /\ i' = currentMessage
        /\ UNCHANGED <<messages, currentMessage, topMessage, myButton, wake, lines, added, disturbed>>
    BY <1>1 DEF Delete, ListKey, drawn, Bounds
  <2>2. /\ size - 1 \in 0 .. MAX_MESSAGES /\ currentMessage \in 0 .. size - 1
        /\ currentMessage <= size - 1 /\ currentMessage \in ListPlaces /\ size - 1 < MAX_MESSAGES + 1
    BY <2>1, SizesAre DEF Idle, ListPlaces
  <2>3. ListTypeOK'
    BY <2>1, <2>2 DEF ListTypeOK
  <2>4. Bounds'
    BY <2>1, <2>2 DEF Bounds, Idle
  <2> QED BY <2>3, <2>4
<1>2. CASE Shift
  <2>1. /\ pc = "shift" /\ i < size /\ messages' = [messages EXCEPT ![i] = messages[i + 1]]
        /\ i' = i + 1
        /\ UNCHANGED <<pc, size, currentMessage, topMessage, listState, myButton, wake, lines, added,
                       disturbed>>
    BY <1>2 DEF Shift, drawn, told
  <2>2. i + 1 \in ListPlaces /\ i + 1 \in 0 .. size
    BY <2>1, SizesAre DEF ListPlaces
  <2>3. ListTypeOK'
    BY <2>1, <2>2 DEF ListTypeOK
  <2>4. Bounds'
    BY <2>1, <2>2 DEF Bounds, Idle
  <2> QED BY <2>3, <2>4
<1>3. CASE DeleteEnds
  <2>1. /\ pc = "shift" /\ pc' = "draw" /\ i' = 0
        /\ UNCHANGED <<size, messages, listState, myButton, wake, lines, added, disturbed>>
        /\ IF currentMessage = size THEN currentMessage' = 0 /\ topMessage' = 0
                                    ELSE UNCHANGED <<currentMessage, topMessage>>
    BY <1>3 DEF DeleteEnds, ShowList, drawn, told
  <2>2. /\ currentMessage' < size \/ currentMessage' = 0
        /\ currentMessage' \in 0 .. MAX_MESSAGES - 1 /\ topMessage' \in 0 .. MAX_MESSAGES - 1
        /\ 0 \in 0 .. LCD_NUM_LINES - 1
    <3>1. 0 \in 0 .. MAX_MESSAGES - 1 /\ 0 \in 0 .. LCD_NUM_LINES - 1
      BY ListConstants
    <3>2. CASE currentMessage = size
      BY <2>1, <3>1, <3>2
    <3>3. CASE currentMessage # size
      <4>1. currentMessage < size
        BY <3>3, SizesAre
      <4> QED BY <2>1, <3>1, <3>3, <4>1 DEF ListTypeOK
    <3> QED BY <3>2, <3>3
  <2>3. ListTypeOK'
    BY <2>1, <2>2 DEF ListTypeOK
  <2>4. Bounds'
    BY <2>1, <2>2 DEF Bounds, Idle
  <2> QED BY <2>3, <2>4
<1> QED BY <1>1, <1>2, <1>3

LEMMA SendBounds ==
  ASSUME ListTypeOK, Bounds, SendListed \/ Count
  PROVE  ListTypeOK' /\ Bounds'
<1>1. CASE SendListed
  <2> DEFINE n == IF size = MAX_MESSAGES THEN size - 1 ELSE size
  <2>1. /\ pc = "handle" /\ size' = n /\ messages' = [messages EXCEPT ![n] = added + 1]
        /\ added < MaxListed + 1 /\ added' = added + 1 /\ listState' = "LIST" /\ pc' = "count"
        /\ UNCHANGED <<i, currentMessage, topMessage, myButton, wake, lines, disturbed>>
    BY <1>1 DEF SendListed, ListKey, drawn
  <2>2. /\ n \in 0 .. MAX_MESSAGES /\ n < MAX_MESSAGES /\ n \in ListPlaces
        /\ currentMessage <= n /\ added + 1 \in 0 .. MaxListed + 1
    BY <2>1, SizesAre DEF Idle, ListPlaces, ListTypeOK
  <2> HIDE DEF n
  <2>3. ListTypeOK'
    BY <2>1, <2>2 DEF ListTypeOK
  <2>4. Bounds'
    BY <2>1, <2>2 DEF Bounds, Idle
  <2> QED BY <2>3, <2>4
<1>2. CASE Count
  <2>1. /\ pc = "count" /\ size' = size + 1 /\ pc' = "draw" /\ i' = 0
        /\ myButton' = "none" /\ wake' = TRUE
        /\ UNCHANGED <<messages, currentMessage, topMessage, listState, lines, added, disturbed>>
    BY <1>2 DEF Count, Announced, ShowList, drawn, told
  <2>2. size + 1 \in 0 .. MAX_MESSAGES /\ currentMessage < size + 1 /\ 0 \in 0 .. LCD_NUM_LINES - 1
        /\ size + 1 > 0
    BY <2>1, SizesAre, ListConstants DEF Bounds
  <2>3. ListTypeOK'
    BY <2>1, <2>2 DEF ListTypeOK
  <2>4. Bounds'
    BY <2>1, <2>2 DEF Bounds, Idle
  <2> QED BY <2>3, <2>4
<1> QED BY <1>1, <1>2

-----------------------------------------------------------------------------
(***************************************************************************)
(* The list has what is kept.                                              *)
(***************************************************************************)
LEMMA FunctionIsSeq ==
  ASSUME NEW S, NEW n \in Nat, NEW f \in [1 .. n -> S]
  PROVE  f \in Seq(S) /\ Len(f) = n
<1>1. f \in Seq(S)
  BY SeqDef
<1> QED BY <1>1, LenProperties

\* kept without the message in its place.
LEMMA WithoutPlace ==
  ASSUME KeptOnce, NEW p \in 1 .. Len(kept)
  PROVE  /\ Without(kept[p]) \in Seq(1 .. added) /\ Len(Without(kept[p])) = Len(kept) - 1
         /\ \A k \in 1 .. Len(kept) - 1 :
              Without(kept[p])[k] = kept[IF p <= k THEN k + 1 ELSE k]
         /\ \A j, k \in 1 .. Len(kept) - 1 :
              Without(kept[p])[j] = Without(kept[p])[k] => j = k
<1> DEFINE s == Without(kept[p])
<1>1. /\ Len(kept) \in Nat /\ kept \in [1 .. Len(kept) -> 1 .. added]
      /\ Len(kept) - 1 \in Nat
      /\ \A k \in 1 .. Len(kept) - 1 : k \in 1 .. Len(kept) /\ k + 1 \in 1 .. Len(kept)
  <2>1. kept \in Seq(1 .. added)
    BY DEF KeptOnce
  <2>2. Len(kept) \in Nat /\ kept \in [1 .. Len(kept) -> 1 .. added]
    BY <2>1, LenProperties
  <2> QED BY <2>2
<1>2. \A k \in 1 .. Len(kept) - 1 : (\E j \in 1 .. k : kept[j] = kept[p]) <=> p <= k
  <2> TAKE k \in 1 .. Len(kept) - 1
  <2>1. \A j \in 1 .. k : j \in 1 .. Len(kept)
    BY <1>1
  <2>2. p <= k <=> p \in 1 .. k
    OBVIOUS
  <2> QED BY <2>1, <2>2 DEF KeptOnce
<1>3. s = [k \in 1 .. Len(kept) - 1 |-> kept[IF p <= k THEN k + 1 ELSE k]]
  BY <1>2, Zenon DEF Without
<1>4. \A k \in 1 .. Len(kept) - 1 : s[k] = kept[IF p <= k THEN k + 1 ELSE k]
  BY <1>3
<1>5. s \in Seq(1 .. added) /\ Len(s) = Len(kept) - 1
  <2>1. s \in [1 .. Len(kept) - 1 -> 1 .. added]
    BY <1>1, <1>3
  <2> HIDE DEF s
  <2> QED BY <1>1, <2>1, FunctionIsSeq
<1>6. \A j, k \in 1 .. Len(kept) - 1 : s[j] = s[k] => j = k
  <2> SUFFICES ASSUME NEW j \in 1 .. Len(kept) - 1, NEW k \in 1 .. Len(kept) - 1, s[j] = s[k]
               PROVE  j = k
    OBVIOUS
  <2>1. (IF p <= j THEN j + 1 ELSE j) = (IF p <= k THEN k + 1 ELSE k)
    BY <1>1, <1>4 DEF KeptOnce
  <2> QED BY <2>1
<1> QED BY <1>4, <1>5, <1>6

\* Whatever is left out, nothing is kept twice; if it is not there the last one is.
LEMMA WithoutAny ==
  ASSUME KeptOnce, NEW m
  PROVE  /\ Without(m) \in Seq(1 .. added)
         /\ \A j, k \in 1 .. Len(Without(m)) : Without(m)[j] = Without(m)[k] => j = k
<1>1. CASE \E p \in 1 .. Len(kept) : kept[p] = m
  <2>1. PICK p \in 1 .. Len(kept) : kept[p] = m
    BY <1>1
  <2>2. /\ Without(kept[p]) \in Seq(1 .. added) /\ Len(Without(kept[p])) = Len(kept) - 1
        /\ \A j, k \in 1 .. Len(kept) - 1 : Without(kept[p])[j] = Without(kept[p])[k] => j = k
    BY WithoutPlace
  <2> QED BY <2>1, <2>2
<1>2. CASE ~ \E p \in 1 .. Len(kept) : kept[p] = m
  <2>1. Len(kept) \in Nat /\ \A k \in 1 .. Len(kept) : kept[k] \in 1 .. added
    BY LenProperties, ElementOfSeq DEF KeptOnce
  <2>2. \A k \in 1 .. Len(kept) - 1 : k \in 1 .. Len(kept) /\ ~ \E j \in 1 .. k : kept[j] = m
    BY <1>2, <2>1
  <2>3. Without(m) = [k \in 1 .. Len(kept) - 1 |-> kept[k]]
    BY <2>2, Zenon DEF Without
  <2>4. PICK n \in Nat : 1 .. Len(kept) - 1 = 1 .. n
    <3>1. CASE Len(kept) = 0
      <4>1. 1 .. Len(kept) - 1 = 1 .. 0
        BY <3>1
      <4> QED BY <4>1
    <3>2. CASE Len(kept) # 0
      BY <2>1, <3>2
    <3> QED BY <3>1, <3>2
  <2>5. Without(m) \in [1 .. n -> 1 .. added]
    BY <2>1, <2>2, <2>3, <2>4
  <2>6. Without(m) \in Seq(1 .. added) /\ Len(Without(m)) = n
    BY <2>5, FunctionIsSeq
  <2>7. \A k \in 1 .. n : Without(m)[k] = kept[k] /\ k \in 1 .. Len(kept)
    BY <2>2, <2>3, <2>4
  <2> QED BY <2>6, <2>7 DEF KeptOnce
<1> QED BY <1>1, <1>2

\* A new message is kept behind the others.
LEMMA KeptMore ==
  ASSUME ListTypeOK, NEW q \in Seq(1 .. added), \A j, k \in 1 .. Len(q) : q[j] = q[k] => j = k,
         kept' = Append(q, added + 1), added' = added + 1
  PROVE  /\ KeptOnce' /\ Len(kept') = Len(q) + 1 /\ kept'[Len(q) + 1] = added + 1
         /\ \A n \in 1 .. Len(q) : kept'[n] = q[n]
<1>1. added \in Nat
  BY ListConstants DEF ListTypeOK
<1>2. Len(q) \in Nat /\ \A n \in 1 .. Len(q) : q[n] \in 1 .. added
  BY LenProperties, ElementOfSeq
<1>3. q \in Seq(1 .. added + 1) /\ added + 1 \in 1 .. added + 1
  <2>1. 1 .. added \subseteq 1 .. added + 1 /\ added + 1 \in 1 .. added + 1
    BY <1>1
  <2> QED BY <2>1, SeqMonotonic
<1>4. /\ kept' \in Seq(1 .. added') /\ Len(kept') = Len(q) + 1 /\ kept'[Len(q) + 1] = added + 1
      /\ \A n \in 1 .. Len(q) : kept'[n] = q[n]
  BY <1>3, <1>2, AppendProperties
<1>5. ASSUME NEW j \in 1 .. Len(kept'), NEW k \in 1 .. Len(kept'), kept'[j] = kept'[k]
      PROVE  j = k
  <2>1. /\ j \in 1 .. Len(q) \/ j = Len(q) + 1
        /\ k \in 1 .. Len(q) \/ k = Len(q) + 1
    BY <1>2, <1>4
  <2>2. \A n \in 1 .. Len(q) : kept'[n] # added + 1
    <3> TAKE n \in 1 .. Len(q)
    <3>1. q[n] \in 1 .. added
      BY <1>2
    <3>2. q[n] # added + 1
      BY <1>1, <3>1
    <3> QED BY <1>4, <3>2
  <2> QED BY <1>4, <1>5, <2>1, <2>2
<1> QED BY <1>4, <1>5 DEF KeptOnce

\* The list is kept as it was.
LEMMA SameKept ==
  ASSUME ListTypeOK, Bounds, KeptOnce, ListHasKept,
         \/ LooksOnly \/ Move \/ DeleteEnds \/ \E button \in Buttons : Press(button)
         \/ UNCHANGED listVars
  PROVE  KeptOnce' /\ ListHasKept'
<1>1. /\ UNCHANGED <<size, messages, added, kept, disturbed>>
      /\ \/ Idle /\ Idle'
         \/ UNCHANGED <<pc, i, currentMessage>>
         \/ Idle' /\ pc = "shift" /\ i >= size
  <2>1. CASE LooksOnly
    BY <2>1, LooksChange DEF shown, told
  <2>2. CASE Move
    BY <2>2 DEF Move, ShowList, Idle, told
  <2>3. CASE DeleteEnds
    BY <2>3 DEF DeleteEnds, ShowList, Idle, told
  <2>4. CASE \E button \in Buttons : Press(button)
    BY <2>4 DEF Press, place, shown, told
  <2>5. CASE UNCHANGED listVars
    BY <2>5 DEF listVars, place, shown, told
  <2> QED BY <2>1, <2>2, <2>3, <2>4, <2>5
<1>2. KeptOnce'
  BY <1>1 DEF KeptOnce
<1>3. ListHasKept'
  <2> SUFFICES ASSUME ~disturbed PROVE ListHasKept'
    BY <1>1 DEF ListHasKept
  <2>1. CASE Idle /\ Idle'
    BY <1>1, <2>1 DEF ListHasKept, Idle
  <2>2. CASE UNCHANGED <<pc, i, currentMessage>>
    BY <1>1, <2>2 DEF ListHasKept
  <2>3. CASE Idle' /\ pc = "shift" /\ i >= size
    <3>1. /\ Len(kept) = size /\ size \in Nat /\ i \in Nat
          /\ \A n \in 1 .. Len(kept) : kept[n] = messages[IF n > i THEN n ELSE n - 1]
      BY <2>3, SizesAre DEF ListHasKept
    <3>2. \A n \in 1 .. Len(kept) : kept[n] = messages[n - 1]
      BY <2>3, <3>1
    <3> QED BY <1>1, <2>3, <3>1, <3>2 DEF ListHasKept, Idle
  <2> QED BY <1>1, <2>1, <2>2, <2>3
<1> QED BY <1>2, <1>3

LEMMA ArriveKept ==
  ASSUME ListTypeOK, Bounds, KeptOnce, ListHasKept, Arrive
  PROVE  KeptOnce' /\ ListHasKept'
<1>1. /\ size' = size + 1 /\ size < MAX_MESSAGES /\ added' = added + 1
      /\ messages' = [messages EXCEPT ![size] = added + 1] /\ kept' = Append(kept, added + 1)
      /\ disturbed' = (disturbed \/ pc \in {"shift", "count"})
      /\ UNCHANGED <<pc, i, currentMessage>>
  BY ListConstants, SizesAre DEF Arrive, Room, place
<1>2. /\ KeptOnce' /\ Len(kept') = Len(kept) + 1 /\ kept'[Len(kept) + 1] = added + 1
      /\ \A n \in 1 .. Len(kept) : kept'[n] = kept[n]
  BY <1>1, KeptMore DEF KeptOnce
<1>3. ASSUME ~disturbed' PROVE ListHasKept'
  <2>1. ~disturbed /\ pc \notin {"shift", "count"}
    BY <1>1, <1>3
  <2>2. Len(kept) = size /\ \A n \in 1 .. size : kept[n] = messages[n - 1]
    BY <2>1 DEF ListHasKept
  <2>3. /\ size \in Nat /\ size \in DOMAIN messages
        /\ \A n \in 1 .. size + 1 : n = size + 1 \/ (n \in 1 .. size /\ n - 1 # size)
    BY <1>1, SizesAre DEF ListTypeOK, ListPlaces
  <2>4. \A n \in 1 .. size + 1 : kept'[n] = messages'[n - 1]
    <3> TAKE n \in 1 .. size + 1
    <3>1. CASE n = size + 1
      <4>1. n - 1 = size
        BY <2>3, <3>1
      <4> QED BY <1>1, <1>2, <2>2, <2>3, <3>1, <4>1
    <3>2. CASE n \in 1 .. size /\ n - 1 # size
      BY <1>1, <1>2, <2>2, <3>2
    <3> QED BY <2>3, <3>1, <3>2
  <2> QED BY <1>1, <1>2, <2>1, <2>2, <2>4 DEF ListHasKept
<1> QED BY <1>2, <1>3 DEF ListHasKept

LEMMA DeleteKept ==
  ASSUME ListTypeOK, Bounds, KeptOnce, ListHasKept, Delete
  PROVE  KeptOnce' /\ ListHasKept'
<1>1. /\ Idle /\ size > 0 /\ size' = size - 1 /\ kept' = Without(messages[currentMessage])
      /\ pc = "handle" /\ pc' = "shift" /\ i' = currentMessage
      /\ UNCHANGED <<messages, currentMessage, added, disturbed>>
  BY DEF Delete, ListKey, Bounds, Idle
<1>2. Len(kept) \in Nat /\ size \in Nat /\ currentMessage \in Nat /\ currentMessage < size
  BY <1>1, SizesAre, LenProperties DEF KeptOnce
<1>3. CASE ~disturbed
  <2>1. Len(kept) = size /\ \A n \in 1 .. size : kept[n] = messages[n - 1]
    BY <1>1, <1>3 DEF ListHasKept
  <2>2. currentMessage + 1 \in 1 .. size /\ messages[currentMessage] = kept[currentMessage + 1]
    <3>1. currentMessage + 1 \in 1 .. size
      BY <1>2
    <3>2. ASSUME NEW n \in 1 .. size, n = currentMessage + 1 PROVE messages[currentMessage] = kept[n]
      <4>1. n - 1 = currentMessage
        BY <1>2, <3>2
      <4>2. kept[n] = messages[n - 1]
        BY <2>1
      <4> QED BY <4>1, <4>2
    <3> QED BY <3>1, <3>2
  <2>3. /\ Without(kept[currentMessage + 1]) \in Seq(1 .. added)
        /\ Len(Without(kept[currentMessage + 1])) = size - 1
        /\ \A k \in 1 .. size - 1 :
             Without(kept[currentMessage + 1])[k] = kept[IF currentMessage + 1 <= k THEN k + 1 ELSE k]
        /\ \A j, k \in 1 .. size - 1 :
             Without(kept[currentMessage + 1])[j] = Without(kept[currentMessage + 1])[k] => j = k
    BY <2>1, <2>2, WithoutPlace
  <2>4. /\ kept' \in Seq(1 .. added') /\ Len(kept') = size - 1
        /\ \A k \in 1 .. size - 1 :
             kept'[k] = kept[IF currentMessage + 1 <= k THEN k + 1 ELSE k]
        /\ \A j, k \in 1 .. size - 1 : kept'[j] = kept'[k] => j = k
    BY <1>1, <2>2, <2>3
  <2>5. \A n \in 1 .. size - 1 : kept'[n] = messages[IF n > currentMessage THEN n ELSE n - 1]
    <3> TAKE n \in 1 .. size - 1
    <3>1. CASE n > currentMessage
      <4>1. currentMessage + 1 <= n /\ n + 1 \in 1 .. size /\ n + 1 - 1 = n
        BY <1>2, <3>1
      <4> QED BY <2>1, <2>4, <3>1, <4>1
    <3>2. CASE ~(n > currentMessage)
      <4>1. ~(currentMessage + 1 <= n) /\ n \in 1 .. size
        BY <1>2, <3>2
      <4> QED BY <2>1, <2>4, <3>2, <4>1
    <3> QED BY <3>1, <3>2
  <2>6. KeptOnce'
    BY <2>4 DEF KeptOnce
  <2>7. ListHasKept'
    BY <1>1, <1>2, <2>4, <2>5 DEF ListHasKept
  <2> QED BY <2>6, <2>7
<1>4. CASE disturbed
  <2>1. KeptOnce'
    BY <1>1, WithoutAny DEF KeptOnce
  <2> QED BY <1>1, <1>4, <2>1 DEF ListHasKept
<1> QED BY <1>3, <1>4

LEMMA ShiftKept ==
  ASSUME ListTypeOK, Bounds, KeptOnce, ListHasKept, Shift
  PROVE  KeptOnce' /\ ListHasKept'
<1>1. /\ pc = "shift" /\ i < size /\ messages' = [messages EXCEPT ![i] = messages[i + 1]]
      /\ i' = i + 1
      /\ UNCHANGED <<pc, size, currentMessage, added, kept, disturbed>>
  BY DEF Shift, told
<1>2. KeptOnce'
  BY <1>1 DEF KeptOnce
<1>3. ASSUME ~disturbed PROVE ListHasKept'
  <2>1. /\ Len(kept) = size /\ currentMessage <= i
        /\ \A n \in 1 .. size : kept[n] = messages[IF n > i THEN n ELSE n - 1]
    BY <1>1, <1>3 DEF ListHasKept
  <2>2. i \in Nat /\ size \in Nat /\ currentMessage \in Nat /\ i \in DOMAIN messages
    BY <1>1, SizesAre DEF ListTypeOK, ListPlaces
  <2>3. \A n \in 1 .. size : kept[n] = messages'[IF n > i + 1 THEN n ELSE n - 1]
    <3> TAKE n \in 1 .. size
    <3>1. CASE n > i + 1
      <4>1. n > i /\ n # i
        BY <2>2, <3>1
      <4> QED BY <1>1, <2>1, <3>1, <4>1
    <3>2. CASE n = i + 1
      <4>1. n > i /\ ~(n > i + 1) /\ n - 1 = i
        BY <2>2, <3>2
      <4> QED BY <1>1, <2>1, <2>2, <3>2, <4>1
    <3>3. CASE n < i + 1
      <4>1. ~(n > i) /\ ~(n > i + 1) /\ n - 1 # i
        BY <2>2, <3>3
      <4> QED BY <1>1, <2>1, <4>1
    <3> QED BY <2>2, <3>1, <3>2, <3>3
  <2>4. currentMessage <= i + 1
    BY <2>1, <2>2
  <2> QED BY <1>1, <2>1, <2>3, <2>4 DEF ListHasKept
<1> QED BY <1>1, <1>2, <1>3 DEF ListHasKept

LEMMA SendKept ==
  ASSUME ListTypeOK, Bounds, KeptOnce, ListHasKept, SendListed
  PROVE  KeptOnce' /\ ListHasKept'
<1> DEFINE n == IF size = MAX_MESSAGES THEN size - 1 ELSE size
           q == IF n < size THEN Without(messages[n]) ELSE kept
<1>1. /\ pc = "handle" /\ pc' = "count" /\ size' = n /\ added' = added + 1
      /\ messages' = [messages EXCEPT ![n] = added + 1] /\ kept' = Append(q, added + 1)
      /\ UNCHANGED disturbed
  BY DEF SendListed, ListKey
<1>2. /\ n \in Nat /\ n \in DOMAIN messages /\ Len(kept) \in Nat /\ size \in Nat
      /\ n < size => n = size - 1
      /\ n <= size
  BY SizesAre, LenProperties DEF KeptOnce, ListTypeOK, ListPlaces
<1> HIDE DEF n
<1>3. /\ q \in Seq(1 .. added)
      /\ \A j, k \in 1 .. Len(q) : q[j] = q[k] => j = k
  BY WithoutAny DEF KeptOnce
<1>4. ~disturbed => Len(q) = n /\ \A k \in 1 .. n : q[k] = messages[k - 1]
  <2> SUFFICES ASSUME ~disturbed PROVE Len(q) = n /\ \A k \in 1 .. n : q[k] = messages[k - 1]
    OBVIOUS
  <2>1. Len(kept) = size /\ \A k \in 1 .. size : kept[k] = messages[k - 1]
    BY <1>1 DEF ListHasKept
  <2>2. CASE n < size
    <3>1. size \in 1 .. Len(kept) /\ messages[n] = kept[size] /\ n = size - 1
      BY <1>2, <2>1, <2>2
    <3>2. /\ Len(Without(kept[size])) = size - 1
          /\ \A k \in 1 .. size - 1 : Without(kept[size])[k] = kept[IF size <= k THEN k + 1 ELSE k]
      BY <2>1, <3>1, WithoutPlace
    <3>3. \A k \in 1 .. size - 1 : ~(size <= k) /\ k \in 1 .. size
      BY <1>2
    <3> QED BY <2>1, <2>2, <3>1, <3>2, <3>3
  <2>3. CASE ~(n < size)
    <3>1. n = size
      BY <1>2, <2>3
    <3> QED BY <2>1, <2>3, <3>1
  <2> QED BY <2>2, <2>3
<1> HIDE DEF q
<1>5. /\ KeptOnce' /\ Len(kept') = Len(q) + 1 /\ kept'[Len(q) + 1] = added + 1
      /\ \A k \in 1 .. Len(q) : kept'[k] = q[k]
  BY <1>1, <1>3, KeptMore
<1>6. ASSUME ~disturbed PROVE ListHasKept'
  <2>1. Len(kept') = n + 1 /\ kept'[n + 1] = added + 1 /\ \A k \in 1 .. n : kept'[k] = messages[k - 1]
    BY <1>4, <1>5, <1>6
  <2>2. \A k \in 1 .. n + 1 : kept'[k] = messages'[k - 1]
    <3> TAKE k \in 1 .. n + 1
    <3>1. CASE k = n + 1
      <4>1. k - 1 = n
        BY <1>2, <3>1
      <4> QED BY <1>1, <1>2, <2>1, <3>1, <4>1
    <3>2. CASE k # n + 1
      <4>1. k \in 1 .. n /\ k - 1 # n
        BY <1>2, <3>2
      <4> QED BY <1>1, <2>1, <4>1
    <3> QED BY <3>1, <3>2
  <2> QED BY <1>1, <2>1, <2>2 DEF ListHasKept
<1> QED BY <1>1, <1>5, <1>6 DEF ListHasKept

LEMMA CountKept ==
  ASSUME ListTypeOK, Bounds, KeptOnce, ListHasKept, Count
  PROVE  KeptOnce' /\ ListHasKept'
<1>1. /\ pc = "count" /\ pc' = "draw" /\ size' = size + 1
      /\ UNCHANGED <<messages, added, kept, disturbed>>
  BY DEF Count, ShowList, told
<1> QED BY <1>1 DEF KeptOnce, ListHasKept

-----------------------------------------------------------------------------
(***************************************************************************)
(* The screen.                                                             *)
(***************************************************************************)
\* What the lines depend on is left alone.
LEMMA SameLines ==
  ASSUME UNCHANGED <<size, messages, currentMessage, topMessage, lines>>
  PROVE  /\ \A r : LineDrawn(r)' <=> LineDrawn(r)
         /\ MessageShown' = MessageShown
BY DEF LineDrawn, ListLine, MessageAt, MessageShown

LEMMA LooksDrawn ==
  ASSUME ListTypeOK, Bounds, ScreenDrawn, LooksOnly
  PROVE  ScreenDrawn'
<1> USE DEF Idle
<1>1. CASE DrawLine
  <2>1. /\ pc = "draw" /\ pc' = "draw" /\ i \in Rows /\ i' = i + 1
        /\ lines' = [lines EXCEPT ![i] =
              IF i < size THEN ListLine((topMessage + i) % size) ELSE emptyLine]
        /\ UNCHANGED <<size, messages, currentMessage, topMessage, wake>>
    BY <1>1 DEF DrawLine, shown
  <2>2. \A n : ListLine(n)' = ListLine(n)
    BY <2>1 DEF ListLine, MessageAt
  <2>3. (size > 0 /\ wake) \/ \A r \in Rows : r < i => LineDrawn(r)
    BY <2>1 DEF ScreenDrawn
  <2>4. i \in DOMAIN lines
    BY <2>1 DEF ListTypeOK
  <2>5. \A r \in Rows : r = i => LineDrawn(r)'
    BY <2>1, <2>2, <2>4 DEF LineDrawn
  <2>6. ASSUME NEW r \in Rows, r # i, LineDrawn(r) PROVE LineDrawn(r)'
    BY <2>1, <2>2, <2>6 DEF LineDrawn
  <2>7. \A r \in Rows : r < i + 1 => r = i \/ r < i
    BY <2>1 DEF Rows
  <2>8. (size > 0 /\ wake) \/ \A r \in Rows : r < i' => LineDrawn(r)'
    BY <2>1, <2>3, <2>5, <2>6, <2>7
  <2> QED BY <2>1, <2>8 DEF ScreenDrawn
<1>2. CASE DrawEnds
  <2>1. /\ pc = "draw" /\ pc' = "wait" /\ i \notin Rows /\ menu' = menuLine(listState)
        /\ listState = "LIST"
        /\ UNCHANGED <<size, messages, currentMessage, topMessage, wake, lines, listState>>
    BY <1>2 DEF DrawEnds, shown, Bounds
  <2>2. \A r \in Rows : r < i
    BY <2>1, SizesAre, ListConstants DEF Rows, Bounds
  <2>3. (size > 0 /\ wake) \/ \A r \in Rows : LineDrawn(r)
    BY <2>1, <2>2 DEF ScreenDrawn
  <2> QED BY <2>1, <2>3, SameLines DEF ScreenDrawn
<1>3. CASE Wake \/ Ignore
  <2>1. /\ UNCHANGED <<size, messages, currentMessage, topMessage, lines, menu, listState>>
        /\ \/ pc = "wait" /\ pc' = "handle"
           \/ pc = "handle" /\ pc' = "wait" /\ (listState = "LIST" => size = 0)
    BY <1>3 DEF Wake, Ignore, shown, drawn
  <2>2. pc = "handle" /\ listState = "LIST" /\ size = 0 => \A r \in Rows : LineDrawn(r)
    BY DEF ScreenDrawn
  <2> QED BY <2>1, <2>2, SameLines DEF ScreenDrawn
<1>4. CASE StartWriting
  <2>1. /\ pc' = "wait" /\ lines' = EmptyScreen /\ menu' = menuLine(listState')
        /\ listState' \in {"TEXT", "NUMBER"}
    BY <1>4 DEF StartWriting
  <2> QED BY <2>1 DEF ScreenDrawn, EmptyScreen
<1>5. CASE Open
  <2>1. /\ pc' = "wait" /\ lines' = MessageShown /\ menu' = menuLine("SHOW") /\ listState' = "SHOW"
        /\ UNCHANGED <<messages, currentMessage>>
    BY <1>5 DEF Open, shown
  <2>2. MessageShown' = MessageShown
    BY <2>1 DEF MessageShown, MessageAt
  <2> QED BY <2>1, <2>2 DEF ScreenDrawn
<1>6. CASE Back
  <2>1. pc' = "draw" /\ i' = 0
    BY <1>6 DEF Back, ShowList
  <2> QED BY <2>1 DEF ScreenDrawn, Rows
<1> QED BY <1>1, <1>2, <1>3, <1>4, <1>5, <1>6 DEF LooksOnly

LEMMA OthersDrawn ==
  ASSUME ListTypeOK, Bounds, ScreenDrawn,
         \/ Move \/ Delete \/ Shift \/ DeleteEnds \/ SendListed \/ Count
         \/ \E button \in Buttons : Press(button)
         \/ UNCHANGED listVars
  PROVE  ScreenDrawn'
<1>1. CASE Move \/ DeleteEnds \/ Count
  <2>1. pc' = "draw" /\ i' = 0
    BY <1>1 DEF Move, DeleteEnds, Count, ShowList
  <2> QED BY <2>1 DEF ScreenDrawn, Rows
<1>2. CASE Delete \/ Shift \/ SendListed
  <2>1. pc' \in {"shift", "count"}
    BY <1>2 DEF Delete, Shift, SendListed
  <2> QED BY <2>1 DEF ScreenDrawn
<1>3. CASE (\E button \in Buttons : Press(button)) \/ UNCHANGED listVars
  <2>1. /\ UNCHANGED <<pc, i, size, messages, currentMessage, topMessage, lines, menu, listState>>
        /\ wake => wake'
    BY <1>3 DEF Press, listVars, place, shown, drawn
  <2> QED BY <2>1, SameLines DEF ScreenDrawn
<1> QED BY <1>1, <1>2, <1>3

\* A message that arrives makes the thread draw the list again, and leaves the one shown alone.
LEMMA ArriveDrawn ==
  ASSUME ListTypeOK, Bounds, ScreenDrawn, Arrive
  PROVE  ScreenDrawn'
<1>1. /\ messages' = [messages EXCEPT ![size] = added + 1] /\ size' = size + 1 /\ wake' = TRUE
      /\ UNCHANGED <<pc, i, currentMessage, listState, lines, menu>>
  BY DEF Arrive, Announced, place, drawn
<1>2. size' > 0
  <2>1. size + 1 > 0
    BY SizesAre
  <2> QED BY <1>1, <2>1
<1>3. pc \in {"wait", "handle"} /\ listState = "SHOW" => MessageShown' = MessageShown
  <2> SUFFICES ASSUME pc \in {"wait", "handle"}, listState = "SHOW"
               PROVE  MessageShown' = MessageShown
    OBVIOUS
  <2>1. currentMessage # size
    BY SizesAre DEF Bounds, Idle
  <2>2. messages'[currentMessage] = messages[currentMessage]
    BY <1>1, <2>1 DEF ListTypeOK
  <2> QED BY <1>1, <2>2 DEF MessageShown, MessageAt
<1> QED BY <1>1, <1>2, <1>3 DEF ScreenDrawn, EmptyScreen

-----------------------------------------------------------------------------
(***************************************************************************)
(* The theorems.                                                           *)
(***************************************************************************)
LEMMA ListStep == ListInv /\ [ListNext]_listVars => ListInv'
<1> SUFFICES ASSUME ListInv, [ListNext]_listVars PROVE ListInv'
  OBVIOUS
<1> USE DEF ListInv
<1>1. ListNext <=> \/ LooksOnly \/ Move \/ Delete \/ Shift \/ DeleteEnds \/ SendListed \/ Count
                   \/ Arrive \/ \E button \in Buttons : Press(button)
  BY Zenon DEF ListNext, ListThread, LooksOnly
<1>2. ListTypeOK' /\ Bounds'
  <2>1. CASE ListNext
    BY <1>1, <2>1, LooksBounds, PressBounds, ArriveBounds, MoveBounds, DeleteBounds, SendBounds, Zenon
  <2>2. CASE UNCHANGED listVars
    BY <2>2 DEF listVars, place, shown, told, drawn, ListTypeOK, Bounds, Idle
  <2> QED BY <2>1, <2>2
<1>3. KeptOnce' /\ ListHasKept'
  BY <1>1, SameKept, ArriveKept, DeleteKept, ShiftKept, SendKept, CountKept, Zenon
<1>4. ScreenDrawn'
  BY <1>1, LooksDrawn, OthersDrawn, ArriveDrawn, Zenon
<1> QED BY <1>2, <1>3, <1>4

\* The list never outgrows its array, whose end addNewMessageToMessages of ex3 does not ask
\* for, as long as messages arrive only while there is room; the cursor stays on a message.
THEOREM ListTypeCorrect == ListSpec => []ListTypeOK
<1>1. ListInv => ListTypeOK
  BY DEF ListInv
<1> QED BY <1>1, ListStart, ListStep, PTL DEF ListSpec

\* The list of ex3 has the messages added in their order, but those deleted and those that
\* gave way, unless one arrived in the middle of a change of the list.
THEOREM ListIsKept == ListSpec => []ListKept
<1>1. ListInv => ListKept
  <2> SUFFICES ASSUME ListInv, pc = "wait", ~disturbed
               PROVE  size = Len(kept) /\ \A n \in DOMAIN kept : messages[n - 1] = kept[n]
    BY DEF ListKept, ListSettled
  <2>1. DOMAIN kept = 1 .. Len(kept)
    BY LenProperties DEF ListInv, KeptOnce
  <2> QED BY <2>1 DEF ListInv, ListHasKept
<1> QED BY <1>1, ListStart, ListStep, PTL DEF ListSpec

\* The screen of ex3 tells which messages the list has, and what the selected one says,
\* once the thread sleeps, if no number has a space in it.
THEOREM ScreenIsUpToDate ==
  ASSUME \A m \in DOMAIN Listed : PlainNumber(Listed[m])
  PROVE  ListSpec => []ScreenUpToDate
<1>1. ListInv => ScreenUpToDate
  <2> SUFFICES ASSUME ListInv, pc = "wait", ~wake PROVE ScreenUpToDate
    BY DEF ScreenUpToDate, ListSettled
  <2> USE DEF ListInv
  <2>1. \A p \in ListPlaces : messages[p] # Blank =>
          MessageAt(p) \in MessageType /\ PlainNumber(MessageAt(p))
    <3> SUFFICES ASSUME NEW p \in ListPlaces, messages[p] # Blank
                 PROVE  MessageAt(p) \in MessageType /\ PlainNumber(MessageAt(p))
      OBVIOUS
    <3>1. messages[p] \in 1 .. MaxListed + 1
      BY ListConstants DEF ListTypeOK, Blank
    <3>2. DOMAIN Listed = 1 .. MaxListed + 1 /\ Listed[messages[p]] \in MessageType
      BY <3>1, ListConstants
    <3> QED BY <3>1, <3>2 DEF MessageAt
  <2>2. listState = "LIST" => \A r \in Rows : LineDrawn(r)
    BY DEF ScreenDrawn
  <2>3. ASSUME listState = "LIST", NEW r \in Rows
        PROVE  LET n == (topMessage + r) % size
               IN IF r >= size THEN lines[r] = emptyLine
                  ELSE messages[n] # Blank => SaysEntry(lines[r], n, MessageAt(n), n = currentMessage)
    <3> DEFINE n == (topMessage + r) % size
    <3>1. r \in Nat /\ size \in Nat
      BY SizesAre, ListConstants DEF Rows
    <3>2. CASE r >= size
      BY <2>2, <2>3, <3>1, <3>2 DEF LineDrawn
    <3>3. CASE r < size
      <4>1. size > 0 /\ topMessage + r \in Nat
        BY <3>1, <3>3, SizesAre
      <4>2. n \in 0 .. size - 1
        BY <4>1, GoesRound
      <4>3. lines[r] = ListLine(n)
        BY <2>2, <2>3, <3>3 DEF LineDrawn
      <4> HIDE DEF n
      <4>4. n \in 0 .. 99 /\ n \in ListPlaces
        BY <4>2, SizesAre, ListConstants DEF ListPlaces
      <4>5. messages[n] # Blank => SaysEntry(ListLine(n), n, MessageAt(n), n = currentMessage)
        BY <2>1, <4>4, EntryReads DEF ListLine
      <4>6. ~(r >= size)
        BY <3>1, <3>3
      <4>7. messages[n] # Blank => SaysEntry(lines[r], n, MessageAt(n), n = currentMessage)
        BY <4>3, <4>5
      <4> QED BY <4>6, <4>7 DEF n
    <3> QED BY <3>1, <3>2, <3>3
  <2>4. listState = "SHOW" /\ messages[currentMessage] # Blank =>
          SaysMessage(lines, MessageAt(currentMessage))
    <3>1. currentMessage \in ListPlaces
      BY SizesAre DEF ListPlaces
    <3> QED BY <2>1, <3>1, MessageReads DEF ScreenDrawn, MessageShown
  <2>5. listState \in {"TEXT", "NUMBER"} => lines = EmptyScreen
    BY DEF ScreenDrawn
  <2>6. listState = "LIST" <=> menu = "New   Delete"
    BY DEF ScreenDrawn, menuLine
  <2> QED BY <2>3, <2>4, <2>5, <2>6 DEF ScreenUpToDate
<1> QED BY <1>1, ListStart, ListStep, PTL DEF ListSpec
=============================================================================
