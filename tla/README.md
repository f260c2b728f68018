# Verification of the ThreadX SMS phone

This directory models the phone firmware in `src/emsbsys/ex4` (a ThreadX
application for an ARC board that sends and receives SMS messages) in TLA+,
checks it with TLC and proves its core with TLAPS. `src/emsbsys/ex3` is the
version before the flash file system was added: its `smsClient.c`, `network.c`,
`embsys_sms_protocol.c` and `LCD.c` are those of ex4, and its `UI.c` keeps the
messages in memory only. `Loader_UI.c` is `UI.c` with another number of flash
blocks. `src/ levitz/cp2` holds a string map and a word counter in C++. Paths below
are relative to `src/emsbsys/ex4`.

## The system

Two threads of equal priority (16, time slice 4) share the processor with the
interrupt handlers.

| Part | State | Operations | Interacts with |
|---|---|---|---|
| SMS client, `smsClient.c` | two rings of slots (`toSendList`, `recivedList`) with their heads, two ThreadX queues of slots, `messageThatWasSent`, the wake-up flags, three static buffers | `sendMessage`, `sendReceiveLoop`, `sendToSMSC`, `sendProbe`, the network callbacks, `wakeUp` | called by the UI thread, runs the network thread, called by the network interrupt and the timer |
| Network driver, `network.c` | transmit and receive rings in the device's registers, the callbacks | `network_init`, `network_send_packet_start`, `network_set_operating_mode`, `network_ISR` | called by the network thread; its interrupt calls the client |
| User interface, `UI.c` | message list, cursor, screen state, message being written, last key | `startUI`, `inputPanelLoop`, `addNewMessageToMessages`, `deleteCurrentMessage`, `loadMessages` | runs the GUI thread; called by the keypad interrupt and, through the client, by the network interrupt; uses the file system and the LCD |
| File system, `fs.c` | two halves of flash, the header table in memory, two pointers | `fs_init`, `fs_write`, `fs_read`, `fs_erase`, `fs_count`, `fs_list`, `fs_filesize`, moving to the other half | called by the UI; uses the flash driver |
| Flash driver, `flash.c` | operation in progress, position, size, buffers, completion flag | blocking and non-blocking read, write and erase, the interrupt | called by the file system |
| Protocol, `embsys_sms_protocol.c` | none | fill and parse of the packets | called by the client |
| LCD, `LCD.c` | the frame handed to the display, command, interrupt enable and cause | `lcd_init`, `lcd_set_new_buffer`, `lcd_done` | called by the UI; interrupts |
| Boot loader, `bootLoad.c` | bytes left, positions, timeout | `main` with its own register accesses | runs before the firmware and jumps to it |
| Keypad, timer | registers and a callback each | | called by the UI; `timer0_register` starts ThreadX's timer |
| String map, `StringMap.cpp`, `.h` | a search tree with parent pointers, its size; an iterator's node | `setValue`, `getValue`, `getIterator`, `goNext` | used by the word counter |
| Word counter, `word_count.cpp` | the map, the token read last | `main`: `read`, `print` | standard input and output |

### What is hard here, and what makes each part correct

- *SMS client.* Slots are named by index in queues while the rings advance on
  the other side of a thread or interrupt boundary; the unacknowledged message
  is in no queue; packets and acknowledgments are lost, duplicated and late.
  Correct means: no message is overwritten while it is needed, every accepted
  message reaches the SMSC in order and is forgotten only then, delivers are
  acknowledged only when the user has them.
- *Network driver.* Producer and consumer share a ring with the device. Correct
  means: what is queued is sent in order, full and empty are told apart, and
  every completion is reported once.
- *File system.* Flash bits only go from one to zero, and power can fail between
  two writes. Correct means: after any restart each file has its old or its new
  content, and no write lands on used flash.
- *Flash driver.* A transfer is a chain of interrupts. Correct means: it moves
  every byte once and ends with the driver ready.
- *UI.* The interrupt adds messages while the thread shows, saves and deletes
  them, and the power can fail anywhere. Correct means: list, cursor, files and
  screen agree, and a power failure costs only what it hit; what is typed is
  what is sent.
- *LCD.* It copies the frame while the UI goes on. Correct means: the glass
  never shows parts of two screens, and in the end the last one not refused.
- *Protocol.* Letters of seven bits in octets, digits in semi-octets, lengths
  that the other side uses. Correct means: what was filled in is what is parsed.
- *Boot loader.* It polls a device with a timeout. Correct means: it enters the
  firmware only with the whole image in memory.
- *String map.* An iterator climbs a tree of any shape, which may grow on its
  way. Correct means: it is a dictionary, and the iterator visits it in order.

## Modules

| Module | Models |
|---|---|
| `Outbox` | what the client promises for accepted messages: wait in order, reach the SMSC at least once, forgotten only afterwards |
| `SmsClient` | the client, its two threads, timer and interrupt, with the transmit ring, the device and the SMSC; implements `Outbox` |
| `SmsClientProofs` | TLAPS proofs about `SmsClient` |
| `FileStore` | what a file system promises its caller: operations take effect at one moment, a power failure at most prevents one, reading returns what was written last |
| `FileSystem` | `fs.c`, one step per flash command, the power failing between any two; implements `FileStore` |
| `FileSystemProofs` | TLAPS proofs about `FileSystem` |
| `UI` | the message list of `UI.c` in memory and on file, its cursor and scrolling, against the interrupts and power failures, over a `FileStore` |
| `UIProofs` | TLAPS proofs about `UI` |
| `Screen` | what the UI draws of a message, with the glyphs of `tebahpla.c` |
| `MessageList` | the list of `ex3/UI.c`, kept in memory, and the screens `Screen` draws of it line by line |
| `Editor` | writing text and number in `UI.c`, and the display of `LCD.c` that copies the screens meanwhile |
| `ScreenProofs` | TLAPS proofs about `Editor` and about `MessageList` with its screens |
| `FlashMemory` | what the flash driver promises: one request at a time, carried out byte by byte, answered when it is through |
| `FlashDriver` | `flash.c`: requests cut into commands that the waiting thread or the interrupt continues; implements `FlashMemory` |
| `FlashDriverProofs` | TLAPS proofs about `FlashDriver` |
| `FlashRegisters` | how `flash.c` and `bootLoad.c` get bytes to and from the data registers |
| `BoundedQueue` | what a ring shared by a producer and a consumer promises |
| `NetworkDriver` | `network.c`: the two rings, the sending thread, the interrupt routine and the device; its transmit ring implements `BoundedQueue` |
| `NetworkDriverProofs` | TLAPS proofs about `NetworkDriver` |
| `SmsCodec` | `embsys_sms_protocol.c`, octet by octet |
| `PackingProofs` | TLAPS proofs about `SmsCodec` and `FlashRegisters`, which both pack small things into larger ones |
| `SmsExchange` | a message through `SmsCodec` as `smsClient.c` uses it: submit, acknowledgment, deliver, probe |
| `BootLoader` | `main` of `bootLoad.c`, command by command, against the device |
| `Dictionary` | what a map with an iterator promises |
| `StringMap` | the search tree of `cp2`; implements `Dictionary` |
| `WordCount` | the word counter, over `StringMap` |
| `StandaloneProofs` | TLAPS proofs about the programs that stand alone: `BootLoader`, and `StringMap` with `WordCount` |
| `MCSmsClient`, `MCFileSystem`, `MCPowerFails`, `MCUI`, `MCSmsExchange`, `MCParts` | values of the constants for TLC; `MCPowerFails` has a second file system, whose power fails anywhere; `MCParts` puts the parts that share nothing side by side |

### `SmsClient`

Variables have the code's names. A thread's step (`CheckFree`, `FillSlot`,
`QueueSlot` for the GUI thread; `Wait` to `StartProbe` for the network thread)
is the code between two points where another actor can change or see what is
shared; `gpc` and `npc` say where a thread is. The callbacks run in the
interrupt and are one step: `DeliverArrives`, `AckArrives` (`receivedPacketCB`),
and the device's actions (`transmitedPacketCB`); `TimerExpires` is
`my_timer` running `wakeUp`; `Wait` also returns when PING_TIME is over. A message is the number of its acceptance, a list
slot holds that number, a packet buffer holds the message it was filled from.

Three things about the data are kept because the behaviour depends on them:

- one static buffer serves all submits, so a descriptor sends what the buffer
  holds when the device gets to it (smsClient.c:255);
- an acknowledgment carries no usable reference and is matched by number
  (187); a number of even length and fewer than eight digits (`Unterminated`)
  is parsed without a terminator, and the comparison may come out either way;
- acknowledging with nothing unacknowledged dereferences NULL (185): the
  outcome is either way too.

The network loses submits, probes and acknowledgments at will. It duplicates
acknowledgments only as the SMSC acknowledges a message once per copy it got.

### `FileSystem`

`flash` maps an address to what the bits of the cell there are when read as a
header; a cell is the room of one header, data is a sequence of cells. A write
ANDs into a cell (`Common`); erasing sets a block to ones. Each action is the
code up to and including one flash command. In `WriteData` a file is
written cell by cell, so that the power can fail inside it; the copy of a file
in `changehalf` is one command, since the half it goes to is erased before
it is used again. `Room` compares as C does: an int difference with an unsigned
sum. `files`, `lastFile`, `next`, `end`, `half` are
`_files`, `_lastFile`, `_next_avilable_header_pos`,
`_end_of_avilable_data_pos`, `_currentHalf`; addresses wrap at `FlashSize` as
they do at 16 bits. `PowerFails` clears memory and keeps the flash.

`restoreFileSystem` reads headers by the batch of 12. After each batch it tests
memory behind its buffer and then takes the next header untested (273-278).
`BatchSize` and `BeyondIsBlank` keep that: a half whose headers end with a
batch is given a phantom header of the greatest length at every restart.

`RoomAssumption` says which geometry the file system is made for. The code asks for
room for a file and its header and never for a blank header behind it, by which
`restoreFileSystem` finds the end. If headers and data meet exactly it would go on
reading data as headers, and a phantom needs a place more. `DataEnd` is
where the data of `n` headers ends when `p` of them are phantoms; the assumption is that for
files of one size none of these sums meets the headers exactly, and that the half is
full well before the sums go below its start. In bytes, for the phone's half of 5 x 4096,
headers of 10, batches of 12 and phantoms of 511, the same conditions can be worked
through: they hold for messages of 184 bytes, which is `sizeof(Message)` with the enum
`inOrOut` an `int`. If the compiler makes the enum a char it is 181, and one sum of all
fails: 102 headers of which three are phantoms leave seven bytes. Sizes differ
in this respect by chance alone (185 fails without any phantom), and nothing
in the code looks after it.

### `UI`, `MessageList` and `Editor`

In `UI` a step is a statement that touches what the interrupt also touches:
`size`, the list, `myButton`, `addNewMessage`, the event flag. Two
simplifications are taken: `size++` is one instruction, and the key is read once
each time round the loop. A file operation is one step, which is what `FileStore`
promises, the `fs` run shows and `FilesAreAStore` proves. Messages are numbered in the order they were
added; `added`, `removed`, `deleting`, `replaced` are history. `Restart` is a
power failure at any point. `excused` collects what the failures hit: messages in the
list and not yet on file, those a replacement or a deletion was taking away,
and in a deletion the last message, whose file is erased before it is rewritten one
place lower; the one shifted last is there twice. `NothingLost` and
`ListInOrder` allow no other loss and no other duplicate, and `FilesMatchList`
none of the excuses.

`MessageList` takes the same loop in ex3, where arrivals at any time can be
allowed: only those in the middle of a deletion or addition (`disturbed`)
do harm. The thread draws line by line (`DrawLine`) and reads `size` again for each
one. `lines` is what it drew, cell by cell, and `menu` the line below; `Listed`
says what the messages are. `ScreenUpToDate` reads a screen as its owner does: `SaysEntry` and
`SaysMessage` find number, kind, selection, time and text where the layout has
them, so a drawing operator that puts one of them elsewhere, or gives it
another glyph, is caught.

In `UI` files are keyed by `createFileName`, three digits, so that two places
would share a file if the name did not tell them apart.

`Editor` has a cell of the screen, a char of the text and a digit as one pair: a
button, and how often it was pressed. Whether a second press comes within
MOVE_CURSOR_INTERVAL is a free choice. The display is `LCD_DCMD`,
`LCD_DICR`, `LCD_DIER` and the copy in progress; a frame handed over during a copy
would tear it.

### `FlashDriver` and `NetworkDriver`

In `FlashDriver` each request is an action up to the first command it starts,
then one action per command, as the waiting thread or `flash_interrupt` goes
through it. A byte is one bit, as bits do not affect each other; how bytes are
packed into words is `FlashRegisters`, where a byte is the set of its bits. The
device is `CommandEnds`: it does what the command says, sets `CYCLE_DONE`, and
the interrupt follows while it is enabled. The driver checks neither addresses
nor sizes against the device, so `Requests` makes only those that fit. The
mapping to `FlashMemory` (`Asked`, `Done`, `Answer`) takes what the commands so far
have moved as the progress of the request, and its end as the answer.

In `NetworkDriver` the sender's steps are the test for room, the descriptor and
the head; the routine's are the tail, the acknowledgment and the callback. The
device may act between any two. What the registers' manual would say is taken
from the code: the device sends the packet at the tail, and keeps a second cause of a direction back
until the first is acknowledged. The code acknowledges by assigning
a bit field, a read and write of the whole register; the model takes
it to clear the one bit, and the mutant `IsrAcknowledgesAll` shows what it
would mean if it cleared every bit that was read as set.

### `SmsCodec`, `SmsExchange`

Arrays are functions from zero as in C, packets sequences of octets, shifts
multiplications and divisions by powers of two. A parsing function gets what
the array it fills held before (`leftover`), as these are on the interrupt's
stack. A char is taken to have no sign, which matters only to texts that are not
septets. `SmsClient` keeps one consequence of all this, `Unterminated`.

`MessagesSurvive` asks that the digits of a number come back, always, and that it
compares equal and has its length where its end can be seen (`Terminated`). What
happens to a number without an end is not asked for: a parser that terminated every
number would satisfy `MessagesSurvive` as well, and `IdsTerminated` besides.

### `BootLoader`

A byte is one bit again. `ReadEnds` is the device, which may or may not set
`CYCLE_DONE`; the loader never clears it and can then only time out, unless it
is cleared outside (`Acknowledged`). Memory holds anything before (`memoryBefore`).
`ImageCopied` promises a byte of the image where memory was blank, and each bit of the
image that is one.

### `StringMap`, `WordCount`

A node is named by its key, and its fields are functions of the key. Each call is one
step. `WordCount` reads tokens between white space and counts their
first run of legal characters; `chkMakeLegall`'s replacement of capitals (line 36) is left
out, as it writes and reads one variable in one unordered argument list:
`WordsAssumption` keeps capitals out of the tokens.

## Runs

`MaxMessages`, `MaxArrivals`, `MaxAcks`, `MaxCalls`, `MaxCrashes`, `MaxAdded`,
`MaxKeys`, `MaxRestarts`, `MaxRequests`, `MaxSent`, `MaxListed`, `MaxTokens` and
`BootTimeout` bound counters in the guards; `MAX_MESSAGES` and `LCD_NUM_LINES` are
the code's. Where a run lets calls or keys run out, the system then rests, and
deadlock is not checked; the SMS runs check it.

| Run | Shows | Bounds |
|---|---|---|
| `sms_safety` | rings and queues of the client stay consistent; waiting messages stay whole and in order; the unacknowledged one is overwritten by nothing but a message that takes the last queue place, the deliver taken to be acknowledged by nothing but one that takes the last place of its queue | rings of 2 (5 in the code), transmit ring of 3, 3 messages to two numbers of which one is even-length, 3 delivers, `BAD_DESCRIPTOR` |
| `sms_outbox` | the client implements `Outbox`; every message is confirmed; acknowledgments of delivers drain | rings of 3, at most 2 messages outstanding, transmit ring of 2, 4 messages to different numbers, 1 deliver |
| `sms_inflight`, `sms_late_ack`, `sms_unstored` | the findings below | as small as they fit in |
| `fs` | `FileStore` is implemented, the table matches the flash, free space is erased, calls return; in the second file system live files never overlap, wherever the power fails (`FilesDisjointAnywhere`) | halves of 12 cells, 2 files with one of 2 contents of 2 cells, batches of 2 headers, 5 calls, 1 power failure; the second with failures also in the two windows and 4 calls |
| `fs_torn`, `fs_doubled` | the findings below | one of the two windows each |
| `ui` | nothing lost, in order, files match the list, the cursor kept on the screen by moves, wherever the power fails; the thread comes to rest | list of 3 (100 in the code), screen of 3 lines, 4 messages when one arrives, 6 keys, 1 restart at any point |
| `ui_disturbed` | the finding below | list of 3, arrivals at any time |
| `exchange_ids` | the finding below | numbers of every length, the stack as in `parts` |
| `parts` | each part alone, the others at rest: `FlashDriver` implements `FlashMemory`, answers once and is ready then; `NetworkDriver` reports and delivers every packet once, in order, whole; `SmsExchange` brings messages through; `StringMap` implements `Dictionary` and `WordCount` counts with it; `Editor` sends what was shown, on a display that mixes no screens; `BootLoader` copies the image to blank memory; `MessageList` keeps every message and shows the list as it is | flash of 4 bytes, commands of 2, requests of up to 3, 2 requests; rings of 3, 3 packets sent, 3 arrive; numbers of every length, texts of 0 to 17 letters; 4 keys, 3 values, 3 tokens; text of 2 letters, number of 1 digit, 5 buttons; image of 3 bytes, commands of 2, 2 polls; list of 4, screen of 4 lines, numbers of 2 digits, 3 arrivals and one message sent, keys at any time |

Why the bounds suffice for what they claim:

- *SMS.* Rings of 2 and 3 wrap, fill and empty within three or four messages; the full send
  list, the full receive queue, the full transmit ring, the retry, the late
  and the duplicate acknowledgment all occur. The theorems remove the bounds
  for the invariants. `sms_safety` uses symmetry in the delivers and a view
  that leaves out what the SMSC saw: no action's guard or effect on the other
  variables reads it beyond the acknowledgments in flight, and no property of that run depends on it.
- *File system.* A write of a file takes three cells of twelve, so the fourth
  write reaches the change of half. Two files are a whole batch of two headers:
  the phantom header behind them can leave no room even after the change, which
  is how `Full` is reached. The data cells include one that reads as a USED
  header: data taken for a header would show. The second file system gets by with four
  calls: the fourth changes the half after a power failure in either window.
- *UI.* A list of three gets full within three arrivals, and a deletion
  in it shifts two places. Four messages replace the last one; six keys send,
  move and delete. Two lines above the menu are fewer than the list, so it scrolls.
- *Drivers.* A request of 3 bytes is two commands, the second a partial one; two
  requests follow each other in every combination. Three packets go round a ring
  of three, and its two usable places fill.
- *Protocol.* Packing goes in rounds of eight septets: 17 letters are two and one
  more. Each text has one septet unlike the others, at every place, with bits at
  both ends, so a bit that goes astray shows. The theorems remove the bound.
- *Map.* Four keys give every shape of a tree in which a climb of two parents occurs;
  one key is a prefix of another.
- *Editor.* Two letters and one digit reach the last place, which is written
  over. The buttons are one with two letters, one with four and the three others.
- *List and screens.* Four messages are more than the three lines above the menu, so the
  list scrolls; one line is left for a text, which may fill it. The messages are of
  both kinds, with short and full numbers, with no text and with chars that have a glyph, a
  moved glyph and none.
- *Boot loader.* Three bytes are a whole command and a partial one.

`fs` and `ui` assume something the code does not ensure, and each assumption is
the subject of a violation run:

- `fs`: the power does not fail inside two windows (`Unclaimed`, `Doubled`);
  all files have one size; and the live files never fill a half so that headers
  and data touch. The UI writes files of one size, `sizeof(Message)`, and in
  its halves of five 4 KB blocks the data then leaves a gap of at least 42 bytes, more
  than a header; with a gap smaller than a header, the restoring loop would go
  on reading data as headers. The model's sizes are chosen with the same property.
- `ui`: messages arrive only while the thread sleeps or wakes (`wait`, `check`)
  with none left to save. At any other point they can do harm: the findings and
  the list below it have the cases. Keys come at any time.
- `parts`, in `MessageList`: messages arrive only while there is room, as
  `addNewMessageToMessages` of ex3 would write behind the array (538).

### Fairness

- *SMS.* Weak for each thread: both have priority 16 and a time slice. Weak for
  the device: it works through its ring. Strong for "a submit gets through" and
  "an acknowledgment gets through": without it the network may lose every
  retry, and nothing could be promised. The timer needs none: the
  network thread's wait has a timeout of its own, so `Wait` is always enabled.
- *File system.* Weak for `Progress`: the flash completes each command. Power
  failures have none.
- *Drivers.* Weak for the thread inside a request, the interrupts and the
  devices: each finishes what it began. New requests and arrivals have none. In
  `parts` the two conditions hold for all parts at once; drivers at rest owe nothing.
- *UI.* Weak for the thread: the scheduler is round robin. Keys, arrivals and
  restarts have none.

## Findings

| Run | Property | What the code does |
|---|---|---|
| `sms_inflight` | `InFlightIntact` | the unacknowledged message's slot counts as free: a message that takes the last place of the queue overwrites it |
| `sms_late_ack` | `SubmissionsKept` | a message acknowledged twice makes the client forget the next one to that number |
| `sms_unstored` | `AcksOnlyStored` | a deliver dropped for want of room is acknowledged, in place of the one it overwrote |
| `fs_torn` | `FreeSpaceErased` | data whose header was never written is programmed flash that counts as free |
| `fs_doubled` | `FoundIsTheFile` | removing the older of two headers shifts the table under the index found; with one entry left, `fs_erase` marks address 0, the half's signature, and a second one takes `_lastFile` below zero |
| `ui_disturbed` | `NothingLost` | a message that arrives during a deletion overwrites the last one |
| `exchange_ids` | `IdsTerminated` | an id of even length is read without the terminator that `embsys_sms_protocol.h` (12) promises |

Met while modelling and shown by no run:

- `sendMessage` sets no wake-up flag, although the README of ex4 (65-66) says
  the network thread wakes when a message needs to be sent: it waits for
  PING_TIME. With as many messages outstanding as the list has slots, the
  network thread, stopped between its copy and the fill, can send a newer
  message out of turn.
- An empty number gives a recipient length the protocol refuses
  (embsys_sms_protocol.c:196); the message is tried again for ever.
- `UI.c`: two arrivals before the thread wakes are one flag, so one is not saved
  and loading stops at the gap (485); the thread's own addition and the
  loading loop race with the interrupt (468, 413); a key pressed before the last
  one is read replaces it (248). A screen that the display refuses stays undrawn
  until the next key (20), which `DisplayWhole` allows for as `refused`. An arrival
  into a list that is scrolled round its end, or a deletion that leaves `topMessage`
  behind the list, takes the cursor out of the screen, and moving it does not
  bring it back at once; `MovesStayVisible` is about moves only.
- `tebahpla.c`: the glyph table ends with 126 (123-130), and `getCHAR` takes any char (143): a received
  septet 127 is read behind it. `` [ \ ] ^ ` { | } ~ `` have no sign. `get7bits` is the
  identity (133-136) and nothing calls it: letters leave the phone as ASCII, and a
  received text in GSM 7 bit would be taken for ASCII when it is drawn.
- `ex3/UI.c`: `addNewMessageToMessages` writes behind the array when the list is
  full (538).
- `flash.c`: `flash_read_start` and `flash_write_start` store the size and the
  position of the first command after they start it (286, 140); a command that
  ends in between, or a thread preempted there, transfers the same bytes again or
  too many. `Prompt` in `FlashDriver` allows it and `PartsTypeOK` then fails;
  nothing in ex4 calls the two, so the run leaves it out. `flash_read_start`
  ORs into a buffer that still holds the last request (90), so
  the mapping counts its answer only where that was blank.
- `fs.c`: a length of 512 does not fit the nine bits it is stored in (49, 510);
  a full table (1000 files; the UI has 100) is reported through a NULL pointer (429-443).
  `eraseHalf` waits for the completion before it looks whether the erase was
  started (403); `AnsweredOnce` shows the driver ready whenever it called back, so
  that the next erase does start.
- `fs.c`: the test for room (446) compares an int difference with an unsigned sum. With less
  left in the first half than the file is long it finds room, and the data
  goes to the top of the device. It takes a half filled with data down to
  `length` while the headers are still below: files longer than the square root of
  10 times the half, some 450 bytes in the UI's halves of 20480. A message has
  fewer than 190.
- `Loader_UI.c` asks for 16 blocks (619), which are 32 with both halves: `HALF_SIZE` is
  65536, 0 in 16 bits. Both halves start at 0 and have their end at 0. By
  the comparison above files are written all the same, down from the top of the
  device; but the first change of half erases the "other" half, which is the same one,
  and every file is gone.
- What follows an id left unterminated (`exchange_ids`) may even not be a digit: then the
  acknowledgment of the deliver is not filled (35), and `sendProbe` sends the buffer of
  the last one all the same, with the last one's length (`smsClient.c` 278). The attempt
  to prove that a deliver is always acknowledged showed it; TLC had
  found nothing because the stack of `parts` held only digits. It holds 255 now.
- `bootLoad.c` ORs the image into memory nobody cleared (113): the copy is exact only where
  memory was zero, which `ImageCopied` says, although the comment at the loop (127) has it
  "read whole flash file into dest".
- BAD_DESCRIPTOR makes the client forget the unacknowledged message whichever packet it is
  about (`smsClient.c` 118). If a probe is refused after the next message was taken from the
  queue (308) and before it is sent, that message is never sent at all; if it is on its way it
  is not retried when it gets lost.
- `word_count.cpp`: a word is counted when the next one is read, and the loop ends
  at the end of the input first: the last word is lost unless white space follows,
  which `WordsCounted` says. No text of the repository says what should be counted.
- `timer.c`: `timer0ISR` and `timer1ISR` are in no interrupt vector.

## Proofs

Eight modules hold theorems, each for every value of the constants that its
component's assumptions admit. The ones that speak of behaviours are proved in the
same way: an inductive invariant that says, for each point the component can be
at, how its pieces of state fit together; one lemma per action that it is kept;
then the property from the invariant, or for a refinement each step as a step or a
stutter of the abstract specification. Every inductive invariant was checked with
TLC before it was proved.

The parts that `parts` runs side by side have a specification of their own
for the theorems: `NetworkSpec`, `BootSpec`, `EditorSpec`, `ListSpec`, `FlashSpec`, `ExchangeSpec`,
`MapSpec` and `WordsSpec` are
the initial condition and next-state relation of one part, without the fairness
that the others' liveness needs.

Some theorems take a hypothesis. Each is met by the runs that check the same property,
and leaving it out makes the property false, as a violation run or an entry of
"Met while modelling" shows. The exception is `FilesDisjoint`, which `fs` checks
without `Safe`, as `FilesDisjointAnywhere`:

| Hypothesis | Of | Without it |
|---|---|---|
| `~ArrivalsDisturb`: messages arrive while the thread sleeps | `UIProofs` | run `ui_disturbed` |
| `Safe`: power does not fail in two windows, memory behind a buffer is not all ones | `FileSystemProofs` | runs `fs_torn`, `fs_doubled`; headers behind a full batch are not found |
| `RoomAssumption`: the half does not fill to the last header | `FileSystemProofs` | with blocks of 5 or 7 cells instead of 6, and without the assumption, TLC finds `TableMatchesFlash` violated |
| `OutboxHypotheses`: a slot stays free, numbers are told apart and one message is sent to each, no bad descriptor | `ClientIsAnOutbox` | runs `sms_inflight`, `sms_late_ack`; a number of even length is compared with garbage; a bad descriptor ends a message unsent |
| `MaxOutstanding <= ListSize` | `InFlightStaysIntact` | run `sms_inflight` |
| `~Prompt`: a command lasts until the statement after its start | `FlashDriverProofs` | `flash.c` (286, 140) above |
| no number of a message contains a space (`PlainNumber`) | `ScreenIsUpToDate` | the layout cannot say where such a number ends |

### `SmsClient`

`SmsClientProofs` assumes a list of at least one slot, a transmit ring of at
least two, counters bounded by naturals.

| Theorem | States |
|---|---|
| `TypeCorrect` | `Spec => []TypeOK` |
| `QueuesStayWindows` | the two queues are always the stretch of slots just behind their list's head |
| `NeverLosesSlot` | `sendMessage` never takes a slot that the queue then refuses |
| `WaitingStayIntact` | waiting messages are whole, in order |
| `InFlightUntilFull` | only the message that takes the last place overwrites the unacknowledged one |
| `PendingAcksSafe` | every deliver that waits behind another was stored |
| `TakenUntilFull` | `TakenIntactUntilFull`: the deliver about to be acknowledged stays in its slot until delivers that came since fill the queue |
| `InFlightStaysIntact` | with `MaxOutstanding <= ListSize` the unacknowledged message is never overwritten |
| `ClientIsAnOutbox` | the client implements `Outbox` |

The argument has these inductive invariants, each resting on the ones before.

1. `TypeInv` is `TypeOK` and `SendInProgress`: between the fill and the
   queueing, the local slot is the one just before the head and holds the
   message to be accepted. `TypeOK` alone is not inductive: `QueueSlot` appends
   `toSend`, which its type lets be NULL.
2. `SendInv` holds the window of `ToSendQueue`, `NoSlotLost`, `WaitingIntact`,
   `InFlightPrecedesWaiting` and `InFlightIntactUntilFull` together. None of
   them is inductive by itself: that `FillSlot` spares the waiting messages needs the
   window (the head is in it only when the queue is full) and the room seen;
   that it spares the unacknowledged one needs to know where that one is,
   just before the oldest waiting one, which is what `InFlightPrecedesWaiting` says
   and no run checks by itself. Most actions leave the variables
   of `SendInv` alone or only forget the unacknowledged message; one lemma
   (`SendInvRest`) covers them, and `FillSlot`, `QueueSlot`, `TakeNext` have one each.
3. `ReceiveInv` is the window of `receiveQueue` with `PendingAcksStored`: a
   dropped packet lands on the oldest slot of a full window, never on a later one.
   `TakenPlace` adds where the slot is that `sendProbe` is about to copy: just before the
   waiting ones, as long as they leave room. The head is then the slot itself only when one
   place is left, and the deliver that is written there takes it.
4. `OutstandingInv` bounds queue and unacknowledged message together by
   `MaxOutstanding`; at `ListSize` the last place is never taken while a message
   is unacknowledged, and `InFlightUntilFull` does the rest.
5. `SubmitInv` follows a submit on its way: what the thread copied is the
   unacknowledged message or one the SMSC already has (`CopyGood`), so whatever the one
   static buffer holds when the device sends it was accepted and is due
   (`BufferKnown`), and an acknowledgment in flight names a message received
   (`AcksTell`). With it, forgetting a message is `Outbox`'s `Forget`, which asks that
   the SMSC received it. The abstract queue is the waiting messages behind the
   unacknowledged one.

The lemmas on slots (`AfterSlot`, `BehindAfter`) reduce the remainder to one
subtraction; those on windows (`WindowAppend`, `WindowTail`, `WindowMissesHead`,
`WindowSuccessor`) say what queue operations do to a window.

### `NetworkDriver`

`NetworkDriverProofs`, for rings of every length from two:

| Theorem | States |
|---|---|
| `NetworkTypeCorrect` | the driver's variables keep their types |
| `RingAndReportsCorrect` | between tail and head are the packets not sent, in order, behind the one whose report is due |
| `ReportsCorrect` | `ReportsAreTrue`: every packet is reported once, in order, with what became of it |
| `DeliveriesCorrect` | `DeliveriesAreWhole`: every packet received reaches the callback whole, once, in order |
| `TransmitRingIsAQueue` | `ImplementsTransmitQueue`: the transmit ring is a `BoundedQueue` |

`TransmitInv` counts: packets accepted are those reported, the one between the
device and the routine (`TxHandled`, `TxRaised`), and those in the ring; the tail
moves before the report, so a place may be free whose report is still due (`Freed`).
`StoredDelivered` says the same of the other direction, and where the one
undelivered packet is. The lemmas on `Distance` and `Wrapped` are the arithmetic of
rings.

### `FlashDriver`

`FlashDriverProofs`, for every capacity, block size, command size and request:

| Theorem | States |
|---|---|
| `FlashTypeCorrect` | the types, `internalBuffer` and the device's registers among them |
| `RequestsAnsweredOnce` | `AnsweredOnce`: no request is answered twice, and the driver is ready when it answered |
| `CommandsKeepApart` | `CommandsNotOverrun`: no command is started while one runs |
| `DriverIsAMemory` | `ImplementsMemory`: `FlashDriver` implements `FlashMemory` |

`FlashInv` is a disjunction of phases: `Ready`, `Erasing`, and a read or a write
that the thread (`ReadsForThread`, `WritesForThread`) or the interrupt alone
(`ReadsAlone`, `WritesAlone`) carries on. Each says who has the command
(`Running`, `Ended`, `Told`), which bytes it is about, and that what lies before it
was moved to its place. None of the checked properties is inductive:
that the interrupt finds a command ended needs the flag, the enable bit and the
operation to agree, which is what a phase says.

### `UI`

`UIProofs`, for lists up to 998, screens of every size, any number of arrivals,
keys and power failures, under `~ArrivalsDisturb`:

| Theorem | States |
|---|---|
| `FilesDiffer` | no two places of the list have the same file name, as the comment at `createFileName` (`num<999`) wants |
| `UITypeCorrect` | `TypeOK` |
| `MessagesKept` | `NothingLost`: a message missing was removed, or excused by a power failure |
| `OrderKept` | `ListInOrder` |
| `FilesHoldTheList` | `FilesMatchList` at every moment the thread has nothing left to save |
| `CursorSelectsMessage` | `CursorOnMessage`, which no run checks by itself |
| `MovesKeepCursorOnScreen` | `MovesStayVisible` |

`UIInv` holds the list and the files together. `ListGood` says that the list is in
order and misses nothing but what is removed or excused; `FilesGood` what the files
hold at each point of an addition, a deletion and a shift, as it is this that a
power failure turns into the list; `LoadGood` that while the files are read
they are such a list, of which a part is loaded; `HoleGood` that the place a shift is
at (`Hole`) holds a message that fits between its neighbours. That the file of a place is written and not another's
rests on `FilesDiffer`. `Counted` bounds the additions by arrivals and keys,
and `Woken` says that a new message wakes the thread. `DigitsSayNumber` computes
a place from the digits of its file name.

### `Editor` and `MessageList`

`ScreenProofs`, for every length of text and number, lists of up to the code's 100
messages and every screen:

| Theorem | States |
|---|---|
| `EditorInvCorrect` | text, number and screen keep their shape through every key |
| `DisplayStaysWhole` | `DisplayWhole`: the glass never shows parts of two screens |
| `SentIsShown` | `SentAsShown`: what is sent is the text and number shown |
| `ListTypeCorrect` | `ListTypeOK`, arrivals at any point included |
| `ListIsKept` | `ListKept`: unless an arrival disturbed an addition or a deletion, the list has every message added and not removed, once, in order |
| `ScreenIsUpToDate` | `ScreenUpToDate`: when the thread has drawn and nothing came since, the screen says of the messages what its owner needs |

`EditorInv` relates `content`, `numberFromTo` and the cells on the screen
(`TextOnScreen`, `NumberOnScreen`): after the text was left for the number
it is no longer on the screen, so the invariant remembers the screen
that showed it. `CopyUntorn` says that the display copies exactly while its
command bit is set.

In `ListInv`, `ListHasKept` says where each message is in the middle of a shift and
of an addition, `Bounds` keeps the cursor and the place shifted in the list
also when arrivals disturb, and `ScreenDrawn` is the invariant of the drawing loop: the
lines above `i` are drawn, or a message came and the thread will draw again. The
last theorem needs besides that drawing says what is drawn: `DrawnEntry`
and `DrawnMessage` take the layout apart column by column. That a number and
its filling can be told apart needs the least place that is not a digit
(`LeastOf`, from the well-foundedness of the naturals).

### `BootLoader`

`StandaloneProofs`, for every image, size of command and timeout: `BootInvCorrect`,
and `BootCopiesImage` (`ImageCopied`): the firmware is entered only with every byte of the image
read to its place. `BootInv` is the loop's invariant: source, destination and bytes
left agree, memory below the position is the image over what it held, and the command in
the device is the one the loop waits for, so that its bytes are in the registers when the
poll succeeds. `ImageCopied` speaks of the end only.

### `StringMap` and `WordCount`

`StandaloneProofs`, for any set of keys, even an infinite one, any values, and inputs
of any length, without capitals, whose words are keys (`MapAssumption`, `WordsAssumption`):

| Theorem | States |
|---|---|
| `TreeStaysInOrder` | `MapInv`: the nodes stay a search tree, and there are as many as `_size` says |
| `MapIsADictionary` | `ImplementsDictionary`: the tree and its iterator are a dictionary walked in ascending order, which may grow under the iterator |
| `WordsTypeCorrect` | `MapTypeOK` and `WordsTypeOK` |
| `WordsAreCounted` | `WordsCounted`: each word is printed once, in order, with its number, the last not counted where nothing follows it |
| `WordsUseADictionary` | `ImplementsDictionary` for what the word counter does with its map |

That the code's order of strings is a strict total order is not assumed but proved
(`KeyOrder`), from `Precedes` and the least place where two strings differ.

The loops of `find`, `min` and `succsor` are recursive functions on the keys.
That such a definition has a value at all is only true where the loop ends. `Walk` is a
step from node to node with a measure that falls; `WalkInduction` is induction
along it, and `WalkComputes` shows that the recursive equation then has a solution.
Down the tree the measure is the room below a node's depth, which `nodes` bounds (the depth of a new node is
at most the number of nodes before it), up the tree it is the depth (`DownEnds`, `UpEnds`).

`MapInv` says that there are a depth and, for each node, the set of the nodes below it (`sub`)
so that the links agree in both directions (`Linked`) and every subtree lies on its side of its
root (`Ordered`). The variables do not hold these two; an insertion exhibits the new ones
(`AttachShaped`). From the invariant, `find` ends at the key's node or at the free place where it
belongs (`SearchLands`, `FindLands`), `min` is the least of a subtree (`MinIsLeast`), and climbing ends at the
least key above the whole subtree (`RisingIs`), where `SubtreesApart` says that two subtrees
are one inside the other or apart. `SuccsorIs` and `BeginIs` put it together: the iterator's
next node is the least key greater than its own.

`WordsInv` adds that the map counts the tokens looked at, one behind those read until the
input ends (`Reading`, `Tallied`), and that the lines printed are the keys before the iterator
(`Printing`).

### `SmsCodec` and `FlashRegisters`

`PackingProofs` proves for every length, whatever the stack held, what `parts` checks on
texts of up to 17 letters:

| Theorem | States |
|---|---|
| `TextSurvives` | parsing the packed octets of a text gives the text back, whatever its septets |
| `NumberSurvives` | each digit of a number comes back, and behind them is a terminator if the length is odd, and what the array held before if it is even |
| `ExchangeSurvives` | `MessagesSurvive`: a message goes through submit, acknowledgment, deliver and probe with every letter and digit, and its number compares equal where its end can be seen |
| `ExchangeTypeCorrect` | `ExchangeTypeOK` |
| `WritesOnlyItsBytes` | a write of 1 to 64 bytes clears the bits of its own bytes at their own place, and the ones that fill the last word change nothing behind them, even on a device that writes whole words |
| `ReadsItsBytes` | a read ORs each byte into its own place of the buffer and leaves the rest alone, whatever the registers held |

Round *i* of both packing loops is the *b*-th of the *a*-th eight (`Rounds`). Seven
rounds of eight write an octet, so the octet of round *i* is the 7*a*+*b*-th (`OctetWritten`).
An octet holds the high bits of one septet and, above them, the low bits of the
next. `Joined` puts a septet together again from its two octets, wherever it was cut
(`Cut`); `First` and `Eighth` are the two places where it is not.

`ExchangeInv` says for each stage what packet is on its way: as a
packet is a concatenation of two or three parts (`TwoParts`, `ThreeParts`), the
place of a field follows from the lengths before it. `AddressRead` and `SubmitRead` say
that the SMSC finds the recipient and the text where the client put them,
`AckRead` and `DeliverRead` the same for the client. `NumberSurvives` then says what the
number parsed is, also behind its end; that it compares equal
(`Matches`) and has the same length is proved where the first character there ends it,
which is `Terminated`.

In the flash a byte is found by its word and its place in the word (`WordAndPlace`), and
reversing the word twice is no change. The last two theorems justify the one bit per byte and the
missing registers of `FlashDriver` and `BootLoader`. No run states them, as
there is no behaviour in time.

### `FileSystem`

`FileSystemProofs`, for any number of names, blocks and headers, any size of file and any
number of calls and power failures, under `RoomAssumption` (see `FileSystem` above) and
`Safe`:

| Theorem | States |
|---|---|
| `FilesTypeCorrect` | `TypeOK` |
| `SpaceStaysErased` | `FreeSpaceErased`: between headers and data the flash is erased, so that nothing is written over |
| `TableStaysTrue` | `TableMatchesFlash`: the table holds the used headers, each with the place of its data |
| `FoundStaysTheFile` | `FoundIsTheFile`: what `FindFile` found is the file asked for until the write is through |
| `FilesStayDisjoint` | `FilesDisjoint`, in the middle of `changehalf` too |
| `FilesAreAStore` | `ImplementsFileStore`: each write and erasure takes effect at one moment and completely, whatever half the file is in and wherever the power fails, and what is read, counted and listed is what was written last |

`Safe` is the setting of the run `fs`: the memory behind the header buffer is not all
ones, and the power does not fail in the two windows in which `fs_torn` and `fs_doubled`
show that the properties are false. `fs` checks `FilesDisjoint` in these windows too,
which is not proved.

`FilesInv` has a conjunct for each point the file system can be at. What they
say is built from a few predicates.

- `HalfGood` describes a half with `m` headers, which `Cell` numbers from 1. Every
  header is of a file or a phantom (`IsHeader`), the data of each begins where the
  sums of `DataEnd` say (`HeadersGood`), and from the `m` headers to the data the flash is
  erased (`Space`). A phantom may have taken the last of the room, and then it is the
  data before it that bounds the erased part; this is why none of the checked properties is
  inductive, and where `RoomAssumption` is used.
- `Table` relates a table to a set of headers: it has each of them once (`Entries`) with the
  place of its data (`Extents`). `OneOfEach` says that no two of them have one name.
  Between calls the set is all used headers. In `UseGood` the new header is not yet in it,
  and in `SupersedeGood` the old one no longer is.
- `Restoring` is the loop of `restoreFileSystem`: the table holds the used among the
  headers read. When `changehalf` started it, `Rebuilt` says besides that the
  headers of the half are the entries of the old table in their old order, so
  that the index found before denotes the same file afterwards.
- `CopyGood` and `OtherGood` are `changehalf`: the other half is a `Replica` of the table
  as far as it is copied. `InUse` says which half `fs_init` will find. Validating
  the other half and unvalidating this one keep it so that what is found is
  a good half, and that is all `PowerFails` needs (`FlashKept`).

`FilesStep` has one case per action, and under it one lemma per phase the action
leads to. The largest part are the lemmas on what a step does to these predicates:
a header put behind the last one (`Puts`), a status changed (`Marks`), a write above the
headers (`WrittenAbove`), an entry removed or changed (`TableRemoved`, `EntryPut`).

`FilesAreAStore` looks at the flash alone: `StoredOf` is `StoredIn` of any flash, which `Looks`
makes a matter of one half and its number of headers, and `StoredSame` of the versions of a file
and their data. With these each step but two leaves what is stored as it is
(`SameStored`): `WriteUsed` makes a name's contents the data of the request, and `Erase` takes them away; these
two are the abstract `Perform`. Calls and returns are `Call` and `Return`, a power failure is
`PowerLost`, all else stutters. `FilesInv` says where data is and not what it is, so `RefInv` adds
that: the cells written so far are the request's (`WrittenInv`), the files copied
so far are those of the table, and so is the half that has just been made valid (`CopiedInv`), and
the answer being returned is one that `FileStore` allows (`Answered`). Three points are
less plain than the rest. `Supersede` and a power failure are harmless as the version
deleted is not the newest. When the second half is made valid the first is still read,
and when the first is made valid it is read at once, so the copies must be complete then. And
`fs_init` may erase the whole device, which it does only where nothing is stored. The theorem
needs that `Absent` is told apart from contents; the assumption is in `FileSystem`.

### Only model-checked

- Liveness (`EveryMessageConfirmed`, `AcknowledgmentsDrain`, `CallsReturn`,
  `ComesToRest`, `EveryRequestAnswered`, `EveryPacketReported`): fairness is out of the
  prover's reach.
- `FilesDisjointAnywhere`, that is `FilesDisjoint` when the power fails in the two windows of `Safe`: two headers of one name,
  and an index that may denote the wrong one, would need phases of their own.
- `PartsTypeOK`, which joins the types of the parts that `parts` runs side by side: what is
  proved is the type of each part in its own module.

## Not modelled

| Part | Why |
|---|---|
| ThreadX: `tx_api.h`, `tx_port.h`, twice | a binary library with 3200 lines of declarations, more than a quarter of all code here; queues, flags and timers are taken as the code relies on them |
| Operating modes of the network device | `network_set_operating_mode` is one register access and nothing in ex4 depends on its effect |
| Drawing in ex4's `UI.c` while messages arrive | it draws as ex3 does; `UI` keeps which message is on which line, `MessageList` has the drawing |
| The 1000-file limit and `clearDuplicateFiles`, files of length 0 and 512, the driver's error codes in `fs.c` | the UI keeps 100 files of one size; see "Met while modelling" |
| Keypad and timer drivers | one register access and a callback each; the keypad's is `Press` |
| `UITester.c`, `ex3.c`, the main of `ex4.c` | set the system up or fill lists by hand |
| Capital letters in `word_count.cpp`, `print` and the destructor of the map | the first is unspecified in C++; the others keep no state |
| Polynomial exercise, scripts | stub bodies, tools |

Files that exist twice are modelled once, and some definitions name the
lines of the other copy where it is the same.

## Plan

Done: `SmsClient` (the concurrent core, first because everything a user relies on passes
through it), `FileSystem`, `UI`, the drivers they rest on, the protocol, the
display, the boot loader, ex3's list with its screens, and `cp2`. `FileStore` stands between `UI` and
`FileSystem`, `FlashMemory` under `FileSystem` and above `FlashDriver`, `BoundedQueue`
between `SmsClient` and `NetworkDriver`, `Outbox` above `SmsClient`. Left to model:

1. The receive ring of `NetworkDriver` as a `BoundedQueue`.
2. `fs.c`: error codes, the 1000-file limit with `clearDuplicateFiles`, and a
   geometry in which the comparison at 446 bites.

