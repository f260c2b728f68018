------------------------------- MODULE MCParts -------------------------------
(***************************************************************************)
(* The parts that share nothing, for TLC: each is explored with the others *)
(* at rest.                                                                *)
(***************************************************************************)
EXTENDS FlashDriver, NetworkDriver, MCSmsExchange, WordCount, Editor, BootLoader, MessageList

VARIABLE part  \* the one explored

\* The words a, b, a' and ba, and tokens with something else before, between and after.
MCKeys == {<<97>>, <<98>>, <<97, 39>>, <<98, 97>>}
MCTokens == {<<97>>, <<98, 45, 97>>, <<45>>, <<97, 39>>, <<45, 98>>}

\* Messages of both kinds, short and full numbers, no text and signs with and without a glyph.
Padded(n, chars) == [k \in 0 .. n - 1 |-> IF k < Len(chars) THEN chars[k + 1] ELSE 0]
Entry(number, inOrOut, chars) ==
  [numberFromTo |-> Padded(ShownDigits, number), inOrOut |-> inOrOut,
   timeStamp |-> Padded(StampDigits, <<57, 48>>),
   content |-> Padded(TextArea, chars), size |-> Len(chars)]
MCListed ==
  <<Entry(<<49>>, Incoming, <<97, 36, 64, 95, 94>>), Entry(<<50, 51>>, Outgoing, <<>>),
    Entry(<<52>>, Outgoing, <<99, 48, 32, 46, 63, 90>>), Entry(<<53, 48>>, Incoming, <<104>>)>>

Init ==
  /\ part \in {"flash", "network", "exchange", "map", "words", "editor", "boot", "list"}
  /\ FlashInit /\ NetworkInit
  /\ ExchangeInit /\ (part # "exchange" =>
                        composed.recipient = NotDigits /\ composed.length = 0 /\ leftover[0] = NUL)
  /\ MapInit /\ WordsInit /\ (part # "words" => text = <<>> /\ newline)
  /\ EditorInit
  /\ BootInit /\ (part # "boot" => \A k \in Places : image[k] = 0 /\ memory[k] = 0)
  /\ ListInit

Flash == part = "flash" /\ FlashNext
         /\ UNCHANGED <<networkVars, exchangeVars, mapVars, wordVars, editorVars, bootVars, listVars>>
Network == part = "network" /\ NetworkNext
           /\ UNCHANGED <<flashVars, exchangeVars, mapVars, wordVars, editorVars, bootVars, listVars>>
Exchange == part = "exchange" /\ ExchangeNext
            /\ UNCHANGED <<flashVars, networkVars, mapVars, wordVars, editorVars, bootVars, listVars>>
StringMapAlone == part = "map" /\ MapNext
         /\ UNCHANGED <<flashVars, networkVars, exchangeVars, wordVars, editorVars, bootVars, listVars>>
Words == part = "words" /\ WordsNext
         /\ UNCHANGED <<flashVars, networkVars, exchangeVars, editorVars, bootVars, listVars>>
Writing == part = "editor" /\ EditorNext
           /\ UNCHANGED <<flashVars, networkVars, exchangeVars, mapVars, wordVars, bootVars, listVars>>
Boot == part = "boot" /\ BootNext
        /\ UNCHANGED <<flashVars, networkVars, exchangeVars, mapVars, wordVars, editorVars, listVars>>
List == part = "list" /\ ListNext
        /\ UNCHANGED <<flashVars, networkVars, exchangeVars, mapVars, wordVars, editorVars, bootVars>>

Next == /\ Flash \/ Network \/ Exchange \/ StringMapAlone \/ Words \/ Writing \/ Boot \/ List
        /\ UNCHANGED part

parts == <<flashVars, networkVars, exchangeVars, mapVars, wordVars, editorVars, bootVars, listVars, part>>

\* At rest, the drivers owe nothing.
Spec == Init /\ [][Next]_parts /\ FlashFairness /\ NetworkFairness

\* Every variable of every part has its type.
PartsTypeOK ==
  /\ FlashTypeOK /\ NetworkTypeOK /\ ExchangeTypeOK
  /\ MapTypeOK /\ WordsTypeOK /\ EditorTypeOK /\ BootTypeOK /\ ListTypeOK
=============================================================================
