------------------------------ MODULE WordCount ------------------------------
(***************************************************************************)
(* levitz/cp2/word_count.cpp: it counts the words of the standard input in *)
(* a StringMap and prints them.  The input is a sequence of tokens, what   *)
(* stands between white space.  Capitals are left out: what line 36 makes  *)
(* of one depends on the order in which the compiler evaluates arguments.  *)
(***************************************************************************)
EXTENDS StringMap, FiniteSets

CONSTANTS Tokens, MaxTokens  \* bound: tokens of an input

VARIABLES
  input,       \* the tokens not yet read
  newline,     \* whether white space ends the input
  eof,         \* of std::cin
  str,         \* the token read last
  numOfWords,
  printing,    \* the program has come to print
  printed,     \* the lines printed
  text         \* history: the whole input

wordVars == <<input, newline, eof, str, numOfWords, printing, printed, text>>

GERSH == 39

isNotLegal(c) == \/ c # GERSH /\ c < 65
                 \/ c > 90 /\ c < 97
                 \/ c > 122

\* The first run of legal characters, or nothing.
chkMakeLegall(s) ==
  LET legal == {n \in DOMAIN s : ~isNotLegal(s[n])}
      first == CHOOSE n \in legal : \A m \in legal : n <= m
      last == CHOOSE n \in legal : first .. n \subseteq legal /\ n + 1 \notin legal
  IN IF legal = {} THEN <<>> ELSE SubSeq(s, first, last)

Capital == 65 .. 90

\* The words of the tokens are keys, and the values count as far as the bound.  No token has
\* a capital, as what replaces one is unspecified.
ASSUME WordsAssumption ==
  /\ MaxTokens \in Nat /\ 1 .. MaxTokens \subseteq Values
  /\ \A token \in Tokens : \A n \in DOMAIN token : token[n] \notin Capital
  /\ \A token \in Tokens : chkMakeLegall(token) \in Keys \cup {<<>>}

WordsInit ==
  /\ text \in UNION {[1 .. n -> Tokens] : n \in 0 .. MaxTokens} /\ input = text
  /\ newline \in BOOLEAN
  /\ eof = FALSE /\ str = <<>> /\ numOfWords = 0
  /\ printing = FALSE /\ printed = <<>>

\* Reading up to the end of the input sets eof, with the last token if nothing follows it.
Extract ==
  /\ eof' = (input = <<>> \/ (Len(input) = 1 /\ ~newline))
  /\ str' = IF input = <<>> THEN str ELSE Head(input)
  /\ input' = IF input = <<>> THEN <<>> ELSE Tail(input)

\* Mutant of ReadWord: what has no word in it is counted among the words.
ReadWordCountsBlank ==
  /\ ~eof /\ ~printing
  /\ LET word == chkMakeLegall(str)
         n == Lookup(word)
     IN /\ numOfWords' = numOfWords + 1
        /\ IF word = <<>> THEN UNCHANGED tree ELSE setValue(word, IF n = Null THEN 1 ELSE n + 1)
  /\ Extract
  /\ UNCHANGED <<current, answer, newline, printing, printed, text>>

\* A round of read: the word read in the last one is counted, and the next one read.
ReadWord ==
  /\ ~eof /\ ~printing
  /\ LET word == chkMakeLegall(str)
         n == Lookup(word)
     IN IF word = <<>> THEN UNCHANGED <<numOfWords, tree>>
        ELSE numOfWords' = numOfWords + 1 /\ setValue(word, IF n = Null THEN 1 ELSE n + 1)
  /\ Extract
  /\ UNCHANGED <<current, answer, newline, printing, printed, text>>

StartPrint ==
  /\ eof /\ ~printing /\ printing' = TRUE
  /\ getIterator
  /\ UNCHANGED <<input, newline, eof, str, numOfWords, printed, text>>

\* A line: the word, how often it came, out of how many.
PrintLine ==
  /\ printing /\ ~atEnd
  /\ printed' = Append(printed, <<KeyAt, ValueAt, numOfWords>>)
  /\ goNext
  /\ UNCHANGED <<input, newline, eof, str, numOfWords, printing, text>>

WordsNext == ReadWord \/ StartPrint \/ PrintLine

WordsSpec == MapInit /\ WordsInit /\ [][WordsNext]_<<mapVars, wordVars>>

-----------------------------------------------------------------------------
WordsTypeOK ==
  /\ input \in Seq(Tokens) /\ str \in Tokens \cup {<<>>}
  /\ newline \in BOOLEAN /\ eof \in BOOLEAN /\ printing \in BOOLEAN
  /\ numOfWords \in 0 .. MaxTokens

\* The tokens that count: without white space at the end, the last one is lost, because
\* eof is set before the loop looks at it.
Counted == IF newline THEN text ELSE SubSeq(text, 1, Len(text) - 1)

Occurrences(word) == {n \in DOMAIN Counted : chkMakeLegall(Counted[n]) = word}
CountedWords == {chkMakeLegall(Counted[n]) : n \in DOMAIN Counted} \ {<<>>}

\* Every word of the input is printed once, in order, with the number of its
\* occurrences and with the number of all words.
WordsCounted ==
  printing /\ current = Null =>
    /\ {printed[n][1] : n \in DOMAIN printed} = CountedWords
    /\ \A n \in DOMAIN printed :
         /\ printed[n][2] = Cardinality(Occurrences(printed[n][1]))
         /\ printed[n][3] = Len(Counted) - Cardinality(Occurrences(<<>>))
         /\ n > 1 => Precedes(printed[n - 1][1], printed[n][1])
=============================================================================
