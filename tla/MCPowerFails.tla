---------------------------- MODULE MCPowerFails ----------------------------
(***************************************************************************)
(* The file system for TLC, twice and each alone: as MCFileSystem has it,  *)
(* and with the power failing anywhere, also in the windows in which most  *)
(* of its properties are false.                                            *)
(***************************************************************************)
EXTENDS MCFileSystem

VARIABLES
  part,  \* the one explored
  flash2, pc2, files2, lastFile2, next2, end2, half2, request2, answer2, index2, i2,
  previous2, copied2, after2, calls2, crashes2

vars2 == <<flash2, pc2, files2, lastFile2, next2, end2, half2, request2, answer2, index2, i2,
           previous2, copied2, after2, calls2, crashes2>>

\* Bound: one call less than the configuration gives the first one.
Anywhere ==
  INSTANCE FileSystem WITH
    LoseUnclaimed <- TRUE, LoseDoubled <- TRUE, MaxCalls <- 4,
    flash <- flash2, pc <- pc2, files <- files2, lastFile <- lastFile2, next <- next2,
    end <- end2, half <- half2, request <- request2, answer <- answer2, index <- index2,
    i <- i2, previous <- previous2, copied <- copied2, after <- after2, calls <- calls2,
    crashes <- crashes2

BothInit == part \in {"outside", "anywhere"} /\ Init /\ Anywhere!Init

FailsOutside == part = "outside" /\ Next /\ UNCHANGED vars2
FailsAnywhere == part = "anywhere" /\ Anywhere!Next /\ UNCHANGED vars
BothNext == (FailsOutside \/ FailsAnywhere) /\ UNCHANGED part

\* The flash's fairness is that of the first alone: of the other only an invariant is asked.
BothSpec == BothInit /\ [][BothNext]_<<vars, vars2, part>> /\ WF_vars(Progress)

\* The files in the table never share flash with each other or with the headers, wherever
\* the power fails.
FilesDisjointAnywhere == Anywhere!FilesDisjoint
=============================================================================
