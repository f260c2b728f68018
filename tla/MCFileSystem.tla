---------------------------- MODULE MCFileSystem ----------------------------
(* Values of the constants of FileSystem for TLC. *)
EXTENDS FileSystem

CONSTANTS f1, f2, bytes   \* model values: two files, a stretch of data bytes

\* Data of two cells, each with what its bits read as when taken for a header.
Text1 == [valid |-> 1, name |-> bytes, length |-> 1]
Text2 == [valid |-> 2, name |-> bytes, length |-> 2]
TwoCells == {<<Text1, Text2>>, <<Text2, Text2>>}
=============================================================================
