----------------------------- MODULE MCStartup ------------------------------
(* Startup, for TLC: files with valid, invalid, repeated and over-long      *)
(* elements, and one that has nothing.                                      *)
EXTENDS Startup

Name(n, l) == [name |-> n, length |-> l]
File(autostart, names) ==
  [keybinds |-> <<>>, autostart |-> autostart, workspaces |-> names]

MCFiles == {
  File(<<"x", "y">>, <<Name("a", 1), Name("b", 1)>>),
  File(<<"z", NULL, "x">>, <<Name("b", 1), NULL, Name("c", 99)>>),
  File(<<>>, <<Name("full", 100), Name("long", 101), Name("a", 1)>>),
  File(<<>>, <<Name("long", 101)>>),
  File(<<>>, <<>>)}

FewFiles == {File(<<"x">>, <<Name("long", 101)>>), File(<<>>, <<Name("a", 1)>>)}
=============================================================================
