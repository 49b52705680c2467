------------------------------ MODULE MCSocket ------------------------------
(* Socket, for TLC: a message for each thing a command can do.  Four words  *)
(* reach the limit here.                                                    *)
EXTENDS Socket

List == <<"window", "list">>
Exit == <<"exit">>
Blank == <<>>
Switch == <<"workspace", "switch", "main">>
Long == <<"workspace", "switch", "the", "other">>

AnyMessages == {List, Exit, Blank, Switch, Long, NULL}
ListOnly == {List}
=============================================================================
