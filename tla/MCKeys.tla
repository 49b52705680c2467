------------------------------- MODULE MCKeys -------------------------------
(* Keys, for TLC: bindings with and without modifiers, redefined bindings,  *)
(* an unknown modifier, settings without a key or a command, and a key of   *)
(* two symbols of which both, one or none are bound.                        *)
EXTENDS Keys, TLC
Symmetry == Permutations(Keyboards)

Bind(mod, key, cmd) == [mod |-> mod, key |-> key, cmd |-> cmd]

MCConfigurations == {
  <<>>,
  <<Bind(<<{"mod4"}>>, "f3", "x"), Bind(<<{"mod4"}>>, NULL, "y"), Bind(<<{"mod4"}>>, "q", "y"),
    Bind(<<{"mod4"}>>, "f3", "z"), Bind(<<{"mod4"}>>, "q", NULL)>>,
  <<Bind(<<{"mod4", "shift"}>>, "t", "z"), Bind(<<{"mod4"}, {"shift"}>>, "t", "x"),
    Bind(<<{"super"}, NULL>>, "q", "x"), Bind(<<{"shift", "mod4"}>>, "f3", "y")>>}

\* The key "t" is also another "f3".
TwinF3 == [key \in {"t"} |-> Symbol("f3", "lower")]
NoTwin == <<>>

ShiftedLetter == {<<Bind(<<{"mod4"}, {"shift"}>>, "q", "x")>>}
=============================================================================
