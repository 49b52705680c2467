------------------------------ MODULE Commands ------------------------------
(***************************************************************************)
(* The commands of src/commands.c, as the socket server sees them: which   *)
(* function a message is given to, and what that function does to the      *)
(* response buffer and to the process.  What the commands do to windows    *)
(* and workspaces is in Desktop.                                           *)
(*                                                                         *)
(* A message is the sequence of its words: ttcli joins its arguments with  *)
(* blanks and splitString cuts at every run of them, so how the words were *)
(* spread over arguments is lost on the way.  NULL is the message of no    *)
(* bytes, which a stream socket does not carry at all.                     *)
(***************************************************************************)
EXTENDS Integers, SequencesExt

CONSTANTS
  MaxElements,   \* MAX_MSG_ELEMENTS, the room of tokens[]
  ListRoom,      \* how many windows, or workspaces, a list of MAX_MSG_SIZE bytes
                 \* has room for
  NULL

ASSUME CommandsAssumption == MaxElements \in Nat /\ ListRoom \in Nat

Entry(cmd, subcmd, fun) == [cmd |-> cmd, subcmd |-> subcmd, fun |-> fun]

\* commands[], where the entry without a subcommand is the last with its word.
Table ==
  << Entry("exit", NULL, "exit"),
     Entry("window", "list", "window list"),
     Entry("window", "switch", "window switch"),
     Entry("window", NULL, "window"),
     Entry("workspace", "list", "workspace list"),
     Entry("workspace", "switch", "workspace switch"),
     Entry("workspace", NULL, "workspace") >>

Matches(entry, tokens) ==
  /\ entry.cmd = tokens[1]
  /\ entry.subcmd = NULL \/ (Len(tokens) > 1 /\ tokens[2] = entry.subcmd)

Matching(tokens) == {i \in DOMAIN Table : Matches(Table[i], tokens)}

\* The function of the first entry that matches.
Function(tokens) ==
  IF Matching(tokens) = {} THEN "unknown" ELSE Table[Min(Matching(tokens))].fun

\* With nothing to list or to switch to a command assigns its own parameter and
\* leaves the buffer as it was.
NothingToSay(fun, windows, workspaces) ==
  \/ fun = "window list" /\ windows = 0
  \/ fun = "workspace list" /\ workspaces = 0
  \/ fun = "window switch" /\ windows < 2

\* A message of blanks has no first word to compare.
NoWord(tokens) == tokens = <<>>

\* splitString stores a word or the closing NULL beyond tokens[], or the list is
\* longer than the response buffer: the stack is overwritten.
Overruns(tokens, windows, workspaces) ==
  \/ Len(tokens) >= MaxElements
  \/ Function(tokens) = "window list" /\ windows > ListRoom
  \/ Function(tokens) = "workspace list" /\ workspaces > ListRoom

\* In a session without workspaces active_workspace, and the workspace of every
\* window, is a pointer to nowhere, and the command follows it: to compare the
\* name with its argument, to print it, or to redraw the windows.
Dangles(tokens, windows, workspaces) ==
  /\ workspaces = 0
  /\ \/ Function(tokens) = "workspace switch" /\ Len(tokens) > 2
     \/ Function(tokens) = "window list" /\ windows > 0
     \/ Function(tokens) = "window switch" /\ windows > 1

\* The process may die of it or go on.
Hazardous(tokens, windows, workspaces) ==
  Overruns(tokens, windows, workspaces) \/ Dangles(tokens, windows, workspaces)

=============================================================================
