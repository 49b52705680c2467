------------------------------- MODULE Screen -------------------------------
(***************************************************************************)
(* What the desktop promises its user, with no scene graph, no focus and   *)
(* no device in sight: windows in the order they were last used, each at   *)
(* home on the workspace it was opened on, and on screen exactly the       *)
(* windows of the current workspace.  Desktop implements it.               *)
(***************************************************************************)
EXTENDS Sequences, Integers

CONSTANTS
  Windows,           \* the windows there may be
  Desks,             \* the workspaces
  FirstDesks,        \* the workspaces that may be shown first
  NoDesk             \* no workspace: none is configured, or the window is closed

VARIABLES
  order,             \* the open windows, the one used last first
  home,              \* the workspace of each open window
  current,           \* the workspace on screen
  shown              \* the windows on screen

screenVars == <<order, home, current, shown>>

Open == {order[i] : i \in DOMAIN order}

\* The windows that belong on screen, given the next state's other variables.
Shown == {t \in {order'[i] : i \in DOMAIN order'} : home'[t] = current'}

ScreenInit ==
  /\ order = <<>>
  /\ home = [t \in Windows |-> NoDesk]
  /\ current \in FirstDesks
  /\ shown = {}

\* A window opens on the current workspace, in front.
OpenWindow(t) ==
  /\ t \notin Open
  /\ order' = <<t>> \o order
  /\ home' = [home EXCEPT ![t] = current]
  /\ UNCHANGED current
  /\ shown' = Shown

\* A window closes; the others keep their order.
CloseWindow(i) ==
  /\ order' = SubSeq(order, 1, i - 1) \o SubSeq(order, i + 1, Len(order))
  /\ home' = [home EXCEPT ![order[i]] = NoDesk]
  /\ UNCHANGED current
  /\ shown' = Shown

\* A window is brought to the front, and its workspace with it.
Raise(i) ==
  /\ order' = <<order[i]>> \o (SubSeq(order, 1, i - 1) \o SubSeq(order, i + 1, Len(order)))
  /\ current' = IF home[order[i]] = NoDesk THEN current ELSE home[order[i]]
  /\ UNCHANGED home
  /\ shown' = Shown

\* Another workspace is shown.
ShowDesk(w) ==
  /\ current' = w
  /\ UNCHANGED <<order, home>>
  /\ shown' = Shown

ScreenNext ==
  \/ \E t \in Windows : OpenWindow(t)
  \/ \E i \in DOMAIN order : CloseWindow(i) \/ Raise(i)
  \/ \E w \in Desks : ShowDesk(w)

ScreenSpec == ScreenInit /\ [][ScreenNext]_screenVars

=============================================================================
