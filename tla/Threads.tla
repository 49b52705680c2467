------------------------------ MODULE Threads ------------------------------
(***************************************************************************)
(* The two threads of the compositor at work on the same desktop without   *)
(* a lock: the main thread, in the event loop's handlers, and the thread   *)
(* of the socket server (src/main.c), in the commands it runs              *)
(* (src/commands.c).  Desktop runs each handler and each command to its    *)
(* end; here switch_workspace and server_redraw_windows are taken apart    *)
(* into their reads and writes of what both threads share.                 *)
(*                                                                         *)
(* Windows stay mapped and there is a keyboard throughout.  Relinking a    *)
(* window is one step: what two threads make of the pointers of a list     *)
(* they change at the same time is left out.                               *)
(***************************************************************************)
EXTENDS Integers, SequencesExt

CONSTANTS Toplevels, Workspaces, NULL

Threads == {"main", "socket"}

VARIABLES
  toplevels,         \* server.toplevels, head first
  workspace,         \* toplevel->workspace
  active_workspace,  \* server.active_workspace
  enabled,           \* scene_tree->node.enabled
  focused,           \* the window that has the keyboard
  pc,                \* where each thread is: idle, or at a line of what follows
  subject,           \* the window it maps or focuses, NULL when it only switches
  target,            \* the workspace it switches to
  at,                \* the window its redraw has come to
  verdict            \* its comparison of that window's workspace

sharedVars == <<toplevels, workspace, active_workspace, enabled, focused>>
threadVars == <<pc, subject, target, at, verdict>>
vars == <<sharedVars, threadVars>>

Init ==
  /\ toplevels = <<>>
  /\ workspace = [t \in Toplevels |-> NULL]
  /\ active_workspace \in Workspaces
  /\ enabled = [t \in Toplevels |-> FALSE]
  /\ focused = NULL
  /\ pc = [i \in Threads |-> "idle"]
  /\ subject = [i \in Threads |-> NULL]
  /\ target = [i \in Threads |-> NULL]
  /\ at = [i \in Threads |-> NULL]
  /\ verdict = [i \in Threads |-> FALSE]

-----------------------------------------------------------------------------
(* What the threads set out to do.                                          *)

\* The beginning of xdg_toplevel_map: the active workspace is read, and the
\* scene has enabled the window's tree.
Map(t) ==
  /\ pc["main"] = "idle" /\ workspace[t] = NULL
  /\ workspace' = [workspace EXCEPT ![t] = active_workspace]
  /\ enabled' = [enabled EXCEPT ![t] = TRUE]
  /\ subject' = [subject EXCEPT !["main"] = t]
  /\ pc' = [pc EXCEPT !["main"] = "insert"]
  /\ UNCHANGED <<toplevels, active_workspace, focused, target, at, verdict>>

\* focus_toplevel up to its call of switch_workspace.
Focus(i, t) ==
  /\ t # focused
  /\ subject' = [subject EXCEPT ![i] = t]
  /\ target' = [target EXCEPT ![i] = workspace[t]]
  /\ pc' = [pc EXCEPT ![i] = "switch"]
  /\ UNCHANGED <<at, verdict>>

\* The rest of xdg_toplevel_map.
InsertMapped ==
  /\ pc["main"] = "insert"
  /\ toplevels' = <<subject["main"]>> \o toplevels
  /\ Focus("main", subject["main"])
  /\ UNCHANGED <<workspace, active_workspace, enabled, focused>>

\* server_cursor_button, pressed over a window on screen.
ButtonPress(t) ==
  /\ pc["main"] = "idle" /\ t \in Range(toplevels) /\ enabled[t]
  /\ Focus("main", t)
  /\ UNCHANGED sharedVars

\* window_switch_command: the last window of the list.
WindowSwitch ==
  /\ pc["socket"] = "idle" /\ Len(toplevels) >= 2
  /\ Focus("socket", Last(toplevels))
  /\ UNCHANGED sharedVars

\* workspace_switch_command: not to the workspace that is active.
WorkspaceSwitch(w) ==
  /\ pc["socket"] = "idle" /\ w # active_workspace
  /\ subject' = [subject EXCEPT !["socket"] = NULL]
  /\ target' = [target EXCEPT !["socket"] = w]
  /\ pc' = [pc EXCEPT !["socket"] = "switch"]
  /\ UNCHANGED <<sharedVars, at, verdict>>

-----------------------------------------------------------------------------
(* switch_workspace and server_redraw_windows, by thread i.                 *)

\* The loop comes to the window at place n of the list, or leaves it.
LoopTo(i, n) ==
  IF n \in DOMAIN toplevels
  THEN /\ at' = [at EXCEPT ![i] = toplevels[n]]
       /\ pc' = [pc EXCEPT ![i] = "compare"]
  ELSE /\ at' = [at EXCEPT ![i] = NULL]
       /\ pc' = [pc EXCEPT ![i] = IF subject[i] = NULL THEN "idle" ELSE "raise"]

SwitchWorkspace(i) ==
  /\ pc[i] = "switch"
  /\ active_workspace' = target[i]
  /\ LoopTo(i, 1)
  /\ UNCHANGED <<toplevels, workspace, enabled, focused, subject, target, verdict>>

Compare(i) ==
  /\ pc[i] = "compare"
  /\ verdict' = [verdict EXCEPT ![i] = workspace[at[i]] = active_workspace]
  /\ pc' = [pc EXCEPT ![i] = "enable"]
  /\ UNCHANGED <<sharedVars, subject, target, at>>

SetEnabled(i) ==
  /\ pc[i] = "enable"
  /\ enabled' = [enabled EXCEPT ![at[i]] = verdict[i]]
  /\ LoopTo(i, 1 + CHOOSE n \in DOMAIN toplevels : toplevels[n] = at[i])
  /\ UNCHANGED <<toplevels, workspace, active_workspace, focused, subject, target, verdict>>

\* The rest of focus_toplevel.
Raise(i) ==
  /\ pc[i] = "raise"
  /\ toplevels' = <<subject[i]>> \o SelectSeq(toplevels, LAMBDA t : t # subject[i])
  /\ focused' = subject[i]
  /\ pc' = [pc EXCEPT ![i] = "idle"]
  /\ UNCHANGED <<workspace, active_workspace, enabled, subject, target, at, verdict>>

-----------------------------------------------------------------------------

Next ==
  \/ \E t \in Toplevels : Map(t) \/ ButtonPress(t)
  \/ InsertMapped
  \/ WindowSwitch
  \/ \E w \in Workspaces : WorkspaceSwitch(w)
  \/ \E i \in Threads : SwitchWorkspace(i) \/ Compare(i) \/ SetEnabled(i) \/ Raise(i)

Spec == Init /\ [][Next]_vars

-----------------------------------------------------------------------------

\* "Redraws the windows on the server by enabling or disabling their scene
\* nodes based on whether they are on the active workspace",
\* src/server.h:103: when neither thread is at work, the windows on screen are
\* those of the active workspace.  It holds for each thread alone, which is
\* VisibleIffActive of Desktop.
RedrawnWhenIdle ==
  (\A i \in Threads : pc[i] = "idle") =>
    \A t \in Range(toplevels) : enabled[t] <=> workspace[t] = active_workspace

=============================================================================
