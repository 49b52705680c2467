------------------------------ MODULE Desktop ------------------------------
(***************************************************************************)
(* The desktop state of the compositor: which windows (toplevels) exist    *)
(* and are mapped, the most-recently-used list server.toplevels, the       *)
(* workspace of every window and the active workspace, the scene graph's   *)
(* enabled flags and stacking order, keyboard and pointer focus, and the   *)
(* interactive move/resize grab.  src/toplevel.c, src/workspace.c,         *)
(* src/cursor.c, src/server.c and the effects of the window and workspace  *)
(* commands of src/commands.c.                                             *)
(*                                                                         *)
(* One action is one handler of the event loop, or one command, run to its *)
(* end.  Geometry is left out: any visible window may be the one under the *)
(* cursor.                                                                 *)
(***************************************************************************)
EXTENDS Integers, SequencesExt, Devices

CONSTANTS
  Toplevels,         \* the windows clients may ever create
  Workspaces,        \* server.workspaces
  InitialWorkspaces, \* what create_workspaces_from_config may return; NULL
                     \* stands for a configuration without workspaces, and
                     \* then no command reaches the ones in Workspaces
  SurfaceKinds,      \* surfaces of a window under the cursor, see Surfaces
  LateRequests       \* TRUE if clients ask for a move or a resize of a
                     \* window that is not mapped

ASSUME DesktopAssumption ==
  /\ NULL \notin Toplevels /\ NULL \notin Workspaces
  /\ InitialWorkspaces \subseteq Workspaces \cup {NULL}
  /\ "main" \in SurfaceKinds /\ SurfaceKinds \subseteq {"main", "sub", "popup"}
  /\ LateRequests \in BOOLEAN

VARIABLES
  phase,             \* life of each window, see Phases
  toplevels,         \* server.toplevels, head of the list first
  workspace,         \* toplevel->workspace
  active_workspace,  \* server.active_workspace
  enabled,           \* scene_tree->node.enabled
  stack,             \* children of the scene's root tree, topmost first
  focused_surface,   \* seat->keyboard_state.focused_surface, as its window:
                     \* only main surfaces are ever given the keyboard
  activated,         \* the last wlr_xdg_toplevel_set_activated of each window
  pointer_surface,   \* seat->pointer_state.focused_surface
  cursor_mode,       \* server.cursor_mode
  grabbed_toplevel   \* server.grabbed_toplevel

desktopVars ==
  <<phase, toplevels, workspace, active_workspace, enabled, stack,
    focused_surface, activated, pointer_surface, cursor_mode, grabbed_toplevel>>
vars == <<deviceVars, desktopVars>>

\* none: not created; unmapped: created and not shown; mapped; destroyed: the
\* xdg_toplevel is gone and turtile has freed its struct, the wl_surface is
\* still there; gone: the wl_surface is destroyed too.
Phases == {"none", "unmapped", "mapped", "destroyed", "gone"}

\* A surface is a window and which of its surfaces: the xdg_toplevel's own, a
\* subsurface of it, or one of a popup.
Surfaces == Toplevels \X SurfaceKinds
MainSurface(t) == <<t, "main">>

Mapped == {t \in Toplevels : phase[t] = "mapped"}
Exists(t) == phase[t] \in {"unmapped", "mapped"}
Visible == {t \in Mapped : enabled[t]}

TypeOK ==
  /\ DeviceTypeOK
  /\ phase \in [Toplevels -> Phases]
  /\ toplevels \in Seq(Toplevels)
  /\ workspace \in [Toplevels -> Workspaces \cup {NULL}]
  /\ active_workspace \in Workspaces \cup {NULL}
  /\ enabled \in [Toplevels -> BOOLEAN]
  /\ stack \in Seq(Toplevels)
  /\ focused_surface \in Toplevels \cup {NULL}
  /\ activated \in [Toplevels -> BOOLEAN]
  /\ pointer_surface \in Surfaces \cup {NULL}
  /\ cursor_mode \in {"passthrough", "move", "resize"}
  /\ grabbed_toplevel \in Toplevels \cup {NULL}

Init ==
  /\ DeviceInit
  /\ phase = [t \in Toplevels |-> "none"]
  /\ toplevels = <<>>
  /\ workspace = [t \in Toplevels |-> NULL]
  /\ active_workspace \in InitialWorkspaces
  /\ enabled = [t \in Toplevels |-> FALSE]
  /\ stack = <<>>
  /\ focused_surface = NULL
  /\ activated = [t \in Toplevels |-> FALSE]
  /\ pointer_surface = NULL
  /\ cursor_mode = "passthrough"
  /\ grabbed_toplevel = NULL

-----------------------------------------------------------------------------
(* The intrusive lists.  A node is in its list at most once.               *)

Position(list, t) == CHOOSE i \in DOMAIN list : list[i] = t

\* A node for t comes before one for u.
Before(list, t, u) == \E i, j \in DOMAIN list : i < j /\ list[i] = t /\ list[j] = u

\* wl_list_insert(&head, &t->link)
Insert(list, t) == <<t>> \o list

\* wl_list_remove(&t->link)
Unlink(list, t) == RemoveAt(list, Position(list, t))

\* Mutated form: the node is put back where it was.
ToSamePlace(list, t) == list

\* Mutated form: the node is inserted without being removed first.
ToFrontTwice(list, t) == Insert(list, t)

\* wl_list_remove then wl_list_insert; wlr_scene_node_raise_to_top likewise.
ToFront(list, t) == Insert(Unlink(list, t), t)

-----------------------------------------------------------------------------
(* switch_workspace and focus_toplevel, shared by several handlers: list    *)
(* and shown are server.toplevels and the enabled flags as the caller has   *)
(* left them, and the caller has already given workspace' its value.        *)

\* Mutated form: the windows of workspace w are shown, none is hidden.
RedrawnWithoutHiding(list, w, shown) ==
  [t \in Toplevels |-> shown[t] \/ (t \in Range(list) /\ workspace'[t] = w)]

\* server_redraw_windows, with w the active workspace.
Redrawn(list, w, shown) ==
  [t \in Toplevels |-> IF t \in Range(list) THEN workspace'[t] = w ELSE shown[t]]

SwitchWorkspace(w, list, shown) ==
  \/ /\ w = NULL
     /\ enabled' = shown
     /\ UNCHANGED active_workspace
  \/ /\ w # NULL
     /\ active_workspace' = w
     /\ enabled' = Redrawn(list, w, shown)

\* Is surface the one that has the keyboard?
HasKeyboardFocus(surface) ==
  focused_surface # NULL /\ surface = MainSurface(focused_surface)

\* Mutated form: the window that loses the keyboard stays activated.
ActivatedToo(t) == [activated EXCEPT ![t] = TRUE]

\* The window that has the keyboard is deactivated, then t is activated.  The
\* former may be destroyed by now: its flag is already down.
Activated(t) == [x \in Toplevels |-> x = t \/ (activated[x] /\ x # focused_surface)]

\* Mutated form: the keyboard enters the surface under the pointer.
EnterAnySurface(t, surface) == IF seat_keyboard = NULL THEN focused_surface ELSE surface

\* The keyboard, if the seat has one, enters the window's own surface.
KeyboardEnter(t, surface) == IF seat_keyboard = NULL THEN focused_surface ELSE t

\* Mutated form: the workspace of the window is not switched to.
FocusWithoutSwitch(t, surface, list, shown) ==
  \/ /\ HasKeyboardFocus(surface)
     /\ toplevels' = list
     /\ enabled' = shown
     /\ UNCHANGED <<active_workspace, stack, focused_surface, activated>>
  \/ /\ ~HasKeyboardFocus(surface)
     /\ enabled' = shown
     /\ UNCHANGED active_workspace
     /\ stack' = ToFront(stack, t)
     /\ toplevels' = ToFront(list, t)
     /\ activated' = Activated(t)
     /\ focused_surface' = KeyboardEnter(t, surface)

\* focus_toplevel(t, surface).
FocusToplevel(t, surface, list, shown) ==
  \/ /\ HasKeyboardFocus(surface)
     /\ toplevels' = list
     /\ enabled' = shown
     /\ UNCHANGED <<active_workspace, stack, focused_surface, activated>>
  \/ /\ ~HasKeyboardFocus(surface)
     /\ SwitchWorkspace(workspace'[t], list, shown)
     /\ stack' = ToFront(stack, t)
     /\ toplevels' = ToFront(list, t)
     /\ activated' = Activated(t)
     /\ focused_surface' = KeyboardEnter(t, surface)

ResetCursorMode ==
  /\ cursor_mode' = "passthrough"
  /\ grabbed_toplevel' = NULL

-----------------------------------------------------------------------------
(* What clients do: the life of a window.                                   *)

\* server_new_xdg_toplevel.  The new scene tree is the topmost one, disabled
\* until the surface is mapped.
NewToplevel(t) ==
  /\ phase[t] = "none"
  /\ phase' = [phase EXCEPT ![t] = "unmapped"]
  /\ stack' = Insert(stack, t)
  /\ UNCHANGED <<toplevels, workspace, active_workspace, enabled, focused_surface,
                 activated, pointer_surface, cursor_mode, grabbed_toplevel>>

\* Mutated form: a window that is mapped again keeps its workspace.
MapKeepingWorkspace(t) ==
  /\ phase[t] = "unmapped"
  /\ phase' = [phase EXCEPT ![t] = "mapped"]
  /\ workspace' = [workspace EXCEPT ![t] = IF workspace[t] = NULL THEN active_workspace ELSE workspace[t]]
  /\ FocusToplevel(t, MainSurface(t), Insert(toplevels, t), [enabled EXCEPT ![t] = TRUE])
  /\ UNCHANGED <<pointer_surface, cursor_mode, grabbed_toplevel>>

\* xdg_toplevel_map.  The scene's own listener, added first, has enabled the
\* node when the handler runs.
ToplevelMap(t) ==
  /\ phase[t] = "unmapped"
  /\ phase' = [phase EXCEPT ![t] = "mapped"]
  /\ workspace' = [workspace EXCEPT ![t] = active_workspace]
  /\ FocusToplevel(t, MainSurface(t), Insert(toplevels, t), [enabled EXCEPT ![t] = TRUE])
  /\ UNCHANGED <<pointer_surface, cursor_mode, grabbed_toplevel>>

\* Mutated form: the handler forgets the grab.
UnmapKeepingGrab(t) ==
  /\ phase[t] = "mapped"
  /\ phase' = [phase EXCEPT ![t] = "unmapped"]
  /\ toplevels' = Unlink(toplevels, t)
  /\ enabled' = [enabled EXCEPT ![t] = FALSE]
  /\ UNCHANGED <<workspace, active_workspace, stack, focused_surface, activated,
                 pointer_surface, cursor_mode, grabbed_toplevel>>

\* xdg_toplevel_unmap.  The scene disables the node; the seat's foci stay.
ToplevelUnmap(t) ==
  /\ phase[t] = "mapped"
  /\ phase' = [phase EXCEPT ![t] = "unmapped"]
  /\ \/ grabbed_toplevel = t /\ ResetCursorMode
     \/ grabbed_toplevel # t /\ UNCHANGED <<cursor_mode, grabbed_toplevel>>
  /\ toplevels' = Unlink(toplevels, t)
  /\ enabled' = [enabled EXCEPT ![t] = FALSE]
  /\ UNCHANGED <<workspace, active_workspace, stack, focused_surface, activated,
                 pointer_surface>>

\* xdg_toplevel_destroy, after the unmap if the window was mapped.  The struct
\* is freed and the scene tree goes; the grab is not looked at.
ToplevelDestroy(t) ==
  /\ phase[t] = "unmapped"
  /\ phase' = [phase EXCEPT ![t] = "destroyed"]
  /\ stack' = Unlink(stack, t)
  /\ workspace' = [workspace EXCEPT ![t] = NULL]
  /\ activated' = [activated EXCEPT ![t] = FALSE]
  /\ UNCHANGED <<toplevels, active_workspace, enabled, focused_surface,
                 pointer_surface, cursor_mode, grabbed_toplevel>>

\* The wl_surface is destroyed: wlroots clears the foci that name it.
SurfaceDestroy(t) ==
  /\ phase[t] = "destroyed"
  /\ phase' = [phase EXCEPT ![t] = "gone"]
  /\ focused_surface' = IF focused_surface = t THEN NULL ELSE focused_surface
  /\ pointer_surface' = IF pointer_surface \in {t} \X SurfaceKinds THEN NULL ELSE pointer_surface
  /\ UNCHANGED <<toplevels, workspace, active_workspace, enabled, stack, activated,
                 cursor_mode, grabbed_toplevel>>

\* The surface at the root of the subsurface tree of the pointer's surface.
RootSurface(surface) ==
  IF surface # NULL /\ surface[2] = "sub" THEN MainSurface(surface[1]) ELSE surface

\* begin_interactive, from request_move or request_resize.
BeginInteractive(t, mode) ==
  /\ Exists(t)
  /\ LateRequests \/ phase[t] = "mapped"
  /\ pointer_surface # NULL /\ RootSurface(pointer_surface) = MainSurface(t)
  /\ grabbed_toplevel' = t
  /\ cursor_mode' = mode
  /\ UNCHANGED <<phase, toplevels, workspace, active_workspace, enabled, stack,
                 focused_surface, activated, pointer_surface>>

-----------------------------------------------------------------------------
(* What the user does with the pointer.                                     *)

\* process_cursor_motion in passthrough mode: the pointer is over a surface of
\* a visible window, or over none.
CursorMotion ==
  /\ cursor_mode = "passthrough"
  /\ pointer_surface' \in (Visible \X SurfaceKinds) \cup {NULL}
  /\ UNCHANGED <<phase, toplevels, workspace, active_workspace, enabled, stack,
                 focused_surface, activated, cursor_mode, grabbed_toplevel>>

\* server_cursor_button, pressed over a surface of a visible window.
ButtonPress(t, kind) ==
  /\ t \in Visible
  /\ UNCHANGED <<phase, workspace, pointer_surface, cursor_mode, grabbed_toplevel>>
  /\ FocusToplevel(t, <<t, kind>>, toplevels, enabled)

\* server_cursor_button, released.
ButtonRelease ==
  /\ ResetCursorMode
  /\ UNCHANGED <<phase, toplevels, workspace, active_workspace, enabled, stack,
                 focused_surface, activated, pointer_surface>>

-----------------------------------------------------------------------------
(* What commands do.                                                        *)

\* Mutated form: the window next to the front one is taken.
SecondWindow == toplevels[2]

\* server.toplevels.prev: the window used longest ago.
NextWindow == Last(toplevels)

\* window_switch_command.
WindowSwitch ==
  /\ Len(toplevels) >= 2
  /\ UNCHANGED <<phase, workspace, pointer_surface, cursor_mode, grabbed_toplevel>>
  /\ FocusToplevel(NextWindow, MainSurface(NextWindow), toplevels, enabled)

\* workspace_switch_command to the workspace named w.  The name of the active
\* workspace is read, so there has to be one.
WorkspaceSwitch(w) ==
  /\ active_workspace # NULL /\ w # active_workspace
  /\ UNCHANGED <<phase, workspace, toplevels, stack, focused_surface, activated,
                 pointer_surface, cursor_mode, grabbed_toplevel>>
  /\ SwitchWorkspace(w, toplevels, enabled)

-----------------------------------------------------------------------------

ClientNext ==
  \E t \in Toplevels :
    \/ NewToplevel(t) \/ ToplevelMap(t) \/ ToplevelUnmap(t)
    \/ ToplevelDestroy(t) \/ SurfaceDestroy(t)
    \/ \E mode \in {"move", "resize"} : BeginInteractive(t, mode)

UserNext ==
  \/ CursorMotion
  \/ \E t \in Toplevels, kind \in SurfaceKinds : ButtonPress(t, kind)
  \/ ButtonRelease
  \/ WindowSwitch
  \/ \E w \in Workspaces : WorkspaceSwitch(w)

Next ==
  \/ (ClientNext \/ UserNext) /\ UNCHANGED deviceVars
  \/ DeviceNext /\ UNCHANGED desktopVars

Spec == Init /\ [][Next]_vars

\* Somebody keeps issuing `window switch`.
SwitchingSpec == Spec /\ WF_vars(WindowSwitch /\ UNCHANGED deviceVars)

-----------------------------------------------------------------------------
(* Properties that hold whatever the devices and the clients do.           *)

\* server.toplevels holds every mapped window once and no other, and the scene
\* every existing one: the map and unmap handlers and focus_toplevel's
\* relinking never lose, repeat or keep a node, in any order of calls.
ListExact ==
  /\ Range(toplevels) = Mapped
  /\ IsInjective(toplevels)
  /\ Range(stack) = {t \in Toplevels : Exists(t)}
  /\ IsInjective(stack)

\* A window is drawn exactly when it is mapped and on the active workspace.
\* Only switch_workspace redraws: the other handlers rely on the scene's own
\* enabling at map and on focus_toplevel switching to the window's workspace.
VisibleIffActive ==
  \A t \in Toplevels : enabled[t] <=> t \in Mapped /\ workspace[t] = active_workspace

\* The keyboard is only ever given to a window the user sees, at the head of
\* the list, and activated.
FocusGivenToVisible ==
  [][focused_surface' \notin {focused_surface, NULL} =>
       /\ enabled'[focused_surface']
       /\ activated'[focused_surface']
       /\ focused_surface' = Head(toplevels')]_vars

\* Only a command takes the user to another workspace.  Every map and every
\* click calls switch_workspace too, with the workspace of the window: that is
\* the active one, since a mapped window is put on it and one that is clicked
\* is on screen.
OnlyCommandsSwitch ==
  [][active_workspace' # active_workspace =>
       WindowSwitch \/ \E w \in Workspaces : WorkspaceSwitch(w)]_vars

\* Clients are told of a keyboard whenever there is one.
KeyboardAdvertised == keyboards # {} => keyboard_cap

\* Desktop implements Screen.
Abstract == INSTANCE Screen WITH
  Windows <- Toplevels, Desks <- Workspaces, FirstDesks <- InitialWorkspaces, NoDesk <- NULL,
  order <- toplevels,
  home <- [t \in Toplevels |-> IF t \in Mapped THEN workspace[t] ELSE NULL],
  current <- active_workspace,
  shown <- {t \in Toplevels : enabled[t]}

ImplementsScreen == Abstract!ScreenSpec

-----------------------------------------------------------------------------
(* Properties that need a keyboard throughout (InitialKeyboards not empty,  *)
(* no Unplugging), and the third one clients that ask for a move or a       *)
(* resize of mapped windows only.                                           *)

\* A mapped window that has the keyboard is the head of server.toplevels.
\* focus_toplevel's early return is right only because of this: it skips the
\* relinking of the window that has the keyboard.
FocusIsHead ==
  focused_surface \in Mapped => focused_surface = Head(toplevels)

\* The window that has the keyboard is the one that draws itself as active.
ActivatedIsFocused ==
  \A t \in Toplevels : activated[t] <=> Exists(t) /\ t = focused_surface

\* The most-recently-used order is the order in which the scene stacks the
\* mapped windows: two lists, kept by different calls.
StackFollowsList ==
  \A t, u \in Mapped : Before(toplevels, t, u) <=> Before(stack, t, u)

\* An interactive move or resize always has a mapped window to work on.
GrabbedIsMapped ==
  IF cursor_mode = "passthrough" THEN grabbed_toplevel = NULL ELSE grabbed_toplevel \in Mapped

\* If `window switch` keeps being issued, every window gets to the front
\* unless it is unmapped: the cycle leaves nobody out whatever the user and
\* the clients do in between.
EveryWindowComesUp ==
  \A t \in Toplevels : t \in Mapped ~> (t \notin Mapped \/ t = Head(toplevels))

-----------------------------------------------------------------------------
(* What a comment of the code promises, and the code breaks.                *)

\* "Reset the cursor mode if the grabbed toplevel was unmapped",
\* src/toplevel.c:117: a grab never outlives the struct of its window.
GrabbedExists == grabbed_toplevel # NULL => Exists(grabbed_toplevel)

=============================================================================
