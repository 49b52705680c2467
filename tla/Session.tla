------------------------------ MODULE Session ------------------------------
(***************************************************************************)
(* A session of the compositor: the surfaces of its clients from their     *)
(* first commit to their destruction, windows and the popups that hang     *)
(* from them, the outputs they are drawn on, and the teardown at the end   *)
(* of main.  src/toplevel.c, src/popup.c, src/server.c, src/output.c,      *)
(* src/main.c.                                                             *)
(*                                                                         *)
(* Focus, workspaces and stacking are in Desktop: here any window may be   *)
(* hidden or shown by server_redraw_windows.  Configures that focus and    *)
(* resizing cause are left out; only those a client waits for are here.    *)
(* A surface has its xdg_surface, its role and its place in the scene for  *)
(* the same time, and a role only once.                                    *)
(***************************************************************************)
EXTENDS Outputs

CONSTANTS
  Toplevels, Popups, \* the surfaces clients may ever create
  OutputOf,          \* bound: a window, and its popups, stays on one output
  NULL

ASSUME SessionAssumption ==
  /\ Toplevels \cap Popups = {}
  /\ NULL \notin Toplevels \cup Popups
  /\ OutputOf \in [Toplevels -> Outputs]

VARIABLES
  stage,             \* how far main has got, see Stages
  phase,             \* life of each surface: none, a role object, or roleless:
                     \* the role object is gone, the wl_surface still there
  structs,           \* the turtile_toplevel and turtile_popup structs
  listeners,         \* of these, in wlroots' signals: <<signal, surface>>
  tree,              \* where the surface's scene tree hangs: in the tree of
                     \* another surface, or NULL for the scene's root
  data,              \* surfaces whose scene tree has node.data
  parent,            \* xdg_popup->parent
  initialized,       \* xdg_surface->initialized: past the initial commit
  scheduled,         \* a configure is scheduled and not yet sent
  configured,        \* the client has been sent one since it initialized
  asked,             \* asked to be maximized or fullscreen, not answered yet
  mapped,            \* wlr_surface.mapped
  enabled,           \* windows whose scene tree is enabled
  waiting            \* surfaces whose client waits for a frame to be done

handshakeVars == <<initialized, scheduled, configured, asked>>
lifeVars == <<phase, structs, listeners, tree, data, parent>>
screenVars == <<mapped, enabled, waiting>>
vars == <<stage, lifeVars, handshakeVars, screenVars, outputVars>>

Surfaces == Toplevels \cup Popups

\* aborted: an assertion failed; corrupt: a handler ran on a freed struct.
Stages == {"running", "clients", "backend", "done", "aborted", "corrupt"}

\* The signals a struct of s listens to.  Those of the wl_surface (map, unmap
\* and commit) outlive the role object, those of the role object do not.
AllSignals == {"map", "unmap", "commit", "destroy", "request"}
Signals(s) == IF s \in Toplevels THEN AllSignals ELSE {"commit", "destroy"}

TypeOK ==
  /\ OutputTypeOK
  /\ stage \in Stages
  /\ phase \in [Surfaces -> {"none", "role", "roleless"}]
  /\ structs \subseteq Surfaces
  /\ listeners \subseteq AllSignals \X Surfaces
  /\ tree \in [Surfaces -> Surfaces \cup {NULL}]
  /\ data \subseteq Toplevels
  /\ parent \in [Popups -> Surfaces \cup {NULL}]
  /\ initialized \subseteq structs
  /\ scheduled \subseteq initialized
  /\ configured \subseteq initialized
  /\ asked \subseteq Toplevels
  /\ mapped \subseteq configured
  /\ enabled \subseteq mapped \cap Toplevels
  /\ waiting \subseteq structs

\* The backend has started; its outputs arrive as events.
Init ==
  /\ stage = "running"
  /\ phase = [s \in Surfaces |-> "none"]
  /\ structs = {} /\ listeners = {}
  /\ tree = [s \in Surfaces |-> NULL]
  /\ data = {}
  /\ parent = [p \in Popups |-> NULL]
  /\ initialized = {} /\ scheduled = {} /\ configured = {} /\ asked = {}
  /\ mapped = {} /\ enabled = {} /\ waiting = {}
  /\ outputs = {} /\ lit = {} /\ damaged = {} /\ due = {}

HasRole(s) == phase[s] = "role"
Children(s) == {p \in Popups : HasRole(p) /\ parent[p] = s}

\* The window a surface belongs to, if it has been created.
Owner[s \in Surfaces] ==
  IF s \in Toplevels THEN s ELSE IF parent[s] = NULL THEN NULL ELSE Owner[parent[s]]

\* A surface is on screen if every tree from its own up to the root is enabled;
\* a popup's tree is while the popup is mapped.
OnScreen[s \in Surfaces] ==
  /\ s \in mapped
  /\ s \in Toplevels => s \in enabled
  /\ tree[s] # NULL => OnScreen[tree[s]]

\* The output a surface is on screen on.
Where(s) == IF OnScreen[s] THEN {OutputOf[Owner[s]]} ELSE {}

-----------------------------------------------------------------------------
(* Surfaces come and go.                                                    *)

\* server_new_xdg_toplevel.
NewToplevel(t) ==
  /\ phase[t] = "none"
  /\ phase' = [phase EXCEPT ![t] = "role"]
  /\ structs' = structs \cup {t}
  /\ listeners' = listeners \cup Signals(t) \X {t}
  /\ data' = data \cup {t}
  /\ UNCHANGED <<stage, tree, parent, handshakeVars, screenVars, outputVars>>

\* Mutated form: every popup hangs from the scene's root.
PopupTreeAtRoot(q) == NULL

\* parent->data: the scene tree of the popup's parent.
PopupTree(q) == q

\* server_new_xdg_popup, of a client that names q as the parent.
NewPopup(p, q) ==
  /\ phase[p] = "none"
  /\ phase' = [phase EXCEPT ![p] = "role"]
  /\ structs' = structs \cup {p}
  /\ listeners' = listeners \cup Signals(p) \X {p}
  /\ tree' = [tree EXCEPT ![p] = PopupTree(q)]
  /\ parent' = [parent EXCEPT ![p] = q]
  /\ UNCHANGED <<stage, data, handshakeVars, screenVars, outputVars>>

\* The parent has its role object.
PopupOnParent(p, q) == HasRole(q) /\ NewPopup(p, q)

\* The client names no parent, or one without a role object: the assertion that
\* server_new_xdg_popup makes of the parent fails.
PopupOnNothing(p) ==
  /\ phase[p] = "none"
  /\ stage' = "aborted"
  /\ UNCHANGED <<lifeVars, handshakeVars, screenVars, outputVars>>

\* The role object of s goes, and with it the scene tree.
RoleGone(s) ==
  /\ phase' = [phase EXCEPT ![s] = "roleless"]
  /\ data' = data \ {s}
  /\ initialized' = initialized \ {s}
  /\ scheduled' = scheduled \ {s}
  /\ configured' = configured \ {s}
  /\ asked' = asked \ {s}
  /\ waiting' = waiting \ {s}
  /\ UNCHANGED <<stage, tree, parent, mapped, enabled, outputVars>>

\* xdg_toplevel_destroy.  wlroots has unmapped the window and destroyed its
\* popups, each through its own handler.
ToplevelDestroy(t) ==
  /\ HasRole(t) /\ t \notin mapped /\ Children(t) = {}
  /\ structs' = structs \ {t}
  /\ listeners' = listeners \ (Signals(t) \X {t})
  /\ RoleGone(t)

\* Mutated form: the commit listener stays in the surface's signal.
PopupDestroyListening(p) ==
  /\ HasRole(p) /\ p \notin mapped /\ Children(p) = {}
  /\ structs' = structs \ {p}
  /\ listeners' = listeners \ {<<"destroy", p>>}
  /\ RoleGone(p)

\* xdg_popup_destroy.
PopupDestroy(p) ==
  /\ HasRole(p) /\ p \notin mapped /\ Children(p) = {}
  /\ structs' = structs \ {p}
  /\ listeners' = listeners \ (Signals(p) \X {p})
  /\ RoleGone(p)

-----------------------------------------------------------------------------
(* What clients commit and ask for.                                         *)

\* Mutated form: only windows are answered.
AnswersToInitialCommit(s) == IF s \in Toplevels THEN {s} ELSE {}

\* xdg_toplevel_commit (a size of 0,0) and xdg_popup_commit (an empty
\* configure): the configures they schedule.
CommitHandler(s) == {s}

\* The initial commit: wlroots sets initial_commit and initialized, then the
\* handler runs.
InitialCommit(s) ==
  /\ HasRole(s) /\ s \notin initialized
  /\ initialized' = initialized \cup {s}
  /\ scheduled' = scheduled \cup CommitHandler(s)
  /\ UNCHANGED <<stage, lifeVars, configured, asked, screenVars, outputVars>>

\* A commit of the first buffer maps the surface; the handlers find no initial
\* commit.  The scene enables the tree; a new window is on the active
\* workspace.
Map(s) ==
  /\ s \in configured \ mapped
  /\ s \in Popups => parent[s] \in mapped
  /\ mapped' = mapped \cup {s}
  /\ enabled' = enabled \cup ({s} \cap Toplevels)
  /\ UNCHANGED <<stage, lifeVars, handshakeVars, waiting>>
  /\ Damage(Where(s)')

\* A commit of no buffer, or the end of the role object, unmaps the surface,
\* once its popups are gone.  The client has to start with an initial commit
\* again.
Unmap(s) ==
  /\ s \in mapped /\ Children(s) = {}
  /\ mapped' = mapped \ {s}
  /\ enabled' = enabled \ {s}
  /\ initialized' = initialized \ {s}
  /\ scheduled' = scheduled \ {s}
  /\ configured' = configured \ {s}
  /\ asked' = asked \ {s}
  /\ Damage(Where(s))
  /\ UNCHANGED <<stage, lifeVars, waiting>>

\* A commit of a mapped surface whose client waits for the next frame, with
\* something new to draw or not.
CommitFrame(s) ==
  /\ s \in mapped
  /\ waiting' = waiting \cup {s}
  /\ Damage(Where(s)) \/ ScheduleFrame(Where(s))
  /\ UNCHANGED <<stage, lifeVars, handshakeVars, mapped, enabled>>

\* A commit of a surface whose role object is gone reaches who still listens.
CommitRoleless(s) ==
  /\ phase[s] = "roleless"
  /\ stage' = IF <<"commit", s>> \in listeners /\ s \notin structs THEN "corrupt" ELSE stage
  /\ UNCHANGED <<lifeVars, handshakeVars, screenVars, outputVars>>

\* Mutated form: requests are answered before the initial commit.
AnswersAtOnce(t) == {t}

\* xdg_toplevel_request_maximize, xdg_toplevel_request_fullscreen: the configure
\* that is scheduled.
RequestHandler(t) == {t} \cap initialized

\* A client asks for its window to be maximized or made fullscreen.
Request(t) ==
  /\ HasRole(t)
  /\ asked' = asked \cup {t}
  /\ scheduled' = scheduled \cup RequestHandler(t)
  /\ UNCHANGED <<stage, lifeVars, initialized, configured, screenVars, outputVars>>

\* wlroots sends what was scheduled when the event loop is idle.
SendConfigure(s) ==
  /\ s \in scheduled
  /\ scheduled' = scheduled \ {s}
  /\ configured' = configured \cup {s}
  /\ asked' = asked \ {s}
  /\ UNCHANGED <<stage, lifeVars, initialized, screenVars, outputVars>>

-----------------------------------------------------------------------------
(* What is on screen.                                                       *)

\* server_redraw_windows: some windows are hidden, others shown.
Redraw ==
  /\ enabled' \in SUBSET (mapped \cap Toplevels)
  /\ Damage({OutputOf[t] : t \in (enabled \ enabled') \cup (enabled' \ enabled)})
  /\ UNCHANGED <<stage, lifeVars, handshakeVars, mapped, waiting>>

\* Mutated form: nobody is told of a frame for which nothing was drawn.
TellIfDrawn(o) ==
  waiting' = IF o \in damaged THEN {s \in waiting : o \notin Where(s)} ELSE waiting

\* wlr_scene_output_send_frame_done in output_frame.
SendFrameDone(o) == waiting' = {s \in waiting : o \notin Where(s)}

\* output_frame.  What wlr_scene_output_commit returns is not looked at.
OutputFrame(o) ==
  /\ o \in due
  /\ Draw(o)
  /\ SendFrameDone(o)
  /\ UNCHANGED <<stage, lifeVars, handshakeVars, mapped, enabled, outputs, lit>>

-----------------------------------------------------------------------------
(* The end of main.                                                         *)

\* wl_display_run returns.
Terminate ==
  /\ stage' = "clients"
  /\ UNCHANGED <<lifeVars, handshakeVars, screenVars, outputVars>>

\* The scene is destroyed, and nothing is drawn from here on.  The guard is what
\* wl_display_destroy_clients does: it returns when the last client's last role
\* object is gone, each through its own handler.
DestroyScene ==
  /\ stage = "clients"
  /\ \A s \in Surfaces : ~HasRole(s)
  /\ stage' = "backend"
  /\ damaged' = {} /\ due' = {}
  /\ UNCHANGED <<lifeVars, handshakeVars, screenVars, outputs, lit>>

\* wlr_backend_destroy destroys the outputs, through output_destroy.
DestroyOutput(o) ==
  /\ stage = "backend"
  /\ OutputDestroy(o)
  /\ UNCHANGED <<stage, lifeVars, handshakeVars, screenVars>>

\* wlr_backend_destroy returns when the last output is gone.  The workspaces of
\* create_workspace are never freed and main's own listeners never removed; they
\* have no variables here.
MainReturns ==
  /\ stage = "backend" /\ outputs = {}
  /\ stage' = "done"
  /\ UNCHANGED <<lifeVars, handshakeVars, screenVars, outputVars>>

-----------------------------------------------------------------------------

ClientNext ==
  \/ \E t \in Toplevels : NewToplevel(t) \/ Request(t)
  \/ \E p \in Popups : PopupOnNothing(p) \/ \E q \in Surfaces : PopupOnParent(p, q)
  \/ \E s \in Surfaces :
       InitialCommit(s) \/ Map(s) \/ CommitFrame(s) \/ CommitRoleless(s)

\* Clients destroy what is theirs while the loop runs, and the display does it
\* for them at the end.
DestroyNext ==
  \/ \E s \in Surfaces : Unmap(s)
  \/ \E t \in Toplevels : ToplevelDestroy(t)
  \/ \E p \in Popups : PopupDestroy(p)

OutputNext ==
  /\ \E o \in Outputs : NewOutput(o) \/ RequestState(o) \/ OutputDestroy(o)
  /\ UNCHANGED <<stage, lifeVars, handshakeVars, screenVars>>

RunningNext ==
  /\ stage = "running"
  /\ \/ ClientNext \/ OutputNext \/ Redraw \/ Terminate
     \/ \E s \in Surfaces : SendConfigure(s)
     \/ \E o \in Outputs : OutputFrame(o)

TeardownNext ==
  \/ stage = "clients" /\ DestroyNext
  \/ DestroyScene \/ MainReturns
  \/ \E o \in Outputs : DestroyOutput(o)

Next ==
  \/ RunningNext
  \/ stage = "running" /\ DestroyNext
  \/ TeardownNext

\* The event loop sends what is scheduled and draws what is due, whatever else
\* happens.
Fairness ==
  /\ \A s \in Surfaces : WF_vars(stage = "running" /\ SendConfigure(s))
  /\ \A o \in Outputs : WF_vars(stage = "running" /\ OutputFrame(o))

Spec == Init /\ [][Next]_vars /\ Fairness

-----------------------------------------------------------------------------

\* No handler runs on a freed struct: the listeners on a surface's own signals,
\* which outlive its role, leave with the struct, in whatever order surfaces
\* and their popups are created, unmapped, committed and destroyed.
HandlersHaveStructs == stage # "corrupt"

\* desktop_toplevel_at, from a surface under the pointer: up the scene trees to
\* the first one with data.
ToplevelAt[s \in Surfaces] ==
  IF s \in data THEN s ELSE IF tree[s] = NULL THEN NULL ELSE ToplevelAt[tree[s]]

\* Whatever surface is under the pointer, the walk of desktop_toplevel_at ends
\* at a window, the one the surface belongs to, which is on screen itself and
\* has its struct: the walk needs no check for a root without data, and
\* server_redraw_windows, which knows only windows, hides their popups too.
PointerFindsOwner ==
  \A s \in Surfaces : OnScreen[s] =>
    /\ ToplevelAt[s] = Owner[s]
    /\ Owner[s] \in structs
    /\ OnScreen[Owner[s]]

\* A surface past its initial commit whose client waits for a configure: for the
\* first one, without which it cannot be mapped, or for the answer to a request.
Awaits(s) == s \in initialized /\ (s \notin configured \/ s \in asked)

\* Clients get the configures they wait for, each time a surface starts over; a
\* request that came before the initial commit is answered with it.
ConfiguresArrive ==
  \A s \in Surfaces : Awaits(s) ~> (~Awaits(s) \/ stage # "running")

\* A client that waits for a frame is told of one as long as its surface is on
\* screen on an output that is lit, whether or not anything had to be drawn.
FramesArrive ==
  \A s \in Surfaces :
    s \in waiting /\ Where(s) \cap lit # {} ~>
      (s \notin waiting \/ Where(s) \cap lit = {} \/ stage # "running")

=============================================================================
