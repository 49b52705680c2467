# Verification of turtile

turtile is a small Wayland compositor on top of wlroots, with a command socket and a command-line client, `ttcli`. This
directory holds TLA+ models of it, the TLC runs that check them and proofs of the main invariants. Paths are relative to
the root of the repository; `PROJECT.json` maps every definition to the lines it stands for.

## The system

One process, `turtile`, runs two threads. The **main thread** starts everything and then runs libwayland's event loop:
it calls one handler at a time, to its end, for what clients, input devices and outputs do. The **socket server thread**
accepts a connection, reads one command, runs it, answers and closes. Commands change the same windows, scene and seat
as the handlers do, without a lock. Programs are forked from the main thread: those of the configuration at the start,
and those of key bindings, many of which are `ttcli` talking back to the socket thread.

| Component | Source | State | Operations |
|---|---|---|---|
| windows and focus | `toplevel.c`, `server.c` | `server.toplevels` (most recently used first), workspace, scene node and listeners of each window | create, map, unmap, destroy, `focus_toplevel` |
| workspaces | `workspace.c`, `server.c` | `server.workspaces`, `active_workspace` | create from the configuration, `switch_workspace`, `server_redraw_windows` |
| move and resize | `toplevel.c`, `cursor.c` | `cursor_mode`, `grabbed_toplevel`, `grab_x/y`, `grab_geobox`, `resize_edges` | `begin_interactive`, motion, release, `reset_cursor_mode` |
| cursor | `cursor.c` | none of its own; the seat's pointer focus | motion, button, axis, frame, cursor image, selection |
| input devices | `server.c`, `keyboard.c` | `server.keyboards`; the seat's keyboard and capabilities | `server_new_input`, `keyboard_handle_destroy` |
| key bindings | `keyboard.c` | the configuration's bindings; keys held, in wlroots | `keyboard_handle_key`, `keyboard_handle_modifiers` |
| configuration | `config.c` | `config_instance`: three lists | `config_load_from_file`, once per `-c` |
| startup and shutdown | `main.c` | where `main` is | options, set-up, workspaces, programs, thread, teardown |
| command socket | `socket_server.c` | the thread's place, one connection, a stack buffer | bind, listen, accept, recv, run, two sends, close |
| commands | `commands.c` | none of its own | `exit`, `window list/switch`, `workspace list/switch` |
| ttcli | `ttcli.c` | one connection | connect, send, receive the size, receive the response |
| popups | `popup.c`, `server.c` | listeners | create, initial commit, destroy |
| outputs | `output.c` | `server.outputs` | new, frame, request state, destroy |

What is hard:

- *Order of handlers.* Clients, the user and devices interleave freely. `focus_toplevel` decides by the seat's focus
  what to do with list, scene and activation, so these must agree after every sequence of handlers.
- *State that lives longer than its window.* The seat keeps the foci of unmapped windows, the server keeps the grab.
- *Devices that come and go.* Half of `focus_toplevel` depends on there being a keyboard.
- *Two processes and two threads on one connection.* Either end may vanish between any two steps, and `exit` ends the
  process while the other thread works.
- *Two threads on one desktop.* Nothing keeps a command and a handler apart.
- *Clients that lag.* A resize moves the window now and gets the size later, or another one, or none.
- *Objects with two lives.* A surface outlives its role, a popup its parent's interest in it; every listener has to
  leave in time, in every order, also while `main` tears everything down.
- *Limits nobody checks.* Words of a message, bytes of a response, characters of a name.
- *Inserting at the head.* Each list of the configuration runs backwards, and workspaces are inserted twice.
- *Keys.* Modifiers, windows and keyboards change between a press and its release.

What makes each component correct, as the properties state it:

- *windows, workspaces, focus*: the list and the scene hold the right windows once (`ListExact`); the screen shows the
  active workspace (`VisibleIffActive`, and with two threads `RedrawnWhenIdle`); keyboard focus, activation, stacking
  and list agree (`FocusIsHead`, `ActivatedIsFocused`, `StackFollowsList`); the keyboard is never given to a window
  nobody sees (`FocusGivenToVisible`); only a command switches the workspace (`OnlyCommandsSwitch`); `window switch`
  reaches every window (`EveryWindowComesUp`).
- *move and resize*: a grab has a window (`GrabbedIsMapped`); the opposite edge stays, the dragged one follows the
  cursor, sizes stay positive, and a drag that returns undoes itself (`OppositeEdgeStays`, `DraggedEdgeFollows`,
  `SizeStaysPositive`, `ReturnUndoes`).
- *command socket, ttcli, commands*: requests are run once and in order (`ImplementsRequests`); success means that the
  command was run (`SuccessImpliesExecuted`); clients are answered with their own answer (`AnswerIsOwn`) or know that
  they are not (`NobodyAbandoned`); nobody waits for ever without reason (`ServedUnlessHeld`, `ExitExits`); connections
  are closed (`OneConnection`); a client that waits for its answer does no harm (`PatientClientsAreSafe`).
- *popups, outputs, shutdown*: no handler runs on a freed struct (`HandlersHaveStructs`); the walk from a surface finds
  its window (`PointerFindsOwner`); configures and frames arrive (`ConfiguresArrive`, `FramesArrive`).
- *configuration, keys, devices*: the configuration comes to what it says (`WorkspacesAsConfigured`,
  `ProgramsInReverse`, `LatestBindingWins`); a press runs what its symbols are bound to (`OneCommandPerSymbol`);
  keys do not stick (`NothingSticks`); clients know of a keyboard while there is one (`KeyboardAdvertised`; the other
  direction does not hold).

## The modules

| Module | Models |
|---|---|
| `Screen` | abstract: windows in the order of use, each with a home workspace, and those of the current one shown |
| `Devices` | keyboards, the seat's keyboard, the announced capabilities |
| `Desktop` | extends `Devices`; every handler and command that touches windows, workspaces, foci and the grab; implements `Screen` |
| `Threads` | switching and redrawing in single steps, on the main thread and on the socket's thread at once |
| `Grab` | the geometry of a move or a resize, with the client's commits in between |
| `Outputs` | outputs and when a frame is due |
| `Session` | extends `Outputs`; windows and popups from creation to destruction, configures, frames, teardown |
| `Requests` | abstract: requests taken up in order, each carried out once or passed over |
| `Commands` | pure: the table of commands, what a command does to the response, the limits |
| `Socket` | extends `Commands`; server thread, clients, end of the process, inherited descriptors; implements `Requests` |
| `Config` | pure: what loading makes of the settings, and how a binding is found |
| `Startup` | extends `Config`; `main` up to the running compositor |
| `Keys` | extends `Config`; key events, bindings, what the focused client thinks is held |
| `DesktopProofs`, `GrabProofs`, `SessionProofs`, `SocketProofs`, `KeysProofs`, `StartupProofs` | the theorems about the module of that name |
| `ConfigProofs` | what the loading loop of `Config` makes of settings of any length |
| `Induction` | induction over data, and that recursive functions along a counter, a sequence or pointers have values |
| `MCDesktop`, `MCThreads`, `MCGrab`, `MCSession`, `MCSocket`, `MCStartup`, `MCKeys` | the instances for TLC |

The modules meet in the code they share. `Desktop` says which window is grabbed and when, `Grab` what then happens to
it; `Desktop` hides and shows windows by workspace, `Session` lets any window be hidden or shown at any time, which
includes that; `Socket` says when a command is run, `Desktop` what it does to the windows, each as one step, and
`Threads` what becomes of that step if it is not one. In `Session` and `Desktop` the life of a window is the same; the
first follows its struct and listeners, the second its place in lists, scene and seat.

Definitions marked *Mutated form* are not part of a model: each is a plausible mistake in the definition after it, and
putting it in that definition's place makes the property listed for it in `PROJECT.json` fail.

### Desktop

An action is one handler of the event loop or one command, run to its end. Variables carry the names of the fields they
stand for; `enabled` and `stack` are the scene's, `focused_surface`, `pointer_surface` and `activated` the seat's and
the xdg-shell's. Surfaces of a window are its own, a subsurface or a popup's, because a click passes the surface under
the pointer to `focus_toplevel`, which compares it with the one that has the keyboard and may therefore focus a window
again that has it already. Geometry is left out: the pointer may be over any visible window.

Assumptions about wlroots, taken from how the code uses it: the scene's listener for map and unmap was added before
turtile's and enables or disables the node first; the seat's foci are cleared when the `wl_surface` is destroyed, not
when it is unmapped; the seat's keyboard becomes NULL when that keyboard is destroyed; a new scene tree is the topmost;
a surface that is no toplevel any more is no toplevel to deactivate; move and resize requests arrive from any window
that has been configured, mapped or not (`LateRequests`). Popups that grab the keyboard are not modelled, and an
indeterminate `active_workspace` appears as NULL here, the only value with which the program goes on in a defined way.

### Threads

`focus_toplevel` with `switch_workspace` and `server_redraw_windows` as single reads and writes of what both threads
share: the assignment of `active_workspace`, then for each window the comparison and the enabling or disabling of its
node, then the relinking. The main thread maps windows and takes clicks, the socket's thread runs `window switch` and
`workspace switch`. Relinking is one step: what two threads that write the same pointers make of them is undefined and
left out, as are windows that are freed, so whatever goes wrong here goes wrong even if the list stays whole.

### Grab

One window and a cursor, on each axis apart, since the code treats the axes alike. The near edge is the left or top one,
the far edge the right or bottom one. Node and geometry are integers; the cursor has halves, so that cutting off the
fraction shows. Actions are the two requests, the motion of the cursor, the release and the client's commit, which may
bring any size and any offset of the geometry at any time: the size it was asked for, an older one, one of its own.
`start` and `placed` are not in the code; they remember where the grab began and which offset the last motion
used, for the properties to refer to. A request may come during a grab and when the cursor has left the window, since
the seat's pointer focus is only updated outside a grab.

### Outputs and Session

Every surface has a phase: no role yet, a role object with its struct, its listeners and its place in the scene, or
roleless, when the `wl_surface` is still there and may be committed. Popups hang from any surface with a role, nested
to any depth, or from nothing, which fails the assertion of `server_new_xdg_popup` (stage `aborted`). A commit on a
roleless surface calls every listener that is left, and if its struct is gone the stage is `corrupt`. The initial commit
and the requests to maximize or to go fullscreen schedule a configure; `configured` surfaces may map. An output has a frame
due when something on it changed, when a client asked for a frame, or after a frame that was drawn. `output_frame` draws
and tells every waiting surface on screen. At the end `main` destroys clients, scene and outputs in turn: a
guard says that the call before has returned, which it does when the last client's role object, or the last output, is
gone.

Assumptions about wlroots, taken from how the code uses it: scheduled configures are sent when the event loop is idle;
popups are destroyed before their parent's role, and a surface is unmapped before its role goes; unmapping
takes a surface back to before its initial commit; signals of the `wl_surface` outlive the role object and those of the
role object do not; the scene asks an output for a frame when what it shows changes; a commit may be refused, and nobody
looks. A window and its popups stay on one output (`OutputOf`).

### Commands, Requests and Socket

An action is one system call of the thread or of a client, or one command run to its end. A message is the sequence of
its words, or none at all for `ttcli ""`, of which no byte is sent. `Commands` finds its entry in the table and says
whether the command has anything to say: with nothing to list or to switch to, it leaves the buffer as it was. A message
of blanks crashes the process; one with `MaxElements` words or more, a list longer than the response, and a command that
follows the workspace pointer in a session that has no workspace (`Dangles`) may crash it or go by unnoticed. How many
windows there are is an input of `Execute` (`WindowCounts`), how many workspaces there are is chosen once for the session
(`workspaces`, from `WorkspaceCounts`). A buffer that a command left as it was may hold another client's answer, anything
else, or nothing: then the size sent is 0, ttcli leaves at once, and the second send may find it gone.

A client is served over one connection, which is a place in the kernel's queue, then the one accepted connection. The
process ends by `exit` (the main thread returns whatever the server thread is doing), by a failed bind or listen, by a
crash, or by SIGPIPE. Descriptors are not close-on-exec, so a program started by a key binding holds the listening socket and the
connection being served; `inherited` says what the running programs hold, all of them together. `Disturbances` turns on
killed clients, a failing bind, and such programs.

`Requests` knows none of this: there is a line of requests, and a request is carried out once, passed over, or lost with
the compositor. Under the refinement the line is the connection in hand, until its command is run or found missing,
followed by the queue.

### Config, Startup and Keys

`Config` has the loop of the loading functions (`Loaded`), which inserts at the head, and beside it what a loop that kept
the order would give (`Kept`), which the properties compare it with. A workspace name is a name and a length, a modifier
string the set of modifier words it contains, a binding the modifiers, the symbol and the command. In `Startup` one
action is one turn of the loop over the options, one phase of `main`, one created workspace or one started program; `todo`
is what the loop that `main` is in has not come to yet. A name of exactly 100
characters overruns its field by the terminator, a path of 256 or more the buffer that `config_load_from_file` resolves
it into: the model lets the process die or go on. (A glibc built with `_FORTIFY_SOURCE` ends it at every `-c`, because
the buffer is shorter than `PATH_MAX`; that build is left out.) In `Keys` every keyboard has the keys held on it and the modifiers that follow; an action is
one key event with what `keyboard_handle_key` and `keyboard_handle_modifiers` make of it. wlroots calls the handler
before it updates the modifiers, and releases the keys still held when a keyboard is removed. `event` records what
became of the last event: the command run for each symbol, and whether the client got it. A key has one symbol or
(`TwinKeys`, `Twin`) two, and either may be bound. Locked modifiers (Caps Lock) are left out.

## The runs

| Run | Instance | Shows |
|---|---|---|
| `desktop_any` | 3 windows, 2 workspaces or none, 2 keyboards that come and go, popups, late requests | list, screen and announced keyboards are right; focus is given to visible windows only; only commands switch; `Desktop` implements `Screen` |
| `desktop_steady` | 3 windows, 2 workspaces or none, 1 keyboard throughout | focus, activation, list, stacking and grab agree; `window switch` reaches every window |
| `grab_any` | 1 axis, cursor over 7 half pixels, windows of 1 or 2 pixels beginning at 3 places, 2 offsets | edges, sizes and the way back under every lag of the client |
| `session_any` | 1 window, 2 popups, 1 output that comes and goes | listeners, pointer walk, teardown, configures, frames |
| `socket_any` | 2 clients, 6 messages, 0 to 2 windows, a workspace or none, all disturbances | connections, success, answers, order and crashes under every failure; who may wait for ever; `exit` works |
| `startup_any` | 3 options, 5 files, paths that fit or not | order of workspaces and programs, the active workspace, the limits of names and paths |
| `keys_any` | 2 keyboards, 5 keys, one of two symbols, 3 configurations | keys do not stick, which binding wins, what a press runs and who gets it |

Runs that end in a violation show that the code does not do what one of its comments says:

| Run | The comment | What happens |
|---|---|---|
| `desktop_late_grab` | `toplevel.c:117` "Reset the cursor mode if the grabbed toplevel was unmapped" | a grab outlives the struct of its window |
| `threads_redraw` | `server.h:103` "enabling or disabling their scene nodes based on whether they are on the active workspace" | a window of another workspace stays on screen |
| `socket_stale` | `commands.h:39` "A buffer to store the response to the command" | another client's answer |
| `startup_empty` | `workspace.h:59` "or NULL if no workspaces were created" | an indeterminate pointer |
| `keys_shift` | `keyboard.h:65` "If it is, it processes the keybinding" | letters with shift never match |

More follows from the models and has no run of its own:

- On a seat without a keyboard, as with the headless backend of the tests, two windows are activated at once, and after
  the last keyboard is unplugged the cycle of `window switch` stops: `ActivatedIsFocused` and `EveryWindowComesUp` need
  the keyboard that `desktop_steady` gives them.
- `exit` may get no answer, since the process may end before or between the two sends, and ttcli reports success with a
  response cut short (`AnswerIsOwn` allows it).
- A client that is killed while it waits ends the compositor by SIGPIPE, and so may one that is told of an empty response
  and leaves; a blank message does, and a message of five words, a list of too many windows, or, without workspaces, a
  `workspace switch`, a `window list` or a `window switch` may (`PatientClientsAreSafe` names exactly these).
- `ttcli ""` sends nothing and waits; the server waits for it, and everybody else for the server (`ServedUnlessHeld`
  allows it).
- A key that produces two symbols, both of them bound, runs two commands; with only the first bound it runs one and is
  passed to the client as well (`OneCommandPerSymbol` says so).
- After the last keyboard is unplugged clients are still told of one (`KeyboardAdvertised` has the other direction only).
- A popup without a parent ends the compositor (`PopupOnNothing`).

*Bounds.* Three windows are the least with a window between the first and the last of the list, so that raising the last
and raising the second differ; two workspaces give one active and one hidden. Two keyboards let the seat's be the one
that goes or the other. One axis is enough for `Grab`, since no formula of it relates two (the theorems are for
any). Seven positions of the cursor and windows of up to two pixels let it pass either edge, come back and
stop between pixels; `Places` bounds where a grab begins, nothing else keeps positions finite. One window and two popups
give a popup on a window, a popup on a popup and two siblings; more windows would not meet, since no step of `Session`
reads two that are not parent and child. Two clients and a queue of two put a client in service and one in the
queue; the properties of `Socket` speak of one client and of what keeps it, and the server holds no state between
connections but its buffer, which has the answer of at most one client. The limits of `Commands` are scaled down
(`MaxElements` 4 for 5, `ListRoom` 1), so that both sides of each are met with short messages. Models are finite without a
constraint, but for the number of options (`MaxOptions`), the capacity of the queue (`Backlog`, 5 in the code) and
`Places`. Symmetry is used for invariants and for the refinement, never in a run with liveness. `CHECK_DEADLOCK FALSE`
stands where the modelled program may stop: the process has ended or all clients are done.

*Fairness.* `SwitchingSpec` (`desktop_steady`) assumes only that somebody keeps issuing `window switch` (weak fairness of that one
action); nothing is assumed of clients, user or devices. `FairSpec` of `Socket` assumes that the scheduler runs the
server thread, the main thread once the event loop is told to end, and each client process; nobody has to be killed, no
program has to end, and a silent client may stay so. `Session` assumes that a configure that stays scheduled is sent and a frame that stays due
is raised, which is what libwayland's loop does with idle sources and the backend with enabled outputs; clients, the user
and the end of the session are free. No fairness is assumed in `Startup`, `Keys`, `Grab` and `Threads`.

## The proofs

`DesktopProofs` proves, for any sets of windows, workspaces and keyboards:

- `ListsAreExact`, `ScreenIsCurrent`, `KeyboardGoesToVisible`, `KeyboardIsAdvertised` and `TypeCorrect`. `ListExact`
  alone says nothing of workspaces, and `VisibleIffActive` needs that the list holds the mapped windows, since only listed windows are
  redrawn, and that a window's workspace is one the server has if there is any. The inductive invariant `IInv` is their
  conjunction; the lemmas on `Unlink`, `Insert` and `ToFront` say what relinking does to a list without
  repetitions, `FocusEffect` and `FocusRedraws` what one `focus_toplevel` does.
- `CommandsSwitch`: a map gives the window the active workspace before it focuses it, and only a visible window is
  clicked, so the call of `switch_workspace` in `focus_toplevel` changes nothing but for commands.
- `FocusedWindowIsHead`, `ActiveWindowHasKeyboard` and `StackAndListAgree`, assuming `Steady`: a keyboard is there from
  the start and none is unplugged. Without a keyboard at the start, or after unplugging it, the three fail. `SteadyInv`
  adds to `IInv` that the seat has a keyboard. For the third, `FocusOnTop` says that the window with the keyboard is the
  topmost of the mapped ones, because `focus_toplevel` returns early for it and then neither list may need a change; the
  lemmas on `Before` say what inserting, unlinking and moving to the front do to the order of the others.
- `DesktopImplementsScreen`: under the refinement mapping every step of `Desktop` is a step of `Screen` or a stutter.

`GrabProofs` proves the four properties of `Grab` and its types, for any axes, positions, sizes and offsets. The invariant says that
what the last motion computed can still be read off the state (`Tracks`), because nothing but a motion moves the window
or asks for a size, and that the grab point is the one `begin_interactive` measured (`GrabPoint`). From there each property is
arithmetic over `Truncated`, `NewNear` and `NewFar`, with a lemma for each.

`SessionProofs` proves all the safety properties of `Session` for any number of windows, popups and outputs.
`NoHandlerOutlivesStruct` and `TypeCorrect` rest on `Inv`: structs are those of the role objects, and
whoever listens has one (`Registered`). `PointerAlwaysFindsOwner` rests on `HangInv`: a popup's scene tree hangs in its
parent's, which has been a surface for as long, a window's tree points to its window (`Hanging`), and every surface has a
rank above that of the one it hangs from (`Ranked`). The ranks are what a new popup needs a parent for that is there
already; without them the walks `Owner`, `OnScreen` and `ToplevelAt` need not have a value. `WalksEnd` shows that they
do, `PointerInduction` carries the property up from the root.

`SocketProofs` proves all the safety properties of `Socket` for any clients, messages, limits and disturbances, and
`SocketImplementsRequests`. They follow from one invariant: `ServerInv` ties the thread's place to the connection it
holds and to the open ones, `ProtocolInv(c)` ties where a client is to what lies in its socket and to whether its command
has been run.

`KeysProofs` proves all the properties of `Keys` for any keyboards, keys and configurations. `NothingSticks` is inductive
together with the types, because the seat's keyboard is always a plugged-in one, and because a release is never taken for
a binding (`PassProperties`). `LaterBindingCounts` and `PressRunsItsBindings` follow from what the last event recorded
(`RunInv`) and from `CommandIsLatest`: the first entry of the list that matches is the last one of the file
(`LoadedBackwards`).

`StartupProofs` proves all the properties of `Startup` but the one that a run refutes, for command lines and files of any
length: `InTheOrderOfTheFiles`, `EachProgramOnceInReverse`, `OnlyTheLimitKills` and `TypeCorrect`. The invariant says that
the lists of the configuration are the reverse of what the options read so far say (`FilesLoaded`), that the workspaces
made so far are the first part of their list, reversed (`WorkspacesMade`), that a process that died early died of a path,
and that the programs started and those still
to start make up the whole (`ProgramsStarted`).

`KeysProofs` and `StartupProofs` rest on `ConfigProofs`: `LoadedReversesKept` and `LoadedBackwards` say what inserting at the head makes of the
valid elements. `Induction` carries them all. The library's rule of induction takes an operator, which the provers cannot
instantiate; here the property is a set instead: a set of numbers that holds 0 and with `n - 1` holds `n` holds them all
(`NatSetInduction`, `UpToInduction`), which follows from the order of the numbers being well-founded. From the same rule
follows that a recursive function has a value everywhere, along the counter of a loop (`LoopExists`), a sequence of
sequences (`FlattenIsLoop`) or pointers that a rank counts down along (`WalkExists`).

The assumptions are those the modules declare: sets of model values do not contain `NULL`, sizes are positive, bounds
are numbers, settings and messages are sequences. `Steady` is an assumption of the theorems that name it.

Every invariant and every action property that a passing run checks is proved, and both refinements, but for
`GrabbedIsMapped`, which holds only while clients ask for no late grab and is checked under that bound
(`desktop_steady`). Only model-checked, too, is liveness (`EveryWindowComesUp`, `ServedUnlessHeld`, `ExitExits`, `ConfiguresArrive`, `FramesArrive`), which needs fairness
and what is enabled when, and the prover has no rules for these. `Threads` has no property that holds, only the one
that is refuted.

## Not modelled

- The pointers of `server.toplevels`, wlroots' own state and freed windows under two threads: what the program does then
  is undefined, and any outcome would be a guess. `Threads` shows that locking would be needed even so.
- Axis, frame, cursor-image and selection requests, modes and the layout of outputs: handed to wlroots unchanged.
- Configures that focus and resizing cause, beyond the size a resize asks for: no client waits for them. One of them may be
  scheduled for a window that is not mapped any more (`toplevel.c:52`), which is harmless if wlroots says so.
- The workspaces, which are never freed, and the listeners of `main` itself, which are never removed; failures during the
  teardown. `Session` has the structs and listeners of windows, popups and outputs only.
- Partial reads of a command, a failing `accept`, and a socket file left by an earlier session.
- The building of the message in ttcli, which may run over its buffer, and its printing of JSON; the wording of
  responses.
- Caps Lock and key repeat, keys without a symbol, popups that grab the keyboard, a `wl_surface` that is given a role a
  second time, failing allocations, programs started by bindings that nobody waits for.
- The build and the tests.
