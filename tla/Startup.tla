------------------------------ MODULE Startup -------------------------------
(***************************************************************************)
(* main() from its command line to the running compositor (src/main.c):    *)
(* options are read and configuration files loaded, wlroots is set up, the *)
(* workspaces are created (src/workspace.c), the backend and the programs  *)
(* of the configuration are started, and last the socket server's thread.  *)
(***************************************************************************)
EXTENDS Config

CONSTANTS
  Files,      \* the configuration files there may be
  Paths,      \* the lengths a path of -c may have once it is resolved
  Programs,   \* what -s may name
  Garbage,    \* what a local variable holds that nothing was assigned to
  MaxOptions  \* bound: options on the command line

Names == [name : STRING, length : Nat] \cup {NULL}

ASSUME StartupAssumption ==
  /\ MaxOptions \in Nat
  /\ Paths \subseteq Nat
  /\ \A f \in Files : f.workspaces \in Seq(Names) /\ f.autostart \in Seq(Range(f.autostart))
  /\ NULL \notin Programs
  /\ Garbage \notin Nat \cup {NULL}

VARIABLES
  argv,        \* the options of the command line
  stray,       \* whether it has an argument that is no option
  optind,      \* the option getopt looks at next
  startup_cmd,
  config,      \* config_instance
  workspaces,  \* server.workspaces
  active,      \* server.active_workspace
  todo,        \* what the loop that main is in has not come to yet
  started,     \* the programs forked, oldest first
  pc           \* where main is

commandLine == <<argv, stray>>
vars == <<commandLine, optind, startup_cmd, config, workspaces, active, todo, started, pc>>

Options ==
  [option : {"c"}, arg : Files \cup {NULL}, path : Paths] \cup [option : {"s"}, arg : Programs]
    \cup [option : {"h"}, arg : {NULL}]

\* usage: main printed its usage and returned 0; failed: it returned an error;
\* aborted: the process died.
Places == {"options", "setup", "workspaces", "backend", "startup", "autostart",
           "running", "usage", "failed", "aborted"}

Init ==
  /\ argv \in SeqOf(Options, MaxOptions)
  /\ stray \in BOOLEAN
  /\ optind = 1
  /\ startup_cmd = NULL
  /\ config = EmptyConfig
  /\ workspaces = <<>>
  /\ active = NULL
  /\ todo = <<>>
  /\ started = <<>>
  /\ pc = "options"

-----------------------------------------------------------------------------

\* One turn of the getopt loop.
ReadOption ==
  /\ pc = "options" /\ optind <= Len(argv)
  /\ optind' = optind + 1
  /\ LET opt == argv[optind] IN
     CASE opt.option = "c" ->
            /\ config' = LoadFile(config, opt.arg)
            /\ UNCHANGED <<startup_cmd, pc>>
       [] opt.option = "s" ->
            /\ startup_cmd' = opt.arg
            /\ UNCHANGED <<config, pc>>
       [] OTHER ->
            /\ pc' = "usage"
            /\ UNCHANGED <<config, startup_cmd>>
  /\ UNCHANGED <<commandLine, workspaces, active, todo, started>>

\* The room config_load_from_file has for the resolved path and its terminator.
PathRoom == 256

\* realpath writes up to PATH_MAX bytes.  A path that is too long, of a file that
\* can be read or not, goes over what else is on the stack: the process dies of
\* it, or does not, which is ReadOption.  A glibc compiled to check such calls
\* refuses the short buffer whatever the path; that build is left out.
PathOverrun ==
  /\ pc = "options" /\ optind <= Len(argv)
  /\ argv[optind].option = "c" /\ argv[optind].path >= PathRoom
  /\ pc' = "aborted"
  /\ UNCHANGED <<commandLine, optind, startup_cmd, config, workspaces, active, todo, started>>

EndOfOptions ==
  /\ pc = "options" /\ optind > Len(argv)
  /\ pc' = IF stray THEN "usage" ELSE "setup"
  /\ UNCHANGED <<commandLine, optind, startup_cmd, config, workspaces, active, todo, started>>

\* Backend, renderer, allocator, scene, seat: any of the first three may fail.
SetUp ==
  /\ pc = "setup"
  /\ pc' \in {"workspaces", "failed"}
  /\ todo' = config.workspaces
  /\ UNCHANGED <<commandLine, optind, startup_cmd, config, workspaces, active, started>>

\* Mutated form: the new workspace becomes the last of the list.
CreatedAtTail(list, name) == Append(list, [name |-> name.name, id |-> Len(list) + 1])

\* create_workspace: the new workspace becomes the first of the list.
Created(list, name) == <<[name |-> name.name, id |-> Len(list) + 1]>> \o list

\* Mutated form: the first workspace created becomes the active one.
OldestActive(list) == IF list = <<>> THEN Garbage ELSE Last(list).id

\* The last workspace created.  With none, the local variable returned was never
\* assigned.
CreatedLast(list) == IF list = <<>> THEN Garbage ELSE Head(list).id

\* One turn of the loop of create_workspaces_from_config.  strcpy writes a name
\* of MaxNameLength characters and its terminator into NameRoom bytes: with
\* bounds checking compiled in the process dies, without it the byte lands in
\* the padding of the structure.
CreateWorkspace ==
  /\ pc = "workspaces" /\ todo # <<>>
  /\ \/ /\ workspaces' = Created(workspaces, Head(todo))
        /\ todo' = Tail(todo)
        /\ UNCHANGED pc
     \/ /\ Head(todo).length >= NameRoom
        /\ pc' = "aborted"
        /\ UNCHANGED <<workspaces, todo>>
  /\ UNCHANGED <<commandLine, optind, startup_cmd, config, active, started>>

\* Its end.
WorkspacesCreated ==
  /\ pc = "workspaces" /\ todo = <<>>
  /\ active' = CreatedLast(workspaces)
  /\ pc' = "backend"
  /\ UNCHANGED <<commandLine, optind, startup_cmd, config, workspaces, todo, started>>

\* The Wayland socket and the backend.
StartBackend ==
  /\ pc = "backend"
  /\ pc' \in {"startup", "failed"}
  /\ UNCHANGED <<commandLine, optind, startup_cmd, config, workspaces, active, todo, started>>

\* The program of -s, if there is one.
StartProgram ==
  /\ pc = "startup"
  /\ started' = IF startup_cmd = NULL THEN started ELSE Append(started, startup_cmd)
  /\ todo' = config.autostart
  /\ pc' = "autostart"
  /\ UNCHANGED <<commandLine, optind, startup_cmd, config, workspaces, active>>

\* One turn of the loop over the autostart entries.
Autostart ==
  /\ pc = "autostart" /\ todo # <<>>
  /\ started' = Append(started, Head(todo))
  /\ todo' = Tail(todo)
  /\ UNCHANGED <<commandLine, optind, startup_cmd, config, workspaces, active, pc>>

\* Programs are running already when the socket server's thread is made.
StartThread ==
  /\ pc = "autostart" /\ todo = <<>>
  /\ pc' \in {"running", "failed"}
  /\ UNCHANGED <<commandLine, optind, startup_cmd, config, workspaces, active, todo, started>>

Next ==
  ReadOption \/ PathOverrun \/ EndOfOptions \/ SetUp \/ CreateWorkspace \/ WorkspacesCreated
    \/ StartBackend \/ StartProgram \/ Autostart \/ StartThread

Spec == Init /\ [][Next]_vars

-----------------------------------------------------------------------------
(* What main should come to, read off the command line at once.             *)

Readable(opt) == opt.option = "c" /\ opt.arg # NULL

\* The valid names in the readable files, in the order of the command line.
NamesOf(opt) ==
  IF Readable(opt) THEN Kept(opt.arg.workspaces, ValidNames(opt.arg.workspaces)) ELSE <<>>

NamesSaid == FlattenSeq([i \in DOMAIN argv |-> NamesOf(argv[i])])

\* The valid programs likewise.
ProgramsOf(opt) ==
  IF Readable(opt) THEN Kept(opt.arg.autostart, ValidPrograms(opt.arg.autostart)) ELSE <<>>

ProgramsSaid == FlattenSeq([i \in DOMAIN argv |-> ProgramsOf(argv[i])])

HasWorkspaces == pc \in {"backend", "startup", "autostart", "running"}

TypeOK ==
  /\ pc \in Places
  /\ optind \in 1..Len(argv) + 1
  /\ \A i \in DOMAIN workspaces :
       workspaces[i].id = Len(workspaces) + 1 - i /\ workspaces[i].name \in STRING
  /\ active \in {NULL, Garbage} \cup {w.id : w \in Range(workspaces)}
  /\ todo \in Seq(Range(IF pc = "autostart" THEN config.autostart ELSE config.workspaces))

\* Two reversals cancel out: the workspaces stand in the order of the files and
\* the names, and the first of all names is the active workspace.  So, though
\* names may repeat and `workspace switch` then takes the first of them, the one
\* the session starts in can always be returned to.
WorkspacesAsConfigured ==
  HasWorkspaces =>
    /\ [i \in DOMAIN workspaces |-> workspaces[i].name]
         = [i \in DOMAIN NamesSaid |-> NamesSaid[i].name]
    /\ workspaces # <<>> => active = workspaces[1].id

\* One reversal does not: when the compositor runs, the last -s and then every
\* program of every readable file has been started once, the last one named
\* first.
ProgramsInReverse ==
  pc = "running" =>
    started = (IF startup_cmd = NULL THEN <<>> ELSE <<startup_cmd>>) \o Reverse(ProgramsSaid)

LongPath(opt) == opt.option = "c" /\ opt.path >= PathRoom

\* The check of the length is one short of what the buffer needs, but nothing
\* longer gets through it: of a name the process dies here only if it has
\* exactly MaxNameLength characters, and of nothing else but a path that is too
\* long.
DiesAtTheLimitOnly ==
  pc = "aborted" =>
    \E opt \in Range(argv) :
      \/ LongPath(opt)
      \/ Readable(opt) /\ \E n \in Range(opt.arg.workspaces) : n # NULL /\ n.length = MaxNameLength

\* "A pointer to the last created workspace, or NULL if no workspaces were
\* created", src/workspace.h:59.
NullWithoutWorkspaces == HasWorkspaces /\ workspaces = <<>> => active = NULL
=============================================================================
