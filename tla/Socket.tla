------------------------------- MODULE Socket -------------------------------
(***************************************************************************)
(* The command socket: the server thread of the compositor                 *)
(* (src/socket_server.c) that accepts one connection at a time, reads one  *)
(* command, runs it (src/commands.c) and sends back its size and its text; *)
(* the clients (src/ttcli.c); and the main thread, of which only what      *)
(* follows the `exit` command matters here: the process ends without       *)
(* waiting for the server thread (src/main.c).                             *)
(*                                                                         *)
(* One action is one system call, or one command run to its end.  A        *)
(* command is told apart by what it does to the response buffer and to the *)
(* process, see Commands; what it does to the windows is in Desktop.       *)
(***************************************************************************)
EXTENDS Commands

CONSTANTS
  Clients,       \* the runs of ttcli, and whatever else opens the socket
  Messages,      \* what they may send, see Commands
  WindowCounts,  \* how many windows there may be when a command is run
  WorkspaceCounts, \* how many workspaces a session may be configured with
  Backlog,       \* how many connections the kernel keeps waiting
  Disturbances   \* what else may happen, see DisturbanceKinds

\* kill: clients die at any point; bind: the socket's path cannot be bound;
\* spawn: key bindings start programs, which inherit every descriptor of the
\* process, for none of them is close-on-exec.
DisturbanceKinds == {"kill", "bind", "spawn"}

ASSUME SocketAssumption ==
  /\ {NULL, "size", "empty"} \cap Clients = {}
  /\ NULL \notin {"size", "empty"}
  /\ Messages \subseteq Seq(STRING) \cup {NULL}
  /\ WindowCounts \subseteq Nat
  /\ WorkspaceCounts \subseteq Nat
  /\ Backlog \in Nat \ {0}
  /\ Disturbances \subseteq DisturbanceKinds

VARIABLES
  status,        \* the process: running, terminating, exited, killed
  pc,            \* where the server thread is
  queue,         \* connections not accepted yet, oldest first
  current,       \* the client whose connection handle_client holds
  open,          \* clients whose accepted connection is not closed by the server
  response,      \* whose answer the stack buffer of handle_client holds
  message,       \* what each client was started to send
  workspaces,    \* how many workspaces the session has, from its first moment on
  client,        \* where each client is
  request,       \* clients whose command lies in the socket, unread
  reply,         \* what the server sent to each client, unread
  got,           \* whose answer each client received in full
  executed,      \* clients whose command has been run
  answered,      \* those whose command wrote its answer into the buffer
  inherited      \* what running children hold: connections, and "socket"

vars == <<status, pc, queue, current, open, response, message, workspaces, client,
          request, reply, got, executed, answered, inherited>>

serverVars == <<status, pc, queue, current, open, response, executed, answered, inherited>>
clientVars == <<message, workspaces, client, request, reply, got>>

\* done, failed, killed: the client is gone and its end of the connection is
\* closed, after success, after an error, or wherever it was.
ClientPhases == {"new", "connected", "sent", "sized", "done", "failed", "killed"}
Over(c) == client[c] \in {"done", "failed", "killed"}

\* What the buffer holds: the answer to a client's command, nothing (its first
\* byte ends it), or whatever else lay on the stack.
Answers == Clients \cup {NULL, "empty"}

\* The size that is sent, and how many bytes of the answer follow it.
Size(answer) == IF answer = "empty" THEN "empty" ELSE "size"
Bytes(answer) == IF answer = "empty" THEN <<>> ELSE <<answer>>

TypeOK ==
  /\ status \in {"running", "terminating", "exited", "killed"}
  /\ pc \in {"start", "bound", "accept", "recv", "execute", "size", "body", "close"}
  /\ queue \in Seq(Clients)
  /\ current \in Clients \cup {NULL}
  /\ open \subseteq Clients
  /\ response \in Answers
  /\ message \in [Clients -> Messages]
  /\ workspaces \in WorkspaceCounts
  /\ client \in [Clients -> ClientPhases]
  /\ request \subseteq Clients
  /\ reply \in [Clients -> Seq(Answers \cup {"size"})]
  /\ \A c \in Clients : Len(reply[c]) <= 2
  /\ got \in [Clients -> Answers]
  /\ executed \subseteq Clients
  /\ answered \subseteq executed
  /\ inherited \subseteq Clients \cup {"socket"}

Init ==
  /\ status = "running"
  /\ pc = "start"
  /\ queue = <<>>
  /\ current = NULL
  /\ open = {}
  /\ response = NULL
  /\ message \in [Clients -> Messages]
  /\ workspaces \in WorkspaceCounts
  /\ client = [c \in Clients |-> "new"]
  /\ request = {}
  /\ reply = [c \in Clients |-> <<>>]
  /\ got = [c \in Clients |-> NULL]
  /\ executed = {}
  /\ answered = {}
  /\ inherited = {}

Alive == status \in {"running", "terminating"}

\* The socket takes connections as long as any process holds it.
Listening == pc \notin {"start", "bound"} /\ (Alive \/ "socket" \in inherited)

\* Nobody holds the server's end of c's connection any more.
Hangup(c) ==
  /\ c \notin inherited
  /\ ~(Alive /\ c \in open)
  /\ ~(Listening /\ c \in Range(queue))

-----------------------------------------------------------------------------
(* The server thread.                                                       *)

\* unlink, socket, bind.
Bind ==
  /\ Alive /\ pc = "start"
  /\ pc' = "bound"
  /\ UNCHANGED <<status, queue, current, open, response, executed, answered, inherited, clientVars>>

\* bind or listen fails: the thread ends the whole process.
BindFails ==
  /\ "bind" \in Disturbances
  /\ Alive /\ pc \in {"start", "bound"}
  /\ status' = "exited"
  /\ UNCHANGED <<pc, queue, current, open, response, executed, answered, inherited, clientVars>>

Listen ==
  /\ Alive /\ pc = "bound"
  /\ pc' = "accept"
  /\ UNCHANGED <<status, queue, current, open, response, executed, answered, inherited, clientVars>>

\* Mutated form: the connection that came last is taken first.
AcceptNewest ==
  /\ Alive /\ pc = "accept"
  /\ queue # <<>>
  /\ pc' = "recv"
  /\ current' = Last(queue)
  /\ queue' = Front(queue)
  /\ open' = open \cup {Last(queue)}
  /\ UNCHANGED <<status, response, message, workspaces, client, request, reply, got, executed, answered, inherited>>

Accept ==
  /\ Alive /\ pc = "accept"
  /\ queue # <<>>
  /\ pc' = "recv"
  /\ current' = Head(queue)
  /\ queue' = Tail(queue)
  /\ open' = open \cup {Head(queue)}
  /\ UNCHANGED <<status, response, message, workspaces, client, request, reply, got, executed, answered, inherited>>

\* Mutated form: handle_client returns at once when recv has nothing to give.
RecvWithoutClose ==
  /\ Alive /\ pc = "recv"
  /\ \/ /\ current \in request
        /\ request' = request \ {current}
        /\ pc' = "execute"
        /\ UNCHANGED current
     \/ /\ current \notin request
        /\ Over(current)
        /\ pc' = "accept"
        /\ current' = NULL
        /\ UNCHANGED request
  /\ UNCHANGED <<status, queue, open, response, message, workspaces, client, reply, got, executed, answered, inherited>>

\* Mutated form: the end of the stream is read as "try again".
RecvIgnoringEnd ==
  /\ Alive /\ pc = "recv"
  /\ current \in request
  /\ request' = request \ {current}
  /\ pc' = "execute"
  /\ UNCHANGED <<status, queue, current, open, response, message, workspaces, client, reply, got, executed, answered, inherited>>

\* recv blocks until the client has sent its command or is gone.
Recv ==
  /\ Alive /\ pc = "recv"
  /\ \/ /\ current \in request
        /\ request' = request \ {current}
        /\ pc' = "execute"
     \/ /\ current \notin request
        /\ Over(current)
        /\ pc' = "close"
        /\ UNCHANGED request
  /\ UNCHANGED <<status, queue, current, open, response, message, workspaces, client, reply, got, executed, answered, inherited>>

\* Mutated form: the answer may not be in the buffer when it is sent.
WritesBehindTheBack(says) ==
  response' \in (IF says THEN {response, current} ELSE {response, NULL, "empty"})

\* What the buffer holds after the command: its answer, or whatever the stack
\* holds there, which may be nothing.
Writes(says) == response' \in (IF says THEN {current} ELSE {response, NULL, "empty"})

\* The rest of execute_command; an answer has been said or not.
Run(fun, says) ==
  /\ executed' = executed \cup {current}
  /\ answered' = IF says THEN answered \cup {current} ELSE answered
  /\ Writes(says)
  /\ status' = IF fun = "exit" THEN "terminating" ELSE status
  /\ pc' = "size"

Crash ==
  /\ status' = "killed"
  /\ UNCHANGED <<pc, response, executed, answered>>

\* A blank message is fatal; a limit exceeded or a workspace that is not there
\* may be.
Execute(windows) ==
  LET tokens == message[current]
  IN /\ Alive /\ pc = "execute"
     /\ \/ NoWord(tokens) /\ Crash
        \/ ~NoWord(tokens) /\ Hazardous(tokens, windows, workspaces) /\ Crash
        \/ ~NoWord(tokens) /\ Run(Function(tokens), ~NothingToSay(Function(tokens), windows, workspaces))
     /\ UNCHANGED <<queue, current, open, message, workspaces, client, request, reply, got, inherited>>

\* One of the two sends.  Sending to a client that is gone raises SIGPIPE,
\* which nobody handles, even when there is no byte to send.
Send(segments, next) ==
  /\ Alive
  /\ \/ /\ Over(current)
        /\ status' = "killed"
        /\ UNCHANGED <<pc, reply>>
     \/ /\ ~Over(current)
        /\ reply' = [reply EXCEPT ![current] = @ \o segments]
        /\ pc' = next
        /\ UNCHANGED status
  /\ UNCHANGED <<queue, current, open, response, message, workspaces, client, request, got, executed, answered, inherited>>

\* Mutated form: the connection is closed once the size is sent.
SendSizeOnly == pc = "size" /\ Send(<<Size(response)>>, "close")

\* Mutated form: the size is sent again and again.
SendSizeAgain == pc = "size" /\ Send(<<Size(response)>>, "size")

SendSize == pc = "size" /\ Send(<<Size(response)>>, "body")
SendBody == pc = "body" /\ Send(Bytes(response), "close")

Close ==
  /\ Alive /\ pc = "close"
  /\ open' = open \ {current}
  /\ current' = NULL
  /\ pc' = "accept"
  /\ UNCHANGED <<status, queue, response, message, workspaces, client, request, reply, got, executed, answered, inherited>>

\* Mutated form: main joins the server thread, which it can do only while that
\* thread is between two clients.
MainJoinsServer ==
  /\ status = "terminating" /\ pc = "accept"
  /\ status' = "exited"
  /\ UNCHANGED <<pc, queue, current, open, response, executed, answered, inherited, clientVars>>

\* The main thread: wl_display_run returns, the state is torn down and main
\* returns, which ends the server thread wherever it is.
MainReturns ==
  /\ status = "terminating"
  /\ status' = "exited"
  /\ UNCHANGED <<pc, queue, current, open, response, executed, answered, inherited, clientVars>>

\* A key binding: the main thread forks a shell at any point of the server
\* thread's work.  The child gets what the process has open.
Spawn ==
  /\ "spawn" \in Disturbances
  /\ Alive
  /\ inherited' = inherited \cup open \cup (IF pc = "start" THEN {} ELSE {"socket"})
  /\ UNCHANGED <<status, pc, queue, current, open, response, executed, answered, clientVars>>

\* The children have ended.
ChildrenEnd ==
  /\ inherited # {}
  /\ inherited' = {}
  /\ UNCHANGED <<status, pc, queue, current, open, response, executed, answered, clientVars>>

-----------------------------------------------------------------------------
(* The clients.                                                             *)

Connect(c) ==
  /\ client[c] = "new"
  /\ Listening
  /\ Len(queue) < Backlog
  /\ queue' = Append(queue, c)
  /\ client' = [client EXCEPT ![c] = "connected"]
  /\ UNCHANGED <<status, pc, current, open, response, message, workspaces, request, reply, got, executed, answered, inherited>>

\* Nobody listens: connect fails.
ConnectFails(c) ==
  /\ client[c] = "new"
  /\ ~Listening
  /\ client' = [client EXCEPT ![c] = "failed"]
  /\ UNCHANGED <<message, workspaces, request, reply, got, serverVars, inherited>>

\* The whole message goes out in one send, which fails if the server is gone;
\* a message of no bytes leaves nothing in the socket.
SendCommand(c) ==
  /\ client[c] = "connected"
  /\ \/ /\ Hangup(c)
        /\ client' = [client EXCEPT ![c] = "failed"]
        /\ UNCHANGED request
     \/ /\ ~Hangup(c)
        /\ client' = [client EXCEPT ![c] = "sent"]
        /\ request' = IF message[c] = NULL THEN request ELSE request \cup {c}
  /\ UNCHANGED <<message, workspaces, reply, got, serverVars>>

\* Where the size leads ttcli: nothing is received when nothing is announced.
AfterSize(size) == IF size = "empty" THEN "done" ELSE "sized"

\* Mutated form: the result of recv is not looked at.
RecvSizeUnchecked(c) ==
  /\ client[c] = "sent"
  /\ \/ /\ reply[c] # <<>>
        /\ reply' = [reply EXCEPT ![c] = Tail(@)]
        /\ client' = [client EXCEPT ![c] = AfterSize(Head(reply[c]))]
     \/ /\ reply[c] = <<>> /\ Hangup(c)
        /\ client' = [client EXCEPT ![c] = "sized"]
        /\ UNCHANGED reply
  /\ UNCHANGED <<message, workspaces, request, got, serverVars>>

\* Mutated form: ttcli is content with the size.
QuitAfterSize(c) ==
  /\ client[c] = "sent"
  /\ \/ /\ reply[c] # <<>>
        /\ reply' = [reply EXCEPT ![c] = Tail(@)]
        /\ client' = [client EXCEPT ![c] = "done"]
     \/ /\ reply[c] = <<>> /\ Hangup(c)
        /\ client' = [client EXCEPT ![c] = "failed"]
        /\ UNCHANGED reply
  /\ UNCHANGED <<message, workspaces, request, got, serverVars>>

\* The size of the response, or the end of the stream.
RecvSize(c) ==
  /\ client[c] = "sent"
  /\ \/ /\ reply[c] # <<>>
        /\ reply' = [reply EXCEPT ![c] = Tail(@)]
        /\ client' = [client EXCEPT ![c] = AfterSize(Head(reply[c]))]
     \/ /\ reply[c] = <<>> /\ Hangup(c)
        /\ client' = [client EXCEPT ![c] = "failed"]
        /\ UNCHANGED reply
  /\ UNCHANGED <<message, workspaces, request, got, serverVars>>

\* The response itself.  When the stream ends early the loop breaks, what has
\* come so far is printed and ttcli succeeds all the same.
RecvBody(c) ==
  /\ client[c] = "sized"
  /\ \/ /\ reply[c] # <<>>
        /\ got' = [got EXCEPT ![c] = Head(reply[c])]
        /\ reply' = [reply EXCEPT ![c] = Tail(@)]
     \/ /\ reply[c] = <<>> /\ Hangup(c)
        /\ UNCHANGED <<got, reply>>
  /\ client' = [client EXCEPT ![c] = "done"]
  /\ UNCHANGED <<message, workspaces, request, serverVars>>

\* The client is killed.
Kill(c) ==
  /\ "kill" \in Disturbances
  /\ ~Over(c)
  /\ client' = [client EXCEPT ![c] = "killed"]
  /\ UNCHANGED <<message, workspaces, request, reply, got, serverVars, inherited>>

-----------------------------------------------------------------------------

Server ==
  \/ Bind \/ Listen \/ Accept \/ Recv \/ (\E n \in WindowCounts : Execute(n))
  \/ SendSize \/ SendBody \/ Close
ClientStep(c) == Connect(c) \/ ConnectFails(c) \/ SendCommand(c) \/ RecvSize(c) \/ RecvBody(c)

Next ==
  \/ Server \/ BindFails \/ MainReturns \/ Spawn \/ ChildrenEnd
  \/ \E c \in Clients : ClientStep(c) \/ Kill(c)

Spec == Init /\ [][Next]_vars

\* Threads and client processes are scheduled; nobody has to be killed.
FairSpec ==
  /\ Spec
  /\ WF_vars(Server) /\ WF_vars(MainReturns)
  /\ \A c \in Clients : WF_vars(ClientStep(c))

-----------------------------------------------------------------------------

\* The server holds at most one accepted connection and closes each on every
\* path of handle_client: descriptors do not leak, whoever dies and when.
OneConnection == open \subseteq {current} \ {NULL}

\* A ttcli that exits with success had its command run, whenever the process
\* died: the end of the stream passes for success only behind the size, which
\* is sent after the command was run.
SuccessImpliesExecuted == \A c \in Clients : client[c] = "done" => c \in executed

\* How many messages a client still expects.
Expected(c) == CASE client[c] = "sent" -> 2 [] client[c] = "sized" -> 1 [] OTHER -> 0

\* While the process lives, nobody waits for bytes that will not come: a client
\* with an unanswered command is queued, is the one being served, or has
\* everything it still expects in its socket, which is the size alone when that
\* is zero.
NobodyAbandoned ==
  \A c \in Clients : Alive /\ Expected(c) > 0 =>
    \/ c \in Range(queue) \cup {current}
    \/ Len(reply[c]) = Expected(c)
    \/ client[c] = "sent" /\ reply[c] = <<"empty">>

\* Answers do not cross in the buffer that all connections share: a client
\* whose command wrote its answer receives that answer, or, when it was cut
\* short though ttcli succeeds, the process is gone.
AnswerIsOwn ==
  \A c \in answered : client[c] = "done" => got[c] = c \/ (got[c] = NULL /\ ~Alive)

\* The message may be fatal to this session: it is blank, may exceed a limit, or
\* may need a workspace when there is none.
MayCrash(tokens) ==
  NoWord(tokens) \/ \E n \in WindowCounts : Hazardous(tokens, n, workspaces)

\* The client did not wait for the second send, for it was told that nothing
\* follows: its command left a buffer that happened to hold nothing.
LeftAtOnce(c) == client[c] = "done" /\ response = "empty" /\ c \notin answered

\* A client takes the compositor down before its time in three ways only: it was
\* killed early, its message is one of the fatal ones, or it was told that its
\* answer is empty, which no command ever says.  Otherwise ttcli stays until
\* everything sent to it has been sent, so the unhandled SIGPIPE of the two
\* sends is raised by nothing else.
PatientClientsAreSafe ==
  status = "killed" =>
    /\ current # NULL
    /\ \/ client[current] = "killed"
       \/ pc = "execute" /\ MayCrash(message[current])
       \/ pc = "body" /\ LeftAtOnce(current)

\* Socket implements Requests.  A request is taken up when its command is run
\* or its connection found empty.
InHand == IF pc \in {"recv", "execute"} THEN <<current>> ELSE <<>>
Outcome(c) == CASE client[c] = "new" -> "new" [] client[c] = "done" -> "success"
                [] client[c] \in {"failed", "killed"} -> "failure" [] OTHER -> "made"

Promise == INSTANCE Requests WITH
  Requesters <- Clients,
  stage <- [c \in Clients |-> Outcome(c)],
  line <- InHand \o queue,
  carried_out <- executed,
  up <- Alive

ImplementsRequests == Promise!RequestSpec

\* Every connected client is served, or fails, unless the server is held by one
\* that sends nothing (recv has no timeout, and `ttcli ""` is one: each waits
\* for the other), or the process is gone and a program it started still holds
\* the socket, so that the client waits for somebody who will never answer.
ServedUnlessHeld ==
  \A c \in Clients :
    client[c] # "new" ~>
      \/ Over(c)
      \/ pc = "recv" /\ message[current] = NULL
      \/ ~Alive /\ inherited # {}

\* `exit` ends the process, even with the server thread held by a client that
\* never sends.
ExitExits ==
  (\E c \in executed : Function(message[c]) = "exit") ~> ~Alive

-----------------------------------------------------------------------------
(* What comments of the code promise, and the code breaks.                  *)

\* "A buffer to store the response to the command", src/commands.h:39: what a
\* client gets is the answer to its own command.
NoForeignAnswer == \A c \in Clients : got[c] \in {c, NULL}

=============================================================================
