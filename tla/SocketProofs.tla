---------------------------- MODULE SocketProofs ----------------------------
(***************************************************************************)
(* Theorems about Socket, for any clients, messages, backlog and            *)
(* disturbances: its safety properties, and that it implements Requests.    *)
(* They all follow from one invariant, which ties together where the server *)
(* thread is, where each client is and what lies in each socket.            *)
(***************************************************************************)
EXTENDS Socket, SequenceTheorems, TLAPS

-----------------------------------------------------------------------------
(* The queue of connections.                                                *)

\* A connection joins the queue.
LEMMA QueueGrows ==
  ASSUME NEW S, NEW q \in Seq(S), NEW e \in S
  PROVE  /\ Append(q, e) \in Seq(S)
         /\ Range(Append(q, e)) = Range(q) \cup {e}
         /\ IsInjective(q) /\ e \notin Range(q) => IsInjective(Append(q, e))
<1>1. /\ Append(q, e) \in Seq(S) /\ Len(Append(q, e)) = Len(q) + 1
      /\ DOMAIN Append(q, e) = 1 .. Len(q) + 1 /\ DOMAIN q = 1 .. Len(q) /\ Len(q) \in Nat
      /\ \A i \in 1 .. Len(q) : Append(q, e)[i] = q[i]
      /\ Append(q, e)[Len(q) + 1] = e
  OBVIOUS
<1>2. Range(Append(q, e)) = Range(q) \cup {e}
  BY <1>1 DEF Range
<1>3. IsInjective(q) /\ e \notin Range(q) => IsInjective(Append(q, e))
  BY <1>1 DEF Range, IsInjective
<1> QED BY <1>1, <1>2, <1>3

\* The oldest one leaves it.
LEMMA QueueShrinks ==
  ASSUME NEW S, NEW q \in Seq(S), q # <<>>
  PROVE  /\ Head(q) \in S /\ Tail(q) \in Seq(S)
         /\ Range(q) = Range(Tail(q)) \cup {Head(q)}
         /\ IsInjective(q) => IsInjective(Tail(q)) /\ Head(q) \notin Range(Tail(q))
<1>1. /\ Head(q) \in S /\ Tail(q) \in Seq(S) /\ Len(q) \in Nat \ {0} /\ Len(Tail(q)) = Len(q) - 1
      /\ DOMAIN q = 1 .. Len(q) /\ DOMAIN Tail(q) = 1 .. Len(q) - 1
      /\ Head(q) = q[1] /\ \A i \in 1 .. Len(q) - 1 : Tail(q)[i] = q[i + 1]
  OBVIOUS
<1>2. Range(q) \subseteq Range(Tail(q)) \cup {Head(q)}
  <2> SUFFICES ASSUME NEW i \in 1 .. Len(q), i # 1 PROVE q[i] \in Range(Tail(q))
    BY <1>1 DEF Range
  <2>1. i - 1 \in DOMAIN Tail(q) /\ Tail(q)[i - 1] = q[i]
    BY <1>1
  <2> QED BY <2>1 DEF Range
<1>3. Range(Tail(q)) \cup {Head(q)} \subseteq Range(q)
  BY <1>1 DEF Range
<1>4. IsInjective(q) => IsInjective(Tail(q)) /\ Head(q) \notin Range(Tail(q))
  BY <1>1 DEF Range, IsInjective
<1> QED BY <1>1, <1>2, <1>3, <1>4

\* What lies in a socket once one message, or two, have been sent.
LEMMA OneMessage ==
  ASSUME NEW S, NEW a \in S
  PROVE  Append(<<>>, a) = <<a>> /\ <<a>> \in Seq(S) /\ Len(<<a>>) = 1
  OBVIOUS

\* A send of one message, and a send of none.
LEMMA Sent ==
  ASSUME NEW S, NEW q \in Seq(S), NEW a \in S
  PROVE  q \o <<a>> = Append(q, a) /\ q \o <<>> = q
  OBVIOUS

LEMMA TwoMessages ==
  ASSUME NEW S, NEW a \in S, NEW b \in S
  PROVE  Append(<<a>>, b) = <<a, b>> /\ <<a, b>> \in Seq(S) /\ Len(<<a, b>>) = 2
<1> DEFINE s == Append(<<a>>, b)
           t == <<a, b>>
<1>1. s \in Seq(S) /\ t \in Seq(S) /\ Len(t) = 2 /\ Len(s) = 2
  OBVIOUS
<1>2. s[1] = a /\ s[2] = b /\ t[1] = a /\ t[2] = b
  OBVIOUS
<1> HIDE DEF s, t
<1>3. s = t
  BY <1>1, <1>2, SeqEqual
<1> QED BY <1>1, <1>3 DEF s, t

-----------------------------------------------------------------------------
(* The inductive invariant.                                                 *)

\* c's connection has not been taken up by the server.
Waiting(c) == c \in Range(queue) \/ (c = current /\ pc = "recv")

\* The server is about to answer c, has sent c the size only, or is done with c.
Answering(c) == c = current /\ pc \in {"execute", "size"}
HalfAnswered(c) == c = current /\ pc = "body"
Served(c) == c \in executed /\ ~(c = current /\ pc \in {"size", "body"})

\* b is what c may be sent as its answer.
Proper(b, c) == b \in Answers /\ (c \in answered => b = c)

\* All that is sent of an answer b.
Whole(b) == IF b = "empty" THEN <<"empty">> ELSE <<"size", b>>

\* The server has yet to send c the nothing that it announced.
NothingLeftToSend(c) == HalfAnswered(c) /\ response = "empty"

\* The server holds the connection it serves, once it has accepted one; the
\* requests ahead of it have not been carried out, and nobody is queued twice.
ServerInv ==
  /\ current = NULL <=> pc \in {"start", "bound", "accept"}
  /\ open = {current} \ {NULL}
  /\ pc \in {"start", "bound"} => queue = <<>>
  /\ IsInjective(queue)
  /\ current \notin Range(queue)
  /\ Range(queue) \cap executed = {}
  /\ pc \in {"recv", "execute"} => current \notin executed
  /\ pc \in {"size", "body"} => current \in executed
  /\ pc \in {"size", "body"} => Proper(response, current)
  /\ pc = "execute" => message[current] # NULL

\* Where a client is, what the server has sent it and where the server is with
\* it go together.
ProtocolInv(c) ==
  /\ client[c] = "new" => c \notin Range(queue) /\ c # current /\ c \notin executed
  /\ client[c] = "connected" => Waiting(c)
  /\ client[c] \in {"new", "connected"} => reply[c] = <<>>
  /\ c \in request => Waiting(c) /\ client[c] \notin {"new", "connected"} /\ message[c] # NULL
  /\ client[c] \in {"sized", "done"} => c \in executed
  /\ c \in executed => message[c] # NULL /\ message[c] # <<>>
  /\ client[c] = "sent" =>
       \/ (Waiting(c) \/ Answering(c)) /\ reply[c] = <<>>
       \/ HalfAnswered(c) /\ reply[c] = <<Size(response)>>
       \/ Served(c) /\ \E b \in Answers : Proper(b, c) /\ reply[c] = Whole(b)
  /\ client[c] = "sized" =>
       \/ HalfAnswered(c) /\ reply[c] = <<>> /\ response # "empty"
       \/ Served(c) /\ \E b \in Answers : Proper(b, c) /\ reply[c] = <<b>>

\* What a client has received; and while the process lives, only a kill or the
\* announcement of nothing takes a client away before the server is done with it.
OutcomeInv(c) ==
  /\ client[c] # "done" => got[c] = NULL
  /\ client[c] = "done" /\ c \in answered => got[c] = c \/ (got[c] = NULL /\ ~Alive)
  /\ client[c] = "done" => Served(c) \/ NothingLeftToSend(c) \/ ~Alive
  /\ Alive /\ client[c] \in {"failed", "done"} =>
       c \notin Range(queue) /\
       (c = current => pc = "close" \/ (client[c] = "done" /\ NothingLeftToSend(c)))

IInv ==
  /\ TypeOK
  /\ ServerInv
  /\ \A c \in Clients : ProtocolInv(c) /\ OutcomeInv(c)
  /\ PatientClientsAreSafe

-----------------------------------------------------------------------------
(* The parts of the invariant depend on parts of the state only.            *)

LEMMA ServerKept ==
  ASSUME ServerInv, UNCHANGED <<pc, queue, current, open, response, executed, answered, message>>
  PROVE  ServerInv'
  BY DEF ServerInv, Proper, Answers

LEMMA ProtocolKept ==
  ASSUME NEW c \in Clients, ProtocolInv(c),
         UNCHANGED <<pc, queue, current, response, executed, answered, message, request>>,
         client'[c] = client[c], reply'[c] = reply[c]
  PROVE  ProtocolInv(c)'
  BY DEF ProtocolInv, Proper, Waiting, Answering, HalfAnswered, Served, NothingLeftToSend, Answers

LEMMA OutcomeKept ==
  ASSUME NEW c \in Clients, OutcomeInv(c),
         UNCHANGED <<pc, queue, current, response, executed, answered>>,
         client'[c] = client[c], got'[c] = got[c],
         Alive' => Alive
  PROVE  OutcomeInv(c)'
  BY DEF OutcomeInv, Served, NothingLeftToSend, HalfAnswered

\* The process that is gone stays as it was, and so do the clients that are.
LEMMA PatienceKept ==
  ASSUME PatientClientsAreSafe, TypeOK, UNCHANGED <<message, workspaces>>,
         status' = "killed" => status = "killed" /\ UNCHANGED <<pc, current, response, answered>>,
         \A c \in Clients : client[c] \in {"killed", "done"} => client'[c] = client[c]
  PROVE  PatientClientsAreSafe'
<1> SUFFICES ASSUME status' = "killed" PROVE PatientClientsAreSafe'
  BY DEF PatientClientsAreSafe
<1>1. /\ current # NULL /\ current \in Clients
      /\ \/ client[current] = "killed"
         \/ pc = "execute" /\ MayCrash(message[current])
         \/ pc = "body" /\ LeftAtOnce(current)
  BY DEF PatientClientsAreSafe, TypeOK
<1>2. MayCrash(message[current]) => MayCrash(message[current])'
  BY DEF MayCrash, Hazardous, Overruns, Dangles, NoWord, Function, Matching, Matches
<1>3. LeftAtOnce(current) => LeftAtOnce(current)'
  BY <1>1 DEF LeftAtOnce
<1> QED BY <1>1, <1>2, <1>3 DEF PatientClientsAreSafe

\* While the process lives nobody who is served or queued is hung up on.
LEMMA NotHungUp ==
  ASSUME TypeOK, ServerInv, NEW c \in Clients, Alive,
         Waiting(c) \/ (c = current /\ pc \in {"execute", "size", "body"})
  PROVE  ~Hangup(c)
<1>1. CASE c \in Range(queue)
  <2>1. queue # <<>>
    BY <1>1 DEF Range
  <2> QED BY <1>1, <2>1 DEF Hangup, Listening, ServerInv
<1>2. CASE c = current
  BY <1>2, SocketAssumption DEF Hangup, ServerInv
<1> QED BY <1>1, <1>2 DEF Waiting

\* A client that is being answered and is still there expects the answer.
LEMMA AnswerExpected ==
  ASSUME IInv, pc \in {"size", "body"}, ~Over(current)
  PROVE  /\ current \in Clients
         /\ pc = "size" => client[current] = "sent" /\ reply[current] = <<>>
         /\ pc = "body" => \/ client[current] = "sent" /\ reply[current] = <<Size(response)>>
                           \/ /\ client[current] = "sized" /\ reply[current] = <<>>
                              /\ response # "empty"
<1>1. current \in Clients /\ current \notin Range(queue)
  BY DEF IInv, TypeOK, ServerInv
<1>2. client[current] \in {"sent", "sized"}
  BY <1>1 DEF IInv, TypeOK, ProtocolInv, Waiting, Over, ClientPhases
<1>3. ~Waiting(current) /\ ~Served(current)
  BY <1>1 DEF Waiting, Served
<1> QED BY <1>1, <1>2, <1>3 DEF IInv, ProtocolInv, Answering, HalfAnswered

-----------------------------------------------------------------------------
(* The server thread's steps.                                               *)

LEMMA InitHolds == Init => IInv
<1> SUFFICES ASSUME Init PROVE IInv
  OBVIOUS
<1>1. queue = <<>> /\ Range(queue) = {} /\ IsInjective(queue)
  BY DEF Init, Range, IsInjective
<1>2. TypeOK
  BY DEF Init, TypeOK, Answers, ClientPhases
<1>3. ServerInv
  BY <1>1, SocketAssumption DEF Init, ServerInv
<1>4. ASSUME NEW c \in Clients PROVE ProtocolInv(c) /\ OutcomeInv(c)
  BY <1>1, SocketAssumption DEF Init, ProtocolInv, OutcomeInv
<1>5. PatientClientsAreSafe
  BY DEF Init, PatientClientsAreSafe
<1> QED BY <1>2, <1>3, <1>4, <1>5 DEF IInv

LEMMA BindKeeps == IInv /\ (Bind \/ Listen) => IInv'
<1> SUFFICES ASSUME IInv, Bind \/ Listen PROVE IInv'
  OBVIOUS
<1>1. TypeOK'
  BY DEF Bind, Listen, IInv, TypeOK, clientVars
<1>2. ServerInv'
  BY DEF Bind, Listen, IInv, ServerInv, Proper, Answers, clientVars
<1>3. ASSUME NEW c \in Clients PROVE ProtocolInv(c)' /\ OutcomeInv(c)'
  <2>1. ProtocolInv(c) /\ OutcomeInv(c)
    BY DEF IInv
  <2>2. ProtocolInv(c)'
    BY <2>1 DEF Bind, Listen, ProtocolInv, Proper, Waiting, Answering, HalfAnswered, Served,
                NothingLeftToSend, Answers, clientVars
  <2>3. OutcomeInv(c)'
    BY <2>1 DEF Bind, Listen, OutcomeInv, Served, NothingLeftToSend, HalfAnswered, Alive,
             clientVars
  <2> QED BY <2>2, <2>3
<1>4. PatientClientsAreSafe'
  BY PatienceKept DEF Bind, Listen, IInv, Alive, clientVars
<1> QED BY <1>1, <1>2, <1>3, <1>4 DEF IInv

\* The process ends, or forks, or its children end: nothing else changes.
LEMMA ProcessKeeps == IInv /\ (BindFails \/ MainReturns \/ Spawn \/ ChildrenEnd) => IInv'
<1> SUFFICES ASSUME IInv, BindFails \/ MainReturns \/ Spawn \/ ChildrenEnd PROVE IInv'
  OBVIOUS
<1>1. /\ UNCHANGED <<pc, queue, current, open, response, executed, answered, message, workspaces, client,
                     request, reply, got>>
      /\ Alive' => Alive
      /\ status' = "killed" => status = "killed"
      /\ status' \in {status, "exited"}
      /\ inherited' \subseteq Clients \cup {"socket"}
  BY DEF IInv, TypeOK, BindFails, MainReturns, Spawn, ChildrenEnd, clientVars, Alive
<1>2. TypeOK'
  BY <1>1 DEF IInv, TypeOK, Answers
<1>3. ServerInv'
  BY <1>1, ServerKept DEF IInv
<1>4. ASSUME NEW c \in Clients PROVE ProtocolInv(c)' /\ OutcomeInv(c)'
  BY <1>1, ProtocolKept, OutcomeKept DEF IInv
<1>5. PatientClientsAreSafe'
  BY <1>1, PatienceKept DEF IInv
<1> QED BY <1>2, <1>3, <1>4, <1>5 DEF IInv

LEMMA AcceptKeeps == IInv /\ Accept => IInv'
<1> SUFFICES ASSUME IInv, Accept PROVE IInv'
  OBVIOUS
<1>1. /\ pc = "accept" /\ pc' = "recv" /\ current' = Head(queue) /\ queue' = Tail(queue)
      /\ open' = open \cup {Head(queue)}
      /\ UNCHANGED <<status, response, message, workspaces, client, request, reply, got, executed, answered, inherited>>
  BY DEF Accept
<1>2. /\ Head(queue) \in Clients /\ queue' \in Seq(Clients)
      /\ Range(queue) = Range(queue') \cup {current'}
      /\ IsInjective(queue') /\ current' \notin Range(queue')
  BY <1>1, QueueShrinks DEF Accept, IInv, TypeOK, ServerInv
<1>3. TypeOK'
  BY <1>1, <1>2 DEF IInv, TypeOK, Answers
<1>4. ServerInv'
  BY <1>1, <1>2, SocketAssumption DEF IInv, ServerInv
<1>5. ASSUME NEW c \in Clients PROVE ProtocolInv(c)' /\ OutcomeInv(c)'
  <2>1. ProtocolInv(c) /\ OutcomeInv(c) /\ current = NULL /\ c # NULL
    BY <1>1, SocketAssumption DEF IInv, ServerInv
  <2>2. /\ Waiting(c)' <=> Waiting(c)
        /\ ~Answering(c)' /\ ~Answering(c) /\ ~HalfAnswered(c)' /\ ~HalfAnswered(c)
        /\ ~NothingLeftToSend(c)' /\ ~NothingLeftToSend(c)
        /\ Served(c)' <=> Served(c)
    BY <1>1, <1>2, <2>1 DEF Waiting, Answering, HalfAnswered, Served, NothingLeftToSend
  <2>3. ProtocolInv(c)'
    BY <1>1, <1>2, <2>1, <2>2 DEF ProtocolInv, Proper, Answers
  <2>4. OutcomeInv(c)'
    BY <1>1, <1>2, <2>1, <2>2 DEF OutcomeInv, Alive
  <2> QED BY <2>3, <2>4
<1>6. PatientClientsAreSafe'
  BY <1>1, PatienceKept DEF Accept, IInv, Alive
<1> QED BY <1>3, <1>4, <1>5, <1>6 DEF IInv

LEMMA RecvKeeps == IInv /\ Recv => IInv'
<1> SUFFICES ASSUME IInv, Recv PROVE IInv'
  OBVIOUS
<1>1. /\ pc = "recv" /\ Alive /\ current \in Clients /\ current \notin Range(queue)
      /\ UNCHANGED <<status, queue, current, open, response, message, workspaces, client, reply, got,
                     executed, answered, inherited>>
  BY DEF Recv, IInv, TypeOK, ServerInv
<1>2. \/ current \in request /\ request' = request \ {current} /\ pc' = "execute"
      \/ Over(current) /\ current \notin request /\ pc' = "close" /\ request' = request
  BY DEF Recv
<1>3. TypeOK'
  BY <1>1, <1>2 DEF IInv, TypeOK, Answers
<1>4. ServerInv'
  BY <1>1, <1>2 DEF IInv, ServerInv, ProtocolInv
<1>5. ASSUME NEW c \in Clients PROVE ProtocolInv(c)' /\ OutcomeInv(c)'
  <2>1. ProtocolInv(c) /\ OutcomeInv(c) /\ ServerInv
    BY DEF IInv
  <2>2. CASE c # current
    <3>1. /\ Waiting(c)' <=> Waiting(c)
          /\ Answering(c)' <=> Answering(c)
          /\ HalfAnswered(c)' <=> HalfAnswered(c)
          /\ NothingLeftToSend(c)' <=> NothingLeftToSend(c)
          /\ HalfAnswered(c) => response' = response
          /\ Served(c)' <=> Served(c)
          /\ c \in request' <=> c \in request
      BY <1>1, <1>2, <2>2 DEF Waiting, Answering, HalfAnswered, Served, NothingLeftToSend
    <3> QED BY <1>1, <2>1, <2>2, <3>1 DEF ProtocolInv, OutcomeInv, Proper, Answers, Alive
  <2>3. CASE c = current
    <3>1. c \notin executed /\ client[c] \notin {"new", "sized", "done", "failed"} /\ ~Served(c)
      BY <1>1, <2>1, <2>3 DEF ServerInv, ProtocolInv, OutcomeInv, Served
    <3>2. client[c] = "sent" => reply[c] = <<>>
      BY <1>1, <2>1, <2>3, <3>1 DEF ProtocolInv, HalfAnswered
    <3>3. CASE pc' = "execute"
      BY <1>1, <1>2, <2>1, <2>3, <3>1, <3>2, <3>3 DEF ProtocolInv, OutcomeInv, Answering
    <3>4. CASE pc' = "close"
      BY <1>1, <1>2, <2>1, <2>3, <3>1, <3>2, <3>4 DEF ProtocolInv, OutcomeInv, Over
    <3> QED BY <1>2, <3>3, <3>4
  <2> QED BY <2>2, <2>3
<1>6. PatientClientsAreSafe'
  BY <1>1, PatienceKept DEF IInv, Alive
<1> QED BY <1>3, <1>4, <1>5, <1>6 DEF IInv

LEMMA ExecuteKeeps ==
  ASSUME IInv, NEW windows \in WindowCounts, Execute(windows)
  PROVE  IInv'
<1>1. /\ pc = "execute" /\ Alive /\ current \in Clients /\ current \notin Range(queue)
      /\ current \notin executed /\ message[current] # NULL
      /\ UNCHANGED <<queue, current, open, message, workspaces, client, request, reply, got, inherited>>
  BY DEF Execute, IInv, TypeOK, ServerInv
<1> DEFINE tokens == message[current]
           fun == Function(tokens)
           says == ~NothingToSay(fun, windows, workspaces)
<1>2. CASE Crash /\ (NoWord(tokens) \/ Hazardous(tokens, windows, workspaces))
  <2>1. /\ UNCHANGED <<pc, response, executed, answered>> /\ status' = "killed" /\ ~Alive'
    BY <1>2 DEF Crash, Alive
  <2>2. TypeOK'
    BY <1>1, <2>1 DEF IInv, TypeOK, Answers
  <2>3. ServerInv'
    BY <1>1, <2>1, ServerKept DEF IInv
  <2>4. ASSUME NEW c \in Clients PROVE ProtocolInv(c)' /\ OutcomeInv(c)'
    BY <1>1, <2>1, ProtocolKept, OutcomeKept DEF IInv
  <2>5. PatientClientsAreSafe'
    <3>1. MayCrash(tokens)
      BY <1>1, <1>2 DEF MayCrash
    <3>2. MayCrash(tokens)'
      BY <1>1, <3>1 DEF MayCrash, Hazardous, Overruns, Dangles, NoWord, Function, Matching, Matches
    <3> QED BY <1>1, <2>1, <3>2, SocketAssumption DEF PatientClientsAreSafe
  <2> QED BY <2>2, <2>3, <2>4, <2>5 DEF IInv
<1>3. CASE Run(fun, says) /\ ~NoWord(tokens)
  <2>1. /\ executed' = executed \cup {current}
        /\ answered' = (IF says THEN answered \cup {current} ELSE answered)
        /\ response' \in (IF says THEN {current} ELSE {response, NULL, "empty"})
        /\ status' \in {"terminating", status} /\ Alive' /\ pc' = "size"
        /\ tokens # <<>>
    BY <1>1, <1>3 DEF Run, Writes, Alive, NoWord
  <2> HIDE DEF tokens, fun, says
  <2>2. TypeOK'
    BY <1>1, <2>1 DEF IInv, TypeOK, Answers
  <2>3. Proper(response, current)'
    <3>1. current \notin answered
      BY <1>1 DEF IInv, TypeOK
    <3> QED BY <1>1, <2>1, <3>1 DEF IInv, TypeOK, Proper, Answers
  <2>4. ServerInv'
    BY <1>1, <2>1, <2>3 DEF IInv, ServerInv
  <2>5. ASSUME NEW c \in Clients PROVE ProtocolInv(c)' /\ OutcomeInv(c)'
    <3>1. ProtocolInv(c) /\ OutcomeInv(c)
      BY DEF IInv
    <3>2. CASE c # current
      <4>1. /\ Waiting(c)' <=> Waiting(c)
            /\ Answering(c)' <=> Answering(c)
            /\ HalfAnswered(c)' <=> HalfAnswered(c)
            /\ NothingLeftToSend(c)' <=> NothingLeftToSend(c)
            /\ HalfAnswered(c) => response' = response
            /\ Served(c)' <=> Served(c)
            /\ c \in executed' <=> c \in executed
            /\ c \in answered' <=> c \in answered
        BY <1>1, <2>1, <3>2 DEF Waiting, Answering, HalfAnswered, Served, NothingLeftToSend
      <4> QED BY <1>1, <2>1, <3>1, <3>2, <4>1 DEF ProtocolInv, OutcomeInv, Proper, Answers, Alive
    <3>3. CASE c = current
      <4>1. client[c] \notin {"new", "connected", "sized", "done", "failed"} /\ c \notin request
        BY <1>1, <3>1, <3>3 DEF ProtocolInv, OutcomeInv, Waiting
      <4>2. client[c] = "sent" => reply[c] = <<>>
        BY <1>1, <3>1, <3>3 DEF ProtocolInv, HalfAnswered, Served
      <4>3. Answering(c)' /\ message'[c] # NULL /\ message'[c] # <<>>
        BY <1>1, <2>1, <3>3 DEF Answering, tokens
      <4> QED BY <1>1, <2>1, <3>1, <3>3, <4>1, <4>2, <4>3 DEF ProtocolInv, OutcomeInv
    <3> QED BY <3>2, <3>3
  <2>6. PatientClientsAreSafe'
    <3>1. status' # "killed"
      BY <1>1, <2>1 DEF Alive
    <3> QED BY <1>1, <3>1, PatienceKept DEF IInv
  <2> QED BY <2>2, <2>4, <2>5, <2>6 DEF IInv
<1> QED BY <1>2, <1>3 DEF Execute

\* What a client that is still there has been sent is as AnswerExpected says; to
\* one that is gone nothing is sent and the process dies.
LEMMA SendKeeps == IInv /\ (SendSize \/ SendBody) => IInv'
<1> SUFFICES ASSUME IInv, SendSize \/ SendBody PROVE IInv'
  OBVIOUS
<1>1. /\ pc \in {"size", "body"} /\ Alive /\ current \in Clients /\ current \notin Range(queue)
      /\ current \in executed
      /\ UNCHANGED <<queue, current, open, response, message, workspaces, client, request, got, executed,
                     answered, inherited>>
  BY DEF SendSize, SendBody, Send, IInv, TypeOK, ServerInv
<1>4. response \in Answers
  BY DEF IInv, TypeOK
<1>2. CASE Over(current) /\ status' = "killed" /\ UNCHANGED <<pc, reply>>
  <2>1. TypeOK'
    BY <1>1, <1>2 DEF IInv, TypeOK, Answers
  <2>2. ServerInv'
    BY <1>1, <1>2, ServerKept DEF IInv
  <2>3. ASSUME NEW c \in Clients PROVE ProtocolInv(c)' /\ OutcomeInv(c)'
    BY <1>1, <1>2, ProtocolKept, OutcomeKept DEF IInv
  <2>4. PatientClientsAreSafe'
    <3>1. client[current] = "killed" \/ (client[current] = "done" /\ pc = "body" /\ response = "empty")
      BY <1>1, <1>2 DEF IInv, OutcomeInv, Over, NothingLeftToSend, HalfAnswered
    <3>2. response = "empty" => current \notin answered
      BY <1>1, SocketAssumption DEF IInv, ServerInv, Proper
    <3> QED BY <1>1, <1>2, <3>1, <3>2, SocketAssumption DEF PatientClientsAreSafe, LeftAtOnce
  <2> QED BY <2>1, <2>2, <2>3, <2>4 DEF IInv
<1>3. ASSUME ~Over(current), UNCHANGED status,
             reply' = [reply EXCEPT ![current] = reply'[current]],
             \/ pc = "size" /\ pc' = "body" /\ reply'[current] = reply[current] \o <<Size(response)>>
             \/ pc = "body" /\ pc' = "close" /\ reply'[current] = reply[current] \o Bytes(response)
      PROVE  IInv'
  <2>1. /\ pc = "size" => client[current] = "sent" /\ reply[current] = <<>>
        /\ pc = "body" => \/ client[current] = "sent" /\ reply[current] = <<Size(response)>>
                          \/ /\ client[current] = "sized" /\ reply[current] = <<>>
                             /\ response # "empty"
    BY <1>1, <1>3, AnswerExpected
  <2> DEFINE S == Answers \cup {"size"}
  <2>s. Size(response) \in S /\ response \in S
    BY <1>4 DEF Size, Answers
  <2> HIDE DEF S
  <2>2. /\ pc = "size" => reply'[current] = <<Size(response)>>
        /\ pc = "body" => \/ client[current] = "sent" /\ reply'[current] = Whole(response)
                          \/ /\ client[current] = "sized" /\ reply'[current] = <<response>>
                             /\ response # "empty"
    <3>1. /\ <<>> \in Seq(S) /\ <<Size(response)>> \in Seq(S)
          /\ Append(<<>>, Size(response)) = <<Size(response)>>
          /\ Append(<<>>, response) = <<response>>
      BY <2>s, OneMessage
    <3>2. /\ <<>> \o <<Size(response)>> = <<Size(response)>>
          /\ <<>> \o <<response>> = <<response>>
          /\ <<Size(response)>> \o <<response>> = Append(<<Size(response)>>, response)
          /\ <<Size(response)>> \o <<>> = <<Size(response)>>
      BY <2>s, <3>1, Sent
    <3>3. Append(<<Size(response)>>, response) = <<Size(response), response>>
      BY <2>s, TwoMessages
    <3>4. CASE response = "empty"
      <4>1. Bytes(response) = <<>> /\ Whole(response) = <<Size(response)>>
        BY <3>4 DEF Bytes, Whole, Size
      <4> QED BY <1>3, <2>1, <3>2, <3>4, <4>1
    <3>5. CASE response # "empty"
      <4>1. Bytes(response) = <<response>> /\ Whole(response) = <<Size(response), response>>
        BY <3>5 DEF Bytes, Whole, Size
      <4> QED BY <1>3, <2>1, <3>2, <3>3, <3>5, <4>1
    <3> QED BY <3>4, <3>5
  <2>3. reply' \in [Clients -> Seq(Answers \cup {"size"})] /\ \A c \in Clients : Len(reply'[c]) <= 2
    <3>1. reply'[current] \in Seq(S) /\ Len(reply'[current]) <= 2
      <4>1. "empty" \in S /\ "size" \in S
        BY DEF Answers, S
      <4>2. /\ <<Size(response)>> \in Seq(S) /\ Len(<<Size(response)>>) = 1
            /\ <<"empty">> \in Seq(S) /\ Len(<<"empty">>) = 1
            /\ <<response>> \in Seq(S) /\ Len(<<response>>) = 1
            /\ <<"size", response>> \in Seq(S) /\ Len(<<"size", response>>) = 2
        BY <2>s, <4>1, OneMessage, TwoMessages
      <4>3. CASE reply'[current] = <<Size(response)>>
        <5>1. reply'[current] \in Seq(S) /\ Len(reply'[current]) = 1
          BY <4>2, <4>3, Zenon
        <5> QED BY <5>1
      <4>4. CASE reply'[current] = <<response>>
        <5>1. reply'[current] \in Seq(S) /\ Len(reply'[current]) = 1
          BY <4>2, <4>4, Zenon
        <5> QED BY <5>1
      <4>5. CASE reply'[current] = <<"empty">>
        <5>1. reply'[current] \in Seq(S) /\ Len(reply'[current]) = 1
          BY <4>2, <4>5, Zenon
        <5> QED BY <5>1
      <4>6. CASE reply'[current] = <<"size", response>>
        <5>1. reply'[current] \in Seq(S) /\ Len(reply'[current]) = 2
          BY <4>2, <4>6, Zenon
        <5> QED BY <5>1
      <4> QED BY <1>1, <2>2, <4>3, <4>4, <4>5, <4>6 DEF Whole
    <3> QED BY <1>1, <1>3, <3>1 DEF IInv, TypeOK, S
  <2>4. TypeOK'
    BY <1>1, <1>3, <2>3 DEF IInv, TypeOK, Answers
  <2>5. ServerInv'
    BY <1>1, <1>3 DEF IInv, ServerInv, Proper, Answers
  <2>6. ASSUME NEW c \in Clients PROVE ProtocolInv(c)' /\ OutcomeInv(c)'
    <3>1. ProtocolInv(c) /\ OutcomeInv(c) /\ ServerInv
      BY DEF IInv
    <3>2. CASE c # current
      <4>1. /\ Waiting(c)' <=> Waiting(c)
            /\ Answering(c)' <=> Answering(c)
            /\ HalfAnswered(c)' <=> HalfAnswered(c)
            /\ NothingLeftToSend(c)' <=> NothingLeftToSend(c)
            /\ HalfAnswered(c) => response' = response
            /\ Served(c)' <=> Served(c)
            /\ reply'[c] = reply[c]
        BY <1>1, <1>3, <3>2 DEF Waiting, Answering, HalfAnswered, Served, NothingLeftToSend,
             IInv, TypeOK
      <4> QED BY <1>1, <1>3, <3>1, <3>2, <4>1 DEF ProtocolInv, OutcomeInv, Proper, Answers, Alive
    <3>3. CASE c = current
      <4>1. /\ client[c] \in {"sent", "sized"} /\ c \notin request /\ got[c] = NULL
            /\ message[c] # NULL /\ message[c] # <<>>
        BY <1>1, <2>1, <3>1, <3>3 DEF ProtocolInv, OutcomeInv, Waiting
      <4>2. CASE pc = "size"
        <5>1. HalfAnswered(c)' /\ reply'[c] = <<Size(response)>>' /\ client[c] = "sent"
          BY <1>1, <1>3, <2>1, <2>2, <3>3, <4>2 DEF HalfAnswered
        <5> QED BY <1>1, <1>3, <4>1, <5>1 DEF ProtocolInv, OutcomeInv
      <4>3. CASE pc = "body"
        <5>1. /\ Served(c)' /\ response \in Answers /\ Proper(response, c)'
              /\ client[c] = "sent" => reply'[c] = Whole(response)
              /\ client[c] = "sized" => reply'[c] = <<response>>
          BY <1>1, <1>3, <2>1, <2>2, <3>1, <3>3, <4>3 DEF Served, ServerInv, Proper, Answers
        <5>2. Answers' = Answers
          BY DEF Answers
        <5>3. CASE client[c] = "sent"
          <6>1. \E b \in Answers' : Proper(b, c)' /\ reply'[c] = Whole(b)
            BY <1>1, <1>4, <5>1, <5>2, <5>3 DEF Proper
          <6> QED BY <1>1, <1>3, <4>1, <5>1, <5>3, <6>1 DEF ProtocolInv, OutcomeInv
        <5>4. CASE client[c] = "sized"
          <6>1. \E b \in Answers' : Proper(b, c)' /\ reply'[c] = <<b>>
            BY <1>1, <1>4, <5>1, <5>2, <5>4 DEF Proper
          <6> QED BY <1>1, <1>3, <3>3, <4>1, <5>1, <5>4, <6>1 DEF ProtocolInv, OutcomeInv
        <5> QED BY <4>1, <5>3, <5>4
      <4> QED BY <1>1, <4>2, <4>3
    <3> QED BY <3>2, <3>3
  <2>7. PatientClientsAreSafe'
    BY <1>1, <1>3, PatienceKept DEF IInv, Alive
  <2> QED BY <2>4, <2>5, <2>6, <2>7 DEF IInv
<1>5. \/ Over(current) /\ status' = "killed" /\ UNCHANGED <<pc, reply>>
      \/ /\ ~Over(current) /\ UNCHANGED status
         /\ \/ pc = "size" /\ pc' = "body"
               /\ reply' = [reply EXCEPT ![current] = @ \o <<Size(response)>>]
            \/ pc = "body" /\ pc' = "close"
               /\ reply' = [reply EXCEPT ![current] = @ \o Bytes(response)]
  BY DEF SendSize, SendBody, Send
<1>6. ASSUME NEW t, reply' = [reply EXCEPT ![current] = @ \o t]
      PROVE  /\ reply'[current] = reply[current] \o t
             /\ reply' = [reply EXCEPT ![current] = reply'[current]]
  BY <1>1, <1>6 DEF IInv, TypeOK
<1> QED BY <1>2, <1>3, <1>5, <1>6

LEMMA CloseKeeps == IInv /\ Close => IInv'
<1> SUFFICES ASSUME IInv, Close PROVE IInv'
  OBVIOUS
<1>1. /\ pc = "close" /\ pc' = "accept" /\ current' = NULL /\ open' = open \ {current}
      /\ UNCHANGED <<status, queue, response, message, workspaces, client, request, reply, got, executed,
                     answered, inherited>>
  BY DEF Close
<1>2. TypeOK'
  BY <1>1 DEF IInv, TypeOK, Answers
<1>3. ServerInv'
  <2>1. NULL \notin Range(queue)
    BY SocketAssumption DEF IInv, TypeOK, Range
  <2> QED BY <1>1, <2>1 DEF IInv, ServerInv
<1>4. ASSUME NEW c \in Clients PROVE ProtocolInv(c)' /\ OutcomeInv(c)'
  <2>1. ProtocolInv(c) /\ OutcomeInv(c) /\ c # NULL
    BY SocketAssumption DEF IInv
  <2>2. /\ Waiting(c)' <=> Waiting(c)
        /\ ~Answering(c)' /\ ~Answering(c) /\ ~HalfAnswered(c)' /\ ~HalfAnswered(c)
        /\ ~NothingLeftToSend(c)' /\ ~NothingLeftToSend(c)
        /\ Served(c)' <=> Served(c)
    BY <1>1, <2>1 DEF Waiting, Answering, HalfAnswered, Served, NothingLeftToSend
  <2> QED BY <1>1, <2>1, <2>2 DEF ProtocolInv, OutcomeInv, Proper, Answers, Alive
<1>5. PatientClientsAreSafe'
  BY <1>1, PatienceKept DEF Close, IInv, Alive
<1> QED BY <1>2, <1>3, <1>4, <1>5 DEF IInv

-----------------------------------------------------------------------------
(* The clients' steps: only client x moves.                                 *)

\* A step of x that leaves the server's state and the queue alone keeps
\* everything but what is said of x.
LEMMA OthersKept ==
  ASSUME IInv, NEW x \in Clients, NEW to \in ClientPhases,
         UNCHANGED <<status, pc, queue, current, open, response, executed, answered, message, workspaces>>,
         client' = [client EXCEPT ![x] = to],
         client[x] \notin {"killed", "done"},
         TypeOK', ProtocolInv(x)', OutcomeInv(x)',
         \A c \in Clients \ {x} : /\ c \in request' <=> c \in request
                                  /\ reply'[c] = reply[c] /\ got'[c] = got[c]
  PROVE  IInv'
<1>1. ServerInv'
  BY ServerKept DEF IInv
<1>2. ASSUME NEW c \in Clients \ {x} PROVE ProtocolInv(c)' /\ OutcomeInv(c)'
  <2>1. /\ client'[c] = client[c] /\ (Alive' <=> Alive) /\ ProtocolInv(c) /\ OutcomeInv(c)
        /\ c \in request' <=> c \in request
        /\ reply'[c] = reply[c] /\ got'[c] = got[c]
    BY DEF IInv, TypeOK, Alive
  <2>2. ProtocolInv(c)'
    BY <2>1 DEF ProtocolInv, Proper, Waiting, Answering, HalfAnswered, Served, NothingLeftToSend, Answers
  <2>3. OutcomeInv(c)'
    BY <2>1 DEF OutcomeInv, Served, NothingLeftToSend, HalfAnswered
  <2> QED BY <2>2, <2>3
<1>3. PatientClientsAreSafe'
  <2>1. \A c \in Clients : client[c] \in {"killed", "done"} => client'[c] = client[c]
    BY DEF IInv, TypeOK
  <2> QED BY <2>1, PatienceKept DEF IInv
<1> QED BY <1>1, <1>2, <1>3 DEF IInv

LEMMA ConnectKeeps ==
  ASSUME IInv, NEW x \in Clients, Connect(x)
  PROVE  IInv'
<1>1. /\ client[x] = "new" /\ queue' = Append(queue, x) /\ pc \notin {"start", "bound"}
      /\ client' = [client EXCEPT ![x] = "connected"]
      /\ UNCHANGED <<status, pc, current, open, response, message, workspaces, request, reply, got,
                     executed, answered, inherited>>
  BY DEF Connect, Listening
<1>2. /\ x \notin Range(queue) /\ x # current /\ x \notin executed
      /\ x \notin request /\ got[x] = NULL
  BY <1>1 DEF IInv, ProtocolInv, OutcomeInv
<1>3. /\ queue' \in Seq(Clients) /\ Range(queue') = Range(queue) \cup {x} /\ IsInjective(queue')
  BY <1>1, <1>2, QueueGrows DEF IInv, TypeOK, ServerInv
<1>4. TypeOK'
  BY <1>1, <1>3 DEF IInv, TypeOK, Answers, ClientPhases
<1>5. ServerInv'
  BY <1>1, <1>2, <1>3 DEF IInv, ServerInv, Proper, Answers
<1>6. ASSUME NEW c \in Clients PROVE ProtocolInv(c)' /\ OutcomeInv(c)'
  <2>1. ProtocolInv(c) /\ OutcomeInv(c)
    BY DEF IInv
  <2>2. CASE c # x
    <3>1. /\ Waiting(c)' <=> Waiting(c)
          /\ Answering(c)' <=> Answering(c)
          /\ HalfAnswered(c)' <=> HalfAnswered(c)
          /\ NothingLeftToSend(c)' <=> NothingLeftToSend(c)
          /\ HalfAnswered(c) => response' = response
          /\ Served(c)' <=> Served(c)
          /\ client'[c] = client[c]
          /\ c \in Range(queue') <=> c \in Range(queue)
      BY <1>1, <1>3, <2>2 DEF Waiting, Answering, HalfAnswered, Served, NothingLeftToSend,
             IInv, TypeOK
    <3> QED BY <1>1, <2>1, <2>2, <3>1 DEF ProtocolInv, OutcomeInv, Proper, Answers, Alive
  <2>3. CASE c = x
    <3>1. Waiting(c)' /\ client'[c] = "connected"
      BY <1>1, <1>3, <2>3 DEF Waiting, IInv, TypeOK
    <3>2. reply[c] = <<>>
      BY <1>1, <2>1, <2>3 DEF ProtocolInv
    <3> QED BY <1>1, <1>2, <2>3, <3>1, <3>2 DEF ProtocolInv, OutcomeInv
  <2> QED BY <2>2, <2>3
<1>7. PatientClientsAreSafe'
  <2>1. \A c \in Clients : client[c] \in {"killed", "done"} => client'[c] = client[c]
    BY <1>1 DEF IInv, TypeOK
  <2> QED BY <1>1, <2>1, PatienceKept DEF IInv
<1> QED BY <1>4, <1>5, <1>6, <1>7 DEF IInv

LEMMA ConnectFailsKeeps ==
  ASSUME IInv, NEW x \in Clients, ConnectFails(x)
  PROVE  IInv'
<1>1. /\ client[x] = "new" /\ client' = [client EXCEPT ![x] = "failed"]
      /\ UNCHANGED <<status, pc, queue, current, open, response, executed, answered, inherited,
                     message, workspaces, request, reply, got>>
  BY DEF ConnectFails, serverVars
<1>2. client'[x] = "failed" /\ ProtocolInv(x) /\ OutcomeInv(x)
  BY <1>1 DEF IInv, TypeOK
<1>3. TypeOK'
  BY <1>1 DEF IInv, TypeOK, Answers, ClientPhases
<1>4. ProtocolInv(x)'
  BY <1>1, <1>2 DEF ProtocolInv, Waiting
<1>5. OutcomeInv(x)'
  BY <1>1, <1>2 DEF ProtocolInv, OutcomeInv
<1> QED BY <1>1, <1>3, <1>4, <1>5, OthersKept DEF ClientPhases

LEMMA SendCommandKeeps ==
  ASSUME IInv, NEW x \in Clients, SendCommand(x)
  PROVE  IInv'
<1>1. /\ client[x] = "connected" /\ ProtocolInv(x) /\ OutcomeInv(x)
      /\ UNCHANGED <<status, pc, queue, current, open, response, executed, answered, inherited,
                     message, workspaces, reply, got>>
  BY DEF SendCommand, serverVars, IInv
<1>2. /\ Waiting(x) /\ x \notin request /\ got[x] = NULL /\ x \notin executed /\ reply[x] = <<>>
  <2>1. Waiting(x) /\ x \notin request /\ got[x] = NULL
    BY <1>1 DEF ProtocolInv, OutcomeInv
  <2>2. x \notin executed
    BY <2>1 DEF Waiting, IInv, ServerInv
  <2>3. reply[x] = <<>>
    BY <1>1 DEF ProtocolInv
  <2> QED BY <2>1, <2>2, <2>3
<1>3. CASE Hangup(x) /\ client' = [client EXCEPT ![x] = "failed"] /\ UNCHANGED request
  <2>1. client'[x] = "failed" /\ ~Alive /\ ~Alive'
    BY <1>1, <1>2, <1>3, NotHungUp DEF IInv, TypeOK, Alive
  <2>2. TypeOK'
    BY <1>1, <1>3 DEF IInv, TypeOK, Answers, ClientPhases
  <2>3. ProtocolInv(x)' /\ OutcomeInv(x)'
    BY <1>1, <1>2, <1>3, <2>1 DEF ProtocolInv, OutcomeInv
  <2> QED BY <1>1, <1>3, <2>2, <2>3, OthersKept DEF ClientPhases
<1>4. CASE /\ client' = [client EXCEPT ![x] = "sent"]
           /\ request' = IF message[x] = NULL THEN request ELSE request \cup {x}
  <2>1. client'[x] = "sent"
    BY <1>4 DEF IInv, TypeOK
  <2>2. TypeOK'
    BY <1>1, <1>4 DEF IInv, TypeOK, Answers, ClientPhases
  <2>3. ProtocolInv(x)'
    BY <1>1, <1>2, <1>4, <2>1 DEF ProtocolInv, Waiting
  <2>4. OutcomeInv(x)'
    BY <1>1, <1>2, <2>1 DEF OutcomeInv
  <2> QED BY <1>1, <1>4, <2>2, <2>3, <2>4, OthersKept DEF ClientPhases
<1> QED BY <1>3, <1>4 DEF SendCommand

LEMMA RecvSizeKeeps ==
  ASSUME IInv, NEW x \in Clients, RecvSize(x)
  PROVE  IInv'
<1>1. /\ client[x] = "sent" /\ ProtocolInv(x) /\ OutcomeInv(x) /\ got[x] = NULL
      /\ UNCHANGED <<status, pc, queue, current, open, response, executed, answered, inherited,
                     message, workspaces, request, got>>
  BY DEF RecvSize, serverVars, IInv, OutcomeInv
<1>2. CASE reply[x] # <<>> /\ reply' = [reply EXCEPT ![x] = Tail(@)]
                           /\ client' = [client EXCEPT ![x] = AfterSize(Head(reply[x]))]
  <2>1. client'[x] = AfterSize(Head(reply[x])) /\ reply'[x] = Tail(reply[x])
    BY <1>2 DEF IInv, TypeOK
  <2>2. \/ HalfAnswered(x) /\ reply[x] = <<Size(response)>>
        \/ Served(x) /\ \E b \in Answers : Proper(b, x) /\ reply[x] = Whole(b)
    BY <1>1, <1>2 DEF ProtocolInv
  <2>3. x \in executed /\ x \notin request
    BY <1>1, <2>2 DEF HalfAnswered, Served, Waiting, ProtocolInv, IInv, ServerInv
  <2>4. AfterSize(Head(reply[x])) \in ClientPhases
    BY DEF AfterSize, ClientPhases
  <2>5. ASSUME HalfAnswered(x), reply[x] = <<Size(response)>> PROVE IInv'
    <3>1. reply'[x] = <<>> /\ client'[x] = IF response = "empty" THEN "done" ELSE "sized"
      BY <2>1, <2>5 DEF AfterSize, Size
    <3>2. TypeOK'
      BY <1>1, <1>2, <2>1, <2>4, <3>1 DEF IInv, TypeOK, Answers
    <3>3. ProtocolInv(x)'
      BY <1>1, <2>1, <2>3, <2>5, <3>1 DEF ProtocolInv, HalfAnswered
    <3>4. NothingLeftToSend(x)' <=> response = "empty"
      BY <1>1, <2>5 DEF NothingLeftToSend, HalfAnswered
    <3>5. x \notin Range(queue) /\ (response = "empty" => x \notin answered)
      BY <2>5, SocketAssumption DEF HalfAnswered, IInv, ServerInv, Proper
    <3>6. OutcomeInv(x)'
      BY <1>1, <2>1, <2>5, <3>1, <3>4, <3>5 DEF OutcomeInv
    <3> QED BY <1>1, <1>2, <2>4, <3>2, <3>3, <3>6, OthersKept DEF IInv, TypeOK
  <2>6. ASSUME Served(x), Proper("empty", x), reply[x] = <<"empty">> PROVE IInv'
    <3>1. reply'[x] = <<>> /\ client'[x] = "done"
      BY <2>1, <2>6 DEF AfterSize
    <3>2. TypeOK'
      BY <1>1, <1>2, <2>1, <2>4, <3>1 DEF IInv, TypeOK, Answers
    <3>3. ProtocolInv(x)'
      BY <1>1, <2>1, <2>3, <2>6, <3>1 DEF ProtocolInv
    <3>4. x \notin answered
      BY <2>6, SocketAssumption DEF Proper
    <3>5. x \notin Range(queue) /\ (x = current => pc = "close")
      BY <1>1, <2>6, SocketAssumption DEF Served, IInv, ServerInv, TypeOK
    <3>6. OutcomeInv(x)'
      BY <1>1, <2>1, <2>6, <3>1, <3>4, <3>5 DEF OutcomeInv, Served
    <3> QED BY <1>1, <1>2, <2>4, <3>2, <3>3, <3>6, OthersKept DEF IInv, TypeOK
  <2>7. ASSUME NEW b \in Answers, b # "empty", Served(x), Proper(b, x), reply[x] = <<"size", b>>
        PROVE  IInv'
    <3>1. reply'[x] = <<b>> /\ client'[x] = "sized"
      BY <2>1, <2>7 DEF AfterSize
    <3>2. reply' \in [Clients -> Seq(Answers \cup {"size"})] /\ \A c \in Clients : Len(reply'[c]) <= 2
      <4>1. <<b>> \in Seq(Answers \cup {"size"}) /\ Len(<<b>>) = 1
        OBVIOUS
      <4> QED BY <1>2, <3>1, <4>1 DEF IInv, TypeOK
    <3>3. TypeOK'
      BY <1>1, <1>2, <2>4, <3>2 DEF IInv, TypeOK, Answers
    <3>4. \E d \in Answers : (d \in Answers /\ (x \in answered => d = x)) /\ reply'[x] = <<d>>
      BY <2>7, <3>1 DEF Proper
    <3>5. ProtocolInv(x)'
      BY <1>1, <2>3, <2>7, <3>1, <3>4 DEF ProtocolInv, Served, Proper, Answers
    <3>6. OutcomeInv(x)'
      BY <1>1, <3>1 DEF OutcomeInv
    <3> QED BY <1>1, <1>2, <2>4, <3>3, <3>5, <3>6, OthersKept DEF IInv, TypeOK
  <2>8. ASSUME NEW b \in Answers, Served(x), Proper(b, x), reply[x] = Whole(b) PROVE IInv'
    <3>1. CASE b = "empty"
      BY <2>6, <2>8, <3>1 DEF Whole
    <3>2. CASE b # "empty"
      BY <2>7, <2>8, <3>2 DEF Whole
    <3> QED BY <3>1, <3>2
  <2> QED BY <2>2, <2>5, <2>8
<1>3. CASE /\ reply[x] = <<>> /\ Hangup(x) /\ UNCHANGED reply
           /\ client' = [client EXCEPT ![x] = "failed"]
  <2>1. Waiting(x) \/ Answering(x)
    <3>1. <<Size(response)>> # <<>>
      OBVIOUS
    <3>2. \A b \in Answers : Whole(b) # <<>>
      BY DEF Whole
    <3> QED BY <1>1, <1>3, <3>1, <3>2 DEF ProtocolInv
  <2>2. client'[x] = "failed" /\ ~Alive /\ ~Alive'
    BY <1>1, <1>3, <2>1, NotHungUp DEF IInv, TypeOK, Alive, Answering
  <2>3. TypeOK'
    BY <1>1, <1>3 DEF IInv, TypeOK, Answers, ClientPhases
  <2>4. ProtocolInv(x)' /\ OutcomeInv(x)'
    BY <1>1, <1>3, <2>2 DEF ProtocolInv, OutcomeInv, Waiting
  <2> QED BY <1>1, <1>3, <2>3, <2>4, OthersKept DEF ClientPhases
<1> QED BY <1>2, <1>3 DEF RecvSize

LEMMA RecvBodyKeeps ==
  ASSUME IInv, NEW x \in Clients, RecvBody(x)
  PROVE  IInv'
<1>1. /\ client[x] = "sized" /\ ProtocolInv(x) /\ OutcomeInv(x) /\ got[x] = NULL /\ x \in executed
      /\ client' = [client EXCEPT ![x] = "done"] /\ client'[x] = "done"
      /\ UNCHANGED <<status, pc, queue, current, open, response, executed, answered, inherited,
                     message, workspaces, request>>
  BY DEF RecvBody, serverVars, IInv, TypeOK, ProtocolInv, OutcomeInv
<1>2. CASE reply[x] # <<>> /\ got' = [got EXCEPT ![x] = Head(reply[x])]
                           /\ reply' = [reply EXCEPT ![x] = Tail(@)]
  <2>1. PICK b \in Answers : Proper(b, x) /\ reply[x] = <<b>>
    BY <1>1, <1>2 DEF ProtocolInv
  <2>2. Served(x)
    BY <1>1, <1>2 DEF ProtocolInv
  <2>3. got'[x] = b /\ reply'[x] = <<>>
    BY <1>2, <2>1 DEF IInv, TypeOK
  <2>4. TypeOK'
    <3>1. got' \in [Clients -> Answers]
      BY <1>2, <2>1 DEF IInv, TypeOK
    <3>2. reply' \in [Clients -> Seq(Answers \cup {"size"})] /\ \A c \in Clients : Len(reply'[c]) <= 2
      BY <1>2, <2>3 DEF IInv, TypeOK
    <3> QED BY <1>1, <3>1, <3>2 DEF IInv, TypeOK, Answers, ClientPhases
  <2>5. ProtocolInv(x)'
    BY <1>1 DEF ProtocolInv, Waiting
  <2>6. OutcomeInv(x)'
    <3>1. x \notin Range(queue) /\ (x = current => pc = "close")
      BY <1>1, <2>2, SocketAssumption DEF Served, IInv, ServerInv, TypeOK
    <3> QED BY <1>1, <2>1, <2>2, <2>3, <3>1 DEF OutcomeInv, Proper, Served
  <2> QED BY <1>1, <1>2, <2>4, <2>5, <2>6, OthersKept DEF ClientPhases, IInv, TypeOK
<1>3. CASE reply[x] = <<>> /\ Hangup(x) /\ UNCHANGED <<got, reply>>
  <2>1. HalfAnswered(x)
    BY <1>1, <1>3 DEF ProtocolInv
  <2>2. ~Alive /\ ~Alive'
    BY <1>1, <1>3, <2>1, NotHungUp DEF IInv, Alive, HalfAnswered
  <2>3. TypeOK'
    BY <1>1, <1>3 DEF IInv, TypeOK, Answers, ClientPhases
  <2>4. ProtocolInv(x)' /\ OutcomeInv(x)'
    BY <1>1, <1>3, <2>2 DEF ProtocolInv, OutcomeInv, Waiting
  <2> QED BY <1>1, <1>3, <2>3, <2>4, OthersKept DEF ClientPhases
<1> QED BY <1>2, <1>3 DEF RecvBody

LEMMA KillKeeps ==
  ASSUME IInv, NEW x \in Clients, Kill(x)
  PROVE  IInv'
<1>1. /\ ~Over(x) /\ client' = [client EXCEPT ![x] = "killed"] /\ client'[x] = "killed"
      /\ ProtocolInv(x) /\ OutcomeInv(x)
      /\ UNCHANGED <<status, pc, queue, current, open, response, executed, answered, inherited,
                     message, workspaces, request, reply, got>>
  BY DEF Kill, serverVars, IInv, TypeOK
<1>2. TypeOK'
  BY <1>1 DEF IInv, TypeOK, Answers, ClientPhases
<1>3. ProtocolInv(x)' /\ OutcomeInv(x)'
  BY <1>1 DEF ProtocolInv, OutcomeInv, Waiting, Over
<1> QED BY <1>1, <1>2, <1>3, OthersKept DEF ClientPhases, Over

-----------------------------------------------------------------------------

\* Every step keeps the invariant.
THEOREM InvariantStep == IInv /\ [Next]_vars => IInv'
<1> SUFFICES ASSUME IInv, [Next]_vars PROVE IInv'
  OBVIOUS
<1>1. CASE Bind \/ Listen
  BY <1>1, BindKeeps
<1>2. CASE Accept
  BY <1>2, AcceptKeeps
<1>3. CASE Recv
  BY <1>3, RecvKeeps
<1>4. ASSUME NEW windows \in WindowCounts, Execute(windows) PROVE IInv'
  BY <1>4, ExecuteKeeps
<1>5. CASE SendSize \/ SendBody
  BY <1>5, SendKeeps
<1>6. CASE Close
  BY <1>6, CloseKeeps
<1>7. CASE BindFails \/ MainReturns \/ Spawn \/ ChildrenEnd
  BY <1>7, ProcessKeeps
<1>8. ASSUME NEW x \in Clients, ClientStep(x) \/ Kill(x) PROVE IInv'
  BY <1>8, ConnectKeeps, ConnectFailsKeeps, SendCommandKeeps, RecvSizeKeeps, RecvBodyKeeps,
     KillKeeps DEF ClientStep
<1>9. CASE UNCHANGED vars
  <2>1. UNCHANGED <<status, pc, queue, current, open, response, message, workspaces, client, request, reply,
                    got, executed, answered, inherited>>
    BY <1>9 DEF vars
  <2>2. TypeOK'
    BY <2>1 DEF IInv, TypeOK, Answers
  <2>3. ServerInv'
    BY <2>1, ServerKept DEF IInv
  <2>4. ASSUME NEW c \in Clients PROVE ProtocolInv(c)' /\ OutcomeInv(c)'
    BY <2>1, ProtocolKept, OutcomeKept DEF IInv, Alive
  <2>5. PatientClientsAreSafe'
    BY <2>1, PatienceKept DEF IInv
  <2> QED BY <2>2, <2>3, <2>4, <2>5 DEF IInv
<1> QED BY <1>1, <1>2, <1>3, <1>4, <1>5, <1>6, <1>7, <1>8, <1>9 DEF Next, Server

\* Hence it always holds.
THEOREM Invariant == Spec => []IInv
  BY InitHolds, InvariantStep, PTL DEF Spec

\* The variables of Socket keep their types: in particular no client is ever
\* sent more than a size and an answer.
THEOREM TypeCorrect == Spec => []TypeOK
<1>1. IInv => TypeOK
  BY DEF IInv
<1> QED BY <1>1, Invariant, PTL

\* Connections do not leak, for any number of clients dying at any moment.
THEOREM ConnectionsClosed == Spec => []OneConnection
<1>1. IInv => OneConnection
  BY DEF IInv, ServerInv, OneConnection
<1> QED BY <1>1, Invariant, PTL

\* A client that succeeds had its command run.
THEOREM SuccessIsExecuted == Spec => []SuccessImpliesExecuted
<1>1. IInv => SuccessImpliesExecuted
  BY DEF IInv, ProtocolInv, SuccessImpliesExecuted
<1> QED BY <1>1, Invariant, PTL

\* No client waits for bytes that will not come while the process lives.
THEOREM NobodyIsAbandoned == Spec => []NobodyAbandoned
<1>1. IInv => NobodyAbandoned
  <2> SUFFICES ASSUME IInv, NEW c \in Clients, Alive, Expected(c) > 0,
                      c \notin Range(queue) \cup {current}
               PROVE  \/ Len(reply[c]) = Expected(c)
                      \/ client[c] = "sent" /\ reply[c] = <<"empty">>
    BY DEF NobodyAbandoned
  <2>1. ~Waiting(c) /\ ~Answering(c) /\ ~HalfAnswered(c)
    BY DEF Waiting, Answering, HalfAnswered
  <2>2. CASE client[c] = "sent"
    <3>1. PICK b \in Answers : reply[c] = Whole(b)
      BY <2>1, <2>2 DEF IInv, ProtocolInv
    <3> QED BY <2>2, <3>1 DEF Expected, Whole
  <2>3. CASE client[c] = "sized"
    <3>1. PICK b \in Answers : reply[c] = <<b>>
      BY <2>1, <2>3 DEF IInv, ProtocolInv
    <3> QED BY <2>3, <3>1 DEF Expected
  <2>4. client[c] \in {"sent", "sized"}
    BY DEF Expected
  <2> QED BY <2>2, <2>3, <2>4
<1> QED BY <1>1, Invariant, PTL

\* Answers do not cross.
THEOREM AnswersAreOwn == Spec => []AnswerIsOwn
<1>1. IInv => AnswerIsOwn
  BY DEF IInv, TypeOK, OutcomeInv, AnswerIsOwn
<1> QED BY <1>1, Invariant, PTL

\* The process is killed only by the client it is serving: one that was killed
\* early, one whose message is fatal to this session, or one that was told its
\* answer is empty.
THEOREM PatientClientsSafe == Spec => []PatientClientsAreSafe
<1>1. IInv => PatientClientsAreSafe
  BY DEF IInv
<1> QED BY <1>1, Invariant, PTL

-----------------------------------------------------------------------------
(* Socket implements Requests.                                              *)

\* The line of requests, when the server holds one and when it does not.
LEMMA LineInHand ==
  ASSUME NEW S, NEW q \in Seq(S), NEW e \in S
  PROVE  /\ <<>> \o q = q
         /\ Head(<<e>> \o q) = e /\ Tail(<<e>> \o q) = q /\ <<e>> \o q # <<>>
         /\ \A d \in S : <<e>> \o Append(q, d) = Append(<<e>> \o q, d)
  OBVIOUS

LEMMA QueueAsLine ==
  ASSUME NEW S, NEW q \in Seq(S), q # <<>>
  PROVE  <<Head(q)>> \o Tail(q) = q
  OBVIOUS

LEMMA ImplementsInit == Init => Promise!RequestInit
  BY SMT DEF Init, Promise!RequestInit, InHand, Outcome, Alive

\* Every step is a step of Requests or changes nothing it speaks of.
LEMMA ImplementsStep == IInv /\ [Next]_vars => [Promise!RequestNext]_(Promise!requestVars)
<1> SUFFICES ASSUME IInv, [Next]_vars
             PROVE  Promise!RequestNext \/ UNCHANGED Promise!requestVars
  OBVIOUS
<1> DEFINE line == InHand \o queue
           stage == [c \in Clients |-> Outcome(c)]
<1>0. queue \in Seq(Clients) /\ client \in [Clients -> ClientPhases]
  BY DEF IInv, TypeOK
<1>s. ASSUME UNCHANGED client PROVE stage' = stage
  BY <1>s DEF Outcome
<1>1. CASE Bind \/ Listen
  <2>1. UNCHANGED <<client, queue, executed, status>> /\ InHand = <<>> /\ InHand' = <<>>
    BY <1>1 DEF Bind, Listen, InHand, clientVars
  <2> QED BY <1>s, <2>1 DEF Promise!requestVars, Alive
<1>2. CASE Accept
  <2>1. /\ UNCHANGED <<client, executed, status>> /\ queue # <<>> /\ queue' = Tail(queue)
        /\ InHand = <<>> /\ InHand' = <<Head(queue)>>
    BY <1>2 DEF Accept, InHand
  <2>2. line' = line
    BY <1>0, <2>1, LineInHand, QueueAsLine, QueueShrinks
  <2> QED BY <1>s, <2>1, <2>2 DEF Promise!requestVars, Alive
<1>3. CASE Recv
  <2>1. /\ UNCHANGED <<client, executed, status, queue>> /\ Alive /\ current \in Clients
        /\ InHand = <<current>>
        /\ InHand' = <<current>> \/ InHand' = <<>>
    BY <1>3 DEF Recv, InHand, IInv, TypeOK, ServerInv
  <2>2. CASE InHand' = <<current>>
    BY <1>s, <2>1, <2>2 DEF Promise!requestVars, Alive
  <2>3. CASE InHand' = <<>>
    <3>1. line # <<>> /\ line' = Tail(line)
      BY <1>0, <2>1, <2>3, LineInHand
    <3>2. Promise!PassOver
      BY <1>s, <2>1, <3>1 DEF Promise!PassOver, Alive
    <3> QED BY <3>2 DEF Promise!RequestNext
  <2> QED BY <2>1, <2>2, <2>3
<1>4. ASSUME NEW windows \in WindowCounts, Execute(windows)
      PROVE  Promise!RequestNext \/ UNCHANGED Promise!requestVars
  <2>1. /\ UNCHANGED <<client, queue>> /\ Alive /\ pc = "execute" /\ current \in Clients
        /\ current \notin executed /\ InHand = <<current>>
    BY <1>4 DEF Execute, InHand, IInv, TypeOK, ServerInv
  <2>2. CASE status' = "killed" /\ UNCHANGED <<pc, executed>>
    <3>1. line' = line /\ ~Alive'
      BY <2>1, <2>2, <1>4 DEF InHand, Alive, Execute
    <3>2. Promise!GoDown
      BY <1>s, <2>1, <2>2, <3>1 DEF Promise!GoDown
    <3> QED BY <3>2 DEF Promise!RequestNext
  <2>3. CASE status' \in {"terminating", status} /\ pc' = "size" /\ executed' = executed \cup {current}
    <3>1. InHand' = <<>> /\ Alive'
      BY <2>1, <2>3 DEF InHand, Alive
    <3>2. line # <<>> /\ Head(line) = current /\ line' = Tail(line)
      BY <1>0, <2>1, <3>1, LineInHand
    <3>3. Promise!CarryOut
      BY <1>s, <2>1, <2>3, <3>1, <3>2 DEF Promise!CarryOut
    <3> QED BY <3>3 DEF Promise!RequestNext
  <2> QED BY <1>4, <2>2, <2>3 DEF Execute, Run, Crash
<1>5. CASE SendSize \/ SendBody
  <2>1. /\ UNCHANGED <<client, queue, executed>> /\ Alive
        /\ InHand = <<>> /\ InHand' = <<>>
        /\ status' = status \/ status' = "killed"
    BY <1>5 DEF SendSize, SendBody, Send, InHand
  <2>2. CASE status' = status
    BY <1>s, <2>1, <2>2 DEF Promise!requestVars, Alive
  <2>3. CASE status' = "killed"
    <3>1. Promise!GoDown
      BY <1>s, <2>1, <2>3 DEF Promise!GoDown, Alive
    <3> QED BY <3>1 DEF Promise!RequestNext
  <2> QED BY <2>1, <2>2, <2>3
<1>6. CASE Close
  <2>1. UNCHANGED <<client, queue, executed, status>> /\ InHand = <<>> /\ InHand' = <<>>
    BY <1>6 DEF Close, InHand
  <2> QED BY <1>s, <2>1 DEF Promise!requestVars, Alive
<1>7. CASE BindFails \/ MainReturns
  <2>1. UNCHANGED <<client, queue, executed, pc, current>> /\ status' = "exited"
    BY <1>7 DEF BindFails, MainReturns, clientVars
  <2>2. Promise!GoDown
    BY <1>s, <2>1 DEF Promise!GoDown, Alive, InHand
  <2> QED BY <2>2 DEF Promise!RequestNext
<1>8. CASE Spawn \/ ChildrenEnd \/ UNCHANGED vars
  <2>1. UNCHANGED <<client, queue, executed, status, pc, current>>
    BY <1>8 DEF Spawn, ChildrenEnd, vars, clientVars
  <2> QED BY <1>s, <2>1 DEF Promise!requestVars, Alive, InHand
<1>9. ASSUME NEW x \in Clients, Connect(x)
      PROVE  Promise!RequestNext
  <2>1. /\ client[x] = "new" /\ client' = [client EXCEPT ![x] = "connected"]
        /\ queue' = Append(queue, x) /\ UNCHANGED <<executed, status, pc, current>>
    BY <1>9 DEF Connect
  <2>2. stage[x] = "new" /\ stage' = [stage EXCEPT ![x] = "made"]
    BY <1>0, <2>1 DEF Outcome
  <2>3. InHand = <<>> \/ (current \in Clients /\ InHand = <<current>>)
    BY DEF InHand, IInv, TypeOK, ServerInv
  <2>4. line' = Append(line, x)
    <3>1. InHand' = InHand
      BY <2>1 DEF InHand
    <3>2. CASE InHand = <<>>
      <4>1. Append(queue, x) \in Seq(Clients)
        BY <1>0, QueueGrows
      <4> QED BY <1>0, <2>1, <3>1, <3>2, <4>1, LineInHand
    <3>3. CASE current \in Clients /\ InHand = <<current>>
      BY <1>0, <2>1, <3>1, <3>3, LineInHand
    <3> QED BY <2>3, <3>2, <3>3
  <2>5. Promise!Make(x)
    BY <2>1, <2>2, <2>4 DEF Promise!Make, Alive
  <2> QED BY <2>5 DEF Promise!RequestNext
<1>10. ASSUME NEW x \in Clients, NEW from \in ClientPhases, NEW to \in ClientPhases,
              client[x] = from, client' = [client EXCEPT ![x] = to],
              \/ from \in {"new", "connected", "sent", "sized"} /\ to \in {"failed", "killed"}
              \/ from \in {"connected", "sent"} /\ to \in {"sent", "sized"}
              \/ from \in {"sent", "sized"} /\ to = "done" /\ x \in executed,
              UNCHANGED <<queue, executed, status, pc, current>>
       PROVE  Promise!RequestNext \/ UNCHANGED Promise!requestVars
  <2>1. line' = line /\ (Alive' <=> Alive)
    BY <1>10 DEF InHand, Alive
  <2>2. CASE from \in {"new", "connected", "sent", "sized"} /\ to \in {"failed", "killed"}
    <3>1. stage[x] \in {"new", "made"} /\ stage' = [stage EXCEPT ![x] = "failure"]
      BY <1>0, <1>10, <2>2 DEF Outcome
    <3>2. Promise!Fail(x)
      BY <1>10, <2>1, <3>1 DEF Promise!Fail
    <3> QED BY <3>2 DEF Promise!RequestNext
  <2>3. CASE from \in {"connected", "sent"} /\ to \in {"sent", "sized"}
    <3>1. stage' = stage
      BY <1>0, <1>10, <2>3 DEF Outcome
    <3> QED BY <1>10, <2>1, <3>1 DEF Promise!requestVars
  <2>4. CASE from \in {"sent", "sized"} /\ to = "done" /\ x \in executed
    <3>1. stage[x] = "made" /\ stage' = [stage EXCEPT ![x] = "success"]
      BY <1>0, <1>10, <2>4 DEF Outcome
    <3>2. Promise!Succeed(x)
      BY <1>10, <2>1, <2>4, <3>1 DEF Promise!Succeed
    <3> QED BY <3>2 DEF Promise!RequestNext
  <2> QED BY <1>10, <2>2, <2>3, <2>4
<1>11. ASSUME NEW x \in Clients, ConnectFails(x) \/ SendCommand(x) \/ RecvSize(x) \/ RecvBody(x) \/ Kill(x)
       PROVE  Promise!RequestNext \/ UNCHANGED Promise!requestVars
  <2>1. UNCHANGED <<queue, executed, status, pc, current>>
    BY <1>11 DEF ConnectFails, SendCommand, RecvSize, RecvBody, Kill, serverVars
  <2>2. CASE ConnectFails(x)
    BY <1>10, <2>1, <2>2 DEF ConnectFails, ClientPhases
  <2>3. CASE SendCommand(x)
    BY <1>10, <2>1, <2>3 DEF SendCommand, ClientPhases
  <2>4. CASE RecvSize(x)
    <3>1. CASE client' = [client EXCEPT ![x] = "failed"]
      BY <1>10, <2>1, <2>4, <3>1 DEF RecvSize, ClientPhases
    <3>2. CASE reply[x] # <<>> /\ client' = [client EXCEPT ![x] = AfterSize(Head(reply[x]))]
      <4>1. x \in executed
        <5>1. \/ HalfAnswered(x)
              \/ Served(x)
          BY <2>4, <3>2 DEF RecvSize, IInv, ProtocolInv
        <5> QED BY <5>1 DEF HalfAnswered, Served, IInv, ServerInv
      <4>2. client[x] = "sent" /\ AfterSize(Head(reply[x])) \in {"sized", "done"}
        BY <2>4 DEF RecvSize, AfterSize
      <4> QED BY <1>10, <2>1, <3>2, <4>1, <4>2 DEF ClientPhases
    <3> QED BY <2>4, <3>1, <3>2 DEF RecvSize
  <2>5. CASE RecvBody(x)
    BY <1>10, <2>1, <2>5 DEF RecvBody, ClientPhases, IInv, ProtocolInv
  <2>6. CASE Kill(x)
    <3>1. client[x] \in {"new", "connected", "sent", "sized"}
      BY <1>0, <2>6 DEF Kill, Over, ClientPhases
    <3> QED BY <1>10, <2>1, <2>6, <3>1 DEF Kill, ClientPhases
  <2> QED BY <1>11, <2>2, <2>3, <2>4, <2>5, <2>6
<1> QED BY <1>1, <1>2, <1>3, <1>4, <1>5, <1>6, <1>7, <1>8, <1>9, <1>11 DEF Next, Server, ClientStep

\* Requests are served in the order they came, at most once, and succeed only if
\* they were: for any number of clients, whoever dies and whenever.
THEOREM SocketImplementsRequests == Spec => ImplementsRequests
<1>1. Init => Promise!RequestInit
  BY ImplementsInit
<1>2. IInv /\ [Next]_vars => [Promise!RequestNext]_(Promise!requestVars)
  BY ImplementsStep
<1> QED BY <1>1, <1>2, Invariant, PTL DEF Spec, ImplementsRequests, Promise!RequestSpec

=============================================================================
