------------------------------ MODULE Requests ------------------------------
(***************************************************************************)
(* What the command socket promises, with no connection, buffer or process *)
(* in sight: requests are taken one at a time in the order they came, each *)
(* is carried out at most once or passed over, nothing is carried out once *)
(* the compositor is gone, and a request that succeeds was carried out.    *)
(* Socket implements it.                                                   *)
(***************************************************************************)
EXTENDS Sequences, Integers

CONSTANTS
  Requesters    \* who makes a request, one each

VARIABLES
  stage,         \* new, made, or how the request ended for its requester
  line,          \* the requests not taken up yet, oldest first
  carried_out,
  up             \* the compositor is there

requestVars == <<stage, line, carried_out, up>>

RequestInit ==
  /\ stage = [c \in Requesters |-> "new"]
  /\ line = <<>>
  /\ carried_out = {}
  /\ up = TRUE

Make(c) ==
  /\ stage[c] = "new"
  /\ stage' = [stage EXCEPT ![c] = "made"]
  /\ line' = Append(line, c)
  /\ UNCHANGED <<carried_out, up>>

\* The oldest request is carried out, for the first time.
CarryOut ==
  /\ up /\ line # <<>>
  /\ Head(line) \notin carried_out
  /\ carried_out' = carried_out \cup {Head(line)}
  /\ line' = Tail(line)
  /\ UNCHANGED <<stage, up>>

\* It is passed over.
PassOver ==
  /\ up /\ line # <<>>
  /\ line' = Tail(line)
  /\ UNCHANGED <<stage, carried_out, up>>

Succeed(c) ==
  /\ stage[c] = "made" /\ c \in carried_out
  /\ stage' = [stage EXCEPT ![c] = "success"]
  /\ UNCHANGED <<line, carried_out, up>>

Fail(c) ==
  /\ stage[c] \in {"new", "made"}
  /\ stage' = [stage EXCEPT ![c] = "failure"]
  /\ UNCHANGED <<line, carried_out, up>>

GoDown ==
  /\ up' = FALSE
  /\ UNCHANGED <<stage, line, carried_out>>

RequestNext ==
  \/ CarryOut \/ PassOver \/ GoDown
  \/ \E c \in Requesters : Make(c) \/ Succeed(c) \/ Fail(c)

RequestSpec == RequestInit /\ [][RequestNext]_requestVars

=============================================================================
