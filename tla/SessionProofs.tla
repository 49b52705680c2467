--------------------------- MODULE SessionProofs ---------------------------
(***************************************************************************)
(* Theorems about Session, for any windows, popups and outputs.            *)
(***************************************************************************)
EXTENDS Session, Induction, TLAPS

\* Structs are those of the role objects, and whoever listens has one and hears
\* of nothing but its own signals.
Registered ==
  /\ \A s \in Surfaces : s \in structs <=> HasRole(s)
  /\ \A l \in listeners : l[2] \in structs /\ l[1] \in Signals(l[2])

\* HandlersHaveStructs needs to know that listeners have structs, and that
\* needs the life of the role objects.
Inv == TypeOK /\ Registered /\ HandlersHaveStructs

LEMMA InvariantInit == Init => Inv
BY SessionAssumption DEF Init, Inv, TypeOK, OutputTypeOK, Registered, HandlersHaveStructs,
   Stages, HasRole, Surfaces

-----------------------------------------------------------------------------
(* Steps of the outputs, which the surfaces do not take part in.            *)

\* Asking for frames keeps the outputs' types, on whatever outputs.
LEMMA DamageKept ==
  ASSUME OutputTypeOK, NEW os, Damage(os) \/ ScheduleFrame(os)
  PROVE  OutputTypeOK' /\ outputs' = outputs
BY DEF OutputTypeOK, Damage, ScheduleFrame

\* So does everything else that happens to an output.
LEMMA OutputsKept ==
  ASSUME OutputTypeOK, NEW o \in Outputs,
         NewOutput(o) \/ RequestState(o) \/ OutputDestroy(o)
           \/ (Draw(o) /\ o \in due /\ UNCHANGED <<outputs, lit>>)
  PROVE  OutputTypeOK'
BY DEF OutputTypeOK, NewOutput, RequestState, OutputDestroy, Draw

-----------------------------------------------------------------------------
(* Steps of the surfaces.                                                   *)

\* A new struct listens to its own signals.
LEMMA NewStructKept ==
  ASSUME Inv, stage = "running", NEW s \in Surfaces, NEW ts \in SUBSET Toplevels,
         phase[s] = "none", phase' = [phase EXCEPT ![s] = "role"],
         structs' = structs \cup {s},
         listeners' = listeners \cup Signals(s) \X {s},
         data' = data \cup ts,
         tree' \in [Surfaces -> Surfaces \cup {NULL}],
         parent' \in [Popups -> Surfaces \cup {NULL}],
         UNCHANGED <<stage, handshakeVars, screenVars, outputVars>>
  PROVE  Inv'
<1> USE DEF Inv, handshakeVars, screenVars, outputVars
<1>1. TypeOK'
  BY DEF TypeOK, OutputTypeOK, Signals, AllSignals
<1>2. Registered'
  BY DEF TypeOK, Registered, HasRole
<1>3. HandlersHaveStructs'
  BY DEF HandlersHaveStructs
<1> QED BY <1>1, <1>2, <1>3

\* A struct that is freed takes its listeners with it.
LEMMA StructGoneKept ==
  ASSUME Inv, NEW s \in Surfaces, HasRole(s), s \notin mapped,
         structs' = structs \ {s},
         listeners' = listeners \ (Signals(s) \X {s}),
         RoleGone(s)
  PROVE  Inv'
<1> USE DEF Inv, RoleGone, outputVars
<1>1. TypeOK'
  BY DEF TypeOK, OutputTypeOK
<1>2. Registered'
  <2>1. ASSUME NEW x \in Surfaces PROVE x \in structs' <=> HasRole(x)'
    BY DEF TypeOK, Registered, HasRole
  <2>2. ASSUME NEW l \in listeners' PROVE l[2] \in structs' /\ l[1] \in Signals(l[2])
    <3>1. l \in AllSignals \X Surfaces /\ l[2] \in structs /\ l[1] \in Signals(l[2])
      BY DEF TypeOK, Registered
    <3>2. l[2] # s
      BY <3>1
    <3> QED BY <3>1, <3>2
  <2> QED BY <2>1, <2>2 DEF Registered
<1>3. HandlersHaveStructs'
  BY DEF HandlersHaveStructs
<1> QED BY <1>1, <1>2, <1>3

\* A step that creates and destroys nothing.
LEMMA LifeKept ==
  ASSUME Inv, stage' = stage, UNCHANGED lifeVars
  PROVE  Registered' /\ HandlersHaveStructs'
BY DEF Inv, lifeVars, Registered, HandlersHaveStructs, HasRole

\* What clients do to surfaces that are there, and what they are answered.
LEMMA HandshakeKept ==
  ASSUME Inv, NEW s \in Surfaces,
         InitialCommit(s) \/ SendConfigure(s) \/ (s \in Toplevels /\ Request(s))
  PROVE  Inv'
<1> USE DEF outputVars, screenVars, lifeVars
<1>1. CASE InitialCommit(s)
  <2>1. TypeOK'
    BY <1>1 DEF Inv, InitialCommit, CommitHandler, TypeOK, OutputTypeOK, Registered
  <2> QED BY <1>1, <2>1, LifeKept DEF InitialCommit, Inv
<1>2. CASE SendConfigure(s)
  <2>1. TypeOK'
    BY <1>2 DEF Inv, SendConfigure, TypeOK, OutputTypeOK
  <2> QED BY <1>2, <2>1, LifeKept DEF SendConfigure, Inv
<1>3. CASE s \in Toplevels /\ Request(s)
  <2>1. TypeOK'
    BY <1>3 DEF Inv, Request, RequestHandler, TypeOK, OutputTypeOK
  <2> QED BY <1>3, <2>1, LifeKept DEF Request, Inv
<1> QED BY <1>1, <1>2, <1>3

\* Surfaces that come on screen, leave it or draw.
LEMMA ScreenKept ==
  ASSUME Inv, NEW s \in Surfaces, Map(s) \/ Unmap(s) \/ CommitFrame(s)
  PROVE  Inv'
<1> USE DEF handshakeVars, lifeVars
<1>0. OutputTypeOK' /\ outputs' = outputs
  BY DamageKept DEF Inv, TypeOK, Map, Unmap, CommitFrame
<1>1. CASE Map(s)
  <2>1. TypeOK'
    BY <1>0, <1>1 DEF Inv, Map, TypeOK
  <2> QED BY <1>0, <1>1, <2>1, LifeKept DEF Map, Inv
<1>2. CASE Unmap(s)
  <2>1. TypeOK'
    BY <1>0, <1>2 DEF Inv, Unmap, TypeOK
  <2> QED BY <1>0, <1>2, <2>1, LifeKept DEF Unmap, Inv
<1>3. CASE CommitFrame(s)
  <2>1. TypeOK'
    BY <1>0, <1>3 DEF Inv, CommitFrame, TypeOK
  <2> QED BY <1>0, <1>3, <2>1, LifeKept DEF CommitFrame, Inv
<1> QED BY <1>1, <1>2, <1>3

\* A commit after the role object is gone finds nobody listening.
LEMMA RolelessKept ==
  ASSUME Inv, NEW s \in Surfaces, CommitRoleless(s)
  PROVE  Inv'
<1> USE DEF handshakeVars, lifeVars, screenVars, outputVars
<1>1. <<"commit", s>> \notin listeners
  <2>1. SUFFICES ASSUME <<"commit", s>> \in listeners PROVE FALSE
    OBVIOUS
  <2>2. s \in structs
    BY <2>1 DEF Inv, Registered
  <2> QED BY <2>2 DEF Inv, Registered, CommitRoleless, HasRole
<1>2. stage' = stage
  BY <1>1 DEF CommitRoleless
<1>3. TypeOK'
  BY <1>2 DEF Inv, CommitRoleless, TypeOK, OutputTypeOK
<1> QED BY <1>2, <1>3, LifeKept DEF CommitRoleless, Inv

\* Surfaces are created only while the loop runs.
LEMMA CreationKept ==
  ASSUME Inv, stage = "running"
  PROVE  /\ \A t \in Toplevels : NewToplevel(t) => Inv'
         /\ \A p \in Popups, q \in Surfaces : PopupOnParent(p, q) => Inv'
         /\ \A p \in Popups : PopupOnNothing(p) => Inv'
<1>1. ASSUME NEW t \in Toplevels, NewToplevel(t) PROVE Inv'
  <2>1. tree' \in [Surfaces -> Surfaces \cup {NULL}] /\ parent' \in [Popups -> Surfaces \cup {NULL}]
    BY <1>1 DEF NewToplevel, Inv, TypeOK
  <2>2. t \in Surfaces /\ {t} \in SUBSET Toplevels
    BY DEF Surfaces
  <2> QED BY <1>1, <2>1, <2>2, NewStructKept DEF NewToplevel
<1>2. ASSUME NEW p \in Popups, NEW q \in Surfaces, PopupOnParent(p, q) PROVE Inv'
  <2>1. tree' \in [Surfaces -> Surfaces \cup {NULL}] /\ parent' \in [Popups -> Surfaces \cup {NULL}]
    BY <1>2 DEF PopupOnParent, NewPopup, PopupTree, Inv, TypeOK
  <2>2. p \in Surfaces /\ {} \in SUBSET Toplevels
    BY DEF Surfaces
  <2>3. data' = data \cup {}
    BY <1>2 DEF PopupOnParent, NewPopup
  <2>4. /\ phase[p] = "none" /\ phase' = [phase EXCEPT ![p] = "role"]
        /\ structs' = structs \cup {p}
        /\ listeners' = listeners \cup Signals(p) \X {p}
        /\ UNCHANGED <<stage, handshakeVars, screenVars, outputVars>>
    BY <1>2 DEF PopupOnParent, NewPopup
  <2> HIDE DEF Inv
  <2> QED BY <2>1, <2>2, <2>3, <2>4, NewStructKept
<1>3. ASSUME NEW p \in Popups, PopupOnNothing(p) PROVE Inv'
  BY <1>3 DEF PopupOnNothing, lifeVars, handshakeVars, screenVars, outputVars, Inv, TypeOK,
     OutputTypeOK, Stages, Registered, HasRole, HandlersHaveStructs
<1> QED BY <1>1, <1>2, <1>3

\* They are destroyed while it runs and once it is left.
LEMMA DestructionKept ==
  ASSUME Inv, DestroyNext
  PROVE  Inv'
<1>1. CASE \E s \in Surfaces : Unmap(s)
  BY <1>1, ScreenKept
<1>2. ASSUME NEW t \in Toplevels, ToplevelDestroy(t) PROVE Inv'
  <2>1. t \in Surfaces
    BY DEF Surfaces
  <2> QED BY <1>2, <2>1, StructGoneKept DEF ToplevelDestroy
<1>3. ASSUME NEW p \in Popups, PopupDestroy(p) PROVE Inv'
  <2>1. p \in Surfaces
    BY DEF Surfaces
  <2> QED BY <1>3, <2>1, StructGoneKept DEF PopupDestroy
<1> QED BY <1>1, <1>2, <1>3 DEF DestroyNext

\* The outputs and what is drawn on them.
LEMMA DrawingKept ==
  ASSUME Inv, stage = "running", OutputNext \/ Redraw \/ \E o \in Outputs : OutputFrame(o)
  PROVE  Inv'
<1> USE DEF handshakeVars, lifeVars
<1>1. CASE OutputNext
  <2>1. OutputTypeOK'
    BY <1>1, OutputsKept DEF OutputNext, Inv, TypeOK
  <2>2. TypeOK'
    BY <1>1, <2>1 DEF OutputNext, Inv, TypeOK, screenVars
  <2> QED BY <1>1, <2>2, LifeKept DEF OutputNext, Inv
<1>2. CASE Redraw
  <2>1. OutputTypeOK' /\ outputs' = outputs
    BY <1>2, DamageKept DEF Redraw, Inv, TypeOK
  <2>2. TypeOK'
    BY <1>2, <2>1 DEF Redraw, Inv, TypeOK
  <2> QED BY <1>2, <2>1, <2>2, LifeKept DEF Redraw, Inv
<1>3. ASSUME NEW o \in Outputs, OutputFrame(o) PROVE Inv'
  <2>1. OutputTypeOK' /\ outputs' = outputs
    BY <1>3, OutputsKept DEF OutputFrame, Inv, TypeOK
  <2>2. TypeOK'
    BY <1>3, <2>1 DEF OutputFrame, SendFrameDone, Inv, TypeOK
  <2> QED BY <1>3, <2>1, <2>2, LifeKept DEF OutputFrame, Inv
<1> QED BY <1>1, <1>2, <1>3

\* The end of main.
LEMMA TeardownKept ==
  ASSUME Inv, \/ stage = "running" /\ Terminate
              \/ DestroyScene \/ MainReturns \/ \E o \in Outputs : DestroyOutput(o)
  PROVE  Inv'
<1> USE DEF handshakeVars, lifeVars, screenVars, Inv
<1>1. CASE stage = "running" /\ Terminate
  BY <1>1 DEF Terminate, outputVars, TypeOK, OutputTypeOK, Stages, Registered, HasRole,
          HandlersHaveStructs
<1>2. CASE DestroyScene
  BY <1>2 DEF DestroyScene, TypeOK, OutputTypeOK, Stages, Registered, HasRole, HandlersHaveStructs
<1>3. CASE MainReturns
  BY <1>3 DEF MainReturns, outputVars, TypeOK, OutputTypeOK, Stages, Registered, HasRole,
          HandlersHaveStructs
<1>4. ASSUME NEW o \in Outputs, DestroyOutput(o) PROVE Inv'
  <2>1. OutputTypeOK'
    BY <1>4, OutputsKept DEF DestroyOutput, TypeOK
  <2> QED BY <1>4, <2>1 DEF DestroyOutput, TypeOK, Registered, HasRole,
          HandlersHaveStructs
<1> QED BY <1>1, <1>2, <1>3, <1>4

\* Every step keeps the invariant.
THEOREM InvariantStep == Inv /\ [Next]_vars => Inv'
<1> SUFFICES ASSUME Inv, [Next]_vars PROVE Inv'
  OBVIOUS
<1>1. CASE RunningNext
  <2>1. CASE ClientNext
    BY <1>1, <2>1, CreationKept, HandshakeKept, ScreenKept, RolelessKept
       DEF RunningNext, ClientNext, Surfaces
  <2>2. CASE OutputNext \/ Redraw \/ \E o \in Outputs : OutputFrame(o)
    BY <1>1, <2>2, DrawingKept DEF RunningNext
  <2>3. CASE Terminate
    BY <1>1, <2>3, TeardownKept DEF RunningNext
  <2>4. CASE \E s \in Surfaces : SendConfigure(s)
    BY <2>4, HandshakeKept
  <2> QED BY <1>1, <2>1, <2>2, <2>3, <2>4 DEF RunningNext
<1>2. CASE DestroyNext
  BY <1>2, DestructionKept
<1>3. CASE DestroyScene \/ MainReturns \/ \E o \in Outputs : DestroyOutput(o)
  BY <1>3, TeardownKept
<1>4. CASE UNCHANGED vars
  BY <1>4 DEF vars, lifeVars, handshakeVars, screenVars, outputVars, Inv, TypeOK, OutputTypeOK,
     Registered, HasRole, HandlersHaveStructs
<1> QED BY <1>1, <1>2, <1>3, <1>4 DEF Next, TeardownNext

\* The invariant that the theorems below rest on.
THEOREM Invariant == Spec => []Inv
BY InvariantInit, InvariantStep, PTL DEF Spec

\* The variables of a session keep their types; in particular a configure is
\* scheduled only for a surface past its initial commit, and only a surface
\* that has been sent one is mapped.
THEOREM TypeCorrect == Spec => []TypeOK
<1>1. Inv => TypeOK
  BY DEF Inv
<1> QED BY <1>1, Invariant, PTL

\* No handler runs on a freed struct, whatever clients do with their surfaces
\* and when: for any number of windows and of popups upon popups.
THEOREM NoHandlerOutlivesStruct == Spec => []HandlersHaveStructs
<1>1. Inv => HandlersHaveStructs
  BY DEF Inv
<1> QED BY <1>1, Invariant, PTL

-----------------------------------------------------------------------------
(* What hangs from what.                                                    *)

\* A popup's scene tree hangs in that of its parent, which has been a surface
\* for as long; a window's hangs from the root and points to the window.
Hanging ==
  /\ \A t \in Toplevels : tree[t] = NULL /\ (HasRole(t) => t \in data)
  /\ \A p \in Popups :
       /\ tree[p] = parent[p]
       /\ phase[p] = "none" <=> parent[p] = NULL
       /\ parent[p] # NULL => phase[parent[p]] # "none"

\* The scene trees have no cycle: every surface has a rank above that of the one
\* it hangs from.
Ranked == \E N \in Nat : \E rank : CountsDown(rank, N, Surfaces, tree, NULL)

HangInv == Hanging /\ Ranked

LEMMA HangInit == Init => HangInv
<1> SUFFICES ASSUME Init PROVE HangInv
  OBVIOUS
<1>1. Hanging
  BY DEF Init, Hanging, HasRole, Surfaces
<1>2. Ranked
  <2> DEFINE rank == [s \in Surfaces |-> 0]
  <2>1. rank \in [Surfaces -> 0..0] /\ \A s \in Surfaces : tree[s] = NULL
    BY DEF Init
  <2> HIDE DEF rank
  <2> QED BY <2>1 DEF Ranked, CountsDown
<1> QED BY <1>1, <1>2 DEF HangInv

\* A new window hangs from the root.
LEMMA ToplevelHangs ==
  ASSUME Inv, HangInv, NEW t \in Toplevels, NewToplevel(t)
  PROVE  HangInv'
<1>1. /\ phase \in [Surfaces -> {"none", "role", "roleless"}] /\ t \in Surfaces
      /\ phase' = [phase EXCEPT ![t] = "role"] /\ data' = data \cup {t}
      /\ UNCHANGED <<tree, parent>>
  BY DEF Inv, TypeOK, NewToplevel, Surfaces
<1>2. \A s \in Surfaces : s # t => phase'[s] = phase[s]
  BY <1>1
<1>3. phase'[t] = "role"
  BY <1>1
<1>4. Hanging'
  <2>1. \A u \in Toplevels : tree'[u] = NULL /\ (HasRole(u)' => u \in data')
    BY <1>1, <1>2 DEF HangInv, Hanging, HasRole, Surfaces
  <2>2. ASSUME NEW p \in Popups
        PROVE  /\ tree'[p] = parent'[p]
               /\ phase'[p] = "none" <=> parent'[p] = NULL
               /\ parent'[p] # NULL => phase'[parent'[p]] # "none"
    <3>1. p # t /\ p \in Surfaces
      BY SessionAssumption DEF Surfaces
    <3>2. parent[p] # NULL => parent[p] \in Surfaces
      BY DEF Inv, TypeOK
    <3> QED BY <1>1, <1>2, <1>3, <3>1, <3>2 DEF HangInv, Hanging
  <2> QED BY <2>1, <2>2 DEF Hanging
<1>5. Ranked'
  BY <1>1 DEF HangInv, Ranked
<1> QED BY <1>4, <1>5 DEF HangInv

\* A new popup gets a rank above its parent's; nothing hangs from it yet.
LEMMA PopupHangs ==
  ASSUME Inv, HangInv, NEW p \in Popups, NEW q \in Surfaces, PopupOnParent(p, q)
  PROVE  HangInv'
<1>1. /\ phase \in [Surfaces -> {"none", "role", "roleless"}]
      /\ tree \in [Surfaces -> Surfaces \cup {NULL}]
      /\ parent \in [Popups -> Surfaces \cup {NULL}]
      /\ p \in Surfaces /\ phase[p] = "none" /\ phase[q] = "role"
      /\ phase' = [phase EXCEPT ![p] = "role"] /\ data' = data
      /\ tree' = [tree EXCEPT ![p] = q] /\ parent' = [parent EXCEPT ![p] = q]
  BY DEF Inv, TypeOK, PopupOnParent, NewPopup, PopupTree, HasRole, Surfaces
<1>2. p # q /\ q # NULL /\ p \notin Toplevels
  BY <1>1, SessionAssumption DEF Surfaces
<1>3. /\ phase'[p] = "role" /\ tree'[p] = q /\ parent'[p] = q
      /\ \A s \in Surfaces : s # p => phase'[s] = phase[s] /\ tree'[s] = tree[s]
      /\ \A s \in Popups : s # p => parent'[s] = parent[s]
  BY <1>1
<1>4. ASSUME NEW s \in Surfaces, tree[s] = p PROVE FALSE
  <2>1. s \in Popups /\ parent[s] = p /\ parent[s] # NULL
    BY <1>1, <1>4, SessionAssumption DEF HangInv, Hanging, Surfaces
  <2> QED BY <1>1, <2>1 DEF HangInv, Hanging
<1>5. Hanging'
  <2>1. ASSUME NEW u \in Toplevels PROVE tree'[u] = NULL /\ (HasRole(u)' => u \in data')
    BY <1>1, <1>2, <1>3 DEF HangInv, Hanging, HasRole, Surfaces
  <2>2. ASSUME NEW r \in Popups
        PROVE  /\ tree'[r] = parent'[r]
               /\ phase'[r] = "none" <=> parent'[r] = NULL
               /\ parent'[r] # NULL => phase'[parent'[r]] # "none"
    <3>0. r \in Surfaces
      BY DEF Surfaces
    <3>1. CASE r = p
      BY <1>1, <1>2, <1>3, <3>1
    <3>2. CASE r # p
      <4>1. tree[r] = parent[r] /\ (phase[r] = "none" <=> parent[r] = NULL)
            /\ (parent[r] # NULL => phase[parent[r]] # "none")
        BY DEF HangInv, Hanging
      <4>2. parent[r] # NULL => parent[r] \in Surfaces /\ parent[r] # p
        BY <1>1, <1>4, <3>0, <4>1
      <4> QED BY <1>3, <3>0, <3>2, <4>1, <4>2
    <3> QED BY <3>1, <3>2
  <2> QED BY <2>1, <2>2 DEF Hanging
<1>6. Ranked'
  <2>1. PICK N \in Nat : \E rank : CountsDown(rank, N, Surfaces, tree, NULL)
    BY DEF HangInv, Ranked
  <2>2. PICK rank : CountsDown(rank, N, Surfaces, tree, NULL)
    BY <2>1
  <2> DEFINE next == [s \in Surfaces |-> IF s = p THEN rank[q] + 1 ELSE rank[s]]
  <2>3. /\ \A s \in Surfaces : rank[s] \in 0..N
        /\ \A s \in Surfaces : tree[s] # NULL => tree[s] \in Surfaces /\ rank[tree[s]] < rank[s]
    BY <2>2 DEF CountsDown
  <2>4. next[p] = rank[q] + 1 /\ \A s \in Surfaces : s # p => next[s] = rank[s]
    BY <1>1
  <2>5. next \in [Surfaces -> 0..(N + 1)]
    <3>1. \A s \in Surfaces : rank[s] \in 0..(N + 1) /\ rank[q] + 1 \in 0..(N + 1)
      BY <2>3
    <3> QED BY <3>1
  <2> HIDE DEF next
  <2>6. ASSUME NEW s \in Surfaces, tree'[s] # NULL
        PROVE  tree'[s] \in Surfaces /\ next[tree'[s]] < next[s]
    <3>1. CASE s = p
      <4>1. next[q] = rank[q] /\ rank[q] \in 0..N
        BY <1>2, <2>3, <2>4
      <4> QED BY <1>3, <2>4, <3>1, <4>1
    <3>2. CASE s # p
      <4>1. tree'[s] = tree[s] /\ tree[s] # p /\ tree[s] \in Surfaces /\ rank[tree[s]] < rank[s]
        BY <1>3, <1>4, <2>3, <2>6, <3>2
      <4> QED BY <2>4, <3>2, <4>1
    <3> QED BY <3>1, <3>2
  <2>7. N + 1 \in Nat /\ CountsDown(next, N + 1, Surfaces, tree', NULL)
    BY <2>5, <2>6 DEF CountsDown
  <2> QED BY <2>7 DEF Ranked
<1> QED BY <1>5, <1>6 DEF HangInv

\* A role object that goes leaves what hangs where it is.
LEMMA RoleGoneHangs ==
  ASSUME Inv, HangInv, NEW s \in Surfaces, HasRole(s), RoleGone(s)
  PROVE  HangInv'
<1>1. /\ phase \in [Surfaces -> {"none", "role", "roleless"}] /\ phase[s] = "role"
      /\ phase' = [phase EXCEPT ![s] = "roleless"] /\ data' = data \ {s}
      /\ UNCHANGED <<tree, parent>>
  BY DEF Inv, TypeOK, HasRole, RoleGone
<1>2. phase'[s] = "roleless" /\ \A x \in Surfaces : x # s => phase'[x] = phase[x]
  BY <1>1
<1>3. \A t \in Toplevels : tree'[t] = NULL /\ (HasRole(t)' => t \in data')
  BY <1>1, <1>2 DEF HangInv, Hanging, HasRole, Surfaces
<1>4. ASSUME NEW p \in Popups
      PROVE  /\ tree'[p] = parent'[p]
             /\ phase'[p] = "none" <=> parent'[p] = NULL
             /\ parent'[p] # NULL => phase'[parent'[p]] # "none"
  <2>1. p \in Surfaces /\ (parent[p] # NULL => parent[p] \in Surfaces)
    BY DEF Inv, TypeOK, Surfaces
  <2> QED BY <1>1, <1>2, <2>1 DEF HangInv, Hanging
<1>5. Ranked'
  BY <1>1 DEF HangInv, Ranked
<1> QED BY <1>3, <1>4, <1>5 DEF HangInv, Hanging

LEMMA HangStep ==
  ASSUME Inv, HangInv, [Next]_vars
  PROVE  HangInv'
<1>1. CASE UNCHANGED lifeVars
  BY <1>1 DEF lifeVars, HangInv, Hanging, Ranked, HasRole
<1>2. CASE \E t \in Toplevels : NewToplevel(t)
  BY <1>2, ToplevelHangs
<1>3. CASE \E p \in Popups : \E q \in Surfaces : PopupOnParent(p, q)
  BY <1>3, PopupHangs
<1>4. CASE \E t \in Toplevels : ToplevelDestroy(t)
  BY <1>4, RoleGoneHangs DEF ToplevelDestroy, Surfaces
<1>5. CASE \E p \in Popups : PopupDestroy(p)
  BY <1>5, RoleGoneHangs DEF PopupDestroy, Surfaces
<1>6. CASE UNCHANGED vars
  BY <1>1, <1>6 DEF vars, lifeVars
<1>7. CASE RunningNext
  <2>1. CASE ClientNext
    BY <1>1, <1>2, <1>3, <2>1 DEF ClientNext, Request, PopupOnNothing, InitialCommit, Map, CommitFrame,
       CommitRoleless
  <2>2. CASE OutputNext \/ Redraw \/ Terminate \/ (\E s \in Surfaces : SendConfigure(s))
               \/ \E o \in Outputs : OutputFrame(o)
    BY <1>1, <2>2 DEF OutputNext, Redraw, Terminate, SendConfigure, OutputFrame
  <2> QED BY <1>7, <2>1, <2>2 DEF RunningNext
<1>8. CASE DestroyNext
  <2>1. CASE \E s \in Surfaces : Unmap(s)
    BY <1>1, <2>1 DEF Unmap
  <2> QED BY <1>4, <1>5, <1>8, <2>1 DEF DestroyNext
<1>9. CASE DestroyScene \/ MainReturns \/ \E o \in Outputs : DestroyOutput(o)
  BY <1>1, <1>9 DEF DestroyScene, MainReturns, DestroyOutput
<1> QED BY <1>6, <1>7, <1>8, <1>9 DEF Next, TeardownNext

-----------------------------------------------------------------------------
(* The walks up the trees, which the ranks show to end.                     *)

\* Owner, OnScreen and ToplevelAt are what their equations say.
LEMMA WalksEnd ==
  ASSUME Inv, HangInv, NEW s \in Surfaces
  PROVE  /\ Owner[s] = IF s \in Toplevels THEN s ELSE IF parent[s] = NULL THEN NULL ELSE Owner[parent[s]]
         /\ OnScreen[s] = (s \in mapped /\ (s \in Toplevels => s \in enabled)
                            /\ (tree[s] # NULL => OnScreen[tree[s]]))
         /\ ToplevelAt[s] = IF s \in data THEN s
                            ELSE IF tree[s] = NULL THEN NULL ELSE ToplevelAt[tree[s]]
<1> DEFINE V == Surfaces \cup {NULL}
<1>1. PICK N \in Nat : \E rank : CountsDown(rank, N, Surfaces, tree, NULL)
  BY DEF HangInv, Ranked
<1>2. PICK rank : CountsDown(rank, N, Surfaces, tree, NULL)
  BY <1>1
<1>3. \A p \in Surfaces \ Toplevels : tree[p] = parent[p]
  BY DEF HangInv, Hanging, Surfaces
<1>4. Owner[s] = IF s \in Toplevels THEN s ELSE IF parent[s] = NULL THEN NULL ELSE Owner[parent[s]]
  <2> DEFINE Turn(f, x) == IF x \in Toplevels THEN x ELSE IF parent[x] = NULL THEN NULL ELSE f[parent[x]]
             Eq(f) == f = [x \in Surfaces |-> Turn(f, x)]
             F == CHOOSE f : Eq(f)
             next == [x \in Surfaces |-> IF x \in Toplevels THEN NULL ELSE parent[x]]
             b == [x \in Surfaces |-> IF x \in Toplevels THEN x ELSE NULL]
             h == [w \in Surfaces \X V |-> w[2]]
  <2>1. Owner = F
    BY DEF Owner
  <2>2. CountsDown(rank, N, Surfaces, next, NULL)
    BY <1>2, <1>3 DEF CountsDown
  <2>3. b \in [Surfaces -> V] /\ h \in [Surfaces \X V -> V]
    OBVIOUS
  <2>4. PICK f : IsWalk(f, Surfaces, V, next, NULL, b, h)
    <3> HIDE DEF b, h, next, V
    <3> QED BY <2>2, <2>3, WalkExists
  <2>5. Eq(f)
    <3>1. f \in [Surfaces -> V] /\ \A x \in Surfaces : f[x] = IF next[x] = NULL THEN b[x] ELSE h[<<x, f[next[x]]>>]
      <4> HIDE DEF b, h, next, V
      <4> QED BY <2>4 DEF IsWalk
    <3>2. ASSUME NEW x \in Surfaces PROVE f[x] = Turn(f, x)
      <4>1. next[x] # NULL => next[x] \in Surfaces
        BY <2>2 DEF CountsDown
      <4>2. next[x] # NULL => h[<<x, f[next[x]]>>] = f[next[x]]
        BY <3>1, <4>1
      <4>3. CASE x \in Toplevels
        BY <3>1, <4>3
      <4>4. CASE x \notin Toplevels
        BY <3>1, <4>2, <4>4
      <4> QED BY <4>3, <4>4
    <3> HIDE DEF Turn
    <3> QED BY <3>1, <3>2
  <2>6. Eq(F)
    <3> HIDE DEF Eq
    <3> QED BY <2>5
  <2>7. F[s] = Turn(F, s)
    <3> HIDE DEF F, Turn
    <3> QED BY <2>6
  <2> HIDE DEF F
  <2> QED BY <2>1, <2>7
<1>5. OnScreen[s] = (s \in mapped /\ (s \in Toplevels => s \in enabled)
                       /\ (tree[s] # NULL => OnScreen[tree[s]]))
  <2> DEFINE Turn(f, x) == x \in mapped /\ (x \in Toplevels => x \in enabled)
                             /\ (tree[x] # NULL => f[tree[x]])
             Eq(f) == f = [x \in Surfaces |-> Turn(f, x)]
             F == CHOOSE f : Eq(f)
             b == [x \in Surfaces |-> x \in mapped /\ (x \in Toplevels => x \in enabled)]
             h == [w \in Surfaces \X BOOLEAN |->
                     w[1] \in mapped /\ (w[1] \in Toplevels => w[1] \in enabled) /\ w[2]]
  <2>1. OnScreen = F
    BY DEF OnScreen
  <2>2. b \in [Surfaces -> BOOLEAN] /\ h \in [Surfaces \X BOOLEAN -> BOOLEAN]
    OBVIOUS
  <2>3. PICK f : IsWalk(f, Surfaces, BOOLEAN, tree, NULL, b, h)
    <3> HIDE DEF b, h
    <3> QED BY <1>2, <2>2, WalkExists
  <2>4. Eq(f)
    <3>1. f \in [Surfaces -> BOOLEAN] /\ \A x \in Surfaces : f[x] = IF tree[x] = NULL THEN b[x] ELSE h[<<x, f[tree[x]]>>]
      <4> HIDE DEF b, h
      <4> QED BY <2>3 DEF IsWalk
    <3>2. ASSUME NEW x \in Surfaces PROVE f[x] = Turn(f, x)
      <4>1. CASE tree[x] = NULL
        BY <3>1, <4>1
      <4>2. CASE tree[x] # NULL
        <5>1. tree[x] \in Surfaces
          BY <1>2, <4>2 DEF CountsDown
        <5>2. f[tree[x]] \in BOOLEAN
          BY <3>1, <5>1
        <5>3. f[x] = h[<<x, f[tree[x]]>>]
          BY <3>1, <4>2
        <5>4. h[<<x, f[tree[x]]>>] = (x \in mapped /\ (x \in Toplevels => x \in enabled) /\ f[tree[x]])
          BY <5>2
        <5> QED BY <4>2, <5>2, <5>3, <5>4
      <4> QED BY <4>1, <4>2
    <3> HIDE DEF Turn
    <3> QED BY <3>1, <3>2
  <2>5. Eq(F)
    <3> HIDE DEF Eq
    <3> QED BY <2>4
  <2>6. F[s] = Turn(F, s)
    <3> HIDE DEF F, Turn
    <3> QED BY <2>5
  <2> HIDE DEF F
  <2> QED BY <2>1, <2>6
<1>6. ToplevelAt[s] = IF s \in data THEN s
                     ELSE IF tree[s] = NULL THEN NULL ELSE ToplevelAt[tree[s]]
  <2> DEFINE Turn(f, x) == IF x \in data THEN x ELSE IF tree[x] = NULL THEN NULL ELSE f[tree[x]]
             Eq(f) == f = [x \in Surfaces |-> Turn(f, x)]
             F == CHOOSE f : Eq(f)
             b == [x \in Surfaces |-> IF x \in data THEN x ELSE NULL]
             h == [w \in Surfaces \X V |-> IF w[1] \in data THEN w[1] ELSE w[2]]
  <2>1. ToplevelAt = F
    BY DEF ToplevelAt
  <2>2. b \in [Surfaces -> V] /\ h \in [Surfaces \X V -> V]
    OBVIOUS
  <2>3. PICK f : IsWalk(f, Surfaces, V, tree, NULL, b, h)
    <3> HIDE DEF b, h, V
    <3> QED BY <1>2, <2>2, WalkExists
  <2>4. Eq(f)
    <3>1. f \in [Surfaces -> V] /\ \A x \in Surfaces : f[x] = IF tree[x] = NULL THEN b[x] ELSE h[<<x, f[tree[x]]>>]
      <4> HIDE DEF b, h, V
      <4> QED BY <2>3 DEF IsWalk
    <3>2. ASSUME NEW x \in Surfaces PROVE f[x] = Turn(f, x)
      <4>1. CASE tree[x] = NULL
        BY <3>1, <4>1
      <4>2. CASE tree[x] # NULL
        <5>1. tree[x] \in Surfaces
          BY <1>2, <4>2 DEF CountsDown
        <5>2. f[tree[x]] \in V
          <6> HIDE DEF V
          <6> QED BY <3>1, <5>1
        <5>3. h[<<x, f[tree[x]]>>] = IF x \in data THEN x ELSE f[tree[x]]
          BY <5>2
        <5> QED BY <3>1, <4>2, <5>3
      <4> QED BY <4>1, <4>2
    <3> HIDE DEF Turn
    <3> QED BY <3>1, <3>2
  <2>5. Eq(F)
    <3> HIDE DEF Eq
    <3> QED BY <2>4
  <2>6. F[s] = Turn(F, s)
    <3> HIDE DEF F, Turn
    <3> QED BY <2>5
  <2> HIDE DEF F
  <2> QED BY <2>1, <2>6
<1> QED BY <1>4, <1>5, <1>6

LEMMA HangInvImpliesOwner ==
  ASSUME Inv, HangInv
  PROVE  PointerFindsOwner
<1> DEFINE Found(s) == ToplevelAt[s] = Owner[s] /\ Owner[s] \in structs /\ OnScreen[Owner[s]]
           G == {s \in Surfaces : OnScreen[s] => Found(s)}
<1>1. PICK N \in Nat : \E rank : CountsDown(rank, N, Surfaces, tree, NULL)
  BY DEF HangInv, Ranked
<1>2. PICK rank : CountsDown(rank, N, Surfaces, tree, NULL)
  BY <1>1
<1>3. ASSUME NEW s \in Surfaces, tree[s] # NULL => tree[s] \in G, OnScreen[s] PROVE Found(s)
  <2>1. s \in mapped /\ (tree[s] # NULL => OnScreen[tree[s]])
    BY <1>3, WalksEnd
  <2>2. s \in structs /\ HasRole(s)
    BY <2>1 DEF Inv, TypeOK, Registered
  <2>3. CASE s \in Toplevels
    <3>1. s \in data
      BY <2>2, <2>3 DEF HangInv, Hanging
    <3>2. ToplevelAt[s] = s /\ Owner[s] = s
      BY <2>3, <3>1, WalksEnd
    <3> QED BY <1>3, <2>2, <3>2
  <2>4. CASE s \notin Toplevels
    <3>1. s \in Popups /\ s \notin data
      BY <2>4 DEF Surfaces, Inv, TypeOK
    <3>2. tree[s] = parent[s] /\ tree[s] # NULL
      BY <2>2, <3>1 DEF HangInv, Hanging, HasRole
    <3>3. ToplevelAt[s] = ToplevelAt[tree[s]] /\ Owner[s] = Owner[tree[s]]
      BY <2>4, <3>1, <3>2, WalksEnd
    <3>4. Found(tree[s])
      BY <1>3, <2>1, <3>2
    <3> QED BY <3>3, <3>4
  <2> QED BY <2>3, <2>4
<1> HIDE DEF Found
<1>4. \A s \in Surfaces : (tree[s] # NULL => tree[s] \in G) => s \in G
  BY <1>3
<1> HIDE DEF G
<1>5. Surfaces \subseteq G
  BY <1>2, <1>4, PointerInduction
<1> QED BY <1>5 DEF G, Found, PointerFindsOwner

\* The surfaces hang together as they should, and never in a circle.
THEOREM HangInvariant == Spec => []HangInv
<1>1. Inv /\ HangInv /\ [Next]_vars => HangInv'
  BY HangStep
<1> QED BY <1>1, HangInit, Invariant, PTL DEF Spec

\* However deep the popups nest and in whatever order surfaces come and go, the
\* walk of desktop_toplevel_at from a surface on screen ends at its window.
THEOREM PointerAlwaysFindsOwner == Spec => []PointerFindsOwner
<1>1. Inv /\ HangInv => PointerFindsOwner
  BY HangInvImpliesOwner
<1> QED BY <1>1, Invariant, HangInvariant, PTL
=============================================================================
