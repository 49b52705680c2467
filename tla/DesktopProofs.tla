--------------------------- MODULE DesktopProofs ---------------------------
(***************************************************************************)
(* Theorems about Desktop, for every set of windows, workspaces and        *)
(* keyboards.                                                              *)
(***************************************************************************)
EXTENDS Desktop, TLAPS

-----------------------------------------------------------------------------
(* The intrusive lists.                                                     *)

\* A node of a list has a position in it.
LEMMA PositionInList ==
  ASSUME NEW S, NEW list \in Seq(S), NEW t \in Range(list)
  PROVE  Position(list, t) \in 1..Len(list) /\ list[Position(list, t)] = t
BY DEF Position, Range

\* What the elements of a list are once one is taken out.
LEMMA RemoveAtProperties ==
  ASSUME NEW S, NEW list \in Seq(S), NEW p \in 1..Len(list)
  PROVE  /\ RemoveAt(list, p) \in Seq(S)
         /\ Len(RemoveAt(list, p)) = Len(list) - 1
         /\ \A i \in 1..(Len(list) - 1) :
               RemoveAt(list, p)[i] = IF i < p THEN list[i] ELSE list[i + 1]
<1> DEFINE before == SubSeq(list, 1, p - 1)
           after == SubSeq(list, p + 1, Len(list))
<1>1. before \in Seq(S) /\ Len(before) = p - 1 /\ \A i \in 1..(p - 1) : before[i] = list[i]
  OBVIOUS
<1>2. /\ after \in Seq(S)
      /\ Len(after) = Len(list) - p
      /\ \A i \in 1..(Len(list) - p) : after[i] = list[p + i]
  OBVIOUS
<1> DEFINE both == before \o after
<1> HIDE DEF before, after
<1>3. both \in Seq(S) /\ Len(both) = Len(list) - 1
  BY <1>1, <1>2
<1>4. ASSUME NEW i \in 1..(p - 1) PROVE both[i] = list[i]
  BY <1>1, <1>2
<1>5. ASSUME NEW i \in p..(Len(list) - 1) PROVE both[i] = list[i + 1]
  <2>1. both[i] = after[i - (p - 1)]
    BY <1>1, <1>2
  <2>2. after[i - (p - 1)] = list[p + (i - (p - 1))]
    BY <1>2
  <2> QED BY <2>1, <2>2
<1>6. RemoveAt(list, p) = both
  BY DEF RemoveAt, before, after
<1> HIDE DEF both
<1> QED BY <1>3, <1>4, <1>5, <1>6

\* Unlinking removes the node and nothing else, and keeps the order.
LEMMA UnlinkProperties ==
  ASSUME NEW S, NEW list \in Seq(S), NEW t \in Range(list), IsInjective(list)
  PROVE  /\ Unlink(list, t) \in Seq(S)
         /\ \A x : x \in Range(Unlink(list, t)) <=> x # t /\ x \in Range(list)
         /\ IsInjective(Unlink(list, t))
         /\ Unlink(list, t) # <<>> /\ Head(list) # t => Head(Unlink(list, t)) = Head(list)
<1> DEFINE p == Position(list, t)
           r == Unlink(list, t)
<1>1. p \in 1..Len(list) /\ list[p] = t
  BY PositionInList
<1>2. r = RemoveAt(list, p)
  BY DEF Unlink
<1> HIDE DEF p, r
<1>3. /\ r \in Seq(S)
      /\ Len(r) = Len(list) - 1
      /\ \A i \in 1..Len(r) : r[i] = IF i < p THEN list[i] ELSE list[i + 1]
  BY <1>1, <1>2, RemoveAtProperties
<1>4. Range(r) = Range(list) \ {t}
  <2>1. ASSUME NEW x \in Range(r) PROVE x \in Range(list) \ {t}
    <3>1. PICK i \in 1..Len(r) : r[i] = x
      BY <1>3 DEF Range
    <3>2. PICK j \in 1..Len(list) : list[j] = x /\ j # p
      BY <1>1, <1>3, <3>1
    <3> QED BY <1>1, <3>2 DEF Range, IsInjective
  <2>2. ASSUME NEW x \in Range(list) \ {t} PROVE x \in Range(r)
    <3>1. PICK i \in 1..Len(list) : list[i] = x /\ i # p
      BY <1>1 DEF Range
    <3>2. PICK j \in 1..Len(r) : r[j] = x
      <4>1. CASE i < p
        <5>1. i \in 1..Len(r) /\ r[i] = x
          BY <1>1, <1>3, <3>1, <4>1
        <5> QED BY <5>1
      <4>2. CASE i > p
        <5>1. i - 1 \in 1..Len(r) /\ r[i - 1] = x
          BY <1>1, <1>3, <3>1, <4>2
        <5> QED BY <5>1
      <4> QED BY <1>1, <3>1, <4>1, <4>2
    <3> QED BY <1>3, <3>2 DEF Range
  <2> QED BY <2>1, <2>2
<1>5. IsInjective(r)
  <2>1. SUFFICES ASSUME NEW i \in 1..Len(r), NEW j \in 1..Len(r), r[i] = r[j] PROVE i = j
    BY <1>3 DEF IsInjective
  <2>2. \A k, l \in 1..Len(list) : list[k] = list[l] => k = l
    BY DEF IsInjective
  <2>3. PICK k \in 1..Len(list) : k = (IF i < p THEN i ELSE i + 1) /\ r[i] = list[k]
    BY <1>1, <1>3
  <2>4. PICK l \in 1..Len(list) : l = (IF j < p THEN j ELSE j + 1) /\ r[j] = list[l]
    BY <1>1, <1>3
  <2>5. k = l
    BY <2>1, <2>2, <2>3, <2>4
  <2>6. p \in Int /\ i \in Int /\ j \in Int
    BY <1>1, <1>3
  <2> QED BY <2>3, <2>4, <2>5, <2>6
<1>6. r # <<>> /\ Head(list) # t => Head(r) = Head(list)
  BY <1>1, <1>3
<1> QED BY <1>3, <1>4, <1>5, <1>6 DEF r

\* Inserting puts the node in front of the others.
LEMMA InsertProperties ==
  ASSUME NEW S, NEW list \in Seq(S), NEW t \in S
  PROVE  /\ Insert(list, t) \in Seq(S)
         /\ \A x : x \in Range(Insert(list, t)) <=> x = t \/ x \in Range(list)
         /\ IsInjective(list) /\ t \notin Range(list) => IsInjective(Insert(list, t))
         /\ Head(Insert(list, t)) = t
         /\ Insert(list, t) # <<>>
<1> DEFINE r == Insert(list, t)
<1>1. /\ r \in Seq(S)
      /\ Len(r) = Len(list) + 1
      /\ r[1] = t
      /\ \A i \in 1..Len(list) : r[i + 1] = list[i]
      /\ \A i \in 2..Len(r) : r[i] = list[i - 1]
  BY DEF Insert
<1> HIDE DEF r
<1>2. Range(r) = Range(list) \cup {t}
  <2>1. ASSUME NEW x \in Range(r) PROVE x \in Range(list) \cup {t}
    <3>1. PICK i \in 1..Len(r) : r[i] = x
      BY <1>1 DEF Range
    <3>2. CASE i = 1
      BY <1>1, <3>1, <3>2
    <3>3. CASE i # 1
      <4>1. i - 1 \in 1..Len(list) /\ list[i - 1] = x
        BY <1>1, <3>1, <3>3
      <4> QED BY <4>1 DEF Range
    <3> QED BY <3>2, <3>3
  <2>2. ASSUME NEW x \in Range(list) PROVE x \in Range(r)
    <3>1. PICK i \in 1..Len(list) : list[i] = x
      BY DEF Range
    <3>2. i + 1 \in 1..Len(r) /\ r[i + 1] = x
      BY <1>1, <3>1
    <3> QED BY <1>1, <3>2 DEF Range
  <2>3. t \in Range(r)
    BY <1>1 DEF Range
  <2> QED BY <2>1, <2>2, <2>3
<1>3. ASSUME IsInjective(list), t \notin Range(list) PROVE IsInjective(r)
  <2>1. \A i \in 1..Len(list) : list[i] # t
    BY <1>3 DEF Range
  <2>2. SUFFICES ASSUME NEW i \in 1..Len(r), NEW j \in 1..Len(r), r[i] = r[j] PROVE i = j
    BY <1>1 DEF IsInjective
  <2>3. \A k, l \in 1..Len(list) : list[k] = list[l] => k = l
    BY <1>3 DEF IsInjective
  <2>4. \A k \in 2..Len(r) : k - 1 \in 1..Len(list) /\ r[k] = list[k - 1] /\ r[k] # t
    BY <1>1, <2>1
  <2>5. CASE i = 1 \/ j = 1
    BY <1>1, <2>2, <2>4, <2>5
  <2>6. CASE i # 1 /\ j # 1
    <3>1. i \in 2..Len(r) /\ j \in 2..Len(r)
      BY <1>1, <2>6
    <3>2. i - 1 = j - 1
      BY <2>2, <2>3, <2>4, <3>1
    <3> QED BY <3>1, <3>2
  <2> QED BY <2>5, <2>6
<1>4. Head(r) = t /\ r # <<>>
  BY <1>1
<1> QED BY <1>1, <1>2, <1>3, <1>4 DEF r

\* Moving a node to the front keeps the members of the list.
LEMMA ToFrontProperties ==
  ASSUME NEW S, NEW list \in Seq(S), NEW t \in Range(list), IsInjective(list)
  PROVE  /\ ToFront(list, t) \in Seq(S)
         /\ Range(ToFront(list, t)) = Range(list)
         /\ IsInjective(ToFront(list, t))
         /\ Head(ToFront(list, t)) = t
<1> DEFINE rest == Unlink(list, t)
<1>1. t \in S
  BY DEF Range
<1>2. /\ rest \in Seq(S)
      /\ \A x : x \in Range(rest) <=> x # t /\ x \in Range(list)
      /\ IsInjective(rest)
  BY UnlinkProperties
<1>3. ToFront(list, t) = Insert(rest, t)
  BY DEF ToFront
<1> HIDE DEF rest
<1>4. \A x : x \in Range(ToFront(list, t)) <=> x \in Range(list)
  BY <1>1, <1>2, <1>3, InsertProperties
<1>5. ToFront(list, t) \in Seq(S) /\ Head(ToFront(list, t)) = t
  BY <1>1, <1>2, <1>3, InsertProperties
<1>6. IsInjective(ToFront(list, t))
  BY <1>1, <1>2, <1>3, InsertProperties
<1>7. Range(ToFront(list, t)) = Range(list)
  BY <1>4
<1> QED BY <1>4, <1>5, <1>6, <1>7

-----------------------------------------------------------------------------
(* The order of the nodes of a list.                                        *)

\* In a list without repetitions no two nodes are each before the other.
LEMMA BeforeIsStrict ==
  ASSUME NEW S, NEW list \in Seq(S), IsInjective(list), NEW t, NEW u, Before(list, t, u)
  PROVE  t \in Range(list) /\ u \in Range(list) /\ t # u /\ ~Before(list, u, t)
<1>1. \A i, j \in 1..Len(list) : list[i] = list[j] => i = j
  BY DEF IsInjective
<1> QED BY <1>1 DEF Before, Range

\* An inserted node comes before every other.
LEMMA BeforeInsert ==
  ASSUME NEW S, NEW list \in Seq(S), NEW t \in S, NEW x, NEW y
  PROVE  Before(Insert(list, t), x, y) <=> (x = t /\ y \in Range(list)) \/ Before(list, x, y)
<1> DEFINE r == Insert(list, t)
<1>1. /\ r \in Seq(S)
      /\ Len(r) = Len(list) + 1
      /\ r[1] = t
      /\ \A i \in 1..Len(list) : r[i + 1] = list[i]
      /\ \A i \in 2..Len(r) : i - 1 \in 1..Len(list) /\ r[i] = list[i - 1]
  BY DEF Insert
<1> HIDE DEF r
<1>2. ASSUME Before(r, x, y) PROVE (x = t /\ y \in Range(list)) \/ Before(list, x, y)
  <2>1. PICK i, j \in 1..Len(r) : i < j /\ r[i] = x /\ r[j] = y
    BY <1>1, <1>2 DEF Before
  <2>2. j - 1 \in 1..Len(list) /\ list[j - 1] = y
    BY <1>1, <2>1
  <2>3. CASE i = 1
    BY <1>1, <2>1, <2>2, <2>3 DEF Range
  <2>4. CASE i # 1
    <3>1. i - 1 \in 1..Len(list) /\ list[i - 1] = x /\ i - 1 < j - 1
      BY <1>1, <2>1, <2>4
    <3> QED BY <2>2, <3>1 DEF Before
  <2> QED BY <2>3, <2>4
<1>3. ASSUME x = t, y \in Range(list) PROVE Before(r, x, y)
  <2>1. PICK j \in 1..Len(list) : list[j] = y
    BY <1>3 DEF Range
  <2>2. r[1] = x /\ r[j + 1] = y /\ 1 < j + 1
    BY <1>1, <1>3, <2>1
  <2>3. 1 \in DOMAIN r /\ j + 1 \in DOMAIN r
    BY <1>1, <2>1
  <2> QED BY <2>2, <2>3 DEF Before
<1>4. ASSUME Before(list, x, y) PROVE Before(r, x, y)
  <2>1. PICK i, j \in 1..Len(list) : i < j /\ list[i] = x /\ list[j] = y
    BY <1>4 DEF Before
  <2>2. r[i + 1] = x /\ r[j + 1] = y /\ i + 1 < j + 1
    BY <1>1, <2>1
  <2>3. i + 1 \in DOMAIN r /\ j + 1 \in DOMAIN r
    BY <1>1, <2>1
  <2> QED BY <2>2, <2>3 DEF Before
<1> QED BY <1>2, <1>3, <1>4 DEF r

\* Unlinking keeps the order of the nodes that stay.
LEMMA BeforeUnlink ==
  ASSUME NEW S, NEW list \in Seq(S), NEW t \in Range(list), IsInjective(list), NEW x, NEW y
  PROVE  Before(Unlink(list, t), x, y) <=> x # t /\ y # t /\ Before(list, x, y)
<1> DEFINE p == Position(list, t)
           r == Unlink(list, t)
<1>1. p \in 1..Len(list) /\ list[p] = t
  BY PositionInList
<1>2. r = RemoveAt(list, p)
  BY DEF Unlink
<1> HIDE DEF p, r
<1>3. /\ r \in Seq(S)
      /\ Len(r) = Len(list) - 1
      /\ \A i \in 1..Len(r) : r[i] = IF i < p THEN list[i] ELSE list[i + 1]
  BY <1>1, <1>2, RemoveAtProperties
<1>4. \A i \in 1..Len(list) : list[i] = t <=> i = p
  BY <1>1 DEF IsInjective
<1>5. ASSUME Before(r, x, y) PROVE x # t /\ y # t /\ Before(list, x, y)
  <2>1. PICK i, j \in 1..Len(r) : i < j /\ r[i] = x /\ r[j] = y
    BY <1>3, <1>5 DEF Before
  <2>2. PICK k \in 1..Len(list) : k = (IF i < p THEN i ELSE i + 1) /\ list[k] = x
    BY <1>1, <1>3, <2>1
  <2>3. PICK l \in 1..Len(list) : l = (IF j < p THEN j ELSE j + 1) /\ list[l] = y
    BY <1>1, <1>3, <2>1
  <2>4. k < l /\ k # p /\ l # p
    BY <1>1, <1>3, <2>1, <2>2, <2>3
  <2> QED BY <1>4, <2>2, <2>3, <2>4 DEF Before
<1>6. ASSUME x # t, y # t, Before(list, x, y) PROVE Before(r, x, y)
  <2>1. PICK k, l \in 1..Len(list) : k < l /\ list[k] = x /\ list[l] = y
    BY <1>6 DEF Before
  <2>2. k # p /\ l # p
    BY <1>1, <1>6, <2>1
  <2> DEFINE i == IF k < p THEN k ELSE k - 1
             j == IF l < p THEN l ELSE l - 1
  <2>3. i \in 1..Len(r) /\ j \in 1..Len(r) /\ i < j
    BY <1>1, <1>3, <2>1, <2>2
  <2>4. r[i] = x
    <3>1. CASE k < p
      BY <1>3, <2>1, <2>3, <3>1
    <3>2. CASE k > p
      BY <1>1, <1>3, <2>1, <2>3, <3>2
    <3> QED BY <1>1, <2>2, <3>1, <3>2
  <2>5. r[j] = y
    <3>1. CASE l < p
      BY <1>3, <2>1, <2>3, <3>1
    <3>2. CASE l > p
      <4>1. j = l - 1 /\ ~(j < p) /\ j + 1 = l
        BY <1>1, <2>1, <3>2
      <4> QED BY <1>3, <2>1, <2>3, <4>1
    <3> QED BY <1>1, <2>2, <3>1, <3>2
  <2> HIDE DEF i, j
  <2> QED BY <1>3, <2>3, <2>4, <2>5 DEF Before
<1> QED BY <1>5, <1>6 DEF r

\* A node moved to the front comes before the others, which keep their order.
LEMMA BeforeToFront ==
  ASSUME NEW S, NEW list \in Seq(S), NEW t \in Range(list), IsInjective(list), NEW x, NEW y
  PROVE  Before(ToFront(list, t), x, y) <=>
           y # t /\ ((x = t /\ y \in Range(list)) \/ (x # t /\ Before(list, x, y)))
<1>1. t \in S
  BY DEF Range
<1>2. Unlink(list, t) \in Seq(S) /\ \A z : z \in Range(Unlink(list, t)) <=> z # t /\ z \in Range(list)
  BY UnlinkProperties
<1>3. Before(ToFront(list, t), x, y) <=>
        (x = t /\ y \in Range(Unlink(list, t))) \/ Before(Unlink(list, t), x, y)
  BY <1>1, <1>2, BeforeInsert DEF ToFront
<1> QED BY <1>2, <1>3, BeforeUnlink

-----------------------------------------------------------------------------
(* The inductive invariant.                                                 *)

\* With no workspace configured the windows have none, and only then.
WorkspaceKnown == \A t \in Mapped : workspace[t] = NULL <=> active_workspace = NULL

\* VisibleIffActive needs ListExact, because redrawing goes over the list;
\* FocusGivenToVisible needs WorkspaceKnown, because switch_workspace(NULL)
\* does nothing.
IInv == TypeOK /\ ListExact /\ VisibleIffActive /\ WorkspaceKnown

\* What focus_toplevel does to the lists and to what is on screen, when it is
\* called with a list that holds the window.
LEMMA FocusEffect ==
  ASSUME NEW t \in Toplevels, NEW surface, NEW list \in Seq(Toplevels),
         NEW shown \in [Toplevels -> BOOLEAN],
         t \in Range(list), IsInjective(list), TypeOK,
         t \in Range(stack), IsInjective(stack),
         workspace' \in [Toplevels -> Workspaces \cup {NULL}],
         FocusToplevel(t, surface, list, shown)
  PROVE  /\ toplevels' \in Seq(Toplevels) /\ IsInjective(toplevels')
         /\ \A x : x \in Range(toplevels') <=> x \in Range(list)
         /\ stack' \in Seq(Toplevels) /\ IsInjective(stack')
         /\ \A x : x \in Range(stack') <=> x \in Range(stack)
         /\ active_workspace' \in Workspaces \cup {NULL}
         /\ enabled' \in [Toplevels -> BOOLEAN]
         /\ activated' \in [Toplevels -> BOOLEAN]
         /\ focused_surface' \in Toplevels \cup {NULL}
<1>1. CASE HasKeyboardFocus(surface)
  BY <1>1 DEF FocusToplevel, TypeOK
<1>2. CASE ~HasKeyboardFocus(surface)
  <2>1. /\ SwitchWorkspace(workspace'[t], list, shown)
        /\ stack' = ToFront(stack, t)
        /\ toplevels' = ToFront(list, t)
        /\ activated' = Activated(t)
        /\ focused_surface' = KeyboardEnter(t, surface)
    BY <1>2 DEF FocusToplevel
  <2>2. active_workspace' \in Workspaces \cup {NULL} /\ enabled' \in [Toplevels -> BOOLEAN]
    BY <2>1 DEF SwitchWorkspace, Redrawn, TypeOK
  <2>3. activated' \in [Toplevels -> BOOLEAN] /\ focused_surface' \in Toplevels \cup {NULL}
    BY <2>1 DEF Activated, KeyboardEnter, TypeOK
  <2>4. stack \in Seq(Toplevels)
    BY DEF TypeOK
  <2> QED BY <2>1, <2>2, <2>3, <2>4, ToFrontProperties
<1> QED BY <1>1, <1>2

\* focus_toplevel keeps on screen what belongs there.
LEMMA FocusRedraws ==
  ASSUME NEW t \in Toplevels, NEW surface, NEW list \in Seq(Toplevels),
         NEW shown \in [Toplevels -> BOOLEAN],
         \A x \in Toplevels : shown[x] <=> x \in Range(list) /\ workspace'[x] = active_workspace,
         \A x \in Toplevels : x \in Range(list) =>
           (workspace'[x] = NULL <=> active_workspace = NULL),
         t \in Range(list),
         FocusToplevel(t, surface, list, shown)
  PROVE  /\ \A x \in Toplevels :
              enabled'[x] <=> x \in Range(list) /\ workspace'[x] = active_workspace'
         /\ active_workspace' = NULL <=> active_workspace = NULL
         /\ ~HasKeyboardFocus(surface) => workspace'[t] = active_workspace'
<1>1. CASE HasKeyboardFocus(surface)
  BY <1>1 DEF FocusToplevel
<1>2. CASE ~HasKeyboardFocus(surface) /\ workspace'[t] = NULL
  BY <1>2 DEF FocusToplevel, SwitchWorkspace
<1>3. CASE ~HasKeyboardFocus(surface) /\ workspace'[t] # NULL
  <2>1. active_workspace' = workspace'[t] /\ enabled' = Redrawn(list, workspace'[t], shown)
    BY <1>3 DEF FocusToplevel, SwitchWorkspace
  <2> QED BY <1>3, <2>1 DEF Redrawn
<1> QED BY <1>1, <1>2, <1>3

-----------------------------------------------------------------------------

THEOREM InitIInv == Init => IInv
<1> SUFFICES ASSUME Init PROVE IInv
  OBVIOUS
<1> USE DeviceAssumption, DesktopAssumption
<1>1. TypeOK
  BY DEF Init, DeviceInit, TypeOK, DeviceTypeOK, Phases
<1>2. ListExact
  BY DEF Init, ListExact, Mapped, Exists, Range, IsInjective
<1>3. VisibleIffActive /\ WorkspaceKnown
  BY DEF Init, VisibleIffActive, WorkspaceKnown, Mapped
<1> QED BY <1>1, <1>2, <1>3 DEF IInv

\* Each step of a client keeps the invariant.
LEMMA ClientKeepsIInv ==
  ASSUME IInv, ClientNext, UNCHANGED deviceVars
  PROVE  IInv'
<1> USE DEF IInv
<1>1. DeviceTypeOK'
  BY DEF TypeOK, DeviceTypeOK, deviceVars
<1>2. /\ \A x : x \in Range(toplevels) <=> x \in Mapped
      /\ \A x : x \in Range(stack) <=> x \in Toplevels /\ Exists(x)
      /\ IsInjective(toplevels) /\ IsInjective(stack)
      /\ toplevels \in Seq(Toplevels) /\ stack \in Seq(Toplevels)
  BY DEF ListExact, TypeOK
<1>3. PICK t \in Toplevels :
        \/ NewToplevel(t) \/ ToplevelMap(t) \/ ToplevelUnmap(t)
        \/ ToplevelDestroy(t) \/ SurfaceDestroy(t)
        \/ \E mode \in {"move", "resize"} : BeginInteractive(t, mode)
  BY DEF ClientNext
<1>4. CASE NewToplevel(t)
  <2>1. /\ Insert(stack, t) \in Seq(Toplevels) /\ IsInjective(Insert(stack, t))
        /\ \A x : x \in Range(Insert(stack, t)) <=> x = t \/ x \in Range(stack)
    BY <1>2, <1>4, InsertProperties DEF NewToplevel, Exists
  <2>2. TypeOK'
    BY <1>1, <1>4, <2>1 DEF NewToplevel, TypeOK, Phases
  <2>3. ListExact'
    <3>1. Range(toplevels') = Mapped' /\ IsInjective(toplevels')
      BY <1>2, <1>4 DEF NewToplevel, Mapped, TypeOK
    <3>2. \A x : x \in Range(stack') <=> x \in Toplevels /\ Exists(x)'
      BY <1>2, <1>4, <2>1 DEF NewToplevel, Exists, TypeOK
    <3> QED BY <1>4, <2>1, <3>1, <3>2 DEF NewToplevel, ListExact
  <2>4. VisibleIffActive' /\ WorkspaceKnown'
    BY <1>4 DEF NewToplevel, VisibleIffActive, WorkspaceKnown, Mapped, TypeOK
  <2> QED BY <2>2, <2>3, <2>4
<1>5. CASE ToplevelMap(t)
  <2> DEFINE list == Insert(toplevels, t)
             shown == [enabled EXCEPT ![t] = TRUE]
  <2>1. /\ list \in Seq(Toplevels) /\ IsInjective(list)
        /\ \A x : x \in Range(list) <=> x = t \/ x \in Mapped
    BY <1>2, <1>5, InsertProperties DEF ToplevelMap, Mapped
  <2>2. /\ phase' = [phase EXCEPT ![t] = "mapped"] /\ phase[t] = "unmapped"
        /\ workspace' = [workspace EXCEPT ![t] = active_workspace]
        /\ FocusToplevel(t, MainSurface(t), list, shown)
        /\ UNCHANGED <<pointer_surface, cursor_mode, grabbed_toplevel>>
    BY <1>5 DEF ToplevelMap
  <2>3. /\ shown \in [Toplevels -> BOOLEAN]
        /\ workspace' \in [Toplevels -> Workspaces \cup {NULL}]
        /\ t \in Range(list) /\ t \in Range(stack)
    BY <1>2, <2>1, <2>2 DEF TypeOK, Exists
  <2>4. \A x \in Toplevels :
          /\ shown[x] <=> x \in Range(list) /\ workspace'[x] = active_workspace
          /\ x \in Range(list) => (workspace'[x] = NULL <=> active_workspace = NULL)
    BY <2>1, <2>2 DEF VisibleIffActive, WorkspaceKnown, TypeOK, Mapped
  <2> HIDE DEF list, shown
  <2>5. /\ toplevels' \in Seq(Toplevels) /\ IsInjective(toplevels')
        /\ \A x : x \in Range(toplevels') <=> x \in Range(list)
        /\ stack' \in Seq(Toplevels) /\ IsInjective(stack')
        /\ \A x : x \in Range(stack') <=> x \in Range(stack)
        /\ active_workspace' \in Workspaces \cup {NULL}
        /\ enabled' \in [Toplevels -> BOOLEAN]
        /\ activated' \in [Toplevels -> BOOLEAN]
        /\ focused_surface' \in Toplevels \cup {NULL}
    BY <1>2, <2>1, <2>2, <2>3, FocusEffect
  <2>6. /\ \A x \in Toplevels :
             enabled'[x] <=> x \in Range(list) /\ workspace'[x] = active_workspace'
        /\ active_workspace' = NULL <=> active_workspace = NULL
    BY <2>1, <2>2, <2>3, <2>4, FocusRedraws
  <2>7. \A x : x \in Range(list) <=> x \in Mapped'
    BY <2>1, <2>2 DEF Mapped, TypeOK
  <2>8. TypeOK'
    BY <1>1, <2>2, <2>3, <2>5 DEF TypeOK, Phases
  <2>9. ListExact'
    <3>1. \A x : x \in Range(stack') <=> x \in Toplevels /\ Exists(x)'
      BY <1>2, <2>2, <2>5 DEF Exists, TypeOK
    <3> QED BY <2>5, <2>7, <3>1 DEF ListExact
  <2>10. VisibleIffActive' /\ WorkspaceKnown'
    BY <2>4, <2>6, <2>7 DEF VisibleIffActive, WorkspaceKnown, Mapped
  <2> QED BY <2>8, <2>9, <2>10
<1>6. CASE ToplevelUnmap(t)
  <2>1. /\ Unlink(toplevels, t) \in Seq(Toplevels) /\ IsInjective(Unlink(toplevels, t))
        /\ \A x : x \in Range(Unlink(toplevels, t)) <=> x # t /\ x \in Mapped
    BY <1>2, <1>6, UnlinkProperties DEF ToplevelUnmap, Mapped
  <2>2. TypeOK'
    BY <1>1, <1>6, <2>1 DEF ToplevelUnmap, ResetCursorMode, TypeOK, Phases
  <2>3. ListExact'
    <3>1. \A x : x \in Range(toplevels') <=> x \in Mapped'
      BY <1>6, <2>1 DEF ToplevelUnmap, Mapped, TypeOK
    <3>2. Range(stack') = {x \in Toplevels : Exists(x)}' /\ IsInjective(stack')
      BY <1>2, <1>6 DEF ToplevelUnmap, Exists, TypeOK
    <3> QED BY <1>6, <2>1, <3>1, <3>2 DEF ToplevelUnmap, ListExact
  <2>4. VisibleIffActive' /\ WorkspaceKnown'
    BY <1>6 DEF ToplevelUnmap, VisibleIffActive, WorkspaceKnown, Mapped, TypeOK
  <2> QED BY <2>2, <2>3, <2>4
<1>7. CASE ToplevelDestroy(t)
  <2>1. /\ Unlink(stack, t) \in Seq(Toplevels) /\ IsInjective(Unlink(stack, t))
        /\ \A x : x \in Range(Unlink(stack, t)) <=> x # t /\ x \in Range(stack)
    BY <1>2, <1>7, UnlinkProperties DEF ToplevelDestroy, Exists
  <2>2. TypeOK'
    BY <1>1, <1>7, <2>1 DEF ToplevelDestroy, TypeOK, Phases
  <2>3. ListExact'
    <3>1. Range(toplevels') = Mapped' /\ IsInjective(toplevels')
      BY <1>2, <1>7 DEF ToplevelDestroy, Mapped, TypeOK
    <3>2. \A x : x \in Range(stack') <=> x \in Toplevels /\ Exists(x)'
      BY <1>2, <1>7, <2>1 DEF ToplevelDestroy, Exists, TypeOK
    <3> QED BY <1>7, <2>1, <3>1, <3>2 DEF ToplevelDestroy, ListExact
  <2>4. VisibleIffActive' /\ WorkspaceKnown'
    BY <1>7 DEF ToplevelDestroy, VisibleIffActive, WorkspaceKnown, Mapped, TypeOK
  <2> QED BY <2>2, <2>3, <2>4
<1>8. CASE SurfaceDestroy(t)
  <2>1. TypeOK'
    BY <1>1, <1>8 DEF SurfaceDestroy, TypeOK, Phases
  <2>2. ListExact'
    BY <1>2, <1>8 DEF SurfaceDestroy, ListExact, Mapped, Exists, TypeOK
  <2>3. VisibleIffActive' /\ WorkspaceKnown'
    BY <1>8 DEF SurfaceDestroy, VisibleIffActive, WorkspaceKnown, Mapped, TypeOK
  <2> QED BY <2>1, <2>2, <2>3
<1>9. ASSUME NEW mode \in {"move", "resize"}, BeginInteractive(t, mode) PROVE IInv'
  BY <1>1, <1>9 DEF BeginInteractive, TypeOK, ListExact, VisibleIffActive, WorkspaceKnown,
                    Mapped, Exists
<1> QED BY <1>3, <1>4, <1>5, <1>6, <1>7, <1>8, <1>9

\* focus_toplevel of a mapped window keeps the invariant: a click, or
\* `window switch`.
LEMMA FocusKeepsIInv ==
  ASSUME IInv, NEW t \in Mapped, NEW surface,
         UNCHANGED <<phase, workspace, pointer_surface, cursor_mode, grabbed_toplevel>>,
         FocusToplevel(t, surface, toplevels, enabled), UNCHANGED deviceVars
  PROVE  IInv'
<1> USE DEF IInv
<1>1. /\ \A x : x \in Range(toplevels) <=> x \in Mapped
      /\ \A x : x \in Range(stack) <=> x \in Toplevels /\ Exists(x)
      /\ IsInjective(toplevels) /\ IsInjective(stack)
      /\ toplevels \in Seq(Toplevels) /\ stack \in Seq(Toplevels)
  BY DEF ListExact, TypeOK
<1>2. /\ t \in Toplevels /\ t \in Range(toplevels) /\ t \in Range(stack)
      /\ enabled \in [Toplevels -> BOOLEAN]
      /\ workspace' \in [Toplevels -> Workspaces \cup {NULL}]
  BY <1>1 DEF Mapped, Exists, TypeOK
<1>3. \A x \in Toplevels :
        /\ enabled[x] <=> x \in Range(toplevels) /\ workspace'[x] = active_workspace
        /\ x \in Range(toplevels) => (workspace'[x] = NULL <=> active_workspace = NULL)
  BY <1>1 DEF VisibleIffActive, WorkspaceKnown
<1>4. /\ toplevels' \in Seq(Toplevels) /\ IsInjective(toplevels')
      /\ \A x : x \in Range(toplevels') <=> x \in Range(toplevels)
      /\ stack' \in Seq(Toplevels) /\ IsInjective(stack')
      /\ \A x : x \in Range(stack') <=> x \in Range(stack)
      /\ active_workspace' \in Workspaces \cup {NULL}
      /\ enabled' \in [Toplevels -> BOOLEAN]
      /\ activated' \in [Toplevels -> BOOLEAN]
      /\ focused_surface' \in Toplevels \cup {NULL}
  BY <1>1, <1>2, FocusEffect
<1>5. /\ \A x \in Toplevels :
           enabled'[x] <=> x \in Range(toplevels) /\ workspace'[x] = active_workspace'
      /\ active_workspace' = NULL <=> active_workspace = NULL
  BY <1>1, <1>2, <1>3, FocusRedraws
<1>6. TypeOK'
  BY <1>4 DEF TypeOK, DeviceTypeOK, deviceVars
<1>7. ListExact'
  <2>1. Mapped' = Mapped /\ \A x : Exists(x)' <=> Exists(x)
    BY DEF Mapped, Exists
  <2> QED BY <1>1, <1>4, <2>1 DEF ListExact
<1>8. VisibleIffActive' /\ WorkspaceKnown'
  BY <1>1, <1>3, <1>5 DEF VisibleIffActive, WorkspaceKnown, Mapped
<1> QED BY <1>6, <1>7, <1>8

\* `window switch` picks a mapped window.
LEMMA NextWindowMapped ==
  ASSUME IInv, WindowSwitch
  PROVE  NextWindow \in Mapped
<1>1. toplevels \in Seq(Toplevels) /\ Len(toplevels) \in 1..Len(toplevels)
  BY DEF WindowSwitch, IInv, TypeOK
<1>2. NextWindow \in Range(toplevels)
  BY <1>1 DEF NextWindow, Last, Range
<1> QED BY <1>2 DEF IInv, ListExact

\* Each step of the user keeps the invariant.
LEMMA UserKeepsIInv ==
  ASSUME IInv, UserNext, UNCHANGED deviceVars
  PROVE  IInv'
<1> USE DesktopAssumption
<1>1. CASE CursorMotion
  <2>1. TypeOK'
    BY <1>1 DEF IInv, CursorMotion, TypeOK, Surfaces, Visible, Mapped, DeviceTypeOK, deviceVars
  <2> QED BY <1>1, <2>1 DEF IInv, CursorMotion, ListExact, VisibleIffActive, WorkspaceKnown,
                            Mapped, Exists
<1>2. ASSUME NEW t \in Toplevels, NEW kind \in SurfaceKinds, ButtonPress(t, kind) PROVE IInv'
  BY <1>2, FocusKeepsIInv DEF ButtonPress, Visible
<1>3. CASE ButtonRelease
  BY <1>3 DEF IInv, ButtonRelease, ResetCursorMode, TypeOK, DeviceTypeOK, deviceVars,
              ListExact, VisibleIffActive, WorkspaceKnown, Mapped, Exists
<1>4. CASE WindowSwitch
  BY <1>4, NextWindowMapped, FocusKeepsIInv DEF WindowSwitch
<1>5. ASSUME NEW w \in Workspaces, WorkspaceSwitch(w) PROVE IInv'
  <2>1. /\ w # NULL /\ active_workspace # NULL
        /\ active_workspace' = w
        /\ enabled' = Redrawn(toplevels, w, enabled)
        /\ UNCHANGED <<phase, workspace, toplevels, stack, focused_surface, activated,
                       pointer_surface, cursor_mode, grabbed_toplevel>>
    BY <1>5 DEF WorkspaceSwitch, SwitchWorkspace
  <2>2. TypeOK'
    BY <2>1 DEF IInv, TypeOK, DeviceTypeOK, deviceVars, Redrawn
  <2>3. ListExact'
    BY <2>1 DEF IInv, ListExact, Mapped, Exists
  <2>4. VisibleIffActive'
    <3>1. \A t : t \in Range(toplevels) <=> t \in Mapped
      BY DEF IInv, ListExact
    <3> QED BY <2>1, <3>1 DEF IInv, VisibleIffActive, Redrawn, Mapped
  <2>5. WorkspaceKnown'
    BY <2>1 DEF IInv, WorkspaceKnown, Mapped
  <2> QED BY <2>2, <2>3, <2>4, <2>5 DEF IInv
<1> QED BY <1>1, <1>2, <1>3, <1>4, <1>5 DEF UserNext

\* Each step of the devices keeps the invariant.
LEMMA DevicesKeepIInv ==
  ASSUME IInv, DeviceNext, UNCHANGED desktopVars
  PROVE  IInv'
<1>1. DeviceTypeOK'
  BY DEF IInv, TypeOK, DeviceTypeOK, DeviceNext, NewPointer, NewKeyboard, KeyboardDestroy,
         UseKeyboard, HasKeyboard
<1> QED BY <1>1 DEF IInv, desktopVars, TypeOK, ListExact, VisibleIffActive, WorkspaceKnown,
                    Mapped, Exists

THEOREM NextIInv == IInv /\ [Next]_vars => IInv'
<1> SUFFICES ASSUME IInv, [Next]_vars PROVE IInv'
  OBVIOUS
<1>1. CASE (ClientNext \/ UserNext) /\ UNCHANGED deviceVars
  BY <1>1, ClientKeepsIInv, UserKeepsIInv
<1>2. CASE DeviceNext /\ UNCHANGED desktopVars
  BY <1>2, DevicesKeepIInv
<1>3. CASE UNCHANGED vars
  BY <1>3 DEF vars, deviceVars, desktopVars, IInv, TypeOK, DeviceTypeOK, ListExact,
              VisibleIffActive, WorkspaceKnown, Mapped, Exists
<1> QED BY <1>1, <1>2, <1>3 DEF Next

\* The inductive invariant holds of every state.
THEOREM Invariance == Spec => []IInv
BY InitIInv, NextIInv, PTL DEF Spec

\* Every variable keeps its type.
THEOREM TypeCorrect == Spec => []TypeOK
BY Invariance, PTL DEF IInv

\* server.toplevels holds the mapped windows, each once, and the scene the
\* existing ones, whatever the clients, the user and the devices do.
THEOREM ListsAreExact == Spec => []ListExact
BY Invariance, PTL DEF IInv

\* What is on screen is what is mapped on the active workspace.
THEOREM ScreenIsCurrent == Spec => []VisibleIffActive
BY Invariance, PTL DEF IInv

-----------------------------------------------------------------------------
(* Who is given the keyboard.                                               *)

\* focus_toplevel hands the keyboard to its window or leaves it where it was;
\* in the first case the window is in front, on screen and activated.
LEMMA FocusGives ==
  ASSUME NEW t \in Toplevels, NEW surface, NEW list \in Seq(Toplevels),
         NEW shown \in [Toplevels -> BOOLEAN],
         t \in Range(list), IsInjective(list),
         \A x \in Toplevels : shown[x] <=> x \in Range(list) /\ workspace'[x] = active_workspace,
         \A x \in Toplevels : x \in Range(list) =>
           (workspace'[x] = NULL <=> active_workspace = NULL),
         FocusToplevel(t, surface, list, shown),
         focused_surface' # focused_surface
  PROVE  /\ focused_surface' = t
         /\ enabled'[t] /\ activated'[t] /\ t = Head(toplevels')
<1>1. /\ ~HasKeyboardFocus(surface)
      /\ toplevels' = ToFront(list, t)
      /\ activated' = Activated(t)
      /\ focused_surface' = KeyboardEnter(t, surface)
  BY DEF FocusToplevel
<1>2. focused_surface' = t /\ activated'[t]
  BY <1>1 DEF KeyboardEnter, Activated
<1>3. t = Head(toplevels')
  BY <1>1, ToFrontProperties
<1>4. enabled'[t]
  BY <1>1, FocusRedraws
<1> QED BY <1>2, <1>3, <1>4

\* Whoever newly gets the keyboard is on screen, in front and activated.
THEOREM KeyboardGoesToVisible == Spec => FocusGivenToVisible
<1> DEFINE Given == focused_surface' \notin {focused_surface, NULL} =>
                      /\ enabled'[focused_surface']
                      /\ activated'[focused_surface']
                      /\ focused_surface' = Head(toplevels')
<1>1. ASSUME IInv, [Next]_vars PROVE [Given]_vars
  <2>1. SUFFICES ASSUME Next, focused_surface' # focused_surface, focused_surface' # NULL
                 PROVE  Given
    BY <1>1
  <2>2. ClientNext \/ UserNext
    BY <2>1 DEF Next, desktopVars
  <2>3. /\ \A x : x \in Range(toplevels) <=> x \in Mapped
        /\ IsInjective(toplevels) /\ toplevels \in Seq(Toplevels)
    BY <1>1 DEF IInv, ListExact, TypeOK
  <2>4. ASSUME NEW t \in Mapped, NEW surface, UNCHANGED workspace,
               FocusToplevel(t, surface, toplevels, enabled)
        PROVE  Given
    <3>1. t \in Toplevels /\ t \in Range(toplevels) /\ enabled \in [Toplevels -> BOOLEAN]
      BY <1>1, <2>3 DEF Mapped, IInv, TypeOK
    <3>2. \A x \in Toplevels :
            /\ enabled[x] <=> x \in Range(toplevels) /\ workspace'[x] = active_workspace
            /\ x \in Range(toplevels) => (workspace'[x] = NULL <=> active_workspace = NULL)
      BY <1>1, <2>3, <2>4 DEF IInv, VisibleIffActive, WorkspaceKnown
    <3>3. /\ focused_surface' = t
          /\ enabled'[t] /\ activated'[t] /\ t = Head(toplevels')
      BY <2>1, <2>3, <2>4, <3>1, <3>2, FocusGives
    <3> QED BY <3>3
  <2>5. ASSUME NEW t \in Toplevels, ToplevelMap(t) PROVE Given
    <3> DEFINE list == Insert(toplevels, t)
               shown == [enabled EXCEPT ![t] = TRUE]
    <3>1. /\ list \in Seq(Toplevels) /\ IsInjective(list)
          /\ \A x : x \in Range(list) <=> x = t \/ x \in Mapped
      BY <2>3, <2>5, InsertProperties DEF ToplevelMap, Mapped
    <3>2. /\ t \in Range(list) /\ shown \in [Toplevels -> BOOLEAN]
          /\ FocusToplevel(t, MainSurface(t), list, shown)
      BY <1>1, <2>5, <3>1 DEF ToplevelMap, IInv, TypeOK
    <3>3. \A x \in Toplevels :
            /\ shown[x] <=> x \in Range(list) /\ workspace'[x] = active_workspace
            /\ x \in Range(list) => (workspace'[x] = NULL <=> active_workspace = NULL)
      BY <1>1, <2>5, <3>1 DEF ToplevelMap, IInv, VisibleIffActive, WorkspaceKnown, TypeOK, Mapped
    <3> HIDE DEF list, shown
    <3>4. /\ focused_surface' = t
          /\ enabled'[t] /\ activated'[t] /\ t = Head(toplevels')
      BY <2>1, <3>1, <3>2, <3>3, FocusGives
    <3> QED BY <3>4
  <2>6. CASE ClientNext
    BY <1>1, <2>1, <2>5, <2>6 DEF ClientNext, NewToplevel, ToplevelUnmap, ToplevelDestroy,
       SurfaceDestroy, BeginInteractive
  <2>7. CASE UserNext
    <3>1. ASSUME NEW t \in Toplevels, NEW kind \in SurfaceKinds, ButtonPress(t, kind) PROVE Given
      BY <2>4, <3>1 DEF ButtonPress, Visible
    <3>2. CASE WindowSwitch
      BY <1>1, <2>4, <3>2, NextWindowMapped DEF WindowSwitch
    <3> QED BY <2>1, <2>7, <3>1, <3>2 DEF UserNext, CursorMotion, ButtonRelease, WorkspaceSwitch
  <2> QED BY <2>2, <2>6, <2>7
<1> QED BY <1>1, Invariance, PTL DEF Spec, FocusGivenToVisible

\* A map keeps the active workspace: the window is put on it first.
LEMMA MapKeepsWorkspace ==
  ASSUME IInv, NEW t \in Toplevels, ToplevelMap(t)
  PROVE  active_workspace' = active_workspace
<1>1. /\ workspace' = [workspace EXCEPT ![t] = active_workspace]
      /\ FocusToplevel(t, MainSurface(t), Insert(toplevels, t), [enabled EXCEPT ![t] = TRUE])
  BY DEF ToplevelMap
<1>2. workspace'[t] = active_workspace
  BY <1>1 DEF IInv, TypeOK
<1> QED BY <1>1, <1>2 DEF FocusToplevel, SwitchWorkspace

\* A click keeps it: what is under the pointer is on screen.
LEMMA ClickKeepsWorkspace ==
  ASSUME IInv, NEW t \in Toplevels, NEW kind, ButtonPress(t, kind)
  PROVE  active_workspace' = active_workspace
<1>1. workspace'[t] = active_workspace
  BY DEF ButtonPress, Visible, IInv, VisibleIffActive
<1> QED BY <1>1 DEF ButtonPress, FocusToplevel, SwitchWorkspace

\* Neither a client nor a click takes the user to another workspace.
THEOREM CommandsSwitch == Spec => OnlyCommandsSwitch
<1> DEFINE Switched == active_workspace' # active_workspace =>
                         WindowSwitch \/ \E w \in Workspaces : WorkspaceSwitch(w)
<1>1. ASSUME IInv, [Next]_vars PROVE [Switched]_vars
  <2>1. SUFFICES ASSUME Next, active_workspace' # active_workspace
                 PROVE  WindowSwitch \/ \E w \in Workspaces : WorkspaceSwitch(w)
    BY <1>1
  <2>2. ClientNext \/ UserNext
    BY <2>1 DEF Next, desktopVars
  <2>3. ~ClientNext
    BY <1>1, <2>1, MapKeepsWorkspace DEF ClientNext, NewToplevel, ToplevelUnmap,
       ToplevelDestroy, SurfaceDestroy, BeginInteractive
  <2>4. ~CursorMotion /\ ~ButtonRelease
    BY <2>1 DEF CursorMotion, ButtonRelease
  <2>5. \A t \in Toplevels, kind \in SurfaceKinds : ~ButtonPress(t, kind)
    BY <1>1, <2>1, ClickKeepsWorkspace
  <2> QED BY <2>2, <2>3, <2>4, <2>5 DEF UserNext
<1> QED BY <1>1, Invariance, PTL DEF Spec, OnlyCommandsSwitch

-----------------------------------------------------------------------------
(* The devices.                                                             *)

\* Clients know of a keyboard whenever there is one, plugged and unplugged in
\* any order.
THEOREM KeyboardIsAdvertised == Spec => []KeyboardAdvertised
<1>1. Init => KeyboardAdvertised
  BY DEF Init, DeviceInit, KeyboardAdvertised
<1>2. ASSUME KeyboardAdvertised, [Next]_vars PROVE KeyboardAdvertised'
  <2>1. CASE UNCHANGED deviceVars
    BY <1>2, <2>1 DEF deviceVars, KeyboardAdvertised
  <2>2. CASE NewPointer
    BY <2>2 DEF NewPointer, HasKeyboard, KeyboardAdvertised
  <2>3. ASSUME NEW k \in Keyboards, NewKeyboard(k) \/ KeyboardDestroy(k) \/ UseKeyboard(k)
        PROVE  KeyboardAdvertised'
    BY <1>2, <2>3 DEF NewKeyboard, KeyboardDestroy, UseKeyboard, HasKeyboard, KeyboardAdvertised
  <2> QED BY <1>2, <2>1, <2>2, <2>3 DEF Next, DeviceNext, vars
<1> QED BY <1>1, <1>2, PTL DEF Spec

-----------------------------------------------------------------------------
(* With a keyboard throughout.                                              *)

\* The backend finds a keyboard and none is ever unplugged.
Steady == InitialKeyboards # {} /\ ~Unplugging

\* A window that has the keyboard has been created and its surface lives.
FocusedLives ==
  \A t \in Toplevels : t = focused_surface => phase[t] \in {"unmapped", "mapped", "destroyed"}

\* FocusIsHead and ActivatedIsFocused need the seat to have a keyboard: only
\* then does focus_toplevel move the keyboard with the window.
SteadyInv == seat_keyboard # NULL /\ FocusedLives /\ FocusIsHead /\ ActivatedIsFocused

\* focus_toplevel, called with the window the keyboard is on at the head of
\* the list or with the window it is to go to.
LEMMA FocusKeepsHead ==
  ASSUME TypeOK, seat_keyboard # NULL, ActivatedIsFocused,
         NEW t \in Toplevels, NEW kind, NEW list \in Seq(Toplevels), NEW shown,
         t \in Range(list), IsInjective(list),
         HasKeyboardFocus(<<t, kind>>) => t = Head(list),
         FocusToplevel(t, <<t, kind>>, list, shown),
         phase'[t] = "mapped",
         \A x \in Toplevels : x # t => phase'[x] = phase[x]
  PROVE  /\ focused_surface' = t
         /\ t = Head(toplevels')
         /\ activated[t] \/ ~HasKeyboardFocus(<<t, kind>>) => ActivatedIsFocused'
<1> USE DesktopAssumption
<1>1. CASE HasKeyboardFocus(<<t, kind>>)
  <2>1. t = focused_surface
    BY <1>1 DEF HasKeyboardFocus, MainSurface
  <2> QED BY <1>1, <2>1 DEF FocusToplevel, ActivatedIsFocused, Exists
<1>2. CASE ~HasKeyboardFocus(<<t, kind>>)
  <2>1. /\ toplevels' = ToFront(list, t)
        /\ activated' = Activated(t)
        /\ focused_surface' = t
    BY <1>2 DEF FocusToplevel, KeyboardEnter
  <2>2. t = Head(toplevels')
    BY <2>1, ToFrontProperties
  <2>3. ActivatedIsFocused'
    BY <2>1 DEF ActivatedIsFocused, Activated, Exists, TypeOK
  <2> QED BY <2>1, <2>2, <2>3
<1> QED BY <1>1, <1>2

LEMMA SteadyStep ==
  ASSUME Steady, IInv, SteadyInv, [Next]_vars
  PROVE  SteadyInv'
<1> USE DesktopAssumption
<1>1. /\ TypeOK /\ seat_keyboard # NULL /\ FocusedLives /\ FocusIsHead /\ ActivatedIsFocused
      /\ \A x : x \in Range(toplevels) <=> x \in Mapped
      /\ IsInjective(toplevels) /\ toplevels \in Seq(Toplevels)
  BY DEF IInv, SteadyInv, ListExact, TypeOK
<1>2. seat_keyboard' # NULL
  <2>1. CASE UNCHANGED deviceVars
    BY <1>1, <2>1 DEF deviceVars
  <2>2. CASE DeviceNext
    BY <1>1, <2>2, DeviceAssumption DEF Steady, DeviceNext, NewPointer, NewKeyboard,
       KeyboardDestroy, UseKeyboard
  <2> QED BY <2>1, <2>2 DEF Next, vars
<1>3. ASSUME NEW t \in Mapped, NEW kind, UNCHANGED phase,
             FocusToplevel(t, <<t, kind>>, toplevels, enabled)
      PROVE  SteadyInv'
  <2>1. HasKeyboardFocus(<<t, kind>>) => t = focused_surface /\ t = Head(toplevels) /\ activated[t]
    BY <1>1, <1>3 DEF HasKeyboardFocus, MainSurface, FocusIsHead, ActivatedIsFocused, Mapped, Exists
  <2>2. focused_surface' = t /\ t = Head(toplevels') /\ ActivatedIsFocused'
    BY <1>1, <1>3, <2>1, FocusKeepsHead DEF Mapped
  <2> QED BY <1>2, <1>3, <2>2 DEF SteadyInv, FocusedLives, FocusIsHead, Mapped
<1>4. ASSUME NEW t \in Toplevels, NewToplevel(t) PROVE SteadyInv'
  <2>1. focused_surface # t
    BY <1>1, <1>4 DEF NewToplevel, FocusedLives
  <2> QED BY <1>1, <1>2, <1>4, <2>1 DEF NewToplevel, SteadyInv, FocusedLives, FocusIsHead,
          ActivatedIsFocused, Mapped, Exists, TypeOK
<1>5. ASSUME NEW t \in Toplevels, ToplevelMap(t) PROVE SteadyInv'
  <2> DEFINE list == Insert(toplevels, t)
  <2>1. list \in Seq(Toplevels) /\ IsInjective(list) /\ t \in Range(list) /\ t = Head(list)
    BY <1>1, <1>5, InsertProperties DEF ToplevelMap, Mapped
  <2>2. /\ FocusToplevel(t, <<t, "main">>, list, [enabled EXCEPT ![t] = TRUE])
        /\ phase[t] = "unmapped" /\ phase' = [phase EXCEPT ![t] = "mapped"]
    BY <1>5 DEF ToplevelMap, MainSurface
  <2>3. phase'[t] = "mapped" /\ \A x \in Toplevels : x # t => phase'[x] = phase[x]
    BY <1>1, <2>2 DEF TypeOK
  <2>4. HasKeyboardFocus(<<t, "main">>) => activated[t]
    BY <1>1, <2>2 DEF HasKeyboardFocus, MainSurface, ActivatedIsFocused, Exists
  <2> HIDE DEF list
  <2>5. focused_surface' = t /\ t = Head(toplevels') /\ ActivatedIsFocused'
    BY <1>1, <2>1, <2>2, <2>3, <2>4, FocusKeepsHead
  <2> QED BY <1>2, <2>3, <2>5 DEF SteadyInv, FocusedLives, FocusIsHead
<1>6. ASSUME NEW t \in Toplevels, ToplevelUnmap(t) PROVE SteadyInv'
  <2>1. /\ phase[t] = "mapped" /\ phase' = [phase EXCEPT ![t] = "unmapped"]
        /\ toplevels' = Unlink(toplevels, t)
        /\ UNCHANGED <<activated, focused_surface>>
    BY <1>6 DEF ToplevelUnmap
  <2>2. t \in Range(toplevels)
    BY <1>1, <2>1 DEF Mapped
  <2>3. FocusIsHead'
    <3>1. SUFFICES ASSUME focused_surface \in Mapped, focused_surface # t
                   PROVE  focused_surface = Head(toplevels')
      BY <1>1, <2>1 DEF FocusIsHead, Mapped, TypeOK
    <3>2. Head(toplevels) = focused_surface
      BY <1>1, <3>1 DEF FocusIsHead
    <3>3. focused_surface \in Range(Unlink(toplevels, t))
      BY <1>1, <2>2, <3>1, UnlinkProperties
    <3>4. Unlink(toplevels, t) # <<>>
      BY <3>3 DEF Range
    <3> QED BY <1>1, <2>1, <2>2, <3>1, <3>2, <3>4, UnlinkProperties
  <2>4. ActivatedIsFocused' /\ FocusedLives'
    BY <1>1, <2>1 DEF ActivatedIsFocused, FocusedLives, Exists, TypeOK
  <2> QED BY <1>2, <2>3, <2>4 DEF SteadyInv
<1>7. ASSUME NEW t \in Toplevels, ToplevelDestroy(t) PROVE SteadyInv'
  BY <1>1, <1>2, <1>7 DEF ToplevelDestroy, SteadyInv, FocusedLives, FocusIsHead,
     ActivatedIsFocused, Mapped, Exists, TypeOK
<1>8. ASSUME NEW t \in Toplevels, SurfaceDestroy(t) PROVE SteadyInv'
  BY <1>1, <1>2, <1>8 DEF SurfaceDestroy, SteadyInv, FocusedLives, FocusIsHead,
     ActivatedIsFocused, Mapped, Exists, TypeOK
<1>9. CASE UNCHANGED <<phase, toplevels, focused_surface, activated>>
  BY <1>1, <1>2, <1>9 DEF SteadyInv, FocusedLives, FocusIsHead, ActivatedIsFocused, Mapped, Exists
<1>10. CASE ClientNext
  BY <1>4, <1>5, <1>6, <1>7, <1>8, <1>9, <1>10 DEF ClientNext, BeginInteractive
<1>11. CASE UserNext
  <2>1. ASSUME NEW t \in Toplevels, NEW kind \in SurfaceKinds, ButtonPress(t, kind) PROVE SteadyInv'
    BY <1>3, <2>1 DEF ButtonPress, Visible
  <2>2. CASE WindowSwitch
    BY <1>3, <2>2, NextWindowMapped DEF WindowSwitch, MainSurface
  <2> QED BY <1>9, <1>11, <2>1, <2>2 DEF UserNext, CursorMotion, ButtonRelease, WorkspaceSwitch
<1> QED BY <1>9, <1>10, <1>11 DEF Next, vars, desktopVars

THEOREM SteadyInvariance == ASSUME Steady PROVE Spec => []SteadyInv
<1>1. Init => SteadyInv
  <2> SUFFICES ASSUME Init PROVE SteadyInv
    OBVIOUS
  <2> QED BY DesktopAssumption, DeviceAssumption DEF Steady, Init, DeviceInit, SteadyInv,
          FocusedLives, FocusIsHead, ActivatedIsFocused, Mapped, Exists
<1>2. IInv /\ SteadyInv /\ [Next]_vars => SteadyInv'
  BY SteadyStep
<1> QED BY <1>1, <1>2, Invariance, PTL DEF Spec

\* With a keyboard throughout, a mapped window that has it is in front.
THEOREM FocusedWindowIsHead == ASSUME Steady PROVE Spec => []FocusIsHead
BY SteadyInvariance, PTL DEF SteadyInv

\* With a keyboard throughout, one window draws itself as active at any time,
\* and it is the one that has the keyboard.
THEOREM ActiveWindowHasKeyboard == ASSUME Steady PROVE Spec => []ActivatedIsFocused
BY SteadyInvariance, PTL DEF SteadyInv

-----------------------------------------------------------------------------
(* Two lists in one order, with a keyboard throughout.                      *)

\* The window that has the keyboard is drawn over every mapped window, even
\* while it is not mapped itself: focus_toplevel does not raise it when it is
\* mapped again.
FocusOnTop ==
  \A t \in Toplevels : t = focused_surface /\ Exists(t) =>
    \A u \in Mapped : u # t => Before(stack, t, u)

\* focus_toplevel, called for a window that is in front of the list or not yet
\* in the order, keeps the two orders one.
LEMMA FocusKeepsOrder ==
  ASSUME TypeOK, seat_keyboard # NULL,
         NEW t \in Toplevels, NEW kind, NEW list \in Seq(Toplevels), NEW shown,
         t \in Range(list), IsInjective(list),
         t \in Range(stack), IsInjective(stack),
         \A x \in Range(list) : x \in Range(stack),
         \A x, y \in Range(list) \ {t} : Before(list, x, y) <=> Before(stack, x, y),
         HasKeyboardFocus(<<t, kind>>) =>
           \A x \in Range(list) : x # t => Before(list, t, x) /\ Before(stack, t, x),
         FocusToplevel(t, <<t, kind>>, list, shown)
  PROVE  /\ focused_surface' = t
         /\ \A x, y \in Range(list) : Before(toplevels', x, y) <=> Before(stack', x, y)
         /\ \A x \in Range(list) : x # t => Before(stack', t, x)
<1>1. stack \in Seq(Toplevels)
  BY DEF TypeOK
<1>2. CASE HasKeyboardFocus(<<t, kind>>)
  <2>1. toplevels' = list /\ stack' = stack /\ focused_surface' = focused_surface
    BY <1>2 DEF FocusToplevel
  <2>2. focused_surface = t
    BY <1>2 DEF HasKeyboardFocus, MainSurface
  <2>3. \A x \in Range(list) : ~Before(list, x, t) /\ ~Before(stack, x, t)
    BY <1>1, <1>2, BeforeIsStrict
  <2>4. ~Before(list, t, t) /\ ~Before(stack, t, t)
    BY <1>1, BeforeIsStrict
  <2> QED BY <1>2, <2>1, <2>2, <2>3, <2>4
<1>3. CASE ~HasKeyboardFocus(<<t, kind>>)
  <2>1. toplevels' = ToFront(list, t) /\ stack' = ToFront(stack, t) /\ focused_surface' = t
    BY <1>3 DEF FocusToplevel, KeyboardEnter
  <2>2. ASSUME NEW x \in Range(list), NEW y \in Range(list)
        PROVE  /\ Before(toplevels', x, y) <=> y # t /\ (x = t \/ Before(list, x, y))
               /\ Before(stack', x, y) <=> y # t /\ (x = t \/ Before(stack, x, y))
    BY <1>1, <2>1, BeforeToFront
  <2> QED BY <2>1, <2>2
<1> QED BY <1>2, <1>3

LEMMA OrderStep ==
  ASSUME Steady, IInv, SteadyInv, StackFollowsList, FocusOnTop, [Next]_vars
  PROVE  StackFollowsList' /\ FocusOnTop'
<1> USE DesktopAssumption
<1>1. /\ TypeOK /\ seat_keyboard # NULL /\ FocusedLives /\ FocusIsHead
      /\ \A x : x \in Range(toplevels) <=> x \in Mapped
      /\ \A x : x \in Range(stack) <=> x \in Toplevels /\ Exists(x)
      /\ IsInjective(toplevels) /\ IsInjective(stack)
      /\ toplevels \in Seq(Toplevels) /\ stack \in Seq(Toplevels)
      /\ \A x, y \in Mapped : Before(toplevels, x, y) <=> Before(stack, x, y)
  BY DEF IInv, SteadyInv, ListExact, TypeOK, StackFollowsList
<1>2. ASSUME NEW t \in Mapped, NEW kind, UNCHANGED phase,
             FocusToplevel(t, <<t, kind>>, toplevels, enabled)
      PROVE  StackFollowsList' /\ FocusOnTop'
  <2>1. /\ t \in Toplevels /\ t \in Range(toplevels) /\ t \in Range(stack)
        /\ \A x \in Range(toplevels) : x \in Range(stack)
        /\ \A x, y \in Range(toplevels) \ {t} : Before(toplevels, x, y) <=> Before(stack, x, y)
    BY <1>1 DEF Mapped, Exists
  <2>2. HasKeyboardFocus(<<t, kind>>) =>
          \A x \in Range(toplevels) : x # t => Before(toplevels, t, x) /\ Before(stack, t, x)
    BY <1>1, <2>1 DEF HasKeyboardFocus, MainSurface, FocusOnTop, Mapped, Exists
  <2>3. /\ focused_surface' = t
        /\ \A x, y \in Range(toplevels) : Before(toplevels', x, y) <=> Before(stack', x, y)
        /\ \A x \in Range(toplevels) : x # t => Before(stack', t, x)
    BY <1>1, <1>2, <2>1, <2>2, FocusKeepsOrder
  <2>4. \A x : x \in Mapped' <=> x \in Range(toplevels)
    BY <1>1, <1>2 DEF Mapped
  <2> QED BY <2>3, <2>4 DEF StackFollowsList, FocusOnTop
<1>3. ASSUME NEW t \in Toplevels, NewToplevel(t) PROVE StackFollowsList' /\ FocusOnTop'
  <2>1. /\ phase[t] = "none" /\ phase' = [phase EXCEPT ![t] = "unmapped"]
        /\ stack' = Insert(stack, t) /\ toplevels' = toplevels
        /\ focused_surface' = focused_surface
    BY <1>3 DEF NewToplevel
  <2>2. Mapped' = Mapped /\ t \notin Mapped /\ focused_surface # t
    BY <1>1, <2>1 DEF Mapped, TypeOK, FocusedLives
  <2>3. \A x, y : Before(stack', x, y) <=> (x = t /\ y \in Range(stack)) \/ Before(stack, x, y)
    BY <1>1, <2>1, BeforeInsert
  <2>4. StackFollowsList'
    BY <1>1, <2>1, <2>2, <2>3 DEF StackFollowsList
  <2>5. \A x \in Toplevels : x # t /\ Exists(x)' => Exists(x)
    BY <1>1, <2>1 DEF Exists, TypeOK
  <2>6. FocusOnTop'
    BY <2>1, <2>2, <2>3, <2>5 DEF FocusOnTop
  <2> QED BY <2>4, <2>6
<1>4. ASSUME NEW t \in Toplevels, ToplevelMap(t) PROVE StackFollowsList' /\ FocusOnTop'
  <2> DEFINE list == Insert(toplevels, t)
  <2>1. /\ list \in Seq(Toplevels) /\ IsInjective(list)
        /\ \A x : x \in Range(list) <=> x = t \/ x \in Mapped
        /\ t \notin Mapped
    BY <1>1, <1>4, InsertProperties DEF ToplevelMap, Mapped
  <2>2. /\ FocusToplevel(t, <<t, "main">>, list, [enabled EXCEPT ![t] = TRUE])
        /\ phase[t] = "unmapped" /\ phase' = [phase EXCEPT ![t] = "mapped"]
    BY <1>4 DEF ToplevelMap, MainSurface
  <2>3. \A x, y : Before(list, x, y) <=> (x = t /\ y \in Mapped) \/ Before(toplevels, x, y)
    BY <1>1, BeforeInsert
  <2> HIDE DEF list
  <2>4. /\ t \in Range(stack)
        /\ \A x \in Range(list) : x \in Range(stack)
        /\ \A x, y \in Range(list) \ {t} : Before(list, x, y) <=> Before(stack, x, y)
    BY <1>1, <2>1, <2>2, <2>3 DEF Mapped, Exists
  <2>5. HasKeyboardFocus(<<t, "main">>) =>
          \A x \in Range(list) : x # t => Before(list, t, x) /\ Before(stack, t, x)
    BY <2>1, <2>2, <2>3 DEF HasKeyboardFocus, MainSurface, FocusOnTop, Exists
  <2>6. /\ focused_surface' = t
        /\ \A x, y \in Range(list) : Before(toplevels', x, y) <=> Before(stack', x, y)
        /\ \A x \in Range(list) : x # t => Before(stack', t, x)
    BY <1>1, <2>1, <2>2, <2>4, <2>5, FocusKeepsOrder
  <2>7. \A x : x \in Mapped' <=> x \in Range(list)
    BY <1>1, <2>1, <2>2 DEF Mapped, TypeOK
  <2> QED BY <2>6, <2>7 DEF StackFollowsList, FocusOnTop
<1>5. ASSUME NEW t \in Toplevels, ToplevelUnmap(t) PROVE StackFollowsList' /\ FocusOnTop'
  <2>1. /\ phase[t] = "mapped" /\ phase' = [phase EXCEPT ![t] = "unmapped"]
        /\ toplevels' = Unlink(toplevels, t)
        /\ UNCHANGED <<stack, focused_surface>>
    BY <1>5 DEF ToplevelUnmap
  <2>2. t \in Range(toplevels) /\ \A x : x \in Mapped' <=> x \in Mapped /\ x # t
    BY <1>1, <2>1 DEF Mapped, TypeOK
  <2>3. \A x, y : Before(toplevels', x, y) <=> x # t /\ y # t /\ Before(toplevels, x, y)
    BY <1>1, <2>1, <2>2, BeforeUnlink
  <2>4. StackFollowsList'
    BY <1>1, <2>1, <2>2, <2>3 DEF StackFollowsList
  <2>5. \A x \in Toplevels : Exists(x)' <=> Exists(x)
    BY <1>1, <2>1 DEF Exists, TypeOK
  <2>6. FocusOnTop'
    BY <2>1, <2>2, <2>5 DEF FocusOnTop
  <2> QED BY <2>4, <2>6
<1>6. ASSUME NEW t \in Toplevels, ToplevelDestroy(t) PROVE StackFollowsList' /\ FocusOnTop'
  <2>1. /\ phase[t] = "unmapped" /\ phase' = [phase EXCEPT ![t] = "destroyed"]
        /\ stack' = Unlink(stack, t)
        /\ UNCHANGED <<toplevels, focused_surface>>
    BY <1>6 DEF ToplevelDestroy
  <2>2. Mapped' = Mapped /\ t \notin Mapped /\ t \in Range(stack)
    BY <1>1, <2>1 DEF Mapped, Exists, TypeOK
  <2>3. \A x, y : Before(stack', x, y) <=> x # t /\ y # t /\ Before(stack, x, y)
    BY <1>1, <2>1, <2>2, BeforeUnlink
  <2>4. StackFollowsList'
    BY <1>1, <2>1, <2>2, <2>3 DEF StackFollowsList
  <2>5. \A x \in Toplevels : Exists(x)' => x # t /\ Exists(x)
    BY <1>1, <2>1 DEF Exists, TypeOK
  <2>6. FocusOnTop'
    BY <2>1, <2>2, <2>3, <2>5 DEF FocusOnTop
  <2> QED BY <2>4, <2>6
<1>7. ASSUME NEW t \in Toplevels, SurfaceDestroy(t) PROVE StackFollowsList' /\ FocusOnTop'
  <2>1. /\ phase[t] = "destroyed" /\ phase' = [phase EXCEPT ![t] = "gone"]
        /\ focused_surface' \in {NULL, focused_surface}
        /\ UNCHANGED <<toplevels, stack>>
    BY <1>7 DEF SurfaceDestroy
  <2>2. Mapped' = Mapped /\ \A x \in Toplevels : Exists(x)' <=> Exists(x)
    BY <1>1, <2>1 DEF Mapped, Exists, TypeOK
  <2> QED BY <1>1, <2>1, <2>2 DEF StackFollowsList, FocusOnTop
<1>8. CASE UNCHANGED <<phase, toplevels, stack, focused_surface>>
  BY <1>1, <1>8 DEF StackFollowsList, FocusOnTop, Mapped, Exists, Before
<1>9. CASE ClientNext
  BY <1>3, <1>4, <1>5, <1>6, <1>7, <1>8, <1>9 DEF ClientNext, BeginInteractive
<1>10. CASE UserNext
  <2>1. ASSUME NEW t \in Toplevels, NEW kind \in SurfaceKinds, ButtonPress(t, kind)
        PROVE  StackFollowsList' /\ FocusOnTop'
    BY <1>2, <2>1 DEF ButtonPress, Visible
  <2>2. CASE WindowSwitch
    BY <1>2, <2>2, NextWindowMapped DEF WindowSwitch, MainSurface
  <2> QED BY <1>8, <1>10, <2>1, <2>2 DEF UserNext, CursorMotion, ButtonRelease, WorkspaceSwitch
<1> QED BY <1>8, <1>9, <1>10 DEF Next, vars, desktopVars

\* With a keyboard throughout, the windows are drawn in the order they were
\* last used: the scene's list and server.toplevels, kept by different calls,
\* never disagree.
THEOREM StackAndListAgree == ASSUME Steady PROVE Spec => []StackFollowsList
<1>1. Init => StackFollowsList /\ FocusOnTop
  <2> SUFFICES ASSUME Init PROVE StackFollowsList /\ FocusOnTop
    OBVIOUS
  <2> QED BY DesktopAssumption DEF Init, StackFollowsList, FocusOnTop, Mapped, Exists
<1>2. IInv /\ SteadyInv /\ StackFollowsList /\ FocusOnTop /\ [Next]_vars
        => StackFollowsList' /\ FocusOnTop'
  BY OrderStep
<1> QED BY <1>1, <1>2, Invariance, SteadyInvariance, PTL DEF Spec

-----------------------------------------------------------------------------
(* Desktop implements Screen.                                               *)

\* Screen's home, as Desktop defines it.
HomeOf == [t \in Toplevels |-> IF t \in Mapped THEN workspace[t] ELSE NULL]

\* A node just inserted leaves the list as it was when it is unlinked.
LEMMA UnlinkInserted ==
  ASSUME NEW S, NEW list \in Seq(S), NEW t \in S, t \notin Range(list)
  PROVE  ToFront(Insert(list, t), t) = Insert(list, t)
<1> DEFINE r == Insert(list, t)
<1>1. r \in Seq(S) /\ Len(r) = Len(list) + 1 /\ r[1] = t
  BY DEF Insert
<1>2. \A i \in 1..Len(list) : r[i + 1] = list[i] /\ list[i] # t
  BY DEF Insert, Range
<1>3. t \in Range(r)
  BY <1>1 DEF Range
<1> HIDE DEF r
<1>4. Position(r, t) = 1
  <2>1. Position(r, t) \in 1..Len(r) /\ r[Position(r, t)] = t
    BY <1>1, <1>3, PositionInList
  <2>2. \A j \in 1..Len(r) : j # 1 => j - 1 \in 1..Len(list) /\ r[j] = list[j - 1]
    BY <1>1, <1>2
  <2> QED BY <1>2, <2>1, <2>2
<1>5. RemoveAt(r, 1) = list
  <2>1. /\ RemoveAt(r, 1) \in Seq(S)
        /\ Len(RemoveAt(r, 1)) = Len(list)
        /\ \A i \in 1..Len(list) : RemoveAt(r, 1)[i] = r[i + 1]
    <3>1. 1 \in 1..Len(r) /\ Len(list) \in Nat /\ Len(r) - 1 = Len(list)
      BY <1>1
    <3>2. \A i \in 1..(Len(r) - 1) : RemoveAt(r, 1)[i] = IF i < 1 THEN r[i] ELSE r[i + 1]
      BY <1>1, <3>1, RemoveAtProperties
    <3> QED BY <1>1, <3>1, <3>2, RemoveAtProperties
  <2> QED BY <1>2, <2>1
<1>6. ToFront(r, t) = Insert(list, t)
  BY <1>4, <1>5 DEF ToFront, Unlink
<1> QED BY <1>6 DEF r

\* Whatever the step, what it leaves on screen is what Screen wants there.
LEMMA ShownIsShown ==
  ASSUME IInv'
  PROVE  {t \in Toplevels : enabled'[t]} = Abstract!Shown
<1>1. \A t : t \in {toplevels'[i] : i \in DOMAIN toplevels'} <=> t \in Mapped'
  BY DEF IInv, ListExact, Range
<1>2. \A t \in Toplevels : enabled'[t] <=> t \in Mapped' /\ workspace'[t] = active_workspace'
  BY DEF IInv, VisibleIffActive
<1>3. \A t \in Mapped' : t \in Toplevels /\ HomeOf'[t] = workspace'[t]
  BY DEF Mapped, HomeOf
<1>4. Abstract!Shown =
        {t \in {toplevels'[i] : i \in DOMAIN toplevels'} : HomeOf'[t] = active_workspace'}
  BY DEF Abstract!Shown, HomeOf
<1>5. \A t : t \in {x \in Toplevels : enabled'[x]} <=> t \in Abstract!Shown
  BY <1>1, <1>2, <1>3, <1>4
<1> QED BY <1>5

\* A call of focus_toplevel for an open window raises it, or does nothing.
LEMMA FocusRaises ==
  ASSUME IInv, IInv', NEW t \in Mapped, NEW surface, UNCHANGED <<phase, workspace>>,
         FocusToplevel(t, surface, toplevels, enabled)
  PROVE  [Abstract!ScreenNext]_(Abstract!screenVars)
<1>1. HomeOf' = HomeOf
  BY DEF HomeOf, Mapped
<1>2. CASE HasKeyboardFocus(surface)
  BY <1>1, <1>2 DEF FocusToplevel, Abstract!screenVars, HomeOf
<1>3. CASE ~HasKeyboardFocus(surface)
  <2>1. PICK i \in DOMAIN toplevels : i = Position(toplevels, t) /\ toplevels[i] = t
    BY PositionInList DEF IInv, ListExact, TypeOK
  <2>2. toplevels' = <<toplevels[i]>> \o (SubSeq(toplevels, 1, i - 1) \o
                                        SubSeq(toplevels, i + 1, Len(toplevels)))
    BY <1>3, <2>1 DEF FocusToplevel, ToFront, Insert, Unlink, RemoveAt
  <2>3. active_workspace' = IF HomeOf[toplevels[i]] = NULL THEN active_workspace
                                                          ELSE HomeOf[toplevels[i]]
    <3>1. HomeOf[toplevels[i]] = workspace'[t]
      BY <2>1 DEF HomeOf, Mapped
    <3> QED BY <1>3, <3>1 DEF FocusToplevel, SwitchWorkspace
  <2>4. Abstract!Raise(i)
    BY <1>1, <2>2, <2>3, ShownIsShown DEF Abstract!Raise, HomeOf
  <2> QED BY <2>1, <2>4 DEF Abstract!ScreenNext
<1> QED BY <1>2, <1>3

LEMMA DesktopStepIsScreenStep ==
  ASSUME IInv, IInv', [Next]_vars
  PROVE  [Abstract!ScreenNext]_(Abstract!screenVars)
<1>1. /\ \A x : x \in Range(toplevels) <=> x \in Mapped
      /\ IsInjective(toplevels) /\ toplevels \in Seq(Toplevels)
  BY DEF IInv, ListExact, TypeOK
<1>2. CASE UNCHANGED <<toplevels, active_workspace, enabled>> /\ HomeOf' = HomeOf
  BY <1>2 DEF Abstract!screenVars, HomeOf
<1>3. ASSUME NEW t \in Toplevels, NewToplevel(t) PROVE [Abstract!ScreenNext]_(Abstract!screenVars)
  BY <1>2, <1>3 DEF NewToplevel, HomeOf, Mapped, IInv, TypeOK
<1>4. ASSUME NEW t \in Toplevels, ToplevelMap(t) PROVE [Abstract!ScreenNext]_(Abstract!screenVars)
  <2>1. /\ phase[t] = "unmapped" /\ phase' = [phase EXCEPT ![t] = "mapped"]
        /\ workspace' = [workspace EXCEPT ![t] = active_workspace]
        /\ FocusToplevel(t, MainSurface(t), Insert(toplevels, t), [enabled EXCEPT ![t] = TRUE])
    BY <1>4 DEF ToplevelMap
  <2>2. t \notin Range(toplevels)
    BY <1>1, <2>1 DEF Mapped
  <2>3. toplevels' = <<t>> \o toplevels
    BY <1>1, <2>1, <2>2, UnlinkInserted DEF FocusToplevel, Insert
  <2>4. active_workspace' = active_workspace
    BY <2>1 DEF FocusToplevel, SwitchWorkspace, IInv, TypeOK
  <2>5. HomeOf' = [HomeOf EXCEPT ![t] = active_workspace]
    BY <2>1 DEF HomeOf, Mapped, IInv, TypeOK
  <2>6. t \notin Abstract!Open
    BY <1>1, <2>2 DEF Abstract!Open, Range
  <2>7. Abstract!OpenWindow(t)
    BY <2>3, <2>4, <2>5, <2>6, ShownIsShown DEF Abstract!OpenWindow, HomeOf
  <2> QED BY <2>7 DEF Abstract!ScreenNext
<1>5. ASSUME NEW t \in Toplevels, ToplevelUnmap(t) PROVE [Abstract!ScreenNext]_(Abstract!screenVars)
  <2>1. /\ phase[t] = "mapped" /\ phase' = [phase EXCEPT ![t] = "unmapped"]
        /\ toplevels' = Unlink(toplevels, t)
        /\ UNCHANGED <<workspace, active_workspace>>
    BY <1>5 DEF ToplevelUnmap
  <2>2. t \in Range(toplevels)
    BY <1>1, <2>1 DEF Mapped
  <2>3. PICK i \in DOMAIN toplevels : i = Position(toplevels, t) /\ toplevels[i] = t
    BY <1>1, <2>2, PositionInList
  <2>4. toplevels' = SubSeq(toplevels, 1, i - 1) \o SubSeq(toplevels, i + 1, Len(toplevels))
    BY <2>1, <2>3 DEF Unlink, RemoveAt
  <2>5. HomeOf' = [HomeOf EXCEPT ![t] = NULL]
    BY <2>1 DEF HomeOf, Mapped, IInv, TypeOK
  <2>6. Abstract!CloseWindow(i)
    BY <2>1, <2>3, <2>4, <2>5, ShownIsShown DEF Abstract!CloseWindow, HomeOf
  <2> QED BY <2>3, <2>6 DEF Abstract!ScreenNext
<1>6. ASSUME NEW t \in Toplevels, ToplevelDestroy(t) PROVE [Abstract!ScreenNext]_(Abstract!screenVars)
  BY <1>2, <1>6 DEF ToplevelDestroy, HomeOf, Mapped, IInv, TypeOK
<1>7. ASSUME NEW t \in Toplevels, SurfaceDestroy(t) PROVE [Abstract!ScreenNext]_(Abstract!screenVars)
  BY <1>2, <1>7 DEF SurfaceDestroy, HomeOf, Mapped, IInv, TypeOK
<1>8. CASE UNCHANGED <<phase, workspace, toplevels, active_workspace, enabled>>
  BY <1>2, <1>8 DEF HomeOf, Mapped
<1>9. ASSUME NEW w \in Workspaces, WorkspaceSwitch(w) PROVE [Abstract!ScreenNext]_(Abstract!screenVars)
  <2>1. /\ active_workspace' = w /\ UNCHANGED <<phase, workspace, toplevels>>
    BY <1>9, DesktopAssumption DEF WorkspaceSwitch, SwitchWorkspace
  <2>2. HomeOf' = HomeOf
    BY <2>1 DEF HomeOf, Mapped
  <2>3. Abstract!ShowDesk(w)
    BY <2>1, <2>2, ShownIsShown DEF Abstract!ShowDesk, HomeOf
  <2> QED BY <2>3 DEF Abstract!ScreenNext
<1>10. CASE ClientNext
  BY <1>3, <1>4, <1>5, <1>6, <1>7, <1>8, <1>10 DEF ClientNext, BeginInteractive
<1>11. CASE UserNext
  <2>1. ASSUME NEW t \in Toplevels, NEW kind \in SurfaceKinds, ButtonPress(t, kind)
        PROVE  [Abstract!ScreenNext]_(Abstract!screenVars)
    BY <2>1, FocusRaises DEF ButtonPress, Visible
  <2>2. CASE WindowSwitch
    BY <2>2, NextWindowMapped, FocusRaises DEF WindowSwitch
  <2> QED BY <1>8, <1>9, <1>11, <2>1, <2>2 DEF UserNext, CursorMotion, ButtonRelease
<1> QED BY <1>8, <1>10, <1>11 DEF Next, vars, desktopVars

\* Under the refinement mapping every behaviour of Desktop is one of Screen:
\* windows stay in the order they were last used and on the workspace they
\* were opened on, and the screen shows the current workspace and no more.
THEOREM DesktopImplementsScreen == Spec => ImplementsScreen
<1>1. Init => Abstract!ScreenInit
  <2> SUFFICES ASSUME Init PROVE Abstract!ScreenInit
    OBVIOUS
  <2> QED BY DEF Init, Abstract!ScreenInit, Mapped
<1>2. IInv /\ IInv' /\ [Next]_vars => [Abstract!ScreenNext]_(Abstract!screenVars)
  BY DesktopStepIsScreenStep
<1> QED BY <1>1, <1>2, Invariance, PTL DEF Spec, ImplementsScreen, Abstract!ScreenSpec

=============================================================================
