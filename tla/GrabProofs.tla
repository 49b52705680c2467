----------------------------- MODULE GrabProofs -----------------------------
(***************************************************************************)
(* The properties of Grab for any axes, positions, sizes and offsets.  Each *)
(* speaks of the window as the last motion left it, while the client may    *)
(* have committed anything since; the inductive invariant says that what    *)
(* the motion computed can still be read off the state, because nothing but *)
(* a motion moves the window or asks it for a size, and that the grab point *)
(* is the one begin_interactive measured.                                   *)
(***************************************************************************)
EXTENDS Grab, TLAPS

\* The window is where the last motion of this grab put it, and was asked for
\* the size that motion computed.
Tracks ==
  placed # NULL =>
    /\ cursor_mode = "move" => \A a \in Axes : node[a] = Truncated(cursor[a] - grab[a])
    /\ cursor_mode = "resize" => \A a \in Axes :
         /\ node[a] + placed[a] = NewNear(cursor, a)
         /\ asked[a] = NewFar(cursor, a) - NewNear(cursor, a)

\* The grab point is the distance from the cursor to what is dragged, and a
\* resize began with a size clients give their windows.
GrabPoint ==
  /\ cursor_mode = "move" => \A a \in Axes : grab[a] = start.cursor[a] - 2 * start.node[a]
  /\ cursor_mode = "resize" => \A a \in Axes :
       /\ grab_length[a] \in Lengths
       /\ resize_edges[a] = "far" => grab[a] = start.cursor[a] - 2 * FarEdge(a)
       /\ resize_edges[a] # "far" => grab[a] = start.cursor[a] - 2 * grab_at[a]

IInv == TypeOK /\ Tracks /\ GrabPoint

-----------------------------------------------------------------------------
(* What the motion handlers compute.                                        *)

\* Cutting the fraction off stays within half a pixel: less than one, in
\* halves.
LEMMA TruncatedClose ==
  ASSUME NEW h \in Int
  PROVE  Truncated(h) \in Int /\ 2 * Truncated(h) - h \in -1 .. 1
  BY SMT DEF Truncated

\* A whole number is its own truncation.
LEMMA TruncatedWhole ==
  ASSUME NEW n \in Int
  PROVE  Truncated(2 * n) = n
  BY SMT DEF Truncated

\* Every quantity of the window and the grab is a number on every axis.
LEMMA Numbers ==
  ASSUME TypeOK, NEW a \in Axes
  PROVE  /\ cursor[a] \in Int /\ node[a] \in Int /\ asked[a] \in Nat
         /\ offset[a] \in Int /\ length[a] \in Nat /\ length[a] \in Lengths
         /\ grab[a] \in Int /\ grab_at[a] \in Int /\ grab_length[a] \in Nat
<1>1. /\ Positions \subseteq Int /\ Lengths \subseteq Nat \ {0} /\ Offsets \subseteq Int
  BY GrabAssumption
<1>2. cursor[a] \in Int /\ node[a] \in Int /\ asked[a] \in Nat
  BY <1>1 DEF TypeOK
<1>3. offset[a] \in Int /\ length[a] \in Nat /\ length[a] \in Lengths
  BY <1>1 DEF TypeOK
<1>4. grab[a] \in Int /\ grab_at[a] \in Int /\ grab_length[a] \in Nat
  BY DEF TypeOK
<1> QED BY <1>2, <1>3, <1>4

\* The near edge: fixed unless it is dragged, and then where the cursor has
\* taken it or one pixel before the far edge.
LEMMA NearEdge ==
  ASSUME TypeOK, NEW c \in [Axes -> Positions], NEW a \in Axes
  PROVE  /\ NewNear(c, a) \in Int
         /\ resize_edges[a] # "near" => NewNear(c, a) = grab_at[a]
         /\ resize_edges[a] = "near" =>
              /\ NewNear(c, a) < FarEdge(a)
              /\ NewNear(c, a) \in {Truncated(c[a] - grab[a]), FarEdge(a) - 1}
              /\ Truncated(c[a] - grab[a]) < FarEdge(a) => NewNear(c, a) = Truncated(c[a] - grab[a])
<1>1. /\ c[a] \in Int /\ grab[a] \in Int /\ grab_at[a] \in Int
      /\ grab_length[a] \in Nat
  BY Numbers, GrabAssumption
<1>2. Truncated(c[a] - grab[a]) \in Int
  BY <1>1, TruncatedClose
<1>3. CASE resize_edges[a] # "near"
  BY <1>1, <1>3 DEF NewNear
<1>4. CASE resize_edges[a] = "near" /\ Truncated(c[a] - grab[a]) >= FarEdge(a)
  BY <1>1, <1>2, <1>4 DEF NewNear, FarEdge
<1>5. CASE resize_edges[a] = "near" /\ ~(Truncated(c[a] - grab[a]) >= FarEdge(a))
  BY <1>1, <1>2, <1>5 DEF NewNear, FarEdge
<1> QED BY <1>3, <1>4, <1>5

\* The far edge likewise.
LEMMA FarEdgeOf ==
  ASSUME TypeOK, NEW c \in [Axes -> Positions], NEW a \in Axes
  PROVE  /\ NewFar(c, a) \in Int
         /\ resize_edges[a] # "far" => NewFar(c, a) = FarEdge(a)
         /\ resize_edges[a] = "far" =>
              /\ NewFar(c, a) > grab_at[a]
              /\ NewFar(c, a) \in {Truncated(c[a] - grab[a]), grab_at[a] + 1}
              /\ Truncated(c[a] - grab[a]) > grab_at[a] => NewFar(c, a) = Truncated(c[a] - grab[a])
<1>1. /\ c[a] \in Int /\ grab[a] \in Int /\ grab_at[a] \in Int
      /\ grab_length[a] \in Nat
  BY Numbers, GrabAssumption
<1>2. Truncated(c[a] - grab[a]) \in Int
  BY <1>1, TruncatedClose
<1>3. CASE resize_edges[a] # "far"
  BY <1>1, <1>3 DEF NewFar, FarEdge
<1>4. CASE resize_edges[a] = "far" /\ Truncated(c[a] - grab[a]) <= grab_at[a]
  BY <1>1, <1>2, <1>4 DEF NewFar, FarEdge
<1>5. CASE resize_edges[a] = "far" /\ ~(Truncated(c[a] - grab[a]) <= grab_at[a])
  BY <1>1, <1>2, <1>5 DEF NewFar, FarEdge
<1> QED BY <1>3, <1>4, <1>5

\* The edges never meet: the size asked for is a natural number, and at least
\* one pixel if the grab began with that.
LEMMA SizeAsked ==
  ASSUME TypeOK, NEW c \in [Axes -> Positions], NEW a \in Axes
  PROVE  /\ NewFar(c, a) - NewNear(c, a) \in Nat
         /\ grab_length[a] >= 1 => NewFar(c, a) - NewNear(c, a) >= 1
<1>1. grab_at[a] \in Int /\ grab_length[a] \in Nat /\ resize_edges[a] \in Edges
  BY DEF TypeOK
<1>2. CASE resize_edges[a] = "near"
  BY <1>1, <1>2, NearEdge, FarEdgeOf DEF FarEdge
<1>3. CASE resize_edges[a] = "far"
  BY <1>1, <1>3, NearEdge, FarEdgeOf DEF FarEdge
<1>4. CASE resize_edges[a] = "none"
  BY <1>1, <1>4, NearEdge, FarEdgeOf DEF FarEdge
<1> QED BY <1>1, <1>2, <1>3, <1>4 DEF Edges

\* Steps that leave the window and the grab alone keep the invariant.
LEMMA Untouched ==
  ASSUME IInv, UNCHANGED <<cursor, node, asked, grabVars, start, placed>>
  PROVE  Tracks' /\ GrabPoint'
  BY DEF IInv, Tracks, GrabPoint, grabVars, NewNear, NewFar, FarEdge

-----------------------------------------------------------------------------

\* The invariant holds when the window has been mapped.
THEOREM InvariantInit == Init => IInv
<1> SUFFICES ASSUME Init PROVE IInv
  OBVIOUS
<1>1. TypeOK
  <2>1. Zero \in [Axes -> Int] /\ Zero \in [Axes -> Nat]
    BY DEF Zero
  <2> QED BY <2>1 DEF Init, TypeOK, Modes, Edges
<1>2. Tracks /\ GrabPoint
  BY DEF Init, Tracks, GrabPoint
<1> QED BY <1>1, <1>2 DEF IInv

\* Every step keeps it.
THEOREM InvariantStep == IInv /\ [Next]_vars => IInv'
<1> SUFFICES ASSUME IInv, [Next]_vars PROVE IInv'
  OBVIOUS
<1> USE DEF IInv
<1>1. CASE BeginMove
  <2>1. TypeOK'
    <3>1. grab' \in [Axes -> Int]
      <4>1. \A a \in Axes : cursor[a] - 2 * node[a] \in Int
        BY Numbers
      <4> QED BY <1>1, <4>1 DEF BeginMove
    <3> QED BY <1>1, <3>1 DEF BeginMove, GrabBegins, TypeOK, windowVars, Modes
  <2>2. Tracks'
    BY <1>1 DEF BeginMove, GrabBegins, Tracks
  <2>3. GrabPoint'
    BY <1>1 DEF BeginMove, GrabBegins, GrabPoint
  <2> QED BY <2>1, <2>2, <2>3
<1>2. ASSUME NEW edges \in [Axes -> Edges], BeginResize(edges)
      PROVE  IInv'
  <2>1. \A a \in Axes : Border(edges, a) \in Int
    BY Numbers DEF Border
  <2>2. TypeOK'
    <3>1. grab' \in [Axes -> Int]
      <4>1. \A a \in Axes : cursor[a] - 2 * Border(edges, a) \in Int
        BY <2>1, Numbers
      <4> QED BY <1>2, <4>1 DEF BeginResize
    <3>2. grab_at' \in [Axes -> Int] /\ grab_length' \in [Axes -> Nat]
      <4>1. \A a \in Axes : node[a] + offset[a] \in Int /\ length[a] \in Nat
        BY Numbers
      <4>2. grab_at' \in [Axes -> Int]
        BY <1>2, <4>1 DEF BeginResize
      <4>3. grab_length' \in [Axes -> Nat]
        BY <1>2, <4>1 DEF BeginResize, TypeOK
      <4> QED BY <4>2, <4>3
    <3> QED BY <1>2, <3>1, <3>2 DEF BeginResize, GrabBegins, TypeOK, windowVars, Modes
  <2>3. Tracks'
    BY <1>2 DEF BeginResize, GrabBegins, Tracks
  <2>4. GrabPoint'
    <3>1. ASSUME NEW a \in Axes
          PROVE  /\ grab_length'[a] \in Lengths
                 /\ start'.cursor[a] = cursor[a]
                 /\ grab'[a] = cursor[a] - 2 * Border(edges, a)
                 /\ Border(edges, a) = IF edges[a] = "far" THEN FarEdge(a)' ELSE grab_at'[a]
      <4>1. /\ grab_length' = length /\ length[a] \in Lengths
            /\ start'.cursor = cursor
            /\ grab'[a] = cursor[a] - 2 * Border(edges, a)
            /\ grab_at'[a] = node[a] + offset[a]
        BY <1>2, Numbers DEF BeginResize, GrabBegins
      <4>2. node[a] \in Int /\ offset[a] \in Int /\ length[a] \in Int
        BY Numbers
      <4> QED BY <4>1, <4>2 DEF Border, FarEdge
    <3> QED BY <1>2, <3>1 DEF BeginResize, GrabPoint
  <2> QED BY <2>2, <2>3, <2>4
<1>3. ASSUME NEW c \in [Axes -> Positions], CursorMotion(c)
      PROVE  IInv'
  <2>0. UNCHANGED <<cursor_mode, grab, grab_at, grab_length, resize_edges, start>> /\ cursor' = c
    BY <1>3 DEF CursorMotion, grabVars
  <2>1. GrabPoint'
    BY <2>0 DEF GrabPoint, FarEdge
  <2>2. CASE Passthrough(c)
    <3>1. TypeOK'
      BY <2>0, <2>2 DEF Passthrough, TypeOK, PointerOver, windowVars
    <3>2. Tracks'
      BY <2>0, <2>2 DEF Passthrough, Tracks
    <3> QED BY <2>1, <3>1, <3>2
  <2>3. CASE Move(c)
    <3>1. \A a \in Axes : Truncated(c[a] - grab[a]) \in Int
      <4>1. ASSUME NEW a \in Axes PROVE c[a] - grab[a] \in Int
        <5>1. c[a] \in Int
          BY GrabAssumption
        <5> QED BY <5>1, Numbers
      <4> QED BY <4>1, TruncatedClose
    <3>2. TypeOK'
      BY <2>0, <2>3, <3>1 DEF Move, TypeOK
    <3>3. Tracks'
      BY <2>0, <2>3 DEF Move, Tracks
    <3> QED BY <2>1, <3>2, <3>3
  <2>4. CASE Resize(c)
    <3>1. ASSUME NEW a \in Axes
          PROVE  /\ NewNear(c, a) \in Int
                 /\ NewFar(c, a) - NewNear(c, a) \in Nat
                 /\ offset[a] \in Int
                 /\ NewNear(cursor, a)' = NewNear(c, a)
                 /\ NewFar(cursor, a)' = NewFar(c, a)
      <4>1. NewNear(c, a) \in Int
        BY NearEdge
      <4>2. NewFar(c, a) - NewNear(c, a) \in Nat
        BY SizeAsked
      <4>3. offset[a] \in Int
        BY GrabAssumption DEF TypeOK
      <4>4. NewNear(cursor, a)' = NewNear(c, a) /\ NewFar(cursor, a)' = NewFar(c, a)
        BY <2>0 DEF NewNear, NewFar, FarEdge
      <4> QED BY <4>1, <4>2, <4>3, <4>4
    <3>2. TypeOK'
      BY <2>0, <2>4, <3>1 DEF Resize, TypeOK
    <3>3. ASSUME NEW a \in Axes
          PROVE  /\ node'[a] + placed'[a] = NewNear(c, a)
                 /\ asked'[a] = NewFar(c, a) - NewNear(c, a)
      BY <2>4, <3>1 DEF Resize
    <3>4. Tracks'
      BY <2>0, <2>4, <3>1, <3>3 DEF Resize, Tracks
    <3> QED BY <2>1, <3>2, <3>4
  <2> QED BY <1>3, <2>2, <2>3, <2>4 DEF CursorMotion
<1>4. CASE ButtonRelease
  <2>1. TypeOK'
    BY <1>4 DEF ButtonRelease, TypeOK, windowVars, Modes
  <2>2. Tracks' /\ GrabPoint'
    BY <1>4 DEF ButtonRelease, Tracks, GrabPoint
  <2> QED BY <2>1, <2>2
<1>5. CASE Commit
  <2>1. TypeOK'
    BY <1>5 DEF Commit, TypeOK, grabVars
  <2>2. Tracks' /\ GrabPoint'
    BY <1>5, Untouched DEF Commit
  <2> QED BY <2>1, <2>2
<1>6. CASE UNCHANGED vars
  <2>1. TypeOK'
    BY <1>6 DEF vars, TypeOK, grabVars, windowVars
  <2>2. Tracks' /\ GrabPoint'
    BY <1>6, Untouched DEF vars, windowVars
  <2> QED BY <2>1, <2>2
<1> QED BY <1>1, <1>2, <1>3, <1>4, <1>5, <1>6 DEF Next

\* Hence it always holds.
THEOREM Invariant == Spec => []IInv
  BY InvariantInit, InvariantStep, PTL DEF Spec

\* The variables of Grab keep their types; in particular no size asked for is
\* negative, however the edges are dragged.
THEOREM TypeCorrect == Spec => []TypeOK
<1>1. IInv => TypeOK
  BY DEF IInv
<1> QED BY <1>1, Invariant, PTL

\* A resize never asks for 0, for any sizes, positions and offsets.
THEOREM SizesPositive == Spec => []SizeStaysPositive
<1>1. IInv => SizeStaysPositive
  <2> SUFFICES ASSUME IInv, Resizing, NEW a \in Axes
               PROVE  asked[a] >= 1
    BY DEF SizeStaysPositive
  <2>1. TypeOK /\ cursor \in [Axes -> Positions]
    BY DEF IInv, TypeOK
  <2>2. grab_length[a] >= 1
    BY GrabAssumption DEF IInv, GrabPoint, Resizing
  <2>3. asked[a] = NewFar(cursor, a) - NewNear(cursor, a)
    BY DEF IInv, Tracks, Resizing
  <2> QED BY <2>1, <2>2, <2>3, SizeAsked
<1> QED BY <1>1, Invariant, PTL

\* The edges that are not dragged stay where they were, once the client has
\* caught up.
THEOREM OppositeEdgesStay == Spec => []OppositeEdgeStays
<1>1. IInv => OppositeEdgeStays
  <2> SUFFICES ASSUME IInv, Resizing, NEW a \in Axes, Settled(a)
               PROVE  /\ resize_edges[a] # "near" => node[a] + offset[a] = grab_at[a]
                      /\ resize_edges[a] # "far" => node[a] + offset[a] + length[a] = FarEdge(a)
    BY DEF OppositeEdgeStays
  <2>1. TypeOK /\ cursor \in [Axes -> Positions]
    BY DEF IInv, TypeOK
  <2>2. /\ node[a] + offset[a] = NewNear(cursor, a)
        /\ length[a] = NewFar(cursor, a) - NewNear(cursor, a)
    BY DEF IInv, Tracks, Resizing, Settled
  <2>3. NewNear(cursor, a) \in Int /\ (resize_edges[a] # "near" => NewNear(cursor, a) = grab_at[a])
    BY <2>1, NearEdge
  <2>4. NewFar(cursor, a) \in Int /\ (resize_edges[a] # "far" => NewFar(cursor, a) = FarEdge(a))
    BY <2>1, FarEdgeOf
  <2> QED BY <2>2, <2>3, <2>4
<1> QED BY <1>1, Invariant, PTL

\* The edge that is dragged is within a pixel of the cursor, or stopped.
THEOREM DraggedEdgesFollow == Spec => []DraggedEdgeFollows
<1>1. IInv => DraggedEdgeFollows
  <2> SUFFICES ASSUME IInv, Resizing, NEW a \in Axes, resize_edges[a] # "none", asked[a] # 1
               PROVE  2 * (IF resize_edges[a] = "near" THEN node[a] + placed[a]
                           ELSE node[a] + placed[a] + asked[a]) - (cursor[a] - grab[a]) \in -1 .. 1
    BY DEF DraggedEdgeFollows
  <2>1. /\ TypeOK /\ cursor \in [Axes -> Positions]
        /\ cursor[a] - grab[a] \in Int /\ grab_at[a] \in Int /\ grab_length[a] \in Nat
        /\ node[a] \in Int
    BY Numbers DEF IInv, TypeOK
  <2>2. /\ node[a] + placed[a] = NewNear(cursor, a)
        /\ asked[a] = NewFar(cursor, a) - NewNear(cursor, a)
    BY DEF IInv, Tracks, Resizing
  <2>3. 2 * Truncated(cursor[a] - grab[a]) - (cursor[a] - grab[a]) \in -1 .. 1
    BY <2>1, TruncatedClose
  <2>4. CASE resize_edges[a] = "near"
    <3>1. NewFar(cursor, a) = FarEdge(a) /\ FarEdge(a) \in Int
      BY <2>1, <2>4, FarEdgeOf DEF FarEdge
    <3>2. NewNear(cursor, a) = Truncated(cursor[a] - grab[a])
      BY <2>1, <2>2, <2>4, <3>1, NearEdge
    <3> QED BY <2>2, <2>3, <2>4, <3>2
  <2>5. CASE resize_edges[a] = "far"
    <3>1. NewNear(cursor, a) = grab_at[a]
      BY <2>1, <2>5, NearEdge
    <3>2. NewFar(cursor, a) = Truncated(cursor[a] - grab[a]) /\ NewFar(cursor, a) \in Int
      BY <2>1, <2>2, <2>5, <3>1, FarEdgeOf
    <3>3. node[a] + placed[a] + asked[a] = NewFar(cursor, a)
      BY <2>1, <2>2, <3>1, <3>2
    <3> QED BY <2>3, <2>5, <3>2, <3>3
  <2> QED BY <2>1, <2>4, <2>5 DEF TypeOK, Edges
<1> QED BY <1>1, Invariant, PTL

\* A drag that returns to where it began leaves the window as it found it.
THEOREM ReturnsUndo == Spec => []ReturnUndoes
<1>1. IInv => ReturnUndoes
  <2> SUFFICES ASSUME IInv, placed # NULL, cursor = start.cursor
               PROVE  /\ cursor_mode = "move" => node = start.node
                      /\ cursor_mode = "resize" => \A a \in Axes :
                           node[a] + placed[a] = grab_at[a] /\ asked[a] = grab_length[a]
    BY DEF ReturnUndoes
  <2>1. /\ TypeOK /\ cursor \in [Axes -> Positions] /\ \A a \in Axes : cursor[a] \in Int
        /\ node \in [Axes -> Int] /\ start.node \in [Axes -> Int]
        /\ grab_at \in [Axes -> Int] /\ grab_length \in [Axes -> Nat]
    BY GrabAssumption DEF IInv, TypeOK
  <2>2. CASE cursor_mode = "move"
    <3>1. ASSUME NEW a \in Axes PROVE node[a] = start.node[a]
      <4>1. cursor[a] - grab[a] = 2 * start.node[a]
        BY <2>1, <2>2 DEF IInv, GrabPoint
      <4> QED BY <2>1, <2>2, <4>1, TruncatedWhole DEF IInv, Tracks
    <3> QED BY <2>1, <2>2, <3>1
  <2>3. ASSUME cursor_mode = "resize", NEW a \in Axes
        PROVE  node[a] + placed[a] = grab_at[a] /\ asked[a] = grab_length[a]
    <3>1. /\ node[a] + placed[a] = NewNear(cursor, a)
          /\ asked[a] = NewFar(cursor, a) - NewNear(cursor, a)
      BY <2>3 DEF IInv, Tracks
    <3>2. /\ grab_length[a] >= 1 /\ grab_length[a] \in Int /\ grab_at[a] \in Int
          /\ FarEdge(a) = grab_at[a] + grab_length[a]
      BY <2>1, <2>3, GrabAssumption DEF IInv, GrabPoint, FarEdge
    <3>3. NewNear(cursor, a) = grab_at[a]
      <4>1. CASE resize_edges[a] = "near"
        <5>1. cursor[a] - grab[a] = 2 * grab_at[a]
          BY <2>1, <2>3, <4>1 DEF IInv, GrabPoint
        <5>2. Truncated(cursor[a] - grab[a]) = grab_at[a]
          BY <3>2, <5>1, TruncatedWhole
        <5> QED BY <2>1, <3>2, <4>1, <5>2, NearEdge
      <4> QED BY <2>1, <4>1, NearEdge
    <3>4. NewFar(cursor, a) = FarEdge(a)
      <4>1. CASE resize_edges[a] = "far"
        <5>1. cursor[a] - grab[a] = 2 * FarEdge(a)
          BY <2>1, <2>3, <3>2, <4>1 DEF IInv, GrabPoint
        <5>2. Truncated(cursor[a] - grab[a]) = FarEdge(a)
          BY <3>2, <5>1, TruncatedWhole
        <5> QED BY <2>1, <3>2, <4>1, <5>2, FarEdgeOf
      <4> QED BY <2>1, <4>1, FarEdgeOf
    <3> QED BY <3>1, <3>2, <3>3, <3>4
  <2> QED BY <2>2, <2>3
<1> QED BY <1>1, Invariant, PTL

=============================================================================
