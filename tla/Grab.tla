-------------------------------- MODULE Grab --------------------------------
(***************************************************************************)
(* The geometry of an interactive move or resize: begin_interactive        *)
(* (src/toplevel.c), process_cursor_move and process_cursor_resize         *)
(* (src/cursor.c), interleaved with a client that commits the sizes it is  *)
(* asked for late, never, or in its own way.  Which window is grabbed, and *)
(* when, is in Desktop; here it is the one window there is.                *)
(*                                                                         *)
(* The code treats the two axes alike and apart; a quantity of a window is *)
(* a function of the axis.  The near edge of an axis is the left or top    *)
(* one, the far edge the right or bottom one.  Nodes and boxes have whole  *)
(* coordinates, the cursor has fractional ones, counted in halves here.    *)
(***************************************************************************)
EXTENDS Integers

CONSTANTS
  Axes,       \* "x" and "y"
  Positions,  \* where the cursor can be on an axis, in halves of a pixel
  Lengths,    \* the sizes clients give their windows
  Places,     \* bound: a grab begins with the window's node at one of these
  Offsets,    \* where in its surface a client puts the window's geometry
  Margin,     \* how far the surface reaches beyond that geometry
  NULL

ASSUME GrabAssumption ==
  /\ Positions \subseteq Int
  /\ Lengths \subseteq Nat \ {0}
  /\ Places \subseteq Int
  /\ Offsets \subseteq Int
  /\ Margin \in Nat
  /\ NULL \notin [Axes -> Int]

Edges == {"none", "near", "far"}
Modes == {"passthrough", "move", "resize"}

VARIABLES
  cursor,        \* cursor->x and y
  focused,       \* the window has the pointer's focus
  node,          \* scene_tree->node.x and y
  offset,        \* geometry of the window as committed: its place in the
  length,        \* surface and its size
  asked,         \* the last wlr_xdg_toplevel_set_size; 0 lets the client pick
  cursor_mode,   \* server.cursor_mode
  grab,          \* server.grab_x and grab_y
  grab_at,       \* server.grab_geobox: where it begins, and its size
  grab_length,
  resize_edges,  \* server.resize_edges
  start,         \* not in the code: cursor and node when the grab began
  placed         \* not in the code: offset at the last motion of this grab

windowVars == <<node, offset, length, asked>>
grabVars == <<cursor_mode, grab, grab_at, grab_length, resize_edges>>
vars == <<cursor, focused, windowVars, grabVars, start, placed>>

TypeOK ==
  /\ cursor \in [Axes -> Positions]
  /\ focused \in BOOLEAN
  /\ node \in [Axes -> Int]
  /\ offset \in [Axes -> Offsets]
  /\ length \in [Axes -> Lengths]
  /\ asked \in [Axes -> Nat]
  /\ cursor_mode \in Modes
  /\ grab \in [Axes -> Int]
  /\ grab_at \in [Axes -> Int]
  /\ grab_length \in [Axes -> Nat]
  /\ resize_edges \in [Axes -> Edges]
  /\ start \in [cursor : [Axes -> Positions], node : [Axes -> Int]]
  /\ placed \in [Axes -> Offsets] \cup {NULL}

Zero == [a \in Axes |-> 0]

\* A window that has just been mapped: its tree is created at the origin, and
\* the answer to its initial commit let it pick its size.
Init ==
  /\ cursor \in [Axes -> Positions]
  /\ focused = FALSE
  /\ node = Zero
  /\ offset \in [Axes -> Offsets]
  /\ length \in [Axes -> Lengths]
  /\ asked = Zero
  /\ cursor_mode = "passthrough"
  /\ grab = Zero /\ grab_at = Zero /\ grab_length = Zero
  /\ resize_edges = [a \in Axes |-> "none"]
  /\ start = [cursor |-> cursor, node |-> node]
  /\ placed = NULL

-----------------------------------------------------------------------------

\* A double, in halves, converted to an int: the fraction is cut off.
Truncated(halves) == IF halves >= 0 THEN halves \div 2 ELSE -((-halves) \div 2)

\* With the cursor at c it is over the window's surface on every axis.
PointerOver(c) ==
  \A a \in Axes :
    c[a] \in 2 * (node[a] - Margin) .. 2 * (node[a] + offset[a] + length[a] + Margin)

\* The pointer's focus is where it was at the last motion outside a grab: the
\* window, or the cursor in an earlier grab, may have moved away since.
GrabBegins ==
  /\ focused
  /\ node \in [Axes -> Places]
  /\ start' = [cursor |-> cursor, node |-> node]
  /\ placed' = NULL
  /\ UNCHANGED <<cursor, focused, windowVars>>

\* begin_interactive for a move; it may replace a grab that is under way.
BeginMove ==
  /\ cursor_mode' = "move"
  /\ grab' = [a \in Axes |-> cursor[a] - 2 * node[a]]
  /\ UNCHANGED <<grab_at, grab_length, resize_edges>>
  /\ GrabBegins

\* Mutated form: the geometry's offset in the surface is forgotten.
BorderOfNode(edges, a) == node[a] + (IF edges[a] = "far" THEN length[a] ELSE 0)

\* The edge that edges names on axis a, of the window as it is.
Border(edges, a) ==
  node[a] + offset[a] + (IF edges[a] = "far" THEN length[a] ELSE 0)

\* begin_interactive for a resize.
BeginResize(edges) ==
  /\ cursor_mode' = "resize"
  /\ grab' = [a \in Axes |-> cursor[a] - 2 * Border(edges, a)]
  /\ grab_at' = [a \in Axes |-> node[a] + offset[a]]
  /\ grab_length' = length
  /\ resize_edges' = edges
  /\ GrabBegins

-----------------------------------------------------------------------------
(* Motion of the cursor to c.                                               *)

Passthrough(c) ==
  /\ cursor_mode = "passthrough"
  /\ focused' = PointerOver(c)
  /\ UNCHANGED <<windowVars, placed>>

\* process_cursor_move.
Move(c) ==
  /\ cursor_mode = "move"
  /\ node' = [a \in Axes |-> Truncated(c[a] - grab[a])]
  /\ placed' = offset
  /\ UNCHANGED <<focused, offset, length, asked>>

FarEdge(a) == grab_at[a] + grab_length[a]

\* Mutated form: the edges may meet.
NearUpToFar(c, a) ==
  LET border == Truncated(c[a] - grab[a])
  IN CASE resize_edges[a] # "near" -> grab_at[a]
       [] resize_edges[a] = "near" /\ border > FarEdge(a) -> FarEdge(a)
       [] OTHER -> border

\* Mutated form: the dragged edge may pass the opposite one.
NearUnclamped(c, a) ==
  IF resize_edges[a] # "near" THEN grab_at[a] ELSE Truncated(c[a] - grab[a])

\* new_left or new_top: the dragged edge follows the cursor and stops one pixel
\* short of the opposite edge.
NewNear(c, a) ==
  LET border == Truncated(c[a] - grab[a])
  IN CASE resize_edges[a] # "near" -> grab_at[a]
       [] resize_edges[a] = "near" /\ border >= FarEdge(a) -> FarEdge(a) - 1
       [] OTHER -> border

\* new_right or new_bottom.
NewFar(c, a) ==
  LET border == Truncated(c[a] - grab[a])
  IN CASE resize_edges[a] # "far" -> FarEdge(a)
       [] resize_edges[a] = "far" /\ border <= grab_at[a] -> grab_at[a] + 1
       [] OTHER -> border

\* Mutated form: the window is asked for another size and left where it is.
ResizeInPlace(c) ==
  /\ cursor_mode = "resize"
  /\ asked' = [a \in Axes |-> NewFar(c, a) - NewNear(c, a)]
  /\ placed' = offset
  /\ UNCHANGED <<focused, node, offset, length>>

\* Mutated form: the window is moved by the geometry it had at the beginning.
ResizeByOldOffset(c) ==
  /\ cursor_mode = "resize"
  /\ node' = [a \in Axes |-> NewNear(c, a) - (grab_at[a] - start.node[a])]
  /\ asked' = [a \in Axes |-> NewFar(c, a) - NewNear(c, a)]
  /\ placed' = offset
  /\ UNCHANGED <<focused, offset, length>>

\* process_cursor_resize: the window is moved at once, by its geometry as
\* committed, and asked for a size it will have when its client commits it.
Resize(c) ==
  /\ cursor_mode = "resize"
  /\ node' = [a \in Axes |-> NewNear(c, a) - offset[a]]
  /\ asked' = [a \in Axes |-> NewFar(c, a) - NewNear(c, a)]
  /\ placed' = offset
  /\ UNCHANGED <<focused, offset, length>>

\* server_cursor_motion, server_cursor_motion_absolute.
CursorMotion(c) ==
  /\ cursor' = c
  /\ Passthrough(c) \/ Move(c) \/ Resize(c)
  /\ UNCHANGED <<grabVars, start>>

\* server_cursor_button, released: reset_cursor_mode.
ButtonRelease ==
  /\ cursor_mode' = "passthrough"
  /\ UNCHANGED <<cursor, focused, windowVars, grab, grab_at, grab_length, resize_edges, start, placed>>

\* The client commits a size, the one it was asked for or another, and may put
\* its window elsewhere in the surface.
Commit ==
  /\ length' \in [Axes -> Lengths]
  /\ offset' \in [Axes -> Offsets]
  /\ UNCHANGED <<cursor, focused, node, asked, grabVars, start, placed>>

-----------------------------------------------------------------------------

Next ==
  \/ BeginMove
  \/ \E edges \in [Axes -> Edges] : BeginResize(edges)
  \/ \E c \in [Axes -> Positions] : CursorMotion(c)
  \/ ButtonRelease
  \/ Commit

Spec == Init /\ [][Next]_vars

-----------------------------------------------------------------------------

Resizing == cursor_mode = "resize" /\ placed # NULL

\* A resize asks for at least one pixel, however far the cursor goes beyond the
\* opposite edge: 0 would tell the client to pick a size of its own.
SizeStaysPositive == Resizing => \A a \in Axes : asked[a] >= 1

\* The window has caught up: on axis a the client has committed the size it was
\* last asked for, and its geometry is where it was at the last motion.
Settled(a) == length[a] = asked[a] /\ offset[a] = placed[a]

\* Whenever the client has caught up, in the midst of the drag or after many
\* late or refused commits, each edge that is not dragged is where it was when
\* the grab began.
OppositeEdgeStays ==
  Resizing => \A a \in Axes : Settled(a) =>
    /\ resize_edges[a] # "near" => node[a] + offset[a] = grab_at[a]
    /\ resize_edges[a] # "far" => node[a] + offset[a] + length[a] = FarEdge(a)

\* An edge that is dragged is within a pixel of where the cursor has taken it,
\* or one pixel short of the opposite edge.
DraggedEdgeFollows ==
  Resizing => \A a \in Axes : resize_edges[a] # "none" =>
    LET edge == IF resize_edges[a] = "near" THEN node[a] + placed[a]
                ELSE node[a] + placed[a] + asked[a]
    IN asked[a] = 1 \/ 2 * edge - (cursor[a] - grab[a]) \in -1 .. 1

\* A drag that comes back to where it began undoes itself: the window is where
\* it was and is asked for the size it had.  In particular nothing jumps when a
\* drag begins, though begin_interactive and the motion handlers compute the
\* dragged edge separately, from geometry read at different times.
ReturnUndoes ==
  placed # NULL /\ cursor = start.cursor =>
    CASE cursor_mode = "move" -> node = start.node
      [] cursor_mode = "resize" ->
           \A a \in Axes : node[a] + placed[a] = grab_at[a] /\ asked[a] = grab_length[a]
      [] OTHER -> TRUE

=============================================================================
