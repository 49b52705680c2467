------------------------------ MODULE Outputs ------------------------------
(***************************************************************************)
(* The outputs of the compositor and the frames drawn on them.             *)
(* src/output.c.  Session extends this module: what is drawn are surfaces, *)
(* and a frame tells their clients when to draw the next one.              *)
(*                                                                         *)
(* An output that is lit raises a frame event when one is due: after the   *)
(* last frame has reached the screen, or when the scene asks for one.      *)
(***************************************************************************)

CONSTANT Outputs     \* the outputs that can ever be plugged in

VARIABLES
  outputs,           \* server.outputs: those plugged in, each with its struct
  lit,               \* those that are enabled
  damaged,           \* those whose part of the scene has changed since it was drawn
  due                \* those that have a frame event coming

outputVars == <<outputs, lit, damaged, due>>

OutputTypeOK ==
  /\ outputs \subseteq Outputs
  /\ lit \subseteq outputs
  /\ damaged \subseteq outputs
  /\ due \subseteq lit

\* The scene changes on the outputs os: it asks those that are lit for a frame.
Damage(os) ==
  /\ damaged' = damaged \cup (os \cap outputs)
  /\ due' = due \cup (os \cap lit)
  /\ UNCHANGED <<outputs, lit>>

\* A client wants to know of the next frame on the outputs os.
ScheduleFrame(os) ==
  /\ due' = due \cup (os \cap lit)
  /\ UNCHANGED <<outputs, lit, damaged>>

\* server_new_output.  Whether the output could be switched on is not looked
\* at: one that could not joins the layout like the others.
NewOutput(o) ==
  /\ o \notin outputs
  /\ outputs' = outputs \cup {o}
  /\ damaged' = damaged \cup {o}
  /\ \/ lit' = lit \cup {o} /\ due' = due \cup {o}
     \/ UNCHANGED <<lit, due>>

\* output_request_state: the backend has the output switched on or off, or
\* given another mode.
RequestState(o) ==
  /\ o \in outputs
  /\ damaged' = damaged \cup {o}
  /\ \/ lit' = lit \cup {o} /\ due' = due \cup {o}
     \/ lit' = lit \ {o} /\ due' = due \ {o}
  /\ UNCHANGED outputs

\* wlr_scene_output_commit in output_frame: what has changed is drawn, and the
\* frame after it is due once it is on the screen.  The backend may refuse.
Draw(o) ==
  \/ /\ o \in damaged
     /\ damaged' = damaged \ {o}
     /\ UNCHANGED due
  \/ due' = due \ {o} /\ UNCHANGED damaged

\* output_destroy.  wlroots' scene and layout let go of the output themselves.
OutputDestroy(o) ==
  /\ o \in outputs
  /\ outputs' = outputs \ {o}
  /\ lit' = lit \ {o}
  /\ damaged' = damaged \ {o}
  /\ due' = due \ {o}

=============================================================================
