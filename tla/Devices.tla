------------------------------ MODULE Devices ------------------------------
(***************************************************************************)
(* The input devices of the seat: the list of keyboards the compositor     *)
(* keeps (server.keyboards), the keyboard the wlroots seat currently reads *)
(* (wlr_seat_get_keyboard) and whether the seat advertises a keyboard to   *)
(* its clients (WL_SEAT_CAPABILITY_KEYBOARD).  src/server.c,               *)
(* src/keyboard.c.  Desktop extends this module: focus_toplevel asks the   *)
(* seat for its keyboard and hands out keyboard focus only if it has one.  *)
(***************************************************************************)

CONSTANTS
  Keyboards,         \* the keyboards that can ever be plugged in
  InitialKeyboards,  \* those the backend finds when it starts
  Unplugging,        \* TRUE if keyboards may be unplugged while running
  NULL               \* the null pointer

ASSUME DeviceAssumption ==
  /\ NULL \notin Keyboards
  /\ InitialKeyboards \subseteq Keyboards
  /\ Unplugging \in BOOLEAN

VARIABLES
  keyboards,         \* server.keyboards, of which only membership matters
  seat_keyboard,     \* seat->keyboard_state.keyboard
  keyboard_cap       \* the seat advertises WL_SEAT_CAPABILITY_KEYBOARD

deviceVars == <<keyboards, seat_keyboard, keyboard_cap>>

DeviceTypeOK ==
  /\ keyboards \subseteq Keyboards
  /\ seat_keyboard \in Keyboards \cup {NULL}
  /\ keyboard_cap \in BOOLEAN

\* Each device found by wlr_backend_start has been through server_new_input
\* before the event loop runs; the seat reads the one that came last.
DeviceInit ==
  /\ keyboards = InitialKeyboards
  /\ \/ InitialKeyboards = {} /\ seat_keyboard = NULL
     \/ seat_keyboard \in InitialKeyboards
  /\ keyboard_cap = (InitialKeyboards # {})

-----------------------------------------------------------------------------

\* Mutated form: capabilities computed before the keyboard joins the list.
HasKeyboardBeforeInsert(list) == keyboards # {}

\* The capabilities server_new_input computes from server.keyboards.
HasKeyboard(list) == list # {}

\* A keyboard appears: server_new_input calls server_new_keyboard, then tells
\* the seat its capabilities.
NewKeyboard(k) ==
  /\ k \notin keyboards
  /\ keyboards' = keyboards \cup {k}
  /\ seat_keyboard' = k
  /\ keyboard_cap' = HasKeyboard(keyboards')

\* Any other device appears: the handler still recomputes the capabilities.
NewPointer ==
  /\ keyboard_cap' = HasKeyboard(keyboards)
  /\ UNCHANGED <<keyboards, seat_keyboard>>

\* A keyboard disappears: it leaves the list and is freed; the seat drops it
\* if it was the one it read (wlroots' own destroy listener).  Capabilities
\* are not recomputed.
KeyboardDestroy(k) ==
  /\ Unplugging
  /\ k \in keyboards
  /\ keyboards' = keyboards \ {k}
  /\ seat_keyboard' = IF seat_keyboard = k THEN NULL ELSE seat_keyboard
  /\ UNCHANGED keyboard_cap

\* A modifier, or a key that is not a compositor binding: the seat is pointed
\* at the keyboard the event came from.
UseKeyboard(k) ==
  /\ k \in keyboards
  /\ seat_keyboard' = k
  /\ UNCHANGED <<keyboards, keyboard_cap>>

DeviceNext ==
  \/ NewPointer
  \/ \E k \in Keyboards : NewKeyboard(k) \/ KeyboardDestroy(k) \/ UseKeyboard(k)

=============================================================================
