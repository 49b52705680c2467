-------------------------------- MODULE Keys --------------------------------
(***************************************************************************)
(* Key events (src/keyboard.c): which presses run a command of the         *)
(* configuration, which events reach the client that has the keyboard, and *)
(* what that client thinks is held down.  Every keyboard has its own       *)
(* modifiers; the seat knows one keyboard at a time.                       *)
(***************************************************************************)
EXTENDS Config

CONSTANTS
  Keyboards,     \* keyboards that may be plugged in
  Letters,       \* keys whose symbol depends on shift
  FunctionKeys,  \* keys whose symbol does not
  TwinKeys,      \* keys that produce two symbols at once, in layouts that have them
  Twin,          \* the second symbol of each of them
  ModifierKeys,  \* the modifier words that have a key
  Configurations \* the keybinds settings of the configuration files

KeyCodes == Letters \cup FunctionKeys \cup TwinKeys \cup ModifierKeys

ASSUME KeysAssumption ==
  /\ NULL \notin Keyboards
  /\ DOMAIN Twin = TwinKeys
  /\ ModifierKeys \subseteq Range(ModifierOrder)
  /\ \A c \in Configurations : c \in Seq(Range(c))

VARIABLES
  settings,      \* the keybinds setting that was loaded
  keybinds,      \* config_instance->keybinds
  plugged,       \* server.keyboards
  seatKeyboard,  \* the seat's current keyboard, or NULL
  down,          \* the keys held down on each keyboard
  focused,       \* a client has the keyboard
  held,          \* the keys that client thinks are down
  event          \* the last key event, and what became of it

vars == <<settings, keybinds, plugged, seatKeyboard, down, focused, held, event>>

Symbol(key, level) == [key |-> key, level |-> level]

\* xkb_state_key_get_syms, with the modifiers of that keyboard.
Symbols(key, mods) ==
  CASE key \in Letters -> <<Symbol(key, IF "shift" \in mods THEN "upper" ELSE "lower")>>
    [] key \in TwinKeys -> <<Symbol(key, "lower"), Twin[key]>>
    [] OTHER -> <<Symbol(key, "lower")>>

Modifiers(k) == down[k] \cap ModifierKeys

\* An event: what was looked up, what each symbol ran, and whether the event went
\* to the client.
NoEvent == [state |-> "none", symbols |-> <<>>, mods |-> {}, ran |-> <<>>, passed |-> FALSE]

TypeOK ==
  /\ plugged \subseteq Keyboards
  /\ seatKeyboard \in plugged \cup {NULL}
  /\ down \in [Keyboards -> SUBSET KeyCodes]
  /\ \A k \in Keyboards \ plugged : down[k] = {}
  /\ focused \in BOOLEAN
  /\ held \subseteq KeyCodes
  /\ ~focused => held = {}
  /\ event.state \in {"none", "pressed", "released"}

Init ==
  /\ settings \in Configurations
  /\ keybinds = LoadKeybinds(<<>>, settings)
  /\ plugged = {}
  /\ seatKeyboard = NULL
  /\ down = [k \in Keyboards |-> {}]
  /\ focused = FALSE
  /\ held = {}
  /\ event = NoEvent

-----------------------------------------------------------------------------

\* Mutated form: the keyboard is not put into the list.
NewKeyboardUnlisted(k) ==
  /\ k \notin plugged
  /\ seatKeyboard' = k
  /\ UNCHANGED <<settings, keybinds, plugged, down, focused, held, event>>

\* server_new_keyboard: the newest keyboard becomes the seat's.
NewKeyboard(k) ==
  /\ k \notin plugged
  /\ plugged' = plugged \cup {k}
  /\ seatKeyboard' = k
  /\ UNCHANGED <<settings, keybinds, down, focused, held, event>>

\* Mutated form: the search goes on after a match.
EveryCommand(mods, symbol) ==
  LET matching == SetToSortSeq(Matching(keybinds, mods, symbol), LAMBDA i, j : i < j)
  IN [i \in DOMAIN matching |-> keybinds[matching[i]].cmd]

\* handle_keybinding: the command of the first entry that matches, if any.
Command(mods, symbol) ==
  LET matching == Matching(keybinds, mods, symbol)
  IN IF matching = {} THEN <<>> ELSE <<keybinds[Min(matching)].cmd>>

\* Every symbol of the key is looked up and run; what decides whether the key
\* was handled is the last of them.
HandledBy(mods, symbols) ==
  symbols # <<>> /\ Command(mods, Last(symbols)) # <<>>

\* Mutated form: releases are looked up like presses.
BindingOnRelease(state, mods, symbols) == HandledBy(mods, symbols)

Handled(state, mods, symbols) == state = "pressed" /\ HandledBy(mods, symbols)

\* An event that is not handled goes to the client that has the keyboard, with
\* the keyboard it comes from.  A modifier makes its keyboard the seat's anyway
\* (keyboard_handle_modifiers, which wlroots calls next).
Pass(k, key, state, handled) ==
  /\ held' = IF handled \/ ~focused THEN held
             ELSE IF state = "pressed" THEN held \cup {key} ELSE held \ {key}
  /\ seatKeyboard' = IF handled /\ key \notin ModifierKeys THEN seatKeyboard ELSE k

\* keyboard_handle_key, called before wlroots updates the modifiers.
HandleKey(k, key, state) ==
  LET mods == Modifiers(k)
      symbols == Symbols(key, mods)
      handled == Handled(state, mods, symbols)
  IN /\ Pass(k, key, state, handled)
     /\ event' = [state |-> state, symbols |-> symbols, mods |-> mods, passed |-> ~handled,
                  ran |-> IF state = "pressed"
                          THEN [i \in DOMAIN symbols |-> Command(mods, symbols[i])]
                          ELSE <<>>]

Press(k, key) ==
  /\ k \in plugged /\ key \notin down[k]
  /\ HandleKey(k, key, "pressed")
  /\ down' = [down EXCEPT ![k] = @ \cup {key}]
  /\ UNCHANGED <<settings, keybinds, plugged, focused>>

Release(k, key) ==
  /\ k \in plugged /\ key \in down[k]
  /\ HandleKey(k, key, "released")
  /\ down' = [down EXCEPT ![k] = @ \ {key}]
  /\ UNCHANGED <<settings, keybinds, plugged, focused>>

\* The keyboard goes.  wlroots releases the keys still held first, each through
\* keyboard_handle_key, which makes the dying keyboard the seat's.
KeyboardDestroy(k) ==
  /\ k \in plugged
  /\ held' = held \ down[k]
  /\ event' = IF down[k] = {} THEN event
              ELSE [NoEvent EXCEPT !.state = "released", !.passed = TRUE]
  /\ plugged' = plugged \ {k}
  /\ down' = [down EXCEPT ![k] = {}]
  /\ seatKeyboard' = IF down[k] # {} \/ seatKeyboard = k THEN NULL ELSE seatKeyboard
  /\ UNCHANGED <<settings, keybinds, focused>>

\* focus_toplevel gives another window the keyboard and tells it which keys are
\* down on the seat's keyboard, those of bindings included.
Enter ==
  /\ seatKeyboard # NULL
  /\ focused' = TRUE
  /\ held' = down[seatKeyboard]
  /\ UNCHANGED <<settings, keybinds, plugged, seatKeyboard, down, event>>

\* The surface that has the keyboard is destroyed.
Leave ==
  /\ focused
  /\ focused' = FALSE
  /\ held' = {}
  /\ UNCHANGED <<settings, keybinds, plugged, seatKeyboard, down, event>>

Next ==
  \/ \E k \in Keyboards :
       \/ NewKeyboard(k) \/ KeyboardDestroy(k)
       \/ \E key \in KeyCodes : Press(k, key) \/ Release(k, key)
  \/ Enter \/ Leave

Spec == Init /\ [][Next]_vars

-----------------------------------------------------------------------------

\* No key sticks: what the client thinks is held is held on some keyboard,
\* although bindings take keys away from it, modifiers change between a press
\* and its release, windows and keyboards come and go.
NothingSticks == \A key \in held : \E k \in plugged : key \in down[k]

\* The setting is a binding of that symbol with those modifiers.
Binds(setting, mods, symbol) ==
  /\ KeybindValid(setting)
  /\ Keybind(setting).mods = mods
  /\ KeySymbol(setting.key) = symbol

\* Of two definitions of a binding the later one counts, whatever stands between
\* them: what a symbol of a pressed key runs is the last setting that binds it.
LatestBindingWins ==
  \A n \in DOMAIN event.ran :
    event.ran[n] # <<>> =>
      \E i \in DOMAIN settings :
        /\ Binds(settings[i], event.mods, event.symbols[n])
        /\ event.ran[n] = <<settings[i].cmd>>
        /\ \A j \in i + 1..Len(settings) : ~Binds(settings[j], event.mods, event.symbols[n])

\* A press runs one command for each of its symbols that the file binds with the
\* modifiers held, however often it does, and no other; a key of two symbols may
\* run two.  The last symbol decides who gets the press: the client does when
\* that one is not bound, also after the first one ran a command (handled is
\* overwritten), so only a key of one symbol never does both.
OneCommandPerSymbol ==
  event.state = "pressed" =>
    LET Bound(symbol) == \E i \in DOMAIN settings : Binds(settings[i], event.mods, symbol)
    IN /\ \A n \in DOMAIN event.symbols :
            Len(event.ran[n]) = IF Bound(event.symbols[n]) THEN 1 ELSE 0
       /\ event.passed <=> ~Bound(Last(event.symbols))

-----------------------------------------------------------------------------
(* What comments of the code promise, and the code breaks.                  *)

\* "It first checks if the key is a compositor keybinding. If it is, it
\* processes the keybinding", src/keyboard.h:64: pressing the key of a configured
\* binding with its modifiers runs a command.
BindingsFire ==
  \A i \in DOMAIN settings :
    /\ event.state = "pressed" /\ KeybindValid(settings[i])
    /\ event.mods = Keybind(settings[i]).mods
    /\ event.symbols[1].key = settings[i].key
    => \E n \in DOMAIN event.ran : event.ran[n] # <<>>
=============================================================================
