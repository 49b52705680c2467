----------------------------- MODULE KeysProofs -----------------------------
(***************************************************************************)
(* Theorems about Keys, for every set of keyboards and keys and every      *)
(* configuration.                                                          *)
(***************************************************************************)
EXTENDS Keys, ConfigProofs

IInv == TypeOK /\ NothingSticks

\* What a key event does to the client and the seat, whatever the bindings are:
\* a press adds at most its own key, a release always takes it away.
LEMMA PassProperties ==
  ASSUME IInv, NEW k \in plugged, NEW key \in KeyCodes,
         NEW state \in {"pressed", "released"}, HandleKey(k, key, state)
  PROVE  /\ seatKeyboard' \in plugged \cup {NULL}
         /\ held' \subseteq held \cup {key}
         /\ state = "released" => held' \subseteq held \ {key}
         /\ ~focused => held' = {}
         /\ event'.state = state
<1> DEFINE handled == Handled(state, Modifiers(k), Symbols(key, Modifiers(k)))
<1>1. Pass(k, key, state, handled) /\ event'.state = state
  BY DEF HandleKey
<1>2. state = "released" => ~handled
  BY DEF Handled
<1> HIDE DEF handled
<1>3. ~focused => held = {}
  BY DEF IInv, TypeOK
<1>4. seatKeyboard' \in plugged \cup {NULL}
  BY <1>1 DEF Pass, IInv, TypeOK
<1> QED BY <1>1, <1>2, <1>3, <1>4 DEF Pass

THEOREM InitIInv == Init => IInv
<1> SUFFICES ASSUME Init PROVE IInv
  OBVIOUS
<1>1. /\ plugged = {} /\ seatKeyboard = NULL /\ down = [k \in Keyboards |-> {}]
      /\ focused = FALSE /\ held = {}
  BY DEF Init
<1>2. event.state = "none"
  <2>1. event = NoEvent
    BY DEF Init
  <2> QED BY <2>1 DEF NoEvent
<1> QED BY <1>1, <1>2 DEF IInv, TypeOK, NothingSticks

THEOREM NextIInv == IInv /\ [Next]_vars => IInv'
<1> SUFFICES ASSUME IInv, [Next]_vars PROVE IInv'
  OBVIOUS
<1> USE DEF IInv, TypeOK, NothingSticks
<1>1. ASSUME NEW k \in Keyboards, NewKeyboard(k) PROVE IInv'
  BY <1>1 DEF NewKeyboard
<1>2. ASSUME NEW k \in Keyboards, NEW key \in KeyCodes, Press(k, key) PROVE IInv'
  <2>1. k \in plugged /\ HandleKey(k, key, "pressed")
    BY <1>2 DEF Press
  <2>2. /\ seatKeyboard' \in plugged \cup {NULL}
        /\ held' \subseteq held \cup {key}
        /\ ~focused => held' = {}
        /\ event'.state = "pressed"
    BY <2>1, PassProperties
  <2>3. /\ down' = [down EXCEPT ![k] = @ \cup {key}]
        /\ UNCHANGED <<settings, keybinds, plugged, focused>>
    BY <1>2 DEF Press
  <2>4. NothingSticks'
    <3> SUFFICES ASSUME NEW x \in held' PROVE \E q \in plugged' : x \in down'[q]
      OBVIOUS
    <3>1. CASE x = key
      BY <2>1, <2>3, <3>1
    <3>2. CASE x # key
      <4>1. PICK q \in plugged : x \in down[q]
        BY <2>2, <3>2
      <4> QED BY <2>3, <4>1
    <3> QED BY <3>1, <3>2
  <2> QED BY <2>1, <2>2, <2>3, <2>4
<1>3. ASSUME NEW k \in Keyboards, NEW key \in KeyCodes, Release(k, key) PROVE IInv'
  <2>1. k \in plugged /\ HandleKey(k, key, "released")
    BY <1>3 DEF Release
  <2>2. /\ seatKeyboard' \in plugged \cup {NULL}
        /\ held' \subseteq held \ {key}
        /\ ~focused => held' = {}
        /\ event'.state = "released"
    BY <2>1, PassProperties
  <2>3. /\ down' = [down EXCEPT ![k] = @ \ {key}]
        /\ UNCHANGED <<settings, keybinds, plugged, focused>>
    BY <1>3 DEF Release
  <2>4. NothingSticks'
    <3> SUFFICES ASSUME NEW x \in held' PROVE \E q \in plugged' : x \in down'[q]
      OBVIOUS
    <3>1. PICK q \in plugged : x \in down[q]
      BY <2>2
    <3> QED BY <2>2, <2>3, <3>1
  <2> QED BY <2>1, <2>2, <2>3, <2>4
<1>4. ASSUME NEW k \in Keyboards, KeyboardDestroy(k) PROVE IInv'
  <2>1. /\ seatKeyboard' \in plugged' \cup {NULL}
        /\ event'.state \in {"none", "pressed", "released"}
    BY <1>4 DEF KeyboardDestroy, NoEvent
  <2>2. NothingSticks'
    <3> SUFFICES ASSUME NEW x \in held' PROVE \E q \in plugged' : x \in down'[q]
      OBVIOUS
    <3>1. PICK q \in plugged : x \in down[q] /\ q # k
      BY <1>4 DEF KeyboardDestroy
    <3> QED BY <1>4, <3>1 DEF KeyboardDestroy
  <2> QED BY <1>4, <2>1, <2>2 DEF KeyboardDestroy
<1>5. CASE Enter
  BY <1>5, KeysAssumption DEF Enter
<1>6. CASE Leave
  BY <1>6 DEF Leave
<1>7. CASE UNCHANGED vars
  BY <1>7 DEF vars
<1> QED BY <1>1, <1>2, <1>3, <1>4, <1>5, <1>6, <1>7 DEF Next

THEOREM Invariance == Spec => []IInv
BY InitIInv, NextIInv, PTL DEF Spec

\* The types of Keys, the seat's keyboard being one that is plugged in.
THEOREM TypeCorrect == Spec => []TypeOK
<1>1. IInv => TypeOK
  BY DEF IInv
<1> QED BY <1>1, Invariance, PTL

\* No key sticks, whatever is bound: the releases that keyboard_handle_key never
\* looks up reach the client of the press, or one that was told of it on enter.
THEOREM NoKeySticks == Spec => []NothingSticks
<1>1. IInv => NothingSticks
  BY DEF IInv
<1> QED BY <1>1, Invariance, PTL
-----------------------------------------------------------------------------
(* What a press runs.                                                       *)

\* The bindings are what the loop of load_keybinds made of a configuration.
BindingsLoaded == settings \in Configurations /\ keybinds = LoadKeybinds(<<>>, settings)

\* Setting i binds the symbol with the modifiers, and no later one does.
LatestFor(i, mods, symbol) ==
  /\ i \in DOMAIN settings
  /\ Binds(settings[i], mods, symbol)
  /\ \A j \in i + 1..Len(settings) : ~Binds(settings[j], mods, symbol)

\* handle_keybinding runs the command of the latest setting, if there is one:
\* the first entry of the list that matches is the last of the file.
LEMMA CommandIsLatest ==
  ASSUME BindingsLoaded, NEW mods, NEW symbol, Command(mods, symbol) # <<>>
  PROVE  \E i : LatestFor(i, mods, symbol) /\ Command(mods, symbol) = <<settings[i].cmd>>
<1> DEFINE bound == [i \in DOMAIN settings |-> Keybind(settings[i])]
           valid == ValidKeybinds(settings)
           B == Range(bound)
           m == Matching(keybinds, mods, symbol)
<1>1. settings \in Seq(Range(settings))
  BY KeysAssumption DEF BindingsLoaded
<1>2. /\ Len(bound) = Len(settings) /\ DOMAIN settings = 1..Len(settings)
      /\ \A i \in 1..Len(settings) : bound[i] = Keybind(settings[i])
  BY <1>1
<1>3. bound \in Seq(B)
  BY <1>1 DEF Range
<1>4. keybinds = Loaded(<<>>, bound, valid)
  BY DEF BindingsLoaded, LoadKeybinds
<1>5. m # {} /\ Command(mods, symbol) = <<keybinds[Min(m)].cmd>>
  BY DEF Command
<1> HIDE DEF bound, valid, B
<1>6. PICK at : Backwards(at, keybinds, Len(bound), bound, valid)
  BY <1>3, <1>4, LoadedBackwards
<1>7. keybinds \in Seq(B)
  BY <1>3, <1>4, LoadedBackwards
<1>8. /\ \A p \in m : p \in 1..Len(keybinds) /\ keybinds[p].mods = mods /\ keybinds[p].key = symbol
      /\ \A p \in 1..Len(keybinds) : keybinds[p].mods = mods /\ keybinds[p].key = symbol => p \in m
      /\ m \subseteq Nat
  BY <1>7 DEF Matching
<1> HIDE DEF m
<1> DEFINE p == Min(m)
           i == at[p]
<1>9. p \in m /\ \A q \in m : p <= q
  BY <1>5, <1>8, LeastElement
<1>10. /\ p \in 1..Len(keybinds) /\ i \in 1..Len(settings) /\ i \in valid
       /\ keybinds[p] = bound[i] /\ keybinds[p].mods = mods /\ keybinds[p].key = symbol
  BY <1>2, <1>6, <1>8, <1>9 DEF Backwards
<1> HIDE DEF p
<1>11. /\ \A q \in 1..Len(keybinds) : keybinds[q] = bound[at[q]]
       /\ \A q \in 1..Len(keybinds) : p < q => i > at[q]
  BY <1>6, <1>10 DEF Backwards
<1> HIDE DEF i
<1>12. ASSUME NEW j \in i + 1..Len(settings), j \in valid
       PROVE  ~(bound[j].mods = mods /\ bound[j].key = symbol)
  <2>1. j \in 1..Len(bound) /\ j > i
    BY <1>2, <1>10
  <2>2. PICK q \in 1..Len(keybinds) : at[q] = j
    BY <1>6, <1>12, <2>1 DEF Backwards
  <2>3. keybinds[q] = bound[j]
    BY <1>11, <2>2
  <2>4. q < p
    <3>1. ~(p < q)
      <4>1. i \in Nat /\ j \in Nat /\ ~(i > j)
        BY <1>10, <2>1
      <4> QED BY <1>11, <2>2, <4>1
    <3>2. q # p
      BY <2>1, <2>2 DEF i
    <3> QED BY <1>10, <3>1, <3>2
  <2>5. q \notin m
    BY <1>8, <1>9, <1>10, <2>4
  <2> QED BY <1>8, <2>3, <2>5
<1>13. ASSUME NEW j \in 1..Len(settings)
       PROVE  /\ bound[j].key = KeySymbol(settings[j].key)
              /\ bound[j].mods = Keybind(settings[j]).mods
              /\ bound[j].cmd = settings[j].cmd
              /\ j \in valid <=> KeybindValid(settings[j])
  <2>1. bound[j] = Keybind(settings[j])
    BY <1>2
  <2>2. j \in valid <=> KeybindValid(settings[j])
    BY <1>2 DEF valid, ValidKeybinds
  <2> QED BY <2>1, <2>2 DEF Keybind
<1>14. \A j \in i + 1..Len(settings) : j \in 1..Len(settings)
  BY <1>10
<1>15. ASSUME NEW j \in 1..Len(settings)
       PROVE  Binds(settings[j], mods, symbol) <=>
                j \in valid /\ bound[j].mods = mods /\ bound[j].key = symbol
  BY <1>13 DEF Binds
<1>16. LatestFor(i, mods, symbol)
  <2>1. i \in DOMAIN settings /\ Binds(settings[i], mods, symbol)
    BY <1>2, <1>10, <1>15
  <2>2. \A j \in i + 1..Len(settings) : ~Binds(settings[j], mods, symbol)
    BY <1>12, <1>14, <1>15
  <2> QED BY <2>1, <2>2 DEF LatestFor
<1> QED BY <1>5, <1>10, <1>13, <1>16 DEF p

\* A binding of the file is never missed: its symbol finds a command.
LEMMA BoundHasCommand ==
  ASSUME BindingsLoaded, NEW mods, NEW symbol,
         NEW j \in DOMAIN settings, Binds(settings[j], mods, symbol)
  PROVE  Command(mods, symbol) # <<>>
<1> DEFINE bound == [i \in DOMAIN settings |-> Keybind(settings[i])]
           valid == ValidKeybinds(settings)
           B == Range(bound)
<1>1. settings \in Seq(Range(settings))
  BY KeysAssumption DEF BindingsLoaded
<1>2. /\ Len(bound) = Len(settings) /\ DOMAIN settings = 1..Len(settings)
      /\ bound[j] = Keybind(settings[j])
  BY <1>1
<1>3. bound \in Seq(B)
  BY <1>1 DEF Range
<1>4. keybinds = Loaded(<<>>, bound, valid)
  BY DEF BindingsLoaded, LoadKeybinds
<1>5. j \in valid /\ j \in 1..Len(settings)
  BY <1>2 DEF valid, ValidKeybinds, Binds
<1>6. bound[j].mods = mods /\ bound[j].key = symbol
  BY <1>2 DEF Binds, Keybind
<1> HIDE DEF bound, valid, B
<1>7. keybinds \in Seq(B)
  BY <1>3, <1>4, LoadedBackwards
<1>8. PICK at : Backwards(at, keybinds, Len(bound), bound, valid)
  BY <1>3, <1>4, LoadedBackwards
<1>9. PICK q \in 1..Len(keybinds) : at[q] = j
  BY <1>2, <1>5, <1>8 DEF Backwards
<1>10. keybinds[q] = bound[j]
  BY <1>8, <1>9 DEF Backwards
<1>11. q \in Matching(keybinds, mods, symbol)
  BY <1>6, <1>7, <1>9, <1>10 DEF Matching
<1> QED BY <1>11 DEF Command

\* A command or none.
LEMMA CommandShape ==
  ASSUME NEW mods, NEW symbol
  PROVE  Command(mods, symbol) = <<>> \/ \E c : Command(mods, symbol) = <<c>>
BY DEF Command

\* What handle_keybinding runs for a symbol, in the words of the file.
LEMMA CommandCount ==
  ASSUME BindingsLoaded, NEW mods, NEW symbol
  PROVE  Len(Command(mods, symbol)) =
           IF \E i \in DOMAIN settings : Binds(settings[i], mods, symbol) THEN 1 ELSE 0
<1>1. CASE Command(mods, symbol) = <<>>
  BY <1>1, BoundHasCommand
<1>2. CASE Command(mods, symbol) # <<>>
  <2>1. \E i \in DOMAIN settings : Binds(settings[i], mods, symbol)
    BY <1>2, CommandIsLatest DEF LatestFor
  <2>2. Len(Command(mods, symbol)) = 1
    BY <1>2, CommandShape
  <2> QED BY <2>1, <2>2
<1> QED BY <1>1, <1>2

\* A key has one symbol or two.
LEMMA SymbolsShape ==
  ASSUME NEW key, NEW mods
  PROVE  \/ \E a : Symbols(key, mods) = <<a>>
         \/ \E a, b : Symbols(key, mods) = <<a, b>>
BY DEF Symbols

\* A press looks up each symbol of its key, and is handled when the last has a
\* command.
LEMMA RunsOfPress ==
  ASSUME NEW k, NEW key, HandleKey(k, key, "pressed")
  PROVE  /\ event'.state = "pressed"
         /\ event'.ran = [n \in DOMAIN event'.symbols |-> Command(event'.mods, event'.symbols[n])]
         /\ event'.passed <=> Command(event'.mods, Last(event'.symbols)) = <<>>
<1> DEFINE mods == Modifiers(k)
           symbols == Symbols(key, mods)
<1>1. /\ event'.state = "pressed" /\ event'.symbols = symbols /\ event'.mods = mods
      /\ event'.ran = [n \in DOMAIN symbols |-> Command(mods, symbols[n])]
      /\ event'.passed = ~HandledBy(mods, symbols)
  BY DEF HandleKey, Handled
<1>2. symbols # <<>>
  BY SymbolsShape
<1> QED BY <1>1, <1>2 DEF HandledBy

-----------------------------------------------------------------------------

\* What a key event leaves behind, for the two invariants below.
RunInv == BindingsLoaded /\ LatestBindingWins /\ OneCommandPerSymbol

LEMMA RunStep == RunInv /\ [Next]_vars => RunInv'
<1> SUFFICES ASSUME RunInv, [Next]_vars PROVE RunInv'
  OBVIOUS
<1>1. BindingsLoaded
  BY DEF RunInv
<1>2. UNCHANGED <<settings, keybinds>>
  BY DEF Next, NewKeyboard, KeyboardDestroy, Press, Release, Enter, Leave, vars
<1>3. BindingsLoaded'
  BY <1>1, <1>2 DEF BindingsLoaded
<1>4. ASSUME NEW k \in Keyboards, NEW key \in KeyCodes, Press(k, key)
      PROVE  LatestBindingWins' /\ OneCommandPerSymbol'
  <2>1. HandleKey(k, key, "pressed")
    BY <1>4 DEF Press
  <2>2. /\ event'.state = "pressed"
        /\ event'.ran = [n \in DOMAIN event'.symbols |-> Command(event'.mods, event'.symbols[n])]
        /\ event'.passed <=> Command(event'.mods, Last(event'.symbols)) = <<>>
    BY <2>1, RunsOfPress
  <2>3. LatestBindingWins'
    <3> SUFFICES ASSUME NEW n \in DOMAIN event'.ran, event'.ran[n] # <<>>
                 PROVE  \E i \in DOMAIN settings :
                          /\ Binds(settings[i], event'.mods, event'.symbols[n])
                          /\ event'.ran[n] = <<settings[i].cmd>>
                          /\ \A j \in i + 1..Len(settings) :
                               ~Binds(settings[j], event'.mods, event'.symbols[n])
      BY <1>2 DEF LatestBindingWins, Binds
    <3>1. event'.ran[n] = Command(event'.mods, event'.symbols[n])
      BY <2>2
    <3>2. PICK i : /\ LatestFor(i, event'.mods, event'.symbols[n])
                   /\ Command(event'.mods, event'.symbols[n]) = <<settings[i].cmd>>
      BY <1>1, <3>1, CommandIsLatest
    <3> QED BY <3>1, <3>2 DEF LatestFor
  <2>4. OneCommandPerSymbol'
    <3> DEFINE Bound(symbol) == \E i \in DOMAIN settings : Binds(settings[i], event'.mods, symbol)
    <3>1. ASSUME NEW symbol
          PROVE  /\ Len(Command(event'.mods, symbol)) = IF Bound(symbol) THEN 1 ELSE 0
                 /\ Command(event'.mods, symbol) = <<>> <=> ~Bound(symbol)
      <4>1. Len(Command(event'.mods, symbol)) = IF Bound(symbol) THEN 1 ELSE 0
        BY <1>1, CommandCount
      <4>2. \/ Command(event'.mods, symbol) = <<>>
            \/ \E c : Command(event'.mods, symbol) = <<c>>
        BY CommandShape
      <4> HIDE DEF Bound
      <4> QED BY <4>1, <4>2
    <3>2. ASSUME NEW symbol
          PROVE  Bound(symbol) <=> \E i \in DOMAIN settings' : Binds(settings'[i], event'.mods, symbol)
      BY <1>2
    <3>3. \A n \in DOMAIN event'.symbols :
            Len(event'.ran[n]) = IF Bound(event'.symbols[n]) THEN 1 ELSE 0
      BY <2>2, <3>1
    <3>4. event'.passed <=> ~Bound(Last(event'.symbols))
      BY <2>2, <3>1
    <3> HIDE DEF Bound
    <3> QED BY <3>2, <3>3, <3>4 DEF OneCommandPerSymbol, Binds
  <2> QED BY <2>3, <2>4
<1>5. ASSUME event'.ran = <<>>, event'.state # "pressed"
      PROVE  LatestBindingWins' /\ OneCommandPerSymbol'
  BY <1>5 DEF LatestBindingWins, OneCommandPerSymbol
<1>6. ASSUME NEW k \in Keyboards, NEW key \in KeyCodes, Release(k, key)
      PROVE  LatestBindingWins' /\ OneCommandPerSymbol'
  <2>1. event'.ran = <<>> /\ event'.state = "released"
    BY <1>6 DEF Release, HandleKey
  <2> QED BY <1>5, <2>1
<1>7. ASSUME UNCHANGED event PROVE LatestBindingWins' /\ OneCommandPerSymbol'
  BY <1>2, <1>7 DEF RunInv, LatestBindingWins, OneCommandPerSymbol, Binds
<1>8. ASSUME NEW k \in Keyboards, KeyboardDestroy(k)
      PROVE  LatestBindingWins' /\ OneCommandPerSymbol'
  <2>1. UNCHANGED event \/ (event'.ran = <<>> /\ event'.state = "released")
    BY <1>8 DEF KeyboardDestroy, NoEvent
  <2> QED BY <1>5, <1>7, <2>1
<1>9. LatestBindingWins' /\ OneCommandPerSymbol'
  BY <1>4, <1>6, <1>7, <1>8 DEF Next, NewKeyboard, Enter, Leave, vars
<1> QED BY <1>3, <1>9 DEF RunInv

THEOREM RunInvariance == Spec => []RunInv
<1>1. Init => RunInv
  <2> SUFFICES ASSUME Init PROVE RunInv
    OBVIOUS
  <2>1. event.state = "none" /\ event.ran = <<>>
    BY DEF Init, NoEvent
  <2> QED BY <2>1 DEF Init, RunInv, BindingsLoaded, LatestBindingWins, OneCommandPerSymbol
<1> QED BY <1>1, RunStep, PTL DEF Spec

\* Of two definitions of a binding the later one counts, in a configuration of
\* any length: load_keybinds adds at the head of the list, handle_keybinding
\* searches from there and stops at the first entry that matches.
THEOREM LaterBindingCounts == Spec => []LatestBindingWins
<1>1. RunInv => LatestBindingWins
  BY DEF RunInv
<1> QED BY <1>1, RunInvariance, PTL

\* A press runs one command for each of its symbols that is bound, whatever the
\* length of the file and however often it binds it, and goes to the client when
\* the last symbol is not bound.
THEOREM PressRunsItsBindings == Spec => []OneCommandPerSymbol
<1>1. RunInv => OneCommandPerSymbol
  BY DEF RunInv
<1> QED BY <1>1, RunInvariance, PTL
=============================================================================
