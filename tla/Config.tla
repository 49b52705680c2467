------------------------------- MODULE Config -------------------------------
(***************************************************************************)
(* The configuration (src/config.c): what load_keybinds, load_autostart    *)
(* and load_workspaces make of a file that libconfig has parsed, and how a *)
(* key finds its binding (src/keyboard.c).  All three insert every element *)
(* at the head of their list, so the lists run backwards.                  *)
(*                                                                         *)
(* A file is a record of three sequences of settings, empty where the file *)
(* has no such setting, or NULL when it cannot be read.                    *)
(***************************************************************************)
EXTENDS Integers, SequencesExt

CONSTANT NULL  \* a setting that is missing or of the wrong type

\* The longest name that is accepted, and the room create_workspace has for a
\* name and its terminator.
MaxNameLength == 100
NameRoom == 100

EmptyConfig == [keybinds |-> <<>>, autostart |-> <<>>, workspaces |-> <<>>]

\* Mutated form: elements are added at the tail of the list.
AddedAtTail(list, element) == Append(list, element)

Added(list, element) == <<element>> \o list

\* The loop of the three functions: list after the elements whose indexes are in
\* valid have been added one by one.
Loaded(list, elements, valid) ==
  LET after[n \in 0..Len(elements)] ==
        IF n = 0 THEN list
        ELSE IF n \in valid THEN Added(after[n - 1], elements[n]) ELSE after[n - 1]
  IN after[Len(elements)]

\* Those elements in their own order, which the loop is compared with.
Kept(elements, valid) ==
  LET first[n \in 0..Len(elements)] ==
        IF n = 0 THEN <<>>
        ELSE IF n \in valid THEN Append(first[n - 1], elements[n]) ELSE first[n - 1]
  IN first[Len(elements)]

-----------------------------------------------------------------------------
(* Key bindings.  A setting has a list of modifier strings, a key and a     *)
(* command.  A modifier string stands for the modifier words it contains.   *)

ModifierOrder == <<"shift", "ctrl", "alt", "mod4", "mod2">>

\* The first known word decides, whatever else the string says; a string
\* without any is reported and ignored, and the binding is made all the same.
Modifier(string) ==
  LET known == SelectSeq(ModifierOrder, LAMBDA word : word \in string)
  IN IF string = NULL \/ known = <<>> THEN {} ELSE {Head(known)}

\* A symbol is a key with the level it is read at.  A name, whatever its case,
\* stands for the lower-case symbol of a letter.
KeySymbol(key) == [key |-> key, level |-> "lower"]

KeybindValid(setting) == setting.key # NULL /\ setting.cmd # NULL

Keybind(setting) ==
  [mods |-> UNION {Modifier(s) : s \in Range(setting.mod)},
   key |-> KeySymbol(setting.key), cmd |-> setting.cmd]

ValidKeybinds(settings) == {i \in DOMAIN settings : KeybindValid(settings[i])}

LoadKeybinds(list, settings) ==
  Loaded(list, [i \in DOMAIN settings |-> Keybind(settings[i])], ValidKeybinds(settings))

\* Where the list has an entry that handle_keybinding takes for a symbol.
Matching(keybinds, modifiers, symbol) ==
  {i \in DOMAIN keybinds : keybinds[i].mods = modifiers /\ keybinds[i].key = symbol}

-----------------------------------------------------------------------------
(* Programs to start, and workspaces.                                       *)

ValidPrograms(settings) == {i \in DOMAIN settings : settings[i] # NULL}

LoadAutostart(list, settings) == Loaded(list, settings, ValidPrograms(settings))

\* Mutated form: every name is taken, whatever its length.
AnyName(name) == name # NULL

NameValid(name) == name # NULL /\ name.length <= MaxNameLength

ValidNames(settings) == {i \in DOMAIN settings : NameValid(settings[i])}

LoadWorkspaces(list, settings) == Loaded(list, settings, ValidNames(settings))

\* config_load_from_file: a file that cannot be read changes nothing; one that
\* can adds to what earlier files gave.
LoadFile(config, file) ==
  IF file = NULL THEN config
  ELSE [keybinds |-> LoadKeybinds(config.keybinds, file.keybinds),
        autostart |-> LoadAutostart(config.autostart, file.autostart),
        workspaces |-> LoadWorkspaces(config.workspaces, file.workspaces)]
=============================================================================
