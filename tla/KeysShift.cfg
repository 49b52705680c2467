\* A binding of a letter with shift.
SPECIFICATION Spec
CONSTANTS
  NULL = NULL
  Keyboards = {k1, k2}
  Letters = {"q"}
  FunctionKeys = {}
  TwinKeys = {}
  Twin <- NoTwin
  ModifierKeys = {"shift", "mod4"}
  Configurations <- ShiftedLetter
INVARIANTS
  BindingsFire
SYMMETRY Symmetry
