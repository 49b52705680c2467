\* Keys of one symbol and of two, on two keyboards that come and go.
SPECIFICATION Spec
CONSTANTS
  NULL = NULL
  Keyboards = {k1, k2}
  Letters = {"q"}
  FunctionKeys = {"f3"}
  TwinKeys = {"t"}
  Twin <- TwinF3
  ModifierKeys = {"shift", "mod4"}
  Configurations <- MCConfigurations
INVARIANTS
  TypeOK
  NothingSticks
  LatestBindingWins
  
SYMMETRY Symmetry
