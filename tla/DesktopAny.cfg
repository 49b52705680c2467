\* Keyboards come and go, and clients ask for grabs at any time.
SPECIFICATION Spec
CONSTANTS
  NULL = NULL
  Toplevels = {t1, t2, t3}
  Workspaces = {w1, w2}
  InitialWorkspaces = {w1, NULL}
  SurfaceKinds = {"main", "popup"}
  LateRequests = TRUE
  Keyboards = {k1, k2}
  InitialKeyboards = {}
  Unplugging = TRUE
SYMMETRY Symmetry
INVARIANTS
  TypeOK
  ListExact
  VisibleIffActive
  KeyboardAdvertised
PROPERTIES
  FocusGivenToVisible
  OnlyCommandsSwitch
  ImplementsScreen
