\* Keyboards never leave and clients never ask for a grab of an unmapped window.
SPECIFICATION SwitchingSpec
CONSTANTS
  NULL = NULL
  Toplevels = {t1, t2, t3}
  Workspaces = {w1, w2}
  InitialWorkspaces = {w1, NULL}
  SurfaceKinds = {"main", "sub"}
  LateRequests = FALSE
  Keyboards = {k1}
  InitialKeyboards = {k1}
  Unplugging = FALSE
INVARIANTS
  FocusIsHead
  ActivatedIsFocused
  StackFollowsList
  GrabbedIsMapped
PROPERTIES
  EveryWindowComesUp
