\* Clients ask for a move or a resize of windows that are not mapped.
SPECIFICATION Spec
CONSTANTS
  NULL = NULL
  Toplevels = {t1, t2}
  Workspaces = {w1, w2}
  InitialWorkspaces = {w1}
  SurfaceKinds = {"main"}
  LateRequests = TRUE
  Keyboards = {k1}
  InitialKeyboards = {k1}
  Unplugging = FALSE
INVARIANTS
  GrabbedExists
