\* A window with popups, one of them nested, on an output that comes and goes.
SPECIFICATION Spec
CONSTANTS
  NULL = NULL
  o1 = o1
  Outputs = {o1}
  Toplevels = {t1}
  Popups = {p1, p2}
  OutputOf <- MCOutputOf
CHECK_DEADLOCK FALSE
INVARIANTS
  TypeOK
  HandlersHaveStructs
  PointerFindsOwner
PROPERTIES
  ConfiguresArrive
  FramesArrive
