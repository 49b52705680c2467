\* Two windows, two workspaces: a switch while a window is being mapped.
SPECIFICATION Spec
CONSTANTS
  NULL = NULL
  Toplevels = {t1, t2}
  Workspaces = {w1, w2}
INVARIANT RedrawnWhenIdle
