\* A configuration without a valid workspace.
SPECIFICATION Spec
CONSTANTS
  NULL = NULL
  Garbage = Garbage
  Files <- FewFiles
  Paths = {20}
  Programs = {"p"}
  MaxOptions = 2
INVARIANTS
  NullWithoutWorkspaces
CHECK_DEADLOCK FALSE
