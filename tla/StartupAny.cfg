\* Every command line of up to three options.
SPECIFICATION Spec
CONSTANTS
  NULL = NULL
  Garbage = Garbage
  Files <- MCFiles
  Paths = {255, 256}
  Programs = {"p", "q"}
  MaxOptions = 3
INVARIANTS
  TypeOK
  WorkspacesAsConfigured
  ProgramsInReverse
  DiesAtTheLimitOnly
CHECK_DEADLOCK FALSE
