\* A command with nothing to show.
SPECIFICATION Spec
CONSTANTS
  NULL = NULL
  MaxElements = 5
  ListRoom = 2
  Clients = {c1, c2}
  Messages <- ListOnly
  WindowCounts = {0, 1}
  WorkspaceCounts = {1}
  Backlog = 2
  Disturbances = {}
INVARIANTS
  NoForeignAnswer
CHECK_DEADLOCK FALSE
