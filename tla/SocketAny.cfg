\* Clients die or stay silent, messages break the limits, the compositor exits,
\* its children keep its descriptors, the path cannot be bound.
SPECIFICATION FairSpec
CONSTANTS
  NULL = NULL
  MaxElements = 4
  ListRoom = 1
  Clients = {c1, c2}
  Messages <- AnyMessages
  WindowCounts = {0, 1, 2}
  WorkspaceCounts = {0, 1}
  Backlog = 2
  Disturbances = {"kill", "bind", "spawn"}
INVARIANTS
  TypeOK
  OneConnection
  SuccessImpliesExecuted
  NobodyAbandoned
  AnswerIsOwn
  PatientClientsAreSafe
PROPERTIES
  ImplementsRequests
  ServedUnlessHeld
  ExitExits
CHECK_DEADLOCK FALSE
