\* One axis: moves and resizes from either edge, the client lagging behind.
SPECIFICATION Spec
CONSTANTS
  NULL = NULL
  Axes = {"x"}
  Positions <- MCPositions
  Lengths <- MCLengths
  Places <- MCPlaces
  Offsets = {0, 1}
  Margin = 1
INVARIANTS
  TypeOK
  SizeStaysPositive
  OppositeEdgeStays
  DraggedEdgeFollows
  ReturnUndoes
