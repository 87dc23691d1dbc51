SPECIFICATION FairSpec
CONSTANTS
  Half = 8
  MaxArray = 8
  None = None
INVARIANTS
  TypeOK
  EndsExact
  SizeExact
  IndexExact
  ContainsExact
  WalkExact
PROPERTIES
  WalkEnds
CHECK_DEADLOCK FALSE
