SPECIFICATION Spec
CONSTANTS
  Long = 5
  Flat = 7
  Deep = 7
  Bare = 9
  Allowed <- MCAllowed
INVARIANTS
  TreeExact
  GobbledOnlyAtTags
  LinesGobbled
CHECK_DEADLOCK FALSE
