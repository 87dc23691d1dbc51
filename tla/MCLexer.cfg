SPECIFICATION Spec
CONSTANTS
  Openings <- MCOpenings
  Chars <- MCChars
  Length = 3
  MaxCalls = 12
INVARIANTS
  ModesNest
  EscapedStaysText
  LinesNotBehind
PROPERTIES
  SourceIsRead
CHECK_DEADLOCK FALSE
