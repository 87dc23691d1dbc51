SPECIFICATION Spec
CONSTANTS
  a = a
  b = b
  str = str
  list = list
  n1 = n1
  Nil = Nil
  None = None
  Fail = Fail
  Absent = Absent
  Map = {a, b}
  Host = {1}
  Key = {1, 2}
  Number = {n1}
  Rune <- MCRune
  Printed <- MCPrinted
  Value = {str}
  Type <- AnyType
  Conv <- MCConv
  Fits <- MCFits
  Made <- MadeAny
  Hosts0 <- OneHost
  Walked = {"keys", "entries"}
  MaxWalks = 1
SYMMETRY TwoAlike
INVARIANTS
  SharedOnlyByHosts
PROPERTIES
  RemovesOnlyWalked
CHECK_DEADLOCK FALSE
