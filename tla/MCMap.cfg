SPECIFICATION Spec
CONSTANTS
  a = a
  b = b
  str = str
  list = list
  n1 = n1
  Nil = Nil
  None = None
  Fail = Fail
  Absent = Absent
  Map = {a, b}
  Host = {}
  Key = {1}
  Number = {}
  Rune <- MCRune
  Printed <- MCPrinted
  Value = {str, list}
  Type <- MCType
  Conv <- MCConv
  Fits <- MCFits
  Made <- MCMade
  Hosts0 <- NoHosts
  Walked = {"keys", "entries"}
  MaxWalks = 1
SYMMETRY TwoAlike
INVARIANTS
  TypeOK
PROPERTIES
  Implements
CHECK_DEADLOCK FALSE
