SPECIFICATION Spec
CONSTANTS
  a = a
  b = b
  int1 = int1
  int2 = int2
  long1 = long1
  str = str
  None = None
  Fail = Fail
  Obj = {a, b}
  Host = {}
  Value = {int1, str}
  Type <- MCType
  Conv <- MCConv
  Made <- MCMade
  Arrays0 <- NoArrays
  Windows0 <- NoWindows
  Walked = {}
  Spare = 1
  MaxLen = 3
  MaxArray = 2
SYMMETRY TwoAlike
INVARIANTS
  TypeOK
PROPERTIES
  Implements
