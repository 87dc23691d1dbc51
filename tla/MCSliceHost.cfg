SPECIFICATION Spec
CONSTANTS
  a = a
  b = b
  int1 = int1
  int2 = int2
  long1 = long1
  str = str
  None = None
  Fail = Fail
  Obj = {a, b}
  Host = {"part", "all"}
  Value = {int1, int2, long1}
  Type <- MCType
  Conv <- MCConv
  Made <- MadeInts
  Arrays0 <- HostArrays
  Windows0 <- HostWindows
  Walked = {a, b}
  Spare = 0
  MaxLen = 2
  MaxArray = 2
SYMMETRY TwoAlike
INVARIANTS
  SharedOnlyByHosts
  WalkExact
