SPECIFICATION Spec
CONSTANTS
  Rendering = {r1, r2}
  Trees <- MCTrees
  Object <- MCObject
  Kind <- MCKind
  Parts <- MCParts
  Lists <- MCLists
  Addr <- MCAddr
  Roots <- MCRoots
  Buffers = {b1, b2, b3, b4, b5, b6}
  MaxArraySize = 1
  MaxStack = 5
  None = None
INVARIANTS
  OutputExact
  Isolation
PROPERTIES
  RenderingsEnd
CHECK_DEADLOCK FALSE
