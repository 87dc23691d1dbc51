SPECIFICATION FairSpec
CONSTANTS
  T = T
  F = F
  m = m
  q = q
  Nil = Nil
  Coll = Coll
  None = None
  Name <- MCName
  Scalar <- MCScalar
  TrueScalar <- MCTrue
  MacroName = {m, q}
  List <- MCList
  Main = "main"
  Trees <- LimitTrees
  Bindings <- MCBindings
  Contents <- MCContents
  Library <- NoLibrary
  MaxCallDepth = 1
  MaxIterations = 2
  DefaultMaxCallDepth = 2
  MaxItems = 8
  MaxRuns = 1
INVARIANTS
  DepthBounded
PROPERTIES
  Termination
