SPECIFICATION Spec
CONSTANTS
  T = T
  F = F
  m = m
  q = q
  Nil = Nil
  Coll = Coll
  None = None
  Name <- MCName
  Scalar <- MCScalar
  TrueScalar <- MCTrue
  MacroName = {m, q}
  List <- MCList
  Main = "main"
  Trees <- WalkTrees
  Bindings <- MCBindings
  Contents <- MCContents
  Library <- NoLibrary
  MaxCallDepth = 2
  MaxIterations = 3
  DefaultMaxCallDepth = 2
  MaxItems = 2
  MaxRuns = 1
INVARIANTS
  UndefinedIsReported
