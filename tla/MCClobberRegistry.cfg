CONSTANTS
  None = None
  a = a
  b = b
  c = c
  a1 = a1
  a2 = a2
  b1 = b1
  b2 = b2
  c1 = c1
  Pkg = {a, b, c}
  Build = {a1, a2, b1, c1}
  PathSeq <- MCPaths
  NameOf <- MCNameOf
  FilesOf <- FileAgainstFile
  Rank <- MCRank
  Failing = {2}
  MaxTransactions = 3
CHECK_DEADLOCK FALSE
SPECIFICATION Spec
INVARIANTS
  JustReordering
  RecordsTellTheTruth
  WinnersInPlace
