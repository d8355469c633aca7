SPECIFICATION FairSpec
CONSTANTS
  t1 = t1
  t2 = t2
  t3 = t3
  p1 = p1
  p2 = p2
  a = a
  b = b
  Task = {t1, t2, t3}
  Proc = {p1, p2}
  NoTask = NoTask
  NoProc = NoProc
  ProcOf <- MCProcOf
  Installer = {p1, p2}
  Sha = {a, b}
  NoSha = NoSha
  Want <- WantHashed
  NLayers = 3
  Accepting <- AcceptByHash
  ReadOnly = {1, 2}
  RoMount = {2}
  Mode = "Skip"
  Permits = 1
  FetchMayFail = TRUE
  MayCrash = FALSE
  MayDetach = FALSE
  MaxRequests = 5
CHECK_DEADLOCK FALSE
INVARIANTS
  WritersExclusive
  ServedMatchesUnlessFailed
  FetchOnlyWhenNeeded
  
PROPERTIES
  CallsEnd
