SPECIFICATION Spec
CONSTANTS
  t1 = t1
  t2 = t2
  t3 = t3
  p1 = p1
  p2 = p2
  a = a
  b = b
  Task = {t1, t3}
  Proc = {p1, p2}
  NoTask = NoTask
  NoProc = NoProc
  ProcOf <- MCProcOfTwo
  Installer = {p1, p2}
  Sha = {a, b}
  NoSha = NoSha
  Want <- WantEither
  NLayers = 1
  Accepting <- AcceptAll
  ReadOnly = {}
  RoMount = {}
  Mode = "Skip"
  Permits = 1
  FetchMayFail = TRUE
  MayCrash = FALSE
  MayDetach = FALSE
  MaxRequests = 3
INVARIANTS
  ServedMatches

