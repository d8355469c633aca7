SPECIFICATION Spec
CONSTANTS
  t1 = t1
  t2 = t2
  t3 = t3
  p1 = p1
  p2 = p2
  a = a
  b = b
  Task = {t1, t2, t3}
  Proc = {p1, p2}
  NoTask = NoTask
  NoProc = NoProc
  ProcOf <- MCProcOf
  Installer = {p1, p2}
  Sha = {a, b}
  NoSha = NoSha
  Want <- WantMixed
  NLayers = 2
  Accepting <- AcceptAll
  ReadOnly = {1}
  RoMount = {}
  Mode = "Fast"
  Permits = 1
  FetchMayFail = TRUE
  MayCrash = TRUE
  MayDetach = TRUE
  MaxRequests = 3
CHECK_DEADLOCK FALSE
INVARIANTS
  ServedValid
  KnownRevisionIsValid
  EntryMutexExclusive
