CONSTANTS
  NoTask = NoTask
  t1 = t1
  t2 = t2
  t3 = t3
  p1 = p1
  p2 = p2
  Task = {t1, t2, t3}
  Proc = {p1, p2}
  ProcOf <- MCProcOf
  Pkg = {a, b}
  IoMayFail = TRUE
  InstallMayFail = TRUE
  MayDrop = TRUE
  MayCrash = TRUE
  MaxCalls = 3
CHECK_DEADLOCK FALSE
SPECIFICATION FairSpec
INVARIANTS
  OneInstaller
  ReadyIsInstalled
  UsedIsInstalled
PROPERTIES
  CallsEnd
