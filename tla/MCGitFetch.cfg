SPECIFICATION FairSpec
CONSTANTS
  p1 = p1
  p2 = p2
  t1 = t1
  t2 = t2
  t3 = t3
  NoTask = NoTask
  Process = {p1, p2}
  Task = {t1, t2, t3}
  TasksOf <- TwoAndOne
  MaxCommit = 3
  MaxFetch = 3
  MaxCrash = 1
  MaxDamage = 2
  RemoteMayFail = TRUE
CHECK_DEADLOCK FALSE
INVARIANTS
  ReturnedIsWhole
  NoNeedlessFailure
PROPERTIES
  FetchEnds
