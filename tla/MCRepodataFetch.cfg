SPECIFICATION Spec
CONSTANTS
  Task = {t1, t2}
  NoTask = NoTask
  None = None
  Missing = Missing
  Torn = Torn
  Options <- AllOptions
  Variants = {"zst"}
  Controls = {"max_age"}
  MaxStamp = 3
  MaxRetry = 1
  MaxCrash = 1
  MaxDrop = 0
INVARIANTS
  AnswerWasServed
  StateIsHonest
  InSync
  NotFoundIsTrue
SYMMETRY TaskSymmetry
