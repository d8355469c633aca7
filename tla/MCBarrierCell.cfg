SPECIFICATION FairSpec
CONSTANTS
  Setter = {s1, s2}
  Waiter = {w1, w2}
  Value = {v1, v2}
  NoValue = NoValue
CHECK_DEADLOCK FALSE
INVARIANTS
  ReadsWhatWasSet
PROPERTIES
  WaitersReturn
