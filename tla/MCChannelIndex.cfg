SPECIFICATION Spec
CONSTANTS
  Indexer = {i1, i2}
  Package = {p1, p2}
  Options <- ThreeOptions
  Hidden = {p1}
  Legacy <- OldChannels
  p1 = p1
  MaxChange = 2
  MaxRuns = 2
  MaxTry = 2
  MaxCrash = 1
SYMMETRY Symmetric
CHECK_DEADLOCK FALSE
INVARIANTS
  ZstNotOlder
  FilesAgree
  TimestampIsKept
  CacheIsHonest
PROPERTIES
  JsonAdvances
