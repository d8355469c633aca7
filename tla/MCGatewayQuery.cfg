SPECIFICATION FairSpec
CONSTANTS
  Channel = {1, 2, 3, 4, 5}
  UserChannels <- Users
  MaxDepth = 2
  Modes = {TRUE, FALSE}
  Outages <- AnyOutage
  Declarations <- AllDeclarations
  Name = {"a", "b", "c", "d"}
  Record = {1, 2, 3, 4, 5, 6}
  Extra = {"x"}
  RecordName <- NameOf
  RecordsOf <- InChannel
  Depends <- BaseDepends
  ExtraDepends <- OfExtra
  SpecNames <- NamesMatched
  SpecRecords <- Matches
  SpecExtras <- ExtrasAsked
  IsPattern <- Globs
  SpecChoices <- Worlds
  FetchMayFail = TRUE
CHECK_DEADLOCK FALSE
INVARIANTS
  ResultIsClosure
  NoDuplicates
  FinalStateIsCanonical
  OrderIsSound
  BucketsFollowOrder
PROPERTIES
  QueryEnds
