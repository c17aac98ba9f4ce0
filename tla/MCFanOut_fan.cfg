SPECIFICATION FairSpec
CONSTANTS
  N = 3
  MaxParallel = 2
  Settings <- MCSettings
  MaxCrashes = 1
  MaxFaults = 1
CHECK_DEADLOCK FALSE
INVARIANTS TypeOK ResolvedNotRerun JoinHonest NoneDetached AbortReachesAll WithinSlack
PROPERTIES FanOutEnds
