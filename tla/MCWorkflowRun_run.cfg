SPECIFICATION FairSpec
CONSTANTS
  None = None
  Nodes <- MCNodes
  Start = "verify"
  Kind <- MCKind
  Edges <- MCEdges
  Limit <- MCLimit
  Overflow <- MCOverflow
  Tiers <- MCTiers
  Gate <- MCGate
  Retry <- MCRetry
  Continuable <- MCContinuable
  ResumeCap = 1
  Outputs = {"x"}
  MaxCrashes = 1
  MaxRestarts = 1
  MaxContinues = 1
  MaxSteps = 9
CHECK_DEADLOCK FALSE
INVARIANTS TypeOK CapHeld PoisonBounded FailedStaysDown
PROPERTIES ImplementsWalk RunEnds
