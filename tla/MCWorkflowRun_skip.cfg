SPECIFICATION Spec
CONSTANTS
  None = None
  Nodes <- MCNodes
  Start = "verify"
  Kind <- MCKind
  Edges <- MCEdges
  Limit <- MCLimit
  Overflow <- MCOverflow
  Tiers <- MCTiers
  Gate <- MCGate
  Retry <- MCRetry
  Continuable <- MCContinuable
  ResumeCap = 1
  Outputs = {"x"}
  MaxCrashes = 3
  MaxRestarts = 0
  MaxContinues = 0
  MaxSteps = 9
CHECK_DEADLOCK FALSE
INVARIANT DoneOnlyIfTold
