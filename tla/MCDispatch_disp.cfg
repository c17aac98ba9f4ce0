SPECIFICATION FairSpec
CONSTANTS
  Raced = raced
  Plain = plain
  Issues <- MCIssues
  PoolSize = 5
  RaceIssues = {raced}
  Deployments <- MCDeployments
  MaxActive = 1
  MaxWip = 1
INVARIANTS TypeOK OneByDispatch RacedOnce OriginalParked LedgerEarned
PROPERTY TakenUp
