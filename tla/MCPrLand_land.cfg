SPECIFICATION FairSpec
CONSTANTS
  MaxPrs = 2
  Deployments <- MCDeployments
CHECK_DEADLOCK FALSE
INVARIANTS TypeOK MergesGated ProofMerged IssueHonest
PROPERTY MergeSettled
