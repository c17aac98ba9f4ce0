SPECIFICATION FairSpec
CONSTANTS
  MaxPrs = 1
  Deployments <- MCAlone
CHECK_DEADLOCK FALSE
PROPERTY GreenKept
