SPECIFICATION FairSpec
CONSTANTS
  Units = {u1}
  FeatureUnits = {}
  HoldForConfirm = FALSE
  LandRetryCap = 2
  RepairBudget = 1
  SteerMidTick = TRUE
  WriteMayFail = FALSE
  HeadMayFail = FALSE
  MaxTree = 2
  MaxSteers = 1
  MaxCrashes = 0
CHECK_DEADLOCK FALSE
PROPERTY WorkReached
