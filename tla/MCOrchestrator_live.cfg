SPECIFICATION FairSpec
CONSTANTS
  Units = {u1}
  FeatureUnits = {}
  HoldForConfirm = FALSE
  LandRetryCap = 3
  RepairBudget = 1
  SteerMidTick = FALSE
  WriteMayFail = FALSE
  HeadMayFail = FALSE
  MaxTree = 2
  MaxSteers = 2
  MaxCrashes = 1
CHECK_DEADLOCK FALSE
INVARIANT TypeOK
PROPERTIES NotRedriven WorkReached
