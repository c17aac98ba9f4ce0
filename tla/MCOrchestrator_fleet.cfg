SPECIFICATION Spec
CONSTANTS
  Units = {u1, f1}
  FeatureUnits = {f1}
  HoldForConfirm = FALSE
  LandRetryCap = 2
  RepairBudget = 1
  SteerMidTick = TRUE
  WriteMayFail = TRUE
  HeadMayFail = FALSE
  MaxTree = 1
  MaxSteers = 0
  MaxCrashes = 1
CHECK_DEADLOCK FALSE
INVARIANTS LandBounded RecordedFirst
