SPECIFICATION Spec
CONSTANTS
  reserve = reserve  notify = notify  charge = charge  ship = ship
  Step <- MCStep
  NStages = 3
  StageOf <- MCStageOf
  HasCompensation <- MCCompensated
  DirtyFailure <- MCDirty
  MaxAttempts = 2
  MaxRuns = 2
INVARIANT CleanRollbackRestores
CHECK_DEADLOCK FALSE
