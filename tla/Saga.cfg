SPECIFICATION FairSpec
CONSTANTS
  reserve = reserve  notify = notify  charge = charge  ship = ship
  Step <- MCStep
  NStages = 3
  StageOf <- MCStageOf
  HasCompensation <- MCCompensated
  DirtyFailure <- MCDirty
  MaxAttempts = 2
  MaxRuns = 2
INVARIANTS AllOrNothing RunsAreInOrder
PROPERTIES RetryOnlyFromClean ReverseOrder Terminates ImplementsAtomicSaga
CHECK_DEADLOCK FALSE
