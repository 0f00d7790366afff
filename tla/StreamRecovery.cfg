SPECIFICATION FairSpec
CONSTANTS
  MaxCalls = 2
  MaxEvents = 3
  HasLocalKey = FALSE
  SnapLimit = 1
  MaxDisturbed = 2
INVARIANTS ActiveIsTrue
CHECK_DEADLOCK FALSE
PROPERTIES LossHeals Revives Calms
