SPECIFICATION ReorderSpec
CONSTANTS
  Half = 5
  ResyncBack = 3
  ResyncFwd = 3
  MaxPending = 3
  Delay = 3
  Burst = 4
  MaxRestarts = 1
  MaxSent = 8
INVARIANTS PendingAhead
PROPERTIES ToldAtTheHole InOrder HoleIsTold
CHECK_DEADLOCK FALSE
