SPECIFICATION FairSpec
CONSTANTS
  MaxLogins = 2
  MaxEvents = 3
CHECK_DEADLOCK FALSE
INVARIANTS OneRefresh OneConnection MotionEnds
PROPERTIES Reconnects
