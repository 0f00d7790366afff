SPECIFICATION FairSpec
CONSTANTS
  MaxAttempts = 2
  MaxLosses = 1
  MaxDeaths = 1
CHECK_DEADLOCK FALSE
INVARIANTS Owned LetsGo
PROPERTIES PeersReaped
