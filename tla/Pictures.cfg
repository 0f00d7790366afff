SPECIFICATION FairSpec
CONSTANTS
  Snaps = {1, 2}
  MaxRenders = 2
  MaxDisturbed = 3
CHECK_DEADLOCK FALSE
INVARIANTS AvailableIsTrue
PROPERTIES OnlineByRight PictureFollows
