SPECIFICATION FairSpec
CONSTANTS
  Cameras = {c1}
  Clients = {k1}
  Conns = {x1}
  Names = {s1}
  Match <- OneMatch
  MaxRelays = 2
  MaxResolving = 1
  Polite = TRUE
PROPERTIES
  GhostReleased
  GoesQuiet
  PublisherReleased
