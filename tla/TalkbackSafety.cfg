SPECIFICATION Spec
CONSTANTS
  Cameras = {c1, c2}
  Clients = {k1, k2}
  Conns = {x1, x2}
  Names = {s1}
  Match <- OneMatch
  MaxRelays = 2
  MaxResolving = 2
  Polite = FALSE
SYMMETRY Symmetry
INVARIANTS
  SessionsOwn
  RelaysOwn
  PendingAudioTaken
