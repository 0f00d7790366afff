SPECIFICATION SessionSpec
CONSTANTS
  Cameras = {c1, c2}
  Clients = {w1, w2}
  Names = {s1, s2}
INVARIANTS
  SpeakerWatched
  BrowserWatched
PROPERTIES
  WebNeverTakes
  NoClick
  ImplementsFloor
