SPECIFICATION FairSpec
CONSTANTS
  Clients = {c1}
  Frags = 2
  Gops = 2
  SeqSpace = 3
  MaxLost = 2
INVARIANTS CacheWhole WaitsForWhole Numbered
PROPERTIES Heals
