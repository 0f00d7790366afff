SPECIFICATION FairSpec
CONSTANTS
  Ports = {p1, p2}
  NoPort = NoPort
  MaxQueue = 2
  MaxDeaths = 1
  MaxFailures = 1
  MaxChanges = 1
INVARIANTS OneWriter NeverSilent RelayServes
PROPERTIES QueueFlows Streams
