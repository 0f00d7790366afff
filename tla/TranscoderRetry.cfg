SPECIFICATION FairSpec
CONSTANTS
  Ports = {p1}
  NoPort = NoPort
  MaxQueue = 2
  MaxDeaths = 0
  MaxFailures = 0
  MaxChanges = 0
PROPERTIES LiveIsRetried
