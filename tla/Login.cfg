SPECIFICATION FairSpec
CONSTANTS
  Regions = {r1, r2}
  Users = {u1}
  Cookies = {c1}
  None = None
  MaxTokens = 1
  Starts = {1, 2}
  Polls = {1}
  MaxSaves = 2
  MaxRestarts = 1
INVARIANTS Persisted
PROPERTIES ScanLogsIn
