SPECIFICATION FairSpec
CONSTANTS
  Chats = {c1}
  Jobs = {j1, j2, j3}
  Workers = {w1}
  Bulk = Bulk
  NoOne = NoOne
  AutoIndex = FALSE
  MayClose = FALSE
  UserModes = {}
  MaxRetries = 1
  MaxWaiting = 1
  Faults = {"lost", "crash", "error", "unauthorized", "reaper"}
  MaxFaults = 1
  Fresh <- OneId
  MaxRequests = 2
PROPERTY InProgressEnds
PROPERTY HistoryResumed
CHECK_DEADLOCK FALSE
