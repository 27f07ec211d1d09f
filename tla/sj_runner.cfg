SPECIFICATION Spec
CONSTANTS
  Chats = {c1}
  Jobs = {j1, j2, j3}
  Workers = {w1, w2}
  Bulk = Bulk
  NoOne = NoOne
  AutoIndex = FALSE
  MayClose = FALSE
  UserModes = {"all"}
  MaxRetries = 1
  MaxWaiting = 1
  Faults = {"lost", "duplicate", "error", "flood", "budget", "unauthorized", "reaper"}
  MaxFaults = 1
  Fresh <- AnyId
  MaxRequests = 1
SYMMETRY Symmetry
INVARIANT TypeOK
INVARIANT OneRunner
INVARIANT DoomedIsDead
CHECK_DEADLOCK FALSE
