SPECIFICATION Spec
CONSTANTS
  Chats = {c1}
  Jobs = {j1, j2}
  Workers = {w1, w2}
  Bulk = Bulk
  NoOne = NoOne
  AutoIndex = TRUE
  MayClose = TRUE
  UserModes = {"latest"}
  MaxRetries = 1
  MaxWaiting = 1
  Faults = {"silence", "lapse"}
  MaxFaults = 2
  Fresh <- AnyId
  MaxRequests = 2
SYMMETRY Symmetry
PROPERTY NoTheft
CHECK_DEADLOCK FALSE
