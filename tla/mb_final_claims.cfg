SPECIFICATION Spec
CONSTANTS
  u1 = u1
  c1 = c1
  d1 = d1
  Users <- OneUser
  Chats <- OneChat
  UserOf <- Owner
  Days <- OneDay
  ChatOf <- ChatOfDay
  Passages = {1}
  DayOf <- DayOfPassage
  Tokens <- UnitTokens
  Batches = {b1}
  NoBatch = NoBatch
  Workers = {w1}
  NoWorker = NoWorker
  QueueTokens = 2
  MinRoom = 1
  MaxFailures = 2
  FlushLimit = 1
  MaxRevision = 1
  LockCanLapse = FALSE
INVARIANT ClaimsAreOpen
