CONSTANTS
  Chats = {"c"}
  Nameless = {}
  Top = 2
  BatchSize = 1
  Latest = 1
  Since = 1
  Budget <- Reselection
SPECIFICATION Spec
CHECK_DEADLOCK FALSE
INVARIANT ReselectingRecovers
