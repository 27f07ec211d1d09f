CONSTANTS
  Chats = {"c"}
  Nameless = {}
  Top = 3
  BatchSize = 1
  Latest = 2
  Since = 2
  Budget <- Everything
SPECIFICATION Spec
CHECK_DEADLOCK FALSE
INVARIANT TypeOK
INVARIANT CompleteWhenSynced
INVARIANT Fresh
PROPERTY NothingForgotten
