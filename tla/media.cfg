CONSTANTS
  Messages = {"m"}
  Workers = {"fetch", "process1", "process2", "index"}
  Pool <- Pools
  TargetDepth = 1
  MaxRetries = 2
  EditsOverlap = FALSE
  Budget <- AnyTwo
SPECIFICATION Spec
CHECK_DEADLOCK FALSE
INVARIANT TypeOK
INVARIANT FreshUnlessPruned
INVARIANT DuplicatesSpendOnce
PROPERTY DeselectedIsUntouched
PROPERTY Settles
