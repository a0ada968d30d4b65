SPECIFICATION FairSpec
CONSTANTS
  Unix = TRUE
  Texts <- MCTexts
  QueueCap = 1
  CtlCap = 1
  PipeCap = 1
  MaxKeys = 3
  MaxTyped = 2
  MaxPlugin = 1
  MaxOut = 1
INVARIANTS TypedOrder QuitsDeliberately NoOrphan
PROPERTIES ConsoleGoesOn OutputRead
CHECK_DEADLOCK FALSE
