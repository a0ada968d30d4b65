SPECIFICATION FairSpec
CONSTANTS
  Calls = {"c1", "c2"}
  MaxOut = 2
  MaxReloads = 1
INVARIANTS NoStray OutputWhole
PROPERTY RunReturns
CHECK_DEADLOCK FALSE
