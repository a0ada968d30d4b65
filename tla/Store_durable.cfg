SPECIFICATION Spec
CONSTANTS
  Slots = {"a", "b"}
  Vals = {"x"}
  Nil = Nil
  InFlight = FALSE
  MaxChanges = 3
  MaxFailures = 1
  MaxRestarts = 1
INVARIANTS WholeFile CleanMeansSaved FlushKept
PROPERTY Durability
CHECK_DEADLOCK FALSE
