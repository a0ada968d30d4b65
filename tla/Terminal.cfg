SPECIFICATION TermFairSpec
CONSTANTS
  Tasks <- MCTasks
  Keys = {"enter", "empty", "reload", "ctrl-c", "ctrl-d", "error"}
  CtlSlots = 1
  MaxLines = 1
  MaxPresses = 2
  MaxOthers = 1
INVARIANTS NeverDropped
PROPERTIES PrintingReturns HandedIsShown
CHECK_DEADLOCK FALSE
