SPECIFICATION FairSpec
CONSTANTS
  Plugins <- MCPlugins
  Script <- LiveScript
  Faulty = {}
  Exits = {"stopped", "crashed"}
  Lines <- LiveLines
  Garbled = {}
  Keys <- MCKeys
  Matches <- LiveMatches
  Patterns <- MCPatterns
  Once <- MCPatterns
  LateRegs <- MCLate
  Results = {0, 1}
  Cap = 1
  CtlCap = 1
  MaxLines = 2
  MaxReloads = 0
  MaxAsides = 1
  MaxTicks = 0
PROPERTIES ReadLoopProgress
CHECK_DEADLOCK FALSE
