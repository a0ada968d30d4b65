SPECIFICATION FairSpec
CONSTANTS
  Plugins <- MCPlugins
  Script <- LiveScript
  Faulty = {}
  Exits = {"stopped", "crashed"}
  Lines <- LiveLines
  Garbled = {}
  Keys <- MCKeys
  Matches <- LiveMatches
  Patterns <- MCPatterns
  Once <- MCPatterns
  LateRegs = {}
  Results = {0, 1}
  Cap = 1
  CtlCap = 1
  MaxLines = 1
  MaxReloads = 1
  MaxAsides = 1
  MaxTicks = 1
PROPERTIES ReadLoopProgress SendsFinish
