SPECIFICATION Spec
CONSTANTS
  Plugins <- MCPlugins
  Script <- MCScript
  Faulty = {"p"}
  Exits = {"stopped"}
  Lines <- MCLines
  Garbled = {"junk"}
  Keys <- MCKeys
  Matches <- MCMatches
  Patterns <- MCPatterns
  Once <- MCPatterns
  LateRegs <- MCLate
  Results = {0, 2}
  Cap = 1
  CtlCap = 1
  MaxLines = 2
  MaxReloads = 1
  MaxAsides = 1
  MaxTicks = 0
INVARIANTS TypeOK OncePerLoad FreshDispatch CommandOrder CommandsKept
CHECK_DEADLOCK FALSE
