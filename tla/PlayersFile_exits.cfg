SPECIFICATION FileSpec
CONSTANTS
  Ann = Ann
  Bob = Bob
  People <- MCPeople
  MaxClock = 2
  MaxFailures = 1
  MaxRestarts = 2
INVARIANTS TypeOK FirstEver LastSeen ExitSaves
SYMMETRY MCSymmetry
CHECK_DEADLOCK FALSE
