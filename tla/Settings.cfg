SPECIFICATION Spec
CONSTANTS
  Events <- MCEvents
  Passwords <- MCPasswords
  Special <- MCSpecial
  MaxEdits = 2
  MaxRuns = 2
  MaxFailures = 1
INVARIANTS StartIsThere TemplatesChangeNothing RconAgrees
CHECK_DEADLOCK FALSE
