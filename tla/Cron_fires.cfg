SPECIFICATION Spec
CONSTANTS
  Jobs <- MCJobs
  Late = {"late"}
  Times <- MCTimes
  Schedule <- MCSchedule
  SleepCap = 3
  Tolerance = 1
  Steps <- MCSteps
  MaxTicks = 8
  MaxSteps = 2
  MaxReloads = 1
INVARIANTS TypeOK EachTimeOnce NotSleptOver
CHECK_DEADLOCK FALSE
