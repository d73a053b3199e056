SPECIFICATION Spec
CONSTANTS
  Procs = {1, 2}
  Keys = {1}
  Vals = {1, 2}
  MaxJobs = 2
  MaxId = 2
  Settings <- UnlockedSettings
INVARIANT IndexComplete
CHECK_DEADLOCK FALSE
