SPECIFICATION FairSpec
CONSTANTS
  Procs = {1, 2}
  Keys = {1}
  Vals = {1, 2}
  MaxJobs = 2
  MaxId = 2
  Settings <- StoreLockSettings
PROPERTY BlockedForTheDuration
CHECK_DEADLOCK FALSE
