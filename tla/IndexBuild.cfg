SPECIFICATION BuildSpec
CONSTANTS
  Procs = {1, 2}
  Keys = {1}
  Vals = {1, 2}
  MaxJobs = 4
  MaxId = 4
  Settings <- BuildSettings
INVARIANTS IndexComplete PublishedIsNamed
PROPERTY CallsEnd
CHECK_DEADLOCK FALSE
