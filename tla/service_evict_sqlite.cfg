SPECIFICATION Spec
CONSTANTS
  MaxJobs = 3
  MaxConcurrent = 1
  HistorySize = 1
  Persistent = TRUE
  Faults <- NoFaults
PROPERTY
  EvictsOldestFirst
