SPECIFICATION FairSpec
CONSTANTS
  MaxJobs = 2
  MaxConcurrent = 2
  HistorySize = 1
  Persistent = TRUE
  Faults <- NoFaults
PROPERTY
  ResultsPollable
