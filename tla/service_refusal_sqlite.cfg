SPECIFICATION Spec
CONSTANTS
  MaxJobs = 3
  MaxConcurrent = 2
  HistorySize = 1
  Persistent = TRUE
  Faults <- KillOnly
INVARIANT
  RefusesOnlyWhenFull
