SPECIFICATION FairSpec
CONSTANTS
  MaxJobs = 3
  MaxConcurrent = 2
  HistorySize = 1
  Persistent = TRUE
  Faults <- AllFaults
INVARIANTS
  LiveWithinLimit
  SlotsAreBacked
  CancelIsFinal
  ShutdownSettles
PROPERTIES
  RecordMovesForward
  CancelTakesEffect
  ShutdownCompletes
