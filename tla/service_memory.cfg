SPECIFICATION FairSpec
CONSTANTS
  MaxJobs = 4
  MaxConcurrent = 2
  HistorySize = 1
  Persistent = FALSE
  Faults <- MemoryFaults
INVARIANTS
  TypeOK
  OwnsLiveTasks
PROPERTIES
  EvictsOldestFirst
  ImplementsHistory
  ResultsPollable
