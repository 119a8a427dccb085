SPECIFICATION FairSpec
CONSTANTS
  Hosts = {h1, h2}
  Ports = {80, 443}
  MaxConcurrency = 2
  MaxRetries = 1
  Crashes = TRUE
INVARIANTS
  TypeOK
  PermitsConserved
  NoLostWakeup
  YieldedIsComplete
  NothingOutlivesScan
PROPERTY
  ScanEnds
CHECK_DEADLOCK FALSE
