SPECIFICATION Spec
CONSTANTS
  MaxLaunches = 1
  MaxAttempts = 1
INVARIANTS
  SampleNeverExported
