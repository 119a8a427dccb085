SPECIFICATION FairSpec
CONSTANTS
  MaxLaunches = 2
  MaxAttempts = 2
INVARIANTS
  TypeOK
  HonestOutcome
  ShownIsOwn
  OnePanel
  ProgressIsCurrent
PROPERTIES
  ImplementsPromise
  LaunchEnds
