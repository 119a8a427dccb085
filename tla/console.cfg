SPECIFICATION Spec
CONSTANTS
  Lines <- MCLines
  Texts <- MCTexts
  Samples <- MCSamples
  Speeds = {"normal", "fast"}
  BufferCap = 2
  MaxEvents = 3
  MaxLogCalls = 2
  Exposed = {"port"}
  Preset = "198.51.100.42"
  SampleAlerts <- MCSampleAlerts
  MaxAlertCalls = 2
  InitialConnections <- MCConnections
  ListCap = 3
  MaxReloads = 2
  MaxToasts = 2
  Peers = {"peer1", "peer2"}
  Scanned = {"peer2", "scanned"}
  SweepCap = 1
  SectionOf <- MCSectionOf
  InitialResolvers <- MCInitial
  DefaultResolvers <- MCDefault
  NewResolver = "new"
  MaxResolvers = 3
  MaxSaves = 2
  Journeys <- MCJourneys
INVARIANTS
  LogTypeOK
  SelectedIsListed
  OneLoopEach
  PlainLinesAgree
  ShownIsDone
PROPERTIES
  RealLogsKept
  IngestsKept
  BlocksKept
  TransientsEnd
