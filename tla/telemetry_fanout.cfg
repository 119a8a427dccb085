SPECIFICATION FairSpec
CONSTANTS
  Sockets = {s1, s2}
  NumHosts = 3
  QueueCap = 2
  AddressOf <- MCAddressOf
  Window = 2
  WindowMax = 1
  MaxClock = 2
INVARIANTS
  TypeOK
  NoGapNoReorder
  WindowBounded
PROPERTIES
  ImplementsStream
  StreamEndsUnlessDropped
CHECK_DEADLOCK FALSE
