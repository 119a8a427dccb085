SPECIFICATION FairSpec
CONSTANTS
  Sockets = {s1}
  NumHosts = 1
  QueueCap = 1
  AddressOf <- MCAddressOf
  Window = 2
  WindowMax = 1
  MaxClock = 0
PROPERTY
  StreamEnds
CHECK_DEADLOCK FALSE
