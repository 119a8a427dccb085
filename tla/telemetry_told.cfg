SPECIFICATION Spec
CONSTANTS
  Sockets = {s1}
  NumHosts = 1
  QueueCap = 2
  AddressOf <- MCAddressOf
  Window = 2
  WindowMax = 1
  MaxClock = 0
INVARIANT
  ClosedMeansTold
CHECK_DEADLOCK FALSE
