SPECIFICATION FairSpec
CONSTANTS
  Packet = 2
  MaxPackets = 3
  MaxInput = 1
  Full = FALSE
INVARIANTS
  Quiet
  NoEarlyFlush
PROPERTIES
  Acknowledged
  Closes
CHECK_DEADLOCK FALSE
