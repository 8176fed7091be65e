SPECIFICATION FairSpec
CONSTANTS
  Conns = {m1, m2, m3}
  Setups <- Sound
  MaxPending = 1
INVARIANTS
  LimitKept
  NoneCut
  NoneForgotten
  LeadersFreed
PROPERTIES
  Served
  Ends
CHECK_DEADLOCK FALSE
