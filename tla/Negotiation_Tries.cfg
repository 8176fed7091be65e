SPECIFICATION FairSpec
CONSTANTS
  c1 = c1
  c2 = c2
  c3 = c3
  Child <- ThreeChildren
  Fallback <- TwoRefuse
  ManagerFallback = "accept"
  Privilege = TRUE
  Launchable = {c2}
  Immediate = {c1, c3}
  Offered = {"no-helo", "no-reply-helo", "skip"}
  Wishes <- SomeWishes
  Faults = {"connect", "start", "connection-timeout", "version", "closed", "timeout", "error"}
INVARIANTS
  HandOver
  OneNegotiation
  OptionsAgreed
  NobodyLetsThrough
PROPERTIES
  Settled
CHECK_DEADLOCK FALSE
