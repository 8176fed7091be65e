SPECIFICATION FairSpec
CONSTANTS
  c1 = c1
  c2 = c2
  Child <- TwoChildren
  Fallback <- AcceptAndTempfail
  ManagerFallback = "accept"
  Evaluation = {}
  NoStep <- HeloSkipped
  StopAt = {"connect", "helo", "envelope-from", "envelope-recipient"}
  Answers = {"continue", "accept", "reject"}
  Faults = {"reading"}
  MaxRecipients = 1
  MaxBacklog = 2
INVARIANTS
  TypeOK
  NobodyDropsOut
  NoGhostMessage
PROPERTIES
  Answered
  OneMilter
CHECK_DEADLOCK FALSE
