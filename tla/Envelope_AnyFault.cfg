SPECIFICATION Spec
CONSTANTS
  c1 = c1
  c2 = c2
  Child <- TwoChildren
  Fallback <- AcceptAndTempfail
  ManagerFallback = "accept"
  Evaluation = {c1}
  NoStep <- HeloSkipped
  StopAt = {"connect"}
  Answers = {"continue", "reject"}
  Faults = {"reading", "writing", "idle"}
  MaxRecipients = 1
  MaxBacklog = 2
INVARIANTS
  EveryChildHeard
  IdleWhenAnswered
  SingleReply
CHECK_DEADLOCK FALSE
