SPECIFICATION Spec
CONSTANTS
  c1 = c1
  c2 = c2
  c3 = c3
  Milters <- TwoMilters
  Fallback <- AcceptAndTempfail
  ManagerFallback = "accept"
  Evaluation = {}
  NoStep <- AllWanted
  Sends = {"header", "end-of-header", "body", "end-of-message"}
  Answers = {"continue", "accept", "reject", "temporary-failure", "discard"}
  Edits = {}
  Faults = {"timeout", "error", "closed"}
  MaxHeaders = 2
  MaxChunks = 2
  MaxEdits = 0
  MaxMessages = 1
INVARIANTS
  TypeOK
  OneAtATime
  RefusalIsOwn
CHECK_DEADLOCK FALSE
