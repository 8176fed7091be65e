SPECIFICATION Spec
CONSTANTS
  c1 = c1
  c2 = c2
  c3 = c3
  Milters <- TwoMilters
  Fallback <- BothAccept
  ManagerFallback = "accept"
  Evaluation = {}
  NoStep <- AllWanted
  Sends = {"header", "end-of-header", "body", "end-of-message"}
  Answers = {"continue", "reject"}
  Edits = {}
  Faults = {}
  MaxHeaders = 1
  MaxChunks = 1
  MaxEdits = 0
  MaxMessages = 2
INVARIANTS
  EveryChildDecides
CHECK_DEADLOCK FALSE
