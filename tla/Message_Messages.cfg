SPECIFICATION Spec
CONSTANTS
  c1 = c1
  c2 = c2
  c3 = c3
  Milters <- TwoMilters
  Fallback <- BothAccept
  ManagerFallback = "accept"
  Evaluation = {}
  NoStep <- AllWanted
  Sends = {"header", "end-of-header", "body", "end-of-message"}
  Answers = {"continue", "skip", "accept", "reject"}
  Edits = {"add-header", "delete-header", "replace-body"}
  Faults = {}
  MaxHeaders = 1
  MaxChunks = 1
  MaxEdits = 1
  MaxMessages = 2
INVARIANTS
  SeesWholeMessage
  RefusalArrives
CHECK_DEADLOCK FALSE
