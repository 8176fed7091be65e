SPECIFICATION LiveSpec
CONSTANTS
  c1 = c1
  c2 = c2
  c3 = c3
  Milters <- ThreeMilters
  Fallback <- AllReject
  ManagerFallback = "accept"
  Evaluation = {}
  NoStep <- Picky
  Sends = {"header", "end-of-header", "body", "end-of-message"}
  Answers = {"continue", "skip", "accept", "reject"}
  Edits = {"add-header", "replace-body"}
  Faults = {}
  MaxHeaders = 2
  MaxChunks = 2
  MaxEdits = 2
  MaxMessages = 1
INVARIANTS
  SeesWholeMessage
  EveryChildDecides
PROPERTIES
  Answered
CHECK_DEADLOCK FALSE
