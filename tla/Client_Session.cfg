SPECIFICATION FairSpec
CONSTANTS
  Verdicts = {"continue", "skip", "accept", "reject"}
  Codes = {"temporary-failure"}
  AtOnce = {"accept"}
  Granted = {"edit", "body"}
  EditsAt = {"body", "end-of-message"}
  BufferSize = 1
  AbortsAt = {"envelope-recipient", "body"}
  Overtakes = TRUE
  MaxEdits = 3
  MaxMessages = 2
INVARIANTS
  EditsArrive
  NoStrayAnswer
  OwnAnswer
PROPERTIES
  SilentMtaNoticed
CHECK_DEADLOCK FALSE
