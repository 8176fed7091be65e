SPECIFICATION Spec
CONSTANTS
  Messages <- AllMessages
  Malformed <- AllMalformed
  MaxSent = 2
  ChunkSize = 2
  Renegotiates = FALSE
INVARIANTS
  Faithful
  Complete
  ErrorsReported
  ReplyRelayed
CHECK_DEADLOCK FALSE
