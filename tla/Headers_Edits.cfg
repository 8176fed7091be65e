SPECIFICATION Spec
CONSTANTS
  Names = {"X-A", "B"}
  Folded <- Fold
  Texts = {"1", "2"}
  Originals <- Distinct
  MaxEdits = 2
INVARIANTS
  SameHeaders
CHECK_DEADLOCK FALSE
