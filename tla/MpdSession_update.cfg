SPECIFICATION Spec
CONSTANTS
  Operations = {"connect", "status_update"}
  MaxNesting = 1
  AckCodes = {"OTHER"}
  OldServer = FALSE
  DbUpdates = TRUE
  HasPassword = FALSE
  None = None
INVARIANTS
  NoNullUsed
