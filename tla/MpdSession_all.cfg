SPECIFICATION Spec
CONSTANTS
  Operations <- AllOperations
  MaxNesting = 1
  AckCodes = {"NO_EXIST", "EXIST"}
  OldServer = TRUE
  DbUpdates = FALSE
  HasPassword = TRUE
  None = None
INVARIANTS
  NoNullUsed
  UnlockedWhenIdle
  CheckedStatusIsThere
  ClosedBeforeOpened
  NoErrorLost
