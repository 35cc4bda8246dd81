SPECIFICATION Spec
CONSTANTS
  Operations = {"connect", "disconnect", "player_set_random", "player_next", "stats_update"}
  MaxNesting = 2
  AckCodes = {"OTHER"}
  OldServer = FALSE
  DbUpdates = TRUE
  HasPassword = TRUE
  None = None
INVARIANTS
  TypeOK
  UnlockedWhenIdle
  DisconnectForgets
  FreshWhenIdle
CHECK_DEADLOCK FALSE
