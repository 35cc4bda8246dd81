SPECIFICATION FairSpec
CONSTANTS
  Fields = {"nextsongid", "nextsongpos"}
  Events = {"output", "database", "stored_playlist"}
  NumOutputs = 2
  MaxEvents = 3
  MaxNesting = 3
  OutputsAllowed = TRUE
  Unknown = Unknown
INVARIANTS
  TypeOK
  TellsAll
  EventsAreTold
CHECK_DEADLOCK FALSE
PROPERTY EventuallyTold
