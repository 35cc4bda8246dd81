SPECIFICATION FairSpec
CONSTANTS
  Fields = {}
  Events = {"output", "database"}
  NumOutputs = 1
  MaxEvents = 2
  MaxNesting = 2
  OutputsAllowed = TRUE
  Unknown = Unknown
INVARIANT UpdatesAreTold
CHECK_DEADLOCK FALSE
