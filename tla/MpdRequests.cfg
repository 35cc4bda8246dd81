SPECIFICATION FairSpec
CONSTANTS
  NameBytes = {"a", "quote", "backslash", "space"}
  MaxName = 2
INVARIANTS ArrivesAsAsked NothingElseArrives
PROPERTY RequestEnds
