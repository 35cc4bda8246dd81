SPECIFICATION FairSpec
CONSTANTS
  MaxRequests = 3
  MaxElements = 1
  UseListOk = TRUE
  BeginsWhenDone = TRUE
INVARIANTS
  TypeOK
  Aligned
  NothingOwed
  NoLeftoverElement
PROPERTY ReplyFinishes
