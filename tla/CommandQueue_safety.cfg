SPECIFICATION FairSpec
CONSTANTS
  Node = {n1, n2, n3}
  Null = Null
  Paths = {p}
  Ids <- MCIds
INVARIANTS
  NoLeak
PROPERTIES
  ImplementsQueue
  CallsReturn
