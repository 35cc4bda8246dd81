SPECIFICATION Spec
CONSTANTS
  Handle = {h1, h2}
  Node = {n1, n2, n3, n4, n5}
  Null = Null
INVARIANTS
  WellLinked
  NothingLost
PROPERTY ImplementsLists
