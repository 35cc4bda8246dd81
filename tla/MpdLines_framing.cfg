SPECIFICATION FairSpec
CONSTANTS
  Max = 4
  MaxStream = 7
  NewLine = "nl"
  Nul = "nul"
  Bytes <- MCBytes
  Streams <- MCStreams
INVARIANTS
  TypeOK
  OverrunForLongLines
PROPERTIES
  ImplementsLines
  LineArrives
CHECK_DEADLOCK FALSE
