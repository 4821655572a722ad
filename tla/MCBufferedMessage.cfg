SPECIFICATION FairSpec
CONSTANTS
  Source <- Sources
  BufferLength = 4
  INF = 100
  SizeMod = 1000
CHECK_DEADLOCK FALSE
INVARIANTS
  TypeOK
  WrittenInOrder
  LengthExact
PROPERTIES
  RelayedInTime
  EverythingSent
