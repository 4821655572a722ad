SPECIFICATION FairSpec
CONSTANTS
  Byte = {0, 1}
  BufferLength = 2
  MaxSent <- MCSent
  None = None
CHECK_DEADLOCK FALSE
INVARIANTS
  TypeOK
  BufferExact
  EventsFollowBuffers
PROPERTIES
  ImplementsPipe
  EveryByteArrives
