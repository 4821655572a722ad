SPECIFICATION FairSpec
CONSTANTS
  c1 = c1
  c2 = c2
  c3 = c3
  c4 = c4
  a = a
  b = b
  d = d
  Worker = {w1, w2}
  Call <- Calls
  Name = {a, b, d}
  NameOf <- Names
  BadPort = {c4}
  CacheSize = 2
  None = None
CHECK_DEADLOCK FALSE
INVARIANTS
  TypeOK
  FetchFindsAnswer
  SomeoneIsAwake
PROPERTIES
  ImplementsService
  EveryCallAnswered
