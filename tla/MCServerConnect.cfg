SPECIFICATION FairSpec
CONSTANTS
  Client = {c1, c2}
  Address = {a, b, d}
  Refuses = {a, b}
  Type = {"GET", "CONNECT"}
  MaxIps = 3
  None = None
CHECK_DEADLOCK FALSE
INVARIANTS
  TypeOK
  QueryFound
  TriedThemAll
PROPERTIES
  EndsUnlessRefused
