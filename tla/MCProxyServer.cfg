SPECIFICATION Spec
CONSTANTS
  Fd = {f1, f2, f3}
  Client = {c1, c2}
  Host = {h1, h2}
  MaxIps = 2
  MaxPending = 2
  BatchSize = 1
  Timeouts = FALSE
  Signals = TRUE
  None = None
SYMMETRY Symmetric
CHECK_DEADLOCK FALSE
INVARIANTS
  TypeOK
  RightServer
  OwnRequestOnly
  EntriesAccounted
  SomeoneMoves
