SPECIFICATION Spec
CONSTANTS
  Fd = {f1, f2, f3}
  Client = {c1, c2}
  Host = {h1}
  MaxIps = 1
  MaxPending = 2
  BatchSize = 1
  Timeouts = TRUE
  Signals = TRUE
  None = None
SYMMETRY Symmetric
CHECK_DEADLOCK FALSE
INVARIANTS
  OwnRequestOnly
