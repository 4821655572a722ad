SPECIFICATION Spec
CONSTANTS
  Fd = {f1, f2, f3}
  Client = {c1, c2}
  Host = {h1}
  MaxIps = 1
  MaxPending = 1
  BatchSize = 3
  Timeouts = FALSE
  Signals = FALSE
  None = None
SYMMETRY Symmetric
CHECK_DEADLOCK FALSE
INVARIANTS
  ClosuresLive
  EntriesAccounted
