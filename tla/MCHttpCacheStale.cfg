SPECIFICATION Spec
CONSTANTS
  Type = {"GET"}
  Conn = {c1, c2}
  Host = {h1}
  Path = {p}
  Marks <- Plain
  Hops <- KeepAlive
  Known = {}
  MaxSize = 1
  MaxVersion = 2
  None = None
CHECK_DEADLOCK FALSE
INVARIANTS
  CopyIsCurrent
