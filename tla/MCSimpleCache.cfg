SPECIFICATION Spec
CONSTANTS
  Key = {k1, k2, k3, k4}
  Value = {v1, v2}
  MaxSize = 3
  End = End
  Freed = Freed
INVARIANTS
  TypeOK
  LinksLive
  OneList
PROPERTIES
  ImplementsFifo
