SPECIFICATION Spec
CONSTANTS
  Type = {"GET", "POST", "PUT"}
  Conn = {c1, c2}
  Host = {h1, h2}
  Path = {p}
  Marks <- MCMarks
  Hops <- MCHops
  Known = {2}
  MaxSize = 1
  MaxVersion = 2
  None = None
SYMMETRY Symmetric
INVARIANTS
  TypeOK
  AnswersTheUrl
  ConfirmedIsCurrent
  ConnectionAsMeant
