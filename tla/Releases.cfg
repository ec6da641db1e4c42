SPECIFICATION Spec
CONSTANTS
  v1 = v1  v2 = v2  o1 = o1  o2 = o2
  Name = {n1, n2}
  Version = {v1, v2}
  RowId = {i1, i2}
  Object = {o1, o2}
  Foreign = {o2}
  Docs <- DocsHere
  Kinds <- Sweep
  Client = {c1, c2}
  None = None
SYMMETRY Symmetry
CHECK_DEADLOCK FALSE
INVARIANTS PinsRetained InSync
PROPERTIES GoneStaysGone
