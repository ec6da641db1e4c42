CONSTANTS
  c1 = c1  c2 = c2  c3 = c3  b1 = b1  b2 = b2
  Cluster = {c1, c2, c3}
  User = {u1}
  GV = {g1, g2}
  Bundle = {b1, b2}
  Usable = {b1}
  CaBundle <- Bundles
  Request = {r1, r2}
  Size = 2
  TTL = 2
  Timeout = 1
  None = None
SPECIFICATION Spec
INVARIANTS BoundedStaleness RefreshTakesEffect TransportsAreShared
SYMMETRY Symmetry
