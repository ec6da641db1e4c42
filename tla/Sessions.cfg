CONSTANTS
  Sid = {s1}
  Flow = {f1, f2}
  Request = {r1, r2}
  MaxGrant = 4
  MaxKey = 2
  None = None
SPECIFICATION Spec
INVARIANTS RefreshTokenIsGood EndsForAReason
PROPERTIES EndedIsFinal RefusedForAReason
CHECK_DEADLOCK FALSE
SYMMETRY Symmetry
