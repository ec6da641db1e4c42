SPECIFICATION Spec
CONSTANTS
  Template = {t1, t2}
  Row = {r1, r2, r3}
  Body = {b1, b2}
  Team = {g}
  Editor = {e1, e2}
  Admin = {e2}
  MaxVersion = 3
  None = None
SYMMETRY Symmetry
CHECK_DEADLOCK FALSE
INVARIANTS OneDraft CurrentWasPublished InFlightIsAllowed
PROPERTIES PublishedIsImmutable ImplementsLifecycle
