SPECIFICATION Spec
CONSTANTS
  Pod = {p1, p2}
  MaxLine = 3
  Cap = 2
CHECK_DEADLOCK FALSE
INVARIANTS LogsAreGapless NoSendOnClosed
PROPERTIES NoLeak StreamEnds ImplementsStream
