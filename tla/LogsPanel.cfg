SPECIFICATION PanelSpec
CONSTANTS
  Pod = {p1, p2}
  MaxLine = 2
  LINE_CAP = 3
  MaxFlight = 2
  MaxStreams = 2
INVARIANTS RowsAreTheNewest OnlyChosen
 
