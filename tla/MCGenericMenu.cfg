CONSTANTS
  Rows <- MCRows
  Kind <- MCKind
  VisibleSpaces = {2}
  Defaults <- MCDefaults
  Timeouts = {1}
  MaxLines = 2
  MaxEvents = 1
  MaxSpurious = 1
SPECIFICATION MenuSpec
INVARIANTS MenuTypeOK TimeoutBootsDefault ScreenShowsSelection PaintsInArray
PROPERTIES ScrollSpec
