CONSTANTS
  Rows <- MCRows
  VisibleSpaces = {0, 2, 3, 4}
  Defaults <- MCDefaults
SPECIFICATION ScrollSpec
INVARIANTS ScrollTypeOK WindowInRow SelectionInMenu
PROPERTIES WindowMovesArePainted FollowShowsSelection
