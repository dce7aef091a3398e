CONSTANTS
  Rows <- MCLiveRows
  Kind <- MCLiveKind
  VisibleSpaces = {2}
  Defaults <- MCDefaults
  Timeouts = {1}
  MaxLines = 1
  MaxEvents = 1
  MaxSpurious = 1
SPECIFICATION FairMenuSpec
PROPERTIES UntouchedMenuEnds EventLeavesMenu
