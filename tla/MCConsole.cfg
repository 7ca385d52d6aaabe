CONSTANTS
  Keys <- MCKeys
  Width = 3
  Rollover = FALSE
  PortSize = 2
  MaxChars = 3
  MaxHistory = 2
  Starts <- MCStarts
  Undefined = {0, 9}
  Quiet = 16
  MaxTicks = 2
  Sectors = {0, 1}
  Data = {7, 8}
  MaxCalls = 3
  MaxTimeouts = 1
  MaxErrors = 1
SPECIFICATION MCSpec
INVARIANTS ScreenShowsLine HistoryFaithful TimeExisted QuietDriveServes
PROPERTY TypedAsPressed
CHECK_DEADLOCK FALSE
