CONSTANTS
  Keys <- MCTwoKeys
  Width = 3
  Rollover = FALSE
  PortSize = 2
  MaxChars = 2
  MaxHistory = 1
SPECIFICATION LSpec
INVARIANT SchedulerNotAwaited
CHECK_DEADLOCK FALSE
