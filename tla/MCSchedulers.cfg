CONSTANTS
  Budgets = {12, 13}
  Prios = {1, 2}
  PsLength = 2
  MaxTasks = 4
  Priorities = {1, 2, 3}
  Iterations = 2
  MaxDemos = 2
  Ring3Tasks = 3
  Ring3Priorities = {1, 3}
  MaxSessions = 2
SPECIFICATION MCSpec
INVARIANTS
  ResumesExactly
  SharesFollowPriority
  StaleAtMostOneTick
  SafeToReclaim
  BudgetAllOrNothing
  TableShowsSchedule
  SignatureAsExpected
PROPERTIES
  DemoReturns
  HandsOver
  Ring3HandsOver
CHECK_DEADLOCK FALSE
