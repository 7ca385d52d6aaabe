CONSTANTS
  MaxTasks = 3
  Priorities = {1, 2}
  WorkBound = 1
SPECIFICATION FairSpec
INVARIANTS
  ContextsIntact
  SelectionNeverHangs
  ChoicesAreFair
PROPERTIES
  RetirementIsFinal
  SessionReturns
