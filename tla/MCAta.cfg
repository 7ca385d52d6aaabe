CONSTANTS
  Sectors = {0, 1}
  Data = {7, 8}
  MaxCalls = 3
  MaxTimeouts = 1
  MaxErrors = 1
SPECIFICATION Spec
INVARIANT OkMeansCommitted
CHECK_DEADLOCK FALSE
