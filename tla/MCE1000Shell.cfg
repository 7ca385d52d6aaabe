CONSTANTS
  Hosts = {h1}
  Names = {a}
  BadName = bad
  Ops = {"netcheck", "ping", "dns", "resolve"}
  Callers = {"shell"}
  Patience = 1
  RingSize = 3
  MaxCalls = 1
  MaxForeign = 1
SPECIFICATION FairSpec
PROPERTY CallReturns
CHECK_DEADLOCK FALSE
