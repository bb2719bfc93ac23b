SPECIFICATION FairSpec
CONSTANTS
  App = {a1}
  Addr = {n1}
  MaxCalls = 2
  Calls = {"start", "stop"}
  Traffic = {"learn"}
CHECK_DEADLOCK FALSE
PROPERTY
  StopReturns
