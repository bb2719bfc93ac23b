SPECIFICATION FairSpec
CONSTANTS
  App = {a1}
  Addr = {n1}
  MaxCalls = 2
  Calls = {"start", "send"}
  Traffic = {"learn"}
CHECK_DEADLOCK FALSE
PROPERTY
  SendReturns
