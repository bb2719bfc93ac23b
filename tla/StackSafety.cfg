SPECIFICATION Spec
CONSTANTS
  App = {a1, a2}
  Addr = {n1}
  MaxCalls = 3
  Calls = {"start", "stop", "send", "repair", "config", "association"}
  Traffic = {"assoc", "learn", "relay", "routeError", "forward", "srcForward", "request", "txStatus"}
SYMMETRY Symmetry
CHECK_DEADLOCK FALSE
INVARIANTS
  TypeOK
  LockDiscipline
  EveryDeadlockIsKnown
  LayersAgree
  ClearedHandlersAreLeft
  TransmitsOnlyWhileRunning
  NullCallsNeedStop
