SPECIFICATION FairSpec
CONSTANTS
  App = {a1, a2}
  Addr = {n1}
  MaxCalls = 3
  Calls = {"start", "manyToOne", "repair"}
  Traffic = {"learn", "data", "property"}
CHECK_DEADLOCK FALSE
INVARIANTS
  NoDeadlock
PROPERTIES
  CallsReturn
  FramesAreHandled
  MaintenanceGoesOn
