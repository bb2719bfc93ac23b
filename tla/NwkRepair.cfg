SPECIFICATION Spec
CONSTANTS
  Own <- MCOwn
  Dest <- MCDest
  Path <- MCPath
  Data <- MCData
  Radius = 30
  CountRange = 3
  SeqRange = 2
INVARIANTS
  RepairIsUnderWay
