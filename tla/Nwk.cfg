SPECIFICATION MCSpec
CONSTANTS
  Addr = {n1, n2}
  Stale = 2
  CountRange = 2
  MaxLag = 1
  MaxDelay = 1
  FirstRoom = 1
  Thread = {t1, t2}
  NwkKey = {k}
  NoKey = NoKey
  Device = {stub, other}
  Stub = stub
  CounterRange = 3
  MaxEpochs = 2
  MaxRounds = 1
  MaxFrames = 4
INVARIANTS
  TypeOK
  VictimsWereSilent
  RoundIsThorough
  LinkStatusIsLongEnough
  SendingTypeOK
  CountersLeaveInOrder
  OneLateFrame
PROPERTIES
  SilentNeighbourGoes
