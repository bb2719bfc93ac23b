SPECIFICATION Spec
CONSTANTS
  RawFrame <- MCRawFrame
  Properties <- MCProperties
  Upward <- MCUpward
  Rssi <- MCRssi
  Lqi = 125
CHECK_DEADLOCK FALSE
INVARIANTS
  TypeOK
  CommandsArriveAsGiven
  HeadersAreSound
PROPERTIES
  DamageIsNoticed
