SPECIFICATION FairSpec
CONSTANTS
  MaxFrames = 3
  Noise = {"loseFlag", "extraFlag", "loseByte", "badByte"}
  MaxNoise = 2
  MaxRestarts = 1
CHECK_DEADLOCK FALSE
INVARIANTS
  TypeOK
  OneFrameIsHeld
PROPERTIES
  ImplementsChannel
  IntactFramesAreHandled
