SPECIFICATION FairSpec
CONSTANTS
  MaxFrames = 3
  Noise = {"loseFlag"}
  MaxNoise = 1
  MaxRestarts = 0
CHECK_DEADLOCK FALSE
PROPERTIES
  EveryIntactFrameIsHandled
