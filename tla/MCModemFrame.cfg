CONSTANTS
  Settings <- MCOneSetting
  PackSize = 2
  MaxQueue = 1

SPECIFICATION Spec
INVARIANT
  FrameIsOneFrame
CHECK_DEADLOCK FALSE
