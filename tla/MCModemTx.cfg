CONSTANTS
  Settings <- MCSettings
  PackSize = 2
  MaxQueue = 2

SPECIFICATION Spec
PROPERTIES
  FramesAndGapsAreWhole
  RepeatsOnlyWhenChanged
  StopSilences
  CloseEnds
CHECK_DEADLOCK FALSE
