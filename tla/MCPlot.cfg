CONSTANTS
  FrameLen = 5
  StartSize = 8
  FftSizes <- MCSizes
  Modes = {"sequential", "shifted", "lower"}
  Bounds <- MCBounds
  Levels = {1, 3}
  Cap = 3
  MapX = 7
  Minimum = 0
  Maximum = 6
  Side = 3
  Margin = 1
  Widths = {12, 17}

SPECIFICATION MCSpec
INVARIANTS
  RangeInFft
  ShownBinsAreData
  HandlesMeet
PROPERTY
  SumsLastFrames
