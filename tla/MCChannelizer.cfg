CONSTANTS
  PackSamples = 256
  DecA = 8
  CapA = 512
  DecB = 80
  NumBinsB = 160
  CapB = 320
  FftSub = 512
  CapSub = 4096
  CapIf = 65536
  IfRead = 8192
  MaxPackages = 1300

SPECIFICATION Spec
INVARIANTS
  NoSampleLost
  InStep
  FrequencyOfSubchannel
CHECK_DEADLOCK FALSE
