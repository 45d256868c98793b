CONSTANTS
  off = off
  day0 = day0
  day1 = day1
  zero = zero
  cfg = cfg
  NumChannels = 2
  QueueCap = 2
  SockCap = 2
  Window = 2
  Devices <- MCDevices
  Unset = off
  Startup = day0
  Params <- MCParams
  ZeroParams = zero
  ChannelParams <- MCChannelParams
  OpenState <- MCOpenState
  Indices = {1}
  Traffic <- MCTraffic
  MaxSent = 4

SPECIFICATION Spec
INVARIANTS
  NoLostWakeup
  NoIdleWakeup
  NoUseAfterDestroy
  PackageMeetsItsSettings
  SettingsAgree
PROPERTIES
  EveryPackageTaken
  ShutdownEnds
CHECK_DEADLOCK FALSE
