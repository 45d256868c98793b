CONSTANTS
  Shapes <- MCShapes
  MaxSent = 11
  PackSamples = 2
  Passing <- MCPassing
  Block = 3
  MaxSize = 5
  MaxRead = 3
  Sample <- MCSample

SPECIFICATION Spec
INVARIANTS
  SlotsAreExclusive
  BlocksAsAsserted
  BlocksAreTheStream
PROPERTIES
  FailsOnlyAtALimit
  QueueIsFifo
  BufferIsFifo
CHECK_DEADLOCK FALSE
