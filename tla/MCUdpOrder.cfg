CONSTANTS
  Modulus = 16
  Window = 4
  Delay = 2
  Outage = 9
  MaxSent = 34
  MaxRestarts = 2

SPECIFICATION Spec
INVARIANTS
  RestartCostsAWindow
PROPERTIES
  FreshIsProcessed
  OrderExceptAfterStart
CHECK_DEADLOCK FALSE
