SPECIFICATION Spec
CONSTANTS
  MaxClock = 3
  MaxCalls = 6
  Steps <- MCSteps
  Delay = 1
  Timeout = 1
INVARIANTS TypeOK HasWake InOrder
PROPERTIES OwnWaits
CHECK_DEADLOCK FALSE
