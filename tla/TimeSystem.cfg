SPECIFICATION Spec
CONSTANTS
  MaxClock = 2
  Interval = 1
  Period = 1
  Duration = 1
  Durations = {2}
  MaxCalls = 4
INVARIANTS OneChain SameNoLeak ActiveWillEnd
PROPERTIES FullTime TimerEnds
CHECK_DEADLOCK FALSE
