SPECIFICATION Spec
CONSTANTS
  f1 = f1
  f2 = f2
  w1 = w1
  CLOSE = close
  MATCH_ALL = MATCH_ALL
  EventTypes = {tick, close}
  Funcs = {f1, f2}
  Once = {}
  Kind <- MCKind
  Target <- NoTarget
  Threads = {}
  MaxFired = 2
  MaxListeners = 1
INVARIANTS TypeOK ExactDelivery
CHECK_DEADLOCK FALSE
