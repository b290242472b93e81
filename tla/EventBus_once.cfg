SPECIFICATION Spec
CONSTANTS
  f1 = f1
  f2 = f2
  w1 = w1
  CLOSE = close
  MATCH_ALL = MATCH_ALL
  EventTypes = {tick}
  Funcs = {f1}
  Once = {w1}
  Kind <- CoroutineKind
  Target <- CoroutineTarget
  Threads = {t1}
  MaxFired = 2
  MaxListeners = 1
INVARIANTS OnceAtMostOnce OnceFirstEvent LoopOrder
PROPERTIES ThreadsReleased
CHECK_DEADLOCK FALSE
