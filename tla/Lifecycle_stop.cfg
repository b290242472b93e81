SPECIFICATION LifeSpec
CONSTANTS
  a = a
  b = b
  c = c
  d = d
  e = e
  f = f
  g = g
  Jobs = {a, b, c, d, e, f, g}
  Kind <- MCKind
  Spawns <- MCSpawns
  Listeners <- MCListeners
  CallsLoop = {c}
  Hangs = {b}
  Stoppers = {s1}
  StopAt = {"running"}
INVARIANTS NotRunningAfterStop
PROPERTIES StopWaits BothComplete
CHECK_DEADLOCK FALSE
