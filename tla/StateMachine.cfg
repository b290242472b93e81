SPECIFICATION Spec
CONSTANTS
  Entities = {lamp, door}
  Values = {on, off}
  Attributes = {a1, a2}
  Mirrors = {m1, m2}
  Threads = {t1}
  MaxEvents = 3
  MaxTime = 2
SYMMETRY Symmetry
INVARIANTS MirrorTracks LastChanged
CHECK_DEADLOCK FALSE
