SPECIFICATION Spec
CONSTANTS
  e1 = e1
  e2 = e2
  b1 = b1
  b2 = b2
  Entities = {e1, e2}
  Batches = {b1, b2}
  Mixes <- MCMixes
  Slots = 1
  MaxTicks = 1
INVARIANTS TypeOK OneEntityPerId StatesMatch PollingRight
PROPERTIES RoundsEnd
CHECK_DEADLOCK FALSE
