SPECIFICATION Spec
CONSTANTS
  light = light
  turnOn = turnOn
  toggle = toggle
  Names = {light}
  Handlers = {turnOn, toggle}
  Kind <- MCKind
  Name <- MCName
  Calls = {c1, c2}
  Invalid = {c2}
  MaxChanges = 2
INVARIANTS OneListener
PROPERTIES ImplementsServiceCall CallsEnd
CHECK_DEADLOCK FALSE
