SPECIFICATION Spec
CONSTANTS
  a = a
  b = b
  c = c
  d = d
  Tasks = {a, b, c, d}
  Generators <- MCGenerators
  Children <- MCChildren
  Threads = 1
  ResultLimit = 1
  NetworkTryLimit = 2
  TaskTryLimit = 1
  Countdown = 3
INVARIANTS TypeOK OneHand
PROPERTIES ImplementsJob EndsOrHangs
CHECK_DEADLOCK FALSE
