SPECIFICATION Spec
CONSTANTS
  hub = hub
  light = light
  f1 = f1
  Domains = {hub, light}
  Dependencies <- MCDependencies
  Flows = {f1}
  FlowDomain <- MCFlowDomain
  Nobody = nobody
  MaxAsked = 1
  MaxSteps = 2
  MaxRestarts = 1
INVARIANTS TypeOK SetupOnce DepsFirst OneVerdict EntryOnce 
PROPERTIES OneEntryPerFlow SetupEnds
CHECK_DEADLOCK FALSE
