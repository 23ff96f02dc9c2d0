CONSTANTS
  Nodes = {20, 21}
  SinkPorts <- MCSinkPorts
  OurNode = 10
  OurPorts <- MCOurPorts
  MaxPlugs = 2
SPECIFICATION Spec
INVARIANTS
  EverySinkLinked
PROPERTIES
  StopReturns
CHECK_DEADLOCK FALSE
