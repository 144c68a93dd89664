SPECIFICATION EngineSpec
CONSTANTS
  Tasks = {k1}
  Owners = {o1}
  Owner = o1
  MaxIds = 1
  None = None
  MaxFires = 2
  MaxFaults = 0
  MaxCalls = 1
PROPERTIES
  ColdTaskHandled
