SPECIFICATION EngineSpec
CONSTANTS
  Tasks = {k1}
  Owners = {o1}
  Owner = o1
  MaxIds = 2
  None = None
  MaxFires = 2
  MaxFaults = 1
  MaxCalls = 2
PROPERTIES
  HandledOnce
  
