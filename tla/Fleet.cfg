SPECIFICATION Spec
CONSTANTS
  Menus <- AllMenus
  MaxConcurrency = 2
  Targets = {2}
  BurstSize = 1
  Tags = {1, 2}
  DualPorts = {1}
INVARIANTS Durable SecretsKept BatchAccounted
PROPERTIES ImportKeepsOthers JobsEnd
CHECK_DEADLOCK FALSE
