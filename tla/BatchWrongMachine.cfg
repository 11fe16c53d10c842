SPECIFICATION Spec
CONSTANTS
  Menus <- HiddenBatch
  MaxConcurrency = 2
  Targets = {2}
  BurstSize = 1
  Tags = {1, 2}
  DualPorts = {1}
INVARIANT CommandsHitSelected
CHECK_DEADLOCK FALSE
