CONSTANTS
  Catalogue <- InstanceTags
  None = None
  MaxFaults = 0
  MaxGoals = 1
SPECIFICATION Spec
INVARIANT EveryInputApplied
CHECK_DEADLOCK FALSE
