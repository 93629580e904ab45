\* One Shield rule; two writes by others, one fault and one change of mind.
CONSTANTS
  Configs = {"c1", "c2"}
  TagSets = {"t1", "t2"}
  ShieldRules = {"s1"}
  MaxGoals = 1
  MaxForeign = 2
  MaxFaults = 1
SPECIFICATION Spec
PROPERTIES UpdatePreservesShieldRules
CHECK_DEADLOCK FALSE
