\* One Shield rule; two writes by others, one fault and two changes of mind.
CONSTANTS
  Configs = {"c1", "c2"}
  TagSets = {"t1", "t2"}
  ShieldRules = {"s1"}
  MaxGoals = 2
  MaxForeign = 2
  MaxFaults = 1
SPECIFICATION Spec
INVARIANTS TypeOK UpdateApplied PlanAgainMeansChanged DeletedMeansGone
PROPERTIES ShieldKeptAtFirst EventuallySucceeds
CHECK_DEADLOCK FALSE
