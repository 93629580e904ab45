\* Three user keys against a limit of two: a replacement needs the freed slot.
CONSTANTS
  Keys = {"k1", "k2", "k3", "aws1"}
  Reserved = {"aws1"}
  Values = {"a", "b"}
  NoTag = "none"
  Limit = 2
  MaxFaults = 1
  MaxForeign = 1
SPECIFICATION Spec
INVARIANTS TypeOK Converged NeverOverLimit
PROPERTIES RightTagsLeftAlone EventuallySynced
CHECK_DEADLOCK FALSE
