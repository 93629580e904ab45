CONSTANTS
  Catalogue <- Resources
  None = None
  MaxFaults = 1
  MaxGoals = 2
SPECIFICATION Spec
INVARIANTS TypeOK SettledMeansApplied NeverTooEarly
PROPERTIES NoFalseDrift DeletedIsGone Converges
CHECK_DEADLOCK FALSE
