\* Two resources on one function, spelled the same, two calls to a wait.
CONSTANTS
  Procs = {"p1", "p2"}
  Functions = {"F"}
  Names = {"fn"}
  NoOne = "no_one"
  MaxTries = 2
  NameOf <- const_OneName
  Resolves <- const_ToOneFunction
SPECIFICATION Spec
INVARIANTS TypeOK CallsExclude NoLostStatement StaysDeleted NoFalseDrift
PROPERTIES EveryOperationReturns
CHECK_DEADLOCK FALSE
