\* Two resources on one function, one spelled by name and one by ARN.
CONSTANTS
  Procs = {"p1", "p2"}
  Functions = {"F"}
  Names = {"fn", "arn"}
  NoOne = "no_one"
  MaxTries = 1
  NameOf <- const_NameAndArn
  Resolves <- const_ToOneFunction
SPECIFICATION Spec
INVARIANTS OneLockPerFunction
CHECK_DEADLOCK FALSE
