------------------------- MODULE MCLambdaPermission -------------------------
(***************************************************************************)
(* Instances of LambdaPermission: the functions that say which name each   *)
(* resource uses and what each name resolves to.                           *)
(***************************************************************************)
EXTENDS LambdaPermission

\* Every resource spells the function the same way.
const_OneName == [p \in Procs |-> "fn"]

\* One resource gives the name of the function, the other its ARN.
const_NameAndArn == [p \in Procs |-> IF p = "p1" THEN "fn" ELSE "arn"]

const_ToOneFunction == [n \in Names |-> "F"]
=============================================================================
