--------------------------- MODULE PolicyVersions ---------------------------
(* The versions of one IAM managed policy (internal/service/iam/           *)
(* policy_rsrc.go).  A policy document is never overwritten: applyNewVersion *)
(* prunes old versions and then creates one that becomes the default, and  *)
(* IAM keeps at most maxPolicyVersions of them.                             *)
EXTENDS Integers, FiniteSets

CONSTANTS
  maxPolicyVersions,   \* what IAM keeps, 5
  MaxUpdates           \* bound on the versions ever created

VARIABLES
  versions,   \* the versions there are, numbered as they were created
  default,    \* the one in force
  created,    \* how many were ever created
  op,         \* what runs: nothing, the pruning of an update or a delete, the create, the delete
  refused     \* IAM has refused a version because the policy was full

vars == <<versions, default, created, op, refused>>

TypeOK ==
  /\ versions \subseteq 1..MaxUpdates
  /\ default \in 1..MaxUpdates
  /\ created \in 1..MaxUpdates
  /\ op \in {"idle", "prune", "create", "clear", "delete"}
  /\ refused \in BOOLEAN

Create ==
  /\ versions = {1} /\ default = 1 /\ created = 1
  /\ op = "idle"
  /\ refused = FALSE

Update ==
  /\ op = "idle" /\ versions # {}
  /\ op' = "prune"
  /\ UNCHANGED <<versions, default, created, refused>>

Delete ==
  /\ op = "idle" /\ versions # {}
  /\ op' = "clear"
  /\ UNCHANGED <<versions, default, created, refused>>

nonDefault == versions \ {default}

Oldest(V) == CHOOSE v \in V : \A w \in V : v <= w

(* One DeletePolicyVersion of pruneVersions, as long as more than keep      *)
(* non-default versions are left, and the end of it.                        *)
pruneVersions(keep, then) ==
  \/ /\ Cardinality(nonDefault) > keep
     /\ versions' = versions \ {Oldest(nonDefault)}
     /\ UNCHANGED op
  \/ /\ Cardinality(nonDefault) <= keep
     /\ op' = then
     /\ UNCHANGED versions

Prune ==
  /\ \/ op = "prune" /\ pruneVersions(maxPolicyVersions - 1, "create")
     \/ op = "clear" /\ pruneVersions(0, "delete")
  /\ UNCHANGED <<default, created, refused>>

(* CreatePolicyVersion with SetAsDefault.                                   *)
CreateVersion ==
  /\ op = "create" /\ op' = "idle"
  /\ IF Cardinality(versions) >= maxPolicyVersions
     THEN refused' = TRUE /\ UNCHANGED <<versions, default, created>>
     ELSE /\ created < MaxUpdates /\ created' = created + 1
          /\ versions' = versions \cup {created'}
          /\ default' = created'
          /\ UNCHANGED refused

DeletePolicy ==
  /\ op = "delete" /\ op' = "idle"
  /\ versions' = {}
  /\ UNCHANGED <<default, created, refused>>

(* A call fails, or the process dies: the next run starts over.             *)
Fail ==
  /\ op # "idle" /\ op' = "idle"
  /\ UNCHANGED <<versions, default, created, refused>>

Next == Update \/ Delete \/ Prune \/ CreateVersion \/ DeletePolicy \/ Fail

Spec == Create /\ [][Next]_vars

---------------------------------------------------------------------------
(* A full policy is pruned to make room, as applyNewVersion says of itself: *)
(* IAM never refuses a version because the policy has too many.             *)
RoomIsMade == ~refused
=============================================================================
