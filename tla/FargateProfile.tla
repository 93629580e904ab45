--------------------------- MODULE FargateProfile ---------------------------
(***************************************************************************)
(* internal/service/eks, the Fargate profile resource.  EKS changes one    *)
(* profile of a cluster at a time, so every create and delete holds a lock *)
(* of the cluster from its first call to the end of its wait.  A create    *)
(* that EKS accepted and that then fails is rolled back under the same     *)
(* lock, in a context that the caller's cancellation does not reach.       *)
(*                                                                         *)
(* EKS is external.  It refuses a create while a profile of the cluster is *)
(* being created or deleted, and a delete of one that is.  Describe lags.  *)
(* How often a wait polls is Poll's subject: here a wait ends when what it *)
(* sees settles it, or fails at any moment -- by its deadline, an error of *)
(* the call or the end of the context.                                     *)
(***************************************************************************)
EXTENDS Naturals

CONSTANTS
  Profiles,   \* profile resources, each with a name of its own
  Clusters,
  ClusterOf,  \* the cluster of each profile
  NoOne

ASSUME FargateAssumption ==
  /\ ClusterOf \in [Profiles -> Clusters]
  /\ NoOne \notin Profiles

VARIABLES
  status,    \* the profile in EKS
  shown,     \* what DescribeFargateProfile answers
  lock,      \* fargateProfileClusterLocks: the holder of each cluster's
  pc,
  recorded,  \* the runtime holds outputs for the resource
  outcome    \* how the resource's latest operation ended

vars == <<status, shown, lock, pc, recorded, outcome>>

Changing == {"CREATING", "DELETING"}
Statuses == Changing \union {"absent", "ACTIVE", "CREATE_FAILED", "DELETE_FAILED"}
Held == {"create", "created", "rollback", "rolled", "delete", "deleted"}
Locations == {"idle", "create_lock", "delete_lock"} \union Held
Failures == {"not_created", "rolled_back", "rollback_failed", "delete_failed"}
Outcomes == {"none", "created", "deleted", "drift"} \union Failures

Init ==
  /\ status = [p \in Profiles |-> "absent"]
  /\ shown = [p \in Profiles |-> "absent"]
  /\ lock = [c \in Clusters |-> NoOne]
  /\ pc = [p \in Profiles |-> "idle"]
  /\ recorded = [p \in Profiles |-> FALSE]
  /\ outcome = [p \in Profiles |-> "none"]

Goto(p, l) == pc' = [pc EXCEPT ![p] = l]

Continue(p, l) == Goto(p, l) /\ UNCHANGED <<lock, recorded, outcome>>

\* The operation returns and its deferred Unlock runs.
Return(p, o) ==
  /\ Goto(p, "idle")
  /\ lock' = [lock EXCEPT ![ClusterOf[p]] = NoOne]
  /\ outcome' = [outcome EXCEPT ![p] = o]
  /\ recorded' = [recorded EXCEPT ![p] =
                    CASE o = "created" -> TRUE [] o = "deleted" -> FALSE [] OTHER -> @]

Start(p) ==
  /\ pc[p] = "idle"
  /\ Continue(p, IF recorded[p] THEN "delete_lock" ELSE "create_lock")
  /\ UNCHANGED <<status, shown>>

LockByCluster(p) ==
  /\ pc[p] \in {"create_lock", "delete_lock"}
  /\ lock[ClusterOf[p]] = NoOne
  /\ lock' = [lock EXCEPT ![ClusterOf[p]] = ClusterOf[p]]
  /\ Goto(p, IF pc[p] = "create_lock" THEN "create" ELSE "delete")
  /\ UNCHANGED <<status, shown, recorded, outcome>>

LockedForCreate(p) ==
  /\ pc[p] \in {"create_lock", "delete_lock"}
  /\ pc[p] = "create_lock" => lock[ClusterOf[p]] = NoOne
  /\ lock' = [lock EXCEPT ![ClusterOf[p]] = p]
  /\ Goto(p, IF pc[p] = "create_lock" THEN "create" ELSE "delete")
  /\ UNCHANGED <<status, shown, recorded, outcome>>

\* fargateProfileClusterLock(clusterName).Lock()
Acquire(p) ==
  /\ pc[p] \in {"create_lock", "delete_lock"}
  /\ lock[ClusterOf[p]] = NoOne
  /\ lock' = [lock EXCEPT ![ClusterOf[p]] = p]
  /\ Goto(p, IF pc[p] = "create_lock" THEN "create" ELSE "delete")
  /\ UNCHANGED <<status, shown, recorded, outcome>>

\* EKS accepts a change of p.
Free(p) == \A q \in Profiles : ClusterOf[q] = ClusterOf[p] => status[q] \notin Changing

-----------------------------------------------------------------------------
\* Create

\* CreateFargateProfile is accepted, and its answer may be lost for good.  A
\* misconfigured trust policy is retried, which changes nothing here.  Describe
\* shows nothing of the new profile yet, nor of an earlier one of its name.
Create(p) ==
  /\ pc[p] = "create"
  /\ Free(p) /\ status[p] = "absent"
  /\ status' = [status EXCEPT ![p] = "CREATING"]
  /\ shown' = [shown EXCEPT ![p] = "absent"]
  /\ Continue(p, "created") \/ Return(p, "not_created")

\* The name is taken, or another profile of the cluster is changing.
CreateInUse(p) ==
  /\ pc[p] = "create"
  /\ ~Free(p) \/ status[p] # "absent"
  /\ Return(p, "not_created")
  /\ UNCHANGED <<status, shown>>

LeaveLocked(p) ==
  /\ pc[p] = "create"
  /\ Goto(p, "idle")
  /\ outcome' = [outcome EXCEPT ![p] = "not_created"]
  /\ UNCHANGED <<status, shown, lock, recorded>>

CreateFails(p) ==
  /\ pc[p] = "create"
  /\ Return(p, "not_created")
  /\ UNCHANGED <<status, shown>>

\* finishFargateProfileCreate: ACTIVE, and then read.
FinishCreate(p) ==
  /\ pc[p] = "created"
  /\ shown[p] = "ACTIVE"
  /\ Return(p, "created")
  /\ UNCHANGED <<status, shown>>

FailWithoutRollback(p) ==
  /\ pc[p] = "created"
  /\ Return(p, "rolled_back")
  /\ UNCHANGED <<status, shown>>

\* Any other status, a timeout, an error or a cancelled context.
FinishCreateFails(p) ==
  /\ pc[p] = "created"
  /\ Continue(p, "rollback")
  /\ UNCHANGED <<status, shown>>

\* EKS accepts the delete of a profile that is not changing.
Deletable(p) == Free(p) /\ status[p] # "absent"

\* DeleteFargateProfile, by Delete or by the rollback: then is where its wait
\* runs, gone and failed what the operation returns.
CallDelete(p, then, gone, failed) ==
  /\ \/ /\ Deletable(p)
        /\ status' = [status EXCEPT ![p] = "DELETING"]
        /\ Continue(p, then) \/ Return(p, failed)
     \/ /\ status[p] = "absent"
        /\ Return(p, gone)
        /\ UNCHANGED status
     \/ Return(p, failed) /\ UNCHANGED status
  /\ UNCHANGED shown

AwaitGone(p, gone, failed) ==
  /\ \/ shown[p] = "absent" /\ Return(p, gone)
     \/ Return(p, failed)
  /\ UNCHANGED <<status, shown>>

Rollback(p) ==
  /\ pc[p] = "rollback"
  /\ CallDelete(p, "rolled", "rolled_back", "rollback_failed")

AwaitRollback(p) ==
  /\ pc[p] = "rolled"
  /\ AwaitGone(p, "rolled_back", "rollback_failed")

-----------------------------------------------------------------------------
\* Delete and Read

Delete(p) ==
  /\ pc[p] = "delete"
  /\ CallDelete(p, "deleted", "deleted", "delete_failed")

TimeoutTakenForGone(p) ==
  /\ pc[p] = "deleted"
  /\ Return(p, "deleted")
  /\ UNCHANGED <<status, shown>>

AwaitDeleted(p) ==
  /\ pc[p] = "deleted"
  /\ AwaitGone(p, "deleted", "delete_failed")

\* The next plan's Read finds no profile.
Drift(p) ==
  /\ pc[p] = "idle" /\ recorded[p] /\ shown[p] = "absent"
  /\ recorded' = [recorded EXCEPT ![p] = FALSE]
  /\ outcome' = [outcome EXCEPT ![p] = "drift"]
  /\ UNCHANGED <<status, shown, lock, pc>>

-----------------------------------------------------------------------------
\* EKS

Progress(p) ==
  /\ \/ status[p] = "CREATING" /\ \E s \in {"ACTIVE", "CREATE_FAILED"} :
                                     status' = [status EXCEPT ![p] = s]
     \/ status[p] = "DELETING" /\ \E s \in {"absent", "DELETE_FAILED"} :
                                     status' = [status EXCEPT ![p] = s]
  /\ UNCHANGED <<shown, lock, pc, recorded, outcome>>

Show(p) ==
  /\ shown[p] # status[p]
  /\ shown' = [shown EXCEPT ![p] = status[p]]
  /\ UNCHANGED <<status, lock, pc, recorded, outcome>>

Call(p) ==
  \/ Create(p) \/ CreateInUse(p) \/ CreateFails(p)
  \/ FinishCreate(p) \/ FinishCreateFails(p) \/ Rollback(p) \/ AwaitRollback(p)
  \/ Delete(p) \/ AwaitDeleted(p)

Next ==
  \E p \in Profiles :
    Start(p) \/ Acquire(p) \/ Call(p) \/ Drift(p) \/ Progress(p) \/ Show(p)

\* A wait ends, by its deadline if nothing else; sync.Mutex starves no one.
Fairness == \A p \in Profiles : WF_vars(Call(p)) /\ SF_vars(Acquire(p))

Spec == Init /\ [][Next]_vars /\ Fairness

-----------------------------------------------------------------------------

TypeOK ==
  /\ status \in [Profiles -> Statuses]
  /\ shown \in [Profiles -> Statuses]
  /\ lock \in [Clusters -> Profiles \union {NoOne}]
  /\ pc \in [Profiles -> Locations]
  /\ recorded \in [Profiles -> BOOLEAN]
  /\ outcome \in [Profiles -> Outcomes]

\* Creates, deletes and rollbacks on one cluster never overlap, from their
\* first call to the end of their last wait (fargate_profile_lifecycle.go).
OneOperation ==
  \A p, q \in Profiles :
    pc[p] \in Held /\ pc[q] \in Held /\ ClusterOf[p] = ClusterOf[q] => p = q

\* A create that returned success left the profile ACTIVE, and a delete that
\* did left none.  One that returned after its rollback left none, or where
\* the describe still lagged behind the create itself, one on its way out,
\* which EKS may then fail to delete (finishFargateProfileCreate,
\* rollbackFargateProfileCreate, waitFargateProfileDeleted).
ReturnsSettled ==
  \A p \in Profiles :
    pc[p] = "idle" =>
      /\ outcome[p] = "created" => status[p] = "ACTIVE"
      /\ outcome[p] = "rolled_back" => status[p] \in {"absent", "DELETING", "DELETE_FAILED"}
      /\ outcome[p] = "deleted" => status[p] = "absent"

\* What the lock is for: EKS refuses a create as in use only when an earlier
\* operation on the cluster reported a failure, or the profile itself exists;
\* never because of an operation still running here, nor after one that
\* succeeded (fargate_profile_lifecycle.go, fargateProfileClusterLock).
InUseMeansFailure ==
  \A p \in Profiles :
    pc[p] = "create" /\ ~Free(p) =>
      \E q \in Profiles : ClusterOf[q] = ClusterOf[p] /\ outcome[q] \in Failures

\* Every create, delete and rollback returns and gives the lock back, and one
\* that waits for the lock gets it (fargate_profile_lifecycle.go).
EveryOperationReturns == \A p \in Profiles : pc[p] # "idle" ~> pc[p] = "idle"
=============================================================================
