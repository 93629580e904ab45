------------------------ MODULE FargateProfile_proofs ------------------------
(***************************************************************************)
(* Theorems about FargateProfile, for any number of profiles and clusters. *)
(* The lock orders the operations on a cluster; a profile's own life says  *)
(* what a wait that ended has seen, though describe lags.                  *)
(***************************************************************************)
EXTENDS FargateProfile, TLAPS

LEMMA ReturnTypes ==
  ASSUME TypeOK, NEW p \in Profiles, NEW o \in Outcomes, Return(p, o)
  PROVE  /\ lock' \in [Clusters -> Profiles \union {NoOne}]
         /\ pc' \in [Profiles -> Locations]
         /\ recorded' \in [Profiles -> BOOLEAN]
         /\ outcome' \in [Profiles -> Outcomes]
<1>1. recorded' \in [Profiles -> BOOLEAN]
  <2>1. CASE o = "created"
    BY <2>1 DEF TypeOK, Return
  <2>2. CASE o = "deleted"
    BY <2>2 DEF TypeOK, Return
  <2>3. CASE o \notin {"created", "deleted"}
    BY <2>3 DEF TypeOK, Return
  <2> QED
    BY <2>1, <2>2, <2>3
<1> QED
  BY <1>1 DEF TypeOK, Return, Goto, Locations

LEMMA ContinueTypes ==
  ASSUME TypeOK, NEW p \in Profiles, NEW l \in Locations, Continue(p, l)
  PROVE  /\ lock' \in [Clusters -> Profiles \union {NoOne}]
         /\ pc' \in [Profiles -> Locations]
         /\ recorded' \in [Profiles -> BOOLEAN]
         /\ outcome' \in [Profiles -> Outcomes]
  BY DEF TypeOK, Continue, Goto

LEMMA TypeInit == Init => TypeOK
  BY DEF Init, TypeOK, Statuses, Locations, Outcomes

LEMMA TypeNext == TypeOK /\ [Next]_vars => TypeOK'
<1> SUFFICES ASSUME TypeOK, [Next]_vars
             PROVE  TypeOK'
  OBVIOUS
<1> USE DEF Locations, Held, Outcomes, Failures, Statuses, Changing
<1> DEFINE ControlOK ==
      /\ lock \in [Clusters -> Profiles \union {NoOne}]
      /\ pc \in [Profiles -> Locations]
      /\ recorded \in [Profiles -> BOOLEAN]
      /\ outcome \in [Profiles -> Outcomes]
<1> DEFINE ServiceOK ==
      status \in [Profiles -> Statuses] /\ shown \in [Profiles -> Statuses]
<1> SUFFICES ControlOK' /\ ServiceOK'
  BY DEF TypeOK
<1>1. ASSUME NEW p \in Profiles, Start(p) \/ Acquire(p) \/ FinishCreateFails(p)
      PROVE  ControlOK' /\ UNCHANGED <<status, shown>>
  BY <1>1, ContinueTypes DEF Start, Acquire, FinishCreateFails, Goto, TypeOK
<1>2. ASSUME NEW p \in Profiles, Create(p)
      PROVE  ControlOK' /\ ServiceOK'
  <2>1. ControlOK'
    BY <1>2, ContinueTypes, ReturnTypes DEF Create
  <2> QED
    BY <1>2, <2>1 DEF Create, TypeOK
<1>3. ASSUME NEW p \in Profiles, CreateInUse(p) \/ CreateFails(p) \/ FinishCreate(p)
      PROVE  ControlOK' /\ UNCHANGED <<status, shown>>
  BY <1>3, ReturnTypes DEF CreateInUse, CreateFails, FinishCreate
<1>4. ASSUME NEW p \in Profiles, NEW then \in Locations,
             NEW gone \in Outcomes, NEW failed \in Outcomes,
             CallDelete(p, then, gone, failed)
      PROVE  ControlOK' /\ ServiceOK'
  <2>1. ControlOK'
    BY <1>4, ContinueTypes, ReturnTypes DEF CallDelete
  <2> QED
    BY <1>4, <2>1 DEF CallDelete, TypeOK
<1>5. ASSUME NEW p \in Profiles, NEW gone \in Outcomes, NEW failed \in Outcomes,
             AwaitGone(p, gone, failed)
      PROVE  ControlOK' /\ UNCHANGED <<status, shown>>
  BY <1>5, ReturnTypes DEF AwaitGone
<1>6. ASSUME NEW p \in Profiles,
             Rollback(p) \/ AwaitRollback(p) \/ Delete(p) \/ AwaitDeleted(p)
      PROVE  ControlOK' /\ ServiceOK'
  <2>1. CASE Rollback(p) \/ Delete(p)
    BY <1>4, <2>1 DEF Rollback, Delete
  <2>2. CASE AwaitRollback(p) \/ AwaitDeleted(p)
    BY <1>5, <2>2 DEF AwaitRollback, AwaitDeleted, TypeOK
  <2> QED
    BY <1>6, <2>1, <2>2
<1>7. ASSUME NEW p \in Profiles, Drift(p) \/ Progress(p) \/ Show(p)
      PROVE  ControlOK' /\ ServiceOK'
  BY <1>7 DEF Drift, Progress, Show, TypeOK
<1>8. CASE UNCHANGED vars
  BY <1>8 DEF vars, TypeOK
<1> QED
  BY <1>1, <1>2, <1>3, <1>6, <1>7, <1>8 DEF Next, Call, TypeOK

\* Type correctness of the states that create, delete, rollback and their
\* waits reach (fargate_profile_lifecycle.go, fargate_profile_wait.go).
THEOREM TypeCorrect == Spec => []TypeOK
  BY TypeInit, TypeNext, PTL DEF Spec

-----------------------------------------------------------------------------
\* The lock.

HoldsLock == \A p \in Profiles : pc[p] \in Held => lock[ClusterOf[p]] = p

\* A step of p keeps the lock p holds, returns and gives it back, or takes it
\* while it is free.
LockStep(p) ==
  \/ UNCHANGED lock /\ \E l : Goto(p, l) /\ (l \in Held => pc[p] \in Held)
  \/ pc[p] \in Held /\ \E o : Return(p, o)
  \/ Acquire(p)

LEMMA EveryLockStep ==
  ASSUME TypeOK, NEW p \in Profiles, Start(p) \/ Acquire(p) \/ Call(p)
  PROVE  LockStep(p)
<1> USE DEF LockStep, Held
<1>1. CASE Start(p)
  <2>1. Goto(p, "delete_lock") \/ Goto(p, "create_lock")
    BY <1>1 DEF Start, Continue
  <2> QED
    BY <1>1, <2>1 DEF Start, Continue
<1>2. CASE Create(p) \/ CreateInUse(p) \/ CreateFails(p)
  BY <1>2 DEF Create, CreateInUse, CreateFails, Continue
<1>3. CASE FinishCreate(p) \/ FinishCreateFails(p)
  BY <1>3 DEF FinishCreate, FinishCreateFails, Continue
<1>4. CASE Rollback(p) \/ Delete(p)
  BY <1>4 DEF Rollback, Delete, CallDelete, Continue
<1>5. CASE AwaitRollback(p) \/ AwaitDeleted(p)
  BY <1>5 DEF AwaitRollback, AwaitDeleted, AwaitGone
<1> QED
  BY <1>1, <1>2, <1>3, <1>4, <1>5 DEF Call

LEMMA LockInit == Init => HoldsLock
  BY DEF Init, HoldsLock, Held

LEMMA LockNext == TypeOK /\ HoldsLock /\ [Next]_vars => HoldsLock'
<1> SUFFICES ASSUME TypeOK, HoldsLock, [Next]_vars
             PROVE  HoldsLock'
  OBVIOUS
<1> USE FargateAssumption DEF TypeOK, HoldsLock
<1>1. ASSUME NEW p \in Profiles, Start(p) \/ Acquire(p) \/ Call(p)
      PROVE  HoldsLock'
  <2>1. LockStep(p)
    BY <1>1, EveryLockStep
  <2>2. CASE UNCHANGED lock /\ \E l : Goto(p, l) /\ (l \in Held => pc[p] \in Held)
    BY <2>2 DEF Goto
  <2>3. CASE pc[p] \in Held /\ \E o : Return(p, o)
    BY <2>3 DEF Return, Goto, Held
  <2>4. CASE Acquire(p)
    BY <2>4 DEF Acquire, Goto
  <2> QED
    BY <2>1, <2>2, <2>3, <2>4 DEF LockStep
<1>2. ASSUME NEW p \in Profiles, Drift(p) \/ Progress(p) \/ Show(p)
      PROVE  HoldsLock'
  BY <1>2 DEF Drift, Progress, Show
<1>3. CASE UNCHANGED vars
  BY <1>3 DEF vars
<1> QED
  BY <1>1, <1>2, <1>3 DEF Next

LEMMA LockInvariant == Spec => [](TypeOK /\ HoldsLock)
  BY LockInit, LockNext, TypeInit, TypeNext, PTL DEF Spec

LEMMA HoldersExclude == HoldsLock => OneOperation
  BY DEF HoldsLock, OneOperation

\* Creates, deletes and rollbacks on one cluster never overlap
\* (fargate_profile_lifecycle.go, fargateProfileClusterLock).
THEOREM ClusterExclusion == Spec => []OneOperation
  BY LockInvariant, HoldersExclude, PTL

-----------------------------------------------------------------------------
\* What a profile's operations know of it.

Creating == {"create_lock", "create", "created", "rollback", "rolled"}
Deleting == {"delete_lock", "delete", "deleted"}

\* Where an operation answers for a change of the profile still under way.
Waiting == {"created", "rollback", "rolled", "deleted"}

OnItsWayOut == {"absent", "DELETING", "DELETE_FAILED"}

\* One profile's life.  shown lags status, but ACTIVE is only shown of an
\* ACTIVE profile, until it is deleted; and a recorded one is only shown as
\* absent when it is.
Life(p) ==
  /\ pc[p] \in Creating => ~recorded[p]
  /\ pc[p] \in Deleting => recorded[p]
  /\ pc[p] = "created" /\ shown[p] = "ACTIVE" => status[p] = "ACTIVE"
  /\ recorded[p] /\ shown[p] = "absent" => status[p] = "absent"
  /\ pc[p] = "rolled" => status[p] \in OnItsWayOut
  /\ pc[p] = "idle" =>
       /\ outcome[p] = "created" => status[p] = "ACTIVE"
       /\ outcome[p] = "rolled_back" => status[p] \in OnItsWayOut
       /\ outcome[p] = "deleted" => status[p] = "absent"
  /\ status[p] \in Changing => pc[p] \in Waiting \/ outcome[p] \in Failures

Lives == \A p \in Profiles : Life(p)

IInv == TypeOK /\ HoldsLock /\ Lives

\* A step of p leaves the other profiles as they are.
LEMMA OthersKeep ==
  ASSUME TypeOK, NEW p \in Profiles,
         Start(p) \/ Acquire(p) \/ Call(p) \/ Drift(p) \/ Progress(p) \/ Show(p),
         NEW q \in Profiles \ {p}
  PROVE  /\ status'[q] = status[q] /\ shown'[q] = shown[q] /\ pc'[q] = pc[q]
         /\ recorded'[q] = recorded[q] /\ outcome'[q] = outcome[q]
<1> USE DEF TypeOK
<1>1. ASSUME NEW o, Return(p, o)
      PROVE  pc'[q] = pc[q] /\ recorded'[q] = recorded[q] /\ outcome'[q] = outcome[q]
  BY <1>1 DEF Return, Goto
<1>2. ASSUME NEW l, Continue(p, l)
      PROVE  pc'[q] = pc[q] /\ recorded'[q] = recorded[q] /\ outcome'[q] = outcome[q]
  BY <1>2 DEF Continue, Goto
<1>3. CASE Start(p) \/ Acquire(p) \/ Drift(p) \/ Progress(p) \/ Show(p)
  BY <1>2, <1>3 DEF Start, Acquire, Drift, Progress, Show, Goto
<1>4. CASE Create(p) \/ CreateInUse(p) \/ CreateFails(p)
  BY <1>1, <1>2, <1>4 DEF Create, CreateInUse, CreateFails
<1>5. CASE FinishCreate(p) \/ FinishCreateFails(p)
  BY <1>1, <1>2, <1>5 DEF FinishCreate, FinishCreateFails
<1>6. CASE Rollback(p) \/ Delete(p)
  BY <1>1, <1>2, <1>6 DEF Rollback, Delete, CallDelete
<1>7. CASE AwaitRollback(p) \/ AwaitDeleted(p)
  BY <1>1, <1>7 DEF AwaitRollback, AwaitDeleted, AwaitGone
<1> QED
  BY <1>3, <1>4, <1>5, <1>6, <1>7 DEF Call

LEMMA LifeInit == Init => Lives
  BY DEF Init, Lives, Life, Creating, Deleting, Changing, Waiting

LEMMA LifeNext == IInv /\ [Next]_vars => Lives'
<1> SUFFICES ASSUME IInv, [Next]_vars
             PROVE  Lives'
  OBVIOUS
<1> USE DEF IInv, TypeOK
<1>1. ASSUME NEW p \in Profiles,
             Start(p) \/ Acquire(p) \/ Call(p) \/ Drift(p) \/ Progress(p) \/ Show(p)
      PROVE  Lives'
  <2>1. ASSUME NEW q \in Profiles \ {p}
        PROVE  Life(q)'
    <3>1. Life(q)
      BY DEF Lives
    <3> QED
      BY <1>1, <3>1, OthersKeep DEF Life
  <2>2. Life(p)
    BY DEF Lives
  <2>3. Life(p)'
    <3> USE <2>2
        DEF Life, Creating, Deleting, Waiting, OnItsWayOut, Changing, Failures, Goto
    <3>1. CASE Start(p)
      BY <3>1 DEF Start, Continue
    <3>2. CASE Acquire(p)
      BY <3>2 DEF Acquire
    <3>3. CASE Create(p)
      <4>1. CASE Continue(p, "created")
        BY <3>3, <4>1 DEF Create, Continue
      <4>2. CASE Return(p, "not_created")
        BY <3>3, <4>2 DEF Create, Return
      <4> QED
        BY <3>3, <4>1, <4>2 DEF Create
    <3>4. CASE CreateInUse(p) \/ CreateFails(p)
      BY <3>4 DEF CreateInUse, CreateFails, Return
    <3>5. CASE FinishCreate(p)
      BY <3>5 DEF FinishCreate, Return
    <3>6. CASE FinishCreateFails(p)
      BY <3>6 DEF FinishCreateFails, Continue
    <3>7. CASE Rollback(p)
      <4>1. CASE Continue(p, "rolled")
        BY <3>7, <4>1 DEF Rollback, CallDelete, Continue, Return
      <4>2. CASE Return(p, "rolled_back")
        BY <3>7, <4>2 DEF Rollback, CallDelete, Return, Continue
      <4>3. CASE Return(p, "rollback_failed")
        BY <3>7, <4>3 DEF Rollback, CallDelete, Return, Continue
      <4> QED
        BY <3>7, <4>1, <4>2, <4>3 DEF Rollback, CallDelete
    <3>8. CASE AwaitRollback(p)
      BY <3>8 DEF AwaitRollback, AwaitGone, Return
    <3>9. CASE Delete(p)
      <4>1. CASE Continue(p, "deleted")
        BY <3>9, <4>1 DEF Delete, CallDelete, Deletable, Continue, Return
      <4>2. CASE Return(p, "deleted")
        BY <3>9, <4>2 DEF Delete, CallDelete, Return, Continue
      <4>3. CASE Return(p, "delete_failed")
        BY <3>9, <4>3 DEF Delete, CallDelete, Deletable, Return, Continue
      <4> QED
        BY <3>9, <4>1, <4>2, <4>3 DEF Delete, CallDelete
    <3>10. CASE AwaitDeleted(p)
      BY <3>10 DEF AwaitDeleted, AwaitGone, Return
    <3>11. CASE Drift(p)
      BY <3>11 DEF Drift
    <3>12. CASE Progress(p)
      BY <3>12 DEF Progress
    <3>13. CASE Show(p)
      BY <3>13 DEF Show
    <3> QED
      BY <1>1, <3>1, <3>2, <3>3, <3>4, <3>5, <3>6, <3>7, <3>8, <3>9, <3>10,
         <3>11, <3>12, <3>13 DEF Call
  <2> QED
    BY <2>1, <2>3 DEF Lives
<1>2. CASE UNCHANGED vars
  BY <1>2 DEF vars, Lives, Life
<1> QED
  BY <1>1, <1>2 DEF Next

LEMMA LifeInvariant == Spec => []IInv
<1>1. Init => IInv
  BY TypeInit, LockInit, LifeInit DEF IInv
<1>2. IInv /\ [Next]_vars => IInv'
  BY TypeNext, LockNext, LifeNext DEF IInv
<1> QED
  BY <1>1, <1>2, PTL DEF Spec

\* A create, rollback or delete that returned has seen the profile where its
\* result says it is, though describe lags (fargate_profile_wait.go).
THEOREM ReturnsAreSettled == Spec => []ReturnsSettled
<1>1. IInv => ReturnsSettled
  BY DEF IInv, Lives, Life, ReturnsSettled, OnItsWayOut
<1> QED
  BY <1>1, LifeInvariant, PTL

\* EKS refuses a create as in use only where an earlier operation on the
\* cluster reported a failure (fargate_profile_lifecycle.go).
THEOREM InUseOnlyAfterFailure == Spec => []InUseMeansFailure
<1>1. IInv => InUseMeansFailure
  <2> SUFFICES ASSUME IInv, NEW p \in Profiles, pc[p] = "create", ~Free(p)
               PROVE  \E q \in Profiles :
                        ClusterOf[q] = ClusterOf[p] /\ outcome[q] \in Failures
    BY DEF InUseMeansFailure
  <2>1. PICK q \in Profiles : ClusterOf[q] = ClusterOf[p] /\ status[q] \in Changing
    BY DEF Free
  <2>2. pc[q] \notin Waiting
    BY <2>1, HoldersExclude DEF IInv, OneOperation, Waiting, Held
  <2> QED
    BY <2>1, <2>2 DEF IInv, Lives, Life
<1> QED
  BY <1>1, LifeInvariant, PTL
=============================================================================
