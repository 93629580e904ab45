----------------------- MODULE LambdaPermission_proofs -----------------------
(***************************************************************************)
(* Theorems about LambdaPermission.  The lock excludes the calls of the    *)
(* resources that spell their function alike, so that the policy Lambda    *)
(* read for a call is still the policy when it writes it back.             *)
(***************************************************************************)
EXTENDS LambdaPermission, TLAPS

\* The part of TypeOK that Finish, Continue and CallAgain are about.
ControlOK ==
  /\ pc \in [Procs -> Locations]
  /\ tries \in [Procs -> 0..MaxTries]
  /\ recorded \in [Procs -> BOOLEAN]
  /\ last \in [Procs -> Outcomes]

\* However an operation goes on or returns, its control state stays typed.
LEMMA FinishTypes ==
  ASSUME ControlOK, NEW p \in Procs, NEW o \in Outcomes, Finish(p, o)
  PROVE  ControlOK'
<1>1. tries' \in [Procs -> 0..MaxTries]
  BY LambdaAssumption DEF ControlOK, Finish
<1>2. recorded' \in [Procs -> BOOLEAN]
  <2>1. CASE o = "created"
    BY <2>1 DEF ControlOK, Finish
  <2>2. CASE o \in {"deleted", "drift"}
    BY <2>2 DEF ControlOK, Finish
  <2>3. CASE o \notin {"created", "deleted", "drift"}
    BY <2>3 DEF ControlOK, Finish
  <2> QED
    BY <2>1, <2>2, <2>3
<1>3. last' \in [Procs -> Outcomes]
  BY DEF ControlOK, Finish
<1>4. pc' \in [Procs -> Locations]
  BY DEF ControlOK, Finish, Goto, Locations
<1> QED
  BY <1>1, <1>2, <1>3, <1>4 DEF ControlOK

LEMMA ContinueTypes ==
  ASSUME ControlOK, NEW p \in Procs, NEW l \in Locations, Continue(p, l)
  PROVE  ControlOK'
  BY LambdaAssumption DEF ControlOK, Continue, Goto

LEMMA CallAgainTypes ==
  ASSUME ControlOK, NEW p \in Procs, NEW l \in Locations, CallAgain(p, l)
  PROVE  ControlOK'
<1>1. tries[p] + 1 \in 0..MaxTries
  BY LambdaAssumption DEF ControlOK, CallAgain
<1> QED
  BY <1>1 DEF ControlOK, CallAgain, Goto

LEMMA UnlockTypes ==
  ASSUME lock \in [Names -> Procs \union {NoOne}], NEW p \in Procs, Unlock(p)
  PROVE  lock' \in [Names -> Procs \union {NoOne}]
  BY DEF Unlock

LEMMA TypeInit == Init => TypeOK
  BY LambdaAssumption DEF Init, TypeOK, Locations, Outcomes

\* One step per action: the control by the lemmas above, then what the action
\* itself writes.
LEMMA TypeNext == TypeOK /\ [Next]_vars => TypeOK'
<1> SUFFICES ASSUME TypeOK, [Next]_vars
             PROVE  TypeOK'
  OBVIOUS
<1> ControlOK
  BY DEF TypeOK, ControlOK
<1> USE DEF Locations, Calling, Outcomes
<1> SUFFICES ControlOK'
                /\ policy' \in [Functions -> SUBSET Procs]
                /\ visible' \in [Functions -> SUBSET Procs]
                /\ snapshot' \in [Procs -> SUBSET Procs]
                /\ lock' \in [Names -> Procs \union {NoOne}]
  BY DEF TypeOK, ControlOK
<1>a. \A p \in Procs : FunctionOf(p) \in Functions
  BY LambdaAssumption DEF FunctionOf
<1>1. ASSUME NEW p \in Procs, Start(p)
      PROVE  ControlOK' /\ UNCHANGED <<policy, visible, snapshot, lock>>
  BY <1>1, ContinueTypes DEF Start
<1>2. ASSUME NEW p \in Procs, Acquire(p)
      PROVE  /\ ControlOK' /\ UNCHANGED <<policy, visible, snapshot>>
             /\ lock' \in [Names -> Procs \union {NoOne}]
  BY <1>2, ContinueTypes DEF Acquire, TypeOK
<1>b. ASSUME NEW p \in Procs, AddAgainOrGiveUp(p)
      PROVE  ControlOK' /\ lock' \in [Names -> Procs \union {NoOne}]
  BY <1>b, FinishTypes, CallAgainTypes, UnlockTypes
  DEF AddAgainOrGiveUp, TypeOK
<1>3. ASSUME NEW p \in Procs, BeginAdd(p)
      PROVE  /\ ControlOK' /\ UNCHANGED <<policy, visible>>
             /\ snapshot' \in [Procs -> SUBSET Procs]
             /\ lock' \in [Names -> Procs \union {NoOne}]
  <2>1. CASE p \in policy[FunctionOf(p)]
    BY <1>3, <1>b, <2>1 DEF BeginAdd, TypeOK
  <2>2. CASE p \notin policy[FunctionOf(p)]
    BY <1>3, <1>a, <2>2 DEF BeginAdd, TypeOK, ControlOK, Goto, Snapshot
  <2> QED
    BY <2>1, <2>2
<1>4. ASSUME NEW p \in Procs, AddNotYet(p)
      PROVE  /\ ControlOK' /\ UNCHANGED <<policy, visible, snapshot>>
             /\ lock' \in [Names -> Procs \union {NoOne}]
  BY <1>4, <1>b DEF AddNotYet
<1>5. ASSUME NEW p \in Procs, AddFails(p) \/ RemoveFails(p)
      PROVE  /\ ControlOK' /\ UNCHANGED <<policy, visible, snapshot>>
             /\ lock' \in [Names -> Procs \union {NoOne}]
  BY <1>5, FinishTypes, UnlockTypes DEF AddFails, RemoveFails, TypeOK
<1>6. ASSUME NEW p \in Procs, FinishAdd(p)
      PROVE  /\ ControlOK' /\ UNCHANGED visible
             /\ policy' \in [Functions -> SUBSET Procs]
             /\ snapshot' \in [Procs -> SUBSET Procs]
             /\ lock' \in [Names -> Procs \union {NoOne}]
  <2>1. ControlOK' /\ lock' \in [Names -> Procs \union {NoOne}]
    BY <1>6, FinishTypes, ContinueTypes, CallAgainTypes, UnlockTypes
    DEF FinishAdd, TypeOK
  <2> QED
    BY <1>6, <1>a, <2>1 DEF FinishAdd, WriteBack, TypeOK
<1>7. ASSUME NEW p \in Procs, Appear(p) \/ Vanish(p) \/ Drift(p)
      PROVE  ControlOK' /\ UNCHANGED <<policy, visible, snapshot, lock>>
  BY <1>7, FinishTypes, CallAgainTypes DEF Appear, Vanish, Drift
<1>8. ASSUME NEW p \in Procs, BeginRemove(p)
      PROVE  /\ ControlOK' /\ UNCHANGED <<policy, visible>>
             /\ snapshot' \in [Procs -> SUBSET Procs]
             /\ lock' \in [Names -> Procs \union {NoOne}]
  <2>1. CASE p \in policy[FunctionOf(p)]
    BY <1>8, <1>a, <2>1 DEF BeginRemove, TypeOK, ControlOK, Goto, Snapshot
  <2>2. CASE p \notin policy[FunctionOf(p)]
    BY <1>8, <2>2, ContinueTypes, UnlockTypes DEF BeginRemove, TypeOK
  <2> QED
    BY <2>1, <2>2
<1>9. ASSUME NEW p \in Procs, FinishRemove(p)
      PROVE  /\ ControlOK' /\ UNCHANGED visible
             /\ policy' \in [Functions -> SUBSET Procs]
             /\ snapshot' \in [Procs -> SUBSET Procs]
             /\ lock' \in [Names -> Procs \union {NoOne}]
  <2>1. ControlOK' /\ lock' \in [Names -> Procs \union {NoOne}]
    BY <1>9, FinishTypes, ContinueTypes, CallAgainTypes, UnlockTypes
    DEF FinishRemove, TypeOK
  <2> QED
    BY <1>9, <1>a, <2>1 DEF FinishRemove, WriteBack, TypeOK
<1>10. ASSUME NEW f \in Functions, Propagate(f)
       PROVE  /\ ControlOK' /\ UNCHANGED <<policy, snapshot, lock>>
              /\ visible' \in [Functions -> SUBSET Procs]
  BY <1>10 DEF Propagate, TypeOK, ControlOK
<1>11. CASE UNCHANGED vars
  BY <1>11 DEF vars, TypeOK, ControlOK
<1> QED
  BY <1>1, <1>2, <1>3, <1>4, <1>5, <1>6, <1>7, <1>8, <1>9, <1>10, <1>11
  DEF Next, AfterLock, TypeOK

\* Type correctness of every state that permission_rsrc.go's Create, Delete
\* and Read reach, with the calls of each wait within their bound.
THEOREM TypeCorrect == Spec => []TypeOK
  BY TypeInit, TypeNext, PTL DEF Spec

-----------------------------------------------------------------------------
\* The lock excludes calls.

\* A resource whose permission calls are in progress holds the lock of the
\* string it spells its function with.
HoldsLock == \A p \in Procs : pc[p] \in Calling => lock[LockKey(p)] = p

\* Where one step can take a resource's control: the others stay, and what is
\* still calling keeps the lock.
LEMMA LockNext == TypeOK /\ HoldsLock /\ [Next]_vars => HoldsLock'
<1> SUFFICES ASSUME TypeOK, HoldsLock, [Next]_vars
             PROVE  HoldsLock'
  OBVIOUS
<1> USE DEF TypeOK, HoldsLock, LockKey, Calling, Locations
<1>a. \A p \in Procs : NameOf[p] \in Names
  BY LambdaAssumption
<1>b. NoOne \notin Procs
  BY LambdaAssumption
<1>1. ASSUME NEW p \in Procs, NEW l, pc' = [pc EXCEPT ![p] = l],
             l \in Calling => pc[p] \in Calling, UNCHANGED lock
      PROVE  HoldsLock'
  BY <1>1
<1>2. ASSUME NEW p \in Procs, NEW l, pc' = [pc EXCEPT ![p] = l],
             l \notin Calling, pc[p] \in Calling, Unlock(p)
      PROVE  HoldsLock'
  BY <1>2, <1>a, <1>b DEF Unlock
<1>3. ASSUME NEW p \in Procs, Acquire(p)
      PROVE  HoldsLock'
  BY <1>3, <1>a, <1>b DEF Acquire, Continue, Goto
<1>4. ASSUME NEW p \in Procs, Start(p) \/ Appear(p) \/ Vanish(p) \/ Drift(p)
      PROVE  HoldsLock'
  <2>1. UNCHANGED lock
    BY <1>4 DEF Start, Appear, Vanish, Drift
  <2>2. \E l \in Locations \ Calling : Goto(p, l)
    BY <1>4 DEF Start, Appear, Vanish, Drift, Finish, Continue, CallAgain
  <2> QED
    BY <1>1, <2>1, <2>2 DEF Goto
<1>5. ASSUME NEW p \in Procs, pc[p] \in Calling, AddAgainOrGiveUp(p)
      PROVE  HoldsLock'
  BY <1>1, <1>2, <1>5 DEF AddAgainOrGiveUp, Finish, CallAgain, Goto
<1>6. ASSUME NEW p \in Procs, BeginAdd(p)
      PROVE  HoldsLock'
  BY <1>1, <1>5, <1>6 DEF BeginAdd, Goto
<1>7. ASSUME NEW p \in Procs, AddNotYet(p)
      PROVE  HoldsLock'
  BY <1>5, <1>7 DEF AddNotYet
<1>8. ASSUME NEW p \in Procs, AddFails(p) \/ RemoveFails(p)
      PROVE  HoldsLock'
  BY <1>2, <1>8 DEF AddFails, RemoveFails, Finish, Goto
<1>9. ASSUME NEW p \in Procs, FinishAdd(p) \/ FinishRemove(p)
      PROVE  HoldsLock'
  BY <1>1, <1>2, <1>9
  DEF FinishAdd, FinishRemove, Finish, Continue, CallAgain, Goto
<1>10. ASSUME NEW p \in Procs, BeginRemove(p)
       PROVE  HoldsLock'
  BY <1>1, <1>2, <1>10 DEF BeginRemove, Continue, Goto
<1>11. ASSUME NEW f \in Functions, Propagate(f)
       PROVE  HoldsLock'
  BY <1>11 DEF Propagate
<1>12. CASE UNCHANGED vars
  BY <1>12 DEF vars
<1> QED
  BY <1>3, <1>4, <1>6, <1>7, <1>8, <1>9, <1>10, <1>11, <1>12
  DEF Next, AfterLock

LEMMA LockInit == Init => HoldsLock
  BY DEF Init, HoldsLock, Calling

\* Two resources spelled the same never have permission calls in progress at
\* once (permission_rsrc.go, functionLock in Create and Delete).
THEOREM Exclusion == Spec => []CallsExclude
<1>1. HoldsLock => CallsExclude
  BY DEF HoldsLock, CallsExclude
<1>2. Spec => []HoldsLock
  BY LockInit, LockNext, TypeCorrect, PTL DEF Spec
<1> QED
  BY <1>1, <1>2, PTL

-----------------------------------------------------------------------------
\* What the lock is for: the policy.

\* Resources of one function spell it alike.  The code does not see to this
\* (OneLockPerFunction fails); the configuration has to.
OneSpelling ==
  \A p, q \in Procs : FunctionOf(p) = FunctionOf(q) => LockKey(p) = LockKey(q)

\* The policy Lambda read for a call in progress is still the policy.
SnapshotFresh ==
  \A p \in Procs :
    pc[p] \in {"adding", "removing"} => snapshot[p] = policy[FunctionOf(p)]

\* From the accepted AddPermission on, the statement is in the policy; from the
\* accepted RemovePermission on, it is not; and once a Create returned, every
\* GetPolicy shows the statement.
Added(p) == pc[p] = "appear" \/ (pc[p] = "idle" /\ last[p] = "created")

Removed(p) == pc[p] = "vanish" \/ (pc[p] = "idle" /\ last[p] = "deleted")

PolicyRight ==
  \A p \in Procs :
    /\ Added(p) => p \in policy[FunctionOf(p)]
    /\ Removed(p) => p \notin policy[FunctionOf(p)]
    /\ pc[p] = "idle" /\ last[p] = "created" => Shown(p)

IInv == TypeOK /\ HoldsLock /\ SnapshotFresh /\ PolicyRight

\* The effect of one resource's step, seen by the others: their control is as
\* it was, and so is every statement of theirs in every policy.
LEMMA OthersKeep ==
  ASSUME IInv, OneSpelling, NEW p \in Procs,
         Start(p) \/ Acquire(p) \/ AfterLock(p) \/ Drift(p)
  PROVE  /\ UNCHANGED visible
         /\ \A q \in Procs \ {p} :
              /\ pc'[q] = pc[q] /\ last'[q] = last[q] /\ snapshot'[q] = snapshot[q]
              /\ q \in policy'[FunctionOf(q)] <=> q \in policy[FunctionOf(q)]
<1> USE DEF IInv, TypeOK
<1>1. \A q \in Procs \ {p} : pc'[q] = pc[q] /\ last'[q] = last[q]
  BY DEF Start, Acquire, AfterLock, BeginAdd, AddNotYet, AddFails, FinishAdd,
         Appear, BeginRemove, RemoveFails, FinishRemove, Vanish, Drift,
         AddAgainOrGiveUp, Finish, Continue, CallAgain, Goto
<1>2. UNCHANGED visible /\ \A q \in Procs \ {p} : snapshot'[q] = snapshot[q]
  BY DEF Start, Acquire, AfterLock, BeginAdd, AddNotYet, AddFails, FinishAdd,
         Appear, BeginRemove, RemoveFails, FinishRemove, Vanish, Drift,
         Snapshot, WriteBack
<1>3. UNCHANGED policy \/ FinishAdd(p) \/ FinishRemove(p)
  BY DEF Start, Acquire, AfterLock, BeginAdd, AddNotYet, AddFails,
         Appear, BeginRemove, RemoveFails, Vanish, Drift
<1>4. ASSUME FinishAdd(p) \/ FinishRemove(p), NEW q \in Procs \ {p}
      PROVE  q \in policy'[FunctionOf(q)] <=> q \in policy[FunctionOf(q)]
  <2>1. snapshot[p] = policy[FunctionOf(p)]
    BY <1>4 DEF FinishAdd, FinishRemove, SnapshotFresh
  <2>2. FunctionOf(p) \in Functions /\ FunctionOf(q) \in Functions
    BY LambdaAssumption DEF FunctionOf
  <2> QED
    BY <1>4, <2>1, <2>2 DEF FinishAdd, FinishRemove, WriteBack
<1> QED
  BY <1>1, <1>2, <1>3, <1>4

\* No other call on the function is in progress while one is: the write of one
\* leaves every other snapshot fresh.
LEMMA FreshNext == IInv /\ OneSpelling /\ [Next]_vars => SnapshotFresh'
<1> SUFFICES ASSUME IInv, OneSpelling, [Next]_vars
             PROVE  SnapshotFresh'
  OBVIOUS
<1> USE DEF IInv, TypeOK, SnapshotFresh
<1>1. ASSUME NEW p \in Procs, Start(p) \/ Acquire(p) \/ AfterLock(p) \/ Drift(p),
             NEW q \in Procs, pc'[q] \in {"adding", "removing"}
      PROVE  snapshot'[q] = policy'[FunctionOf(q)]
  <2>1. CASE q = p
    <3>1. BeginAdd(p) \/ BeginRemove(p)
      BY <1>1, <2>1
      DEF Start, Acquire, AfterLock, BeginAdd, AddNotYet, AddFails, FinishAdd,
          Appear, BeginRemove, RemoveFails, FinishRemove, Vanish, Drift,
          AddAgainOrGiveUp, Finish, Continue, CallAgain, Goto
    <3> QED
      BY <1>1, <2>1, <3>1
      DEF BeginAdd, BeginRemove, Snapshot, AddAgainOrGiveUp, Finish, Continue,
          CallAgain, Goto
  <2>2. CASE q # p /\ UNCHANGED policy
    BY <1>1, <2>2, OthersKeep
  <2>3. CASE q # p /\ (FinishAdd(p) \/ FinishRemove(p))
    <3>1. pc[q] \in Calling /\ pc[p] \in Calling
      BY <1>1, <2>3, OthersKeep DEF FinishAdd, FinishRemove, Calling
    <3>2. lock[LockKey(p)] = p /\ lock[LockKey(q)] = q
      BY <3>1 DEF HoldsLock
    <3>3. FunctionOf(q) # FunctionOf(p)
      BY <2>3, <3>2 DEF OneSpelling
    <3>4. FunctionOf(q) \in Functions
      BY LambdaAssumption DEF FunctionOf
    <3> QED
      BY <1>1, <2>3, <3>3, <3>4, OthersKeep
      DEF FinishAdd, FinishRemove, WriteBack
  <2>4. UNCHANGED policy \/ FinishAdd(p) \/ FinishRemove(p)
    BY <1>1
    DEF Start, Acquire, AfterLock, BeginAdd, AddNotYet, AddFails,
        Appear, BeginRemove, RemoveFails, Vanish, Drift
  <2> QED
    BY <2>1, <2>2, <2>3, <2>4
<1>2. ASSUME NEW f \in Functions, Propagate(f)
      PROVE  SnapshotFresh'
  BY <1>2 DEF Propagate, FunctionOf
<1>3. CASE UNCHANGED vars
  BY <1>3 DEF vars, FunctionOf
<1> QED
  BY <1>1, <1>2, <1>3 DEF Next

LEMMA PolicyNext == IInv /\ OneSpelling /\ [Next]_vars => PolicyRight'
<1> SUFFICES ASSUME IInv, OneSpelling, [Next]_vars
             PROVE  PolicyRight'
  OBVIOUS
<1> USE DEF IInv, TypeOK, PolicyRight, Added, Removed, Shown
<1>1. ASSUME NEW p \in Procs, Start(p) \/ Acquire(p) \/ AfterLock(p) \/ Drift(p)
      PROVE  PolicyRight'
  <2>1. ASSUME NEW q \in Procs \ {p}
        PROVE  /\ Added(q)' => q \in policy'[FunctionOf(q)]
               /\ Removed(q)' => q \notin policy'[FunctionOf(q)]
               /\ pc'[q] = "idle" /\ last'[q] = "created" => q \in visible'[FunctionOf(q)]
    BY <1>1, <2>1, OthersKeep
  <2>2. FunctionOf(p) \in Functions
    BY LambdaAssumption DEF FunctionOf
  <2>3. CASE Start(p) \/ Acquire(p)
    BY <2>1, <2>3 DEF Start, Acquire, Continue, Goto
  <2>4. CASE BeginAdd(p) \/ AddNotYet(p) \/ AddFails(p) \/ RemoveFails(p)
    BY <2>1, <2>4
    DEF BeginAdd, AddNotYet, AddFails, RemoveFails, AddAgainOrGiveUp, Finish,
        CallAgain, Goto
  <2>5. CASE FinishAdd(p)
    BY <2>1, <2>2, <2>5
    DEF FinishAdd, WriteBack, Finish, Continue, CallAgain, Goto
  <2>6. CASE FinishRemove(p)
    BY <2>1, <2>2, <2>6
    DEF FinishRemove, WriteBack, Finish, Continue, CallAgain, Goto
  <2>7. CASE BeginRemove(p)
    BY <2>1, <2>7 DEF BeginRemove, Continue, Goto
  <2>8. CASE Appear(p) \/ Vanish(p) \/ Drift(p)
    BY <2>1, <2>8 DEF Appear, Vanish, Drift, Finish, CallAgain, Goto
  <2> QED
    BY <1>1, <2>3, <2>4, <2>5, <2>6, <2>7, <2>8 DEF AfterLock
<1>2. ASSUME NEW f \in Functions, Propagate(f)
      PROVE  PolicyRight'
  BY <1>2 DEF Propagate, FunctionOf
<1>3. CASE UNCHANGED vars
  BY <1>3 DEF vars, FunctionOf
<1> QED
  BY <1>1, <1>2, <1>3 DEF Next

LEMMA PolicyInvariant == ASSUME OneSpelling PROVE Spec => []IInv
<1>1. Init => IInv
  BY TypeInit, LockInit
  DEF IInv, Init, SnapshotFresh, PolicyRight, Added, Removed
<1>2. IInv /\ [Next]_vars => IInv'
  BY TypeNext, LockNext, FreshNext, PolicyNext DEF IInv
<1> QED
  BY <1>1, <1>2, PTL DEF Spec

\* Where the resources of a function spell it alike, a statement whose Create
\* succeeded stays until its own Delete (permission_rsrc.go, functionLocks).
THEOREM NoStatementLost == ASSUME OneSpelling PROVE Spec => []NoLostStatement
<1>1. IInv => NoLostStatement
  BY DEF IInv, PolicyRight, Added, NoLostStatement
<1> QED
  BY <1>1, PolicyInvariant, PTL

\* Under the same condition no other write brings a deleted statement back
\* (permission_rsrc.go, Delete).
THEOREM DeletedForGood == ASSUME OneSpelling PROVE Spec => []StaysDeleted
<1>1. IInv => StaysDeleted
  BY DEF IInv, PolicyRight, Removed, StaysDeleted
<1> QED
  BY <1>1, PolicyInvariant, PTL

\* Under the same condition a plan after a Create that succeeded finds the
\* statement, however far GetPolicy lags (permission_rsrc.go, read).
THEOREM NoDriftFromLag == ASSUME OneSpelling PROVE Spec => []NoFalseDrift
<1>1. IInv => NoFalseDrift
  BY DEF IInv, PolicyRight, NoFalseDrift
<1> QED
  BY <1>1, PolicyInvariant, PTL
=============================================================================
