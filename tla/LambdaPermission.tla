-------------------------- MODULE LambdaPermission --------------------------
(***************************************************************************)
(* internal/service/lambda/permission_rsrc.go: permission resources that   *)
(* add statements to, and remove them from, the policies of functions,     *)
(* each reconciled in a goroutine of its own.  A process stands for one    *)
(* resource with an explicit statement id, and its id is the process.      *)
(*                                                                         *)
(* Lambda is external.  It answers AddPermission and RemovePermission by   *)
(* reading the policy and writing it back, with nothing between the two    *)
(* to stop another call ("Lambda loses permission statements when two such *)
(* calls run against the same function at once"), and GetPolicy answers    *)
(* from a copy that lags.  Lambda is done with a call by the time the      *)
(* client stops waiting for its answer.                                    *)
(***************************************************************************)
EXTENDS Naturals

CONSTANTS
  Procs,      \* permission resources
  Functions,  \* Lambda functions
  Names,      \* the strings function-name may hold: names and ARNs
  NameOf,     \* the function-name each resource's configuration gives
  Resolves,   \* the function each string names
  NoOne,
  MaxTries    \* bound on the calls one wait makes before it times out

ASSUME LambdaAssumption ==
  /\ NameOf \in [Procs -> Names]
  /\ Resolves \in [Names -> Functions]
  /\ NoOne \notin Procs
  /\ MaxTries \in Nat \ {0}

VARIABLES
  policy,    \* the statements of each function's policy
  visible,   \* what GetPolicy shows of it
  snapshot,  \* the policy Lambda read for the write a process waits for
  lock,      \* functionLocks: the holder of each name's mutex
  pc,
  tries,     \* calls made in the current wait
  recorded,  \* the runtime holds outputs for the resource
  last       \* how the resource's latest operation ended

vars == <<policy, visible, snapshot, lock, pc, tries, recorded, last>>

Calling == {"add", "adding", "remove", "removing"}
Locations == {"idle", "create", "delete", "appear", "vanish"} \union Calling
Outcomes == {"none", "created", "create_failed", "deleted", "delete_failed", "drift"}

FunctionOf(p) == Resolves[NameOf[p]]

\* functionLock: the key is the string the configuration gives.
LockKey(p) == NameOf[p]

Init ==
  /\ policy = [f \in Functions |-> {}]
  /\ visible = [f \in Functions |-> {}]
  /\ snapshot = [p \in Procs |-> {}]
  /\ lock = [n \in Names |-> NoOne]
  /\ pc = [p \in Procs |-> "idle"]
  /\ tries = [p \in Procs |-> 0]
  /\ recorded = [p \in Procs |-> FALSE]
  /\ last = [p \in Procs |-> "none"]

Goto(p, l) == pc' = [pc EXCEPT ![p] = l]

Unlock(p) == lock' = [lock EXCEPT ![LockKey(p)] = NoOne]

\* The operation returns; the runtime records outputs after a Create that
\* succeeded and forgets them after a Delete that did, or a Read that did not
\* find the statement.  A failure leaves its record as it was.
Finish(p, outcome) ==
  /\ Goto(p, "idle")
  /\ tries' = [tries EXCEPT ![p] = 0]
  /\ last' = [last EXCEPT ![p] = outcome]
  /\ recorded' = CASE outcome = "created" -> [recorded EXCEPT ![p] = TRUE]
                   [] outcome \in {"deleted", "drift"} -> [recorded EXCEPT ![p] = FALSE]
                   [] OTHER -> recorded

\* The operation goes on, in a new wait or in none; or with one more call of
\* the wait it is in.
Continue(p, l) ==
  /\ Goto(p, l)
  /\ tries' = [tries EXCEPT ![p] = 0]
  /\ UNCHANGED <<last, recorded>>

CallForever(p, l) ==
  /\ tries' = [tries EXCEPT ![p] = @ + 1]
  /\ Goto(p, l)
  /\ UNCHANGED <<last, recorded>>

CallAgain(p, l) ==
  /\ tries[p] < MaxTries
  /\ tries' = [tries EXCEPT ![p] = @ + 1]
  /\ Goto(p, l)
  /\ UNCHANGED <<last, recorded>>

-----------------------------------------------------------------------------
\* The runtime starts an operation, which first waits for the lock.

Start(p) ==
  /\ pc[p] = "idle"
  /\ Continue(p, IF recorded[p] THEN "delete" ELSE "create")
  /\ UNCHANGED <<policy, visible, snapshot, lock>>

DeleteWithoutLock(p) ==
  /\ pc[p] \in {"create", "delete"}
  /\ pc[p] = "delete" \/ lock[LockKey(p)] = NoOne
  /\ lock' = [lock EXCEPT ![LockKey(p)] = p]
  /\ Continue(p, IF pc[p] = "create" THEN "add" ELSE "remove")
  /\ UNCHANGED <<policy, visible, snapshot>>

CreateWithoutLock(p) ==
  /\ pc[p] \in {"create", "delete"}
  /\ pc[p] = "create" \/ lock[LockKey(p)] = NoOne
  /\ lock' = [lock EXCEPT ![LockKey(p)] = p]
  /\ Continue(p, IF pc[p] = "create" THEN "add" ELSE "remove")
  /\ UNCHANGED <<policy, visible, snapshot>>

\* lock.Lock()
Acquire(p) ==
  /\ pc[p] \in {"create", "delete"}
  /\ lock[LockKey(p)] = NoOne
  /\ lock' = [lock EXCEPT ![LockKey(p)] = p]
  /\ Continue(p, IF pc[p] = "create" THEN "add" ELSE "remove")
  /\ UNCHANGED <<policy, visible, snapshot>>

UnlockBeforeSleep(p) ==
  \/ CallAgain(p, "add") /\ Unlock(p)
  \/ Finish(p, "create_failed") /\ Unlock(p)

\* A probe that is not ready: the wait sleeps and calls again, or times out
\* (or is cancelled) and gives the lock back.
AddAgainOrGiveUp(p) ==
  \/ CallAgain(p, "add") /\ UNCHANGED lock
  \/ Finish(p, "create_failed") /\ Unlock(p)

\* Lambda reads the policy it will write back.
Snapshot(p) == snapshot' = [snapshot EXCEPT ![p] = policy[FunctionOf(p)]]

\* AddPermission reaches Lambda.  A statement with the same id is a resource
\* conflict, which the probe takes for one that clears.
BeginAdd(p) ==
  /\ pc[p] = "add"
  /\ IF p \in policy[FunctionOf(p)]
     THEN AddAgainOrGiveUp(p) /\ UNCHANGED snapshot
     ELSE /\ Snapshot(p)
          /\ Goto(p, "adding")
          /\ UNCHANGED <<lock, tries, last, recorded>>
  /\ UNCHANGED <<policy, visible>>

\* The function, role or principal is not visible yet: retried.
AddNotYet(p) ==
  /\ pc[p] = "add"
  /\ AddAgainOrGiveUp(p)
  /\ UNCHANGED <<policy, visible, snapshot>>

\* Any other error ends the wait.
AddFails(p) ==
  /\ pc[p] = "add"
  /\ Finish(p, "create_failed")
  /\ Unlock(p)
  /\ UNCHANGED <<policy, visible, snapshot>>

\* Lambda writes the policy back.
WriteBack(p, statements) ==
  /\ policy' = [policy EXCEPT ![FunctionOf(p)] = statements]
  /\ snapshot' = [snapshot EXCEPT ![p] = {}]

\* Create sees the answer and goes on to wait for the statement; or the answer
\* is lost, and the SDK sends the call again or reports an error, which ends
\* the Create.
FinishAdd(p) ==
  /\ pc[p] = "adding"
  /\ WriteBack(p, snapshot[p] \union {p})
  /\ \/ Continue(p, "appear") /\ Unlock(p)
     \/ CallAgain(p, "add") /\ UNCHANGED lock
     \/ Finish(p, "create_failed") /\ Unlock(p)
  /\ UNCHANGED visible

Shown(p) == p \in visible[FunctionOf(p)]

ReturnAtOnce(p) ==
  /\ pc[p] = "appear"
  /\ Finish(p, "created")
  /\ UNCHANGED <<policy, visible, snapshot, lock>>

\* GetPolicy, in read with created set: found, or not found (poll again until
\* the deadline, then ErrNotFound), or an error.
Appear(p) ==
  /\ pc[p] = "appear"
  /\ \/ Shown(p) /\ Finish(p, "created")
     \/ ~Shown(p) /\ CallAgain(p, "appear")
     \/ Finish(p, "create_failed")
  /\ UNCHANGED <<policy, visible, snapshot, lock>>

-----------------------------------------------------------------------------

\* RemovePermission reaches Lambda.  An absent statement is a not-found, which
\* Delete accepts: the wait that follows confirms it.
BeginRemove(p) ==
  /\ pc[p] = "remove"
  /\ IF p \in policy[FunctionOf(p)]
     THEN /\ Snapshot(p)
          /\ Goto(p, "removing")
          /\ UNCHANGED <<lock, tries, last, recorded>>
     ELSE Continue(p, "vanish") /\ Unlock(p) /\ UNCHANGED snapshot
  /\ UNCHANGED <<policy, visible>>

ReturnWithLockHeld(p) ==
  /\ pc[p] = "remove"
  /\ Finish(p, "delete_failed")
  /\ UNCHANGED <<policy, visible, snapshot, lock>>

RemoveFails(p) ==
  /\ pc[p] = "remove"
  /\ Finish(p, "delete_failed")
  /\ Unlock(p)
  /\ UNCHANGED <<policy, visible, snapshot>>

\* The write; its answer may be lost, as in FinishAdd.
FinishRemove(p) ==
  /\ pc[p] = "removing"
  /\ WriteBack(p, snapshot[p] \ {p})
  /\ \/ Continue(p, "vanish") /\ Unlock(p)
     \/ CallAgain(p, "remove") /\ UNCHANGED lock
     \/ Finish(p, "delete_failed") /\ Unlock(p)
  /\ UNCHANGED visible

\* The wait after a Delete, until GetPolicy no longer shows the statement.
Vanish(p) ==
  /\ pc[p] = "vanish"
  /\ \/ ~Shown(p) /\ Finish(p, "deleted")
     \/ Shown(p) /\ CallAgain(p, "vanish")
     \/ Finish(p, "delete_failed")
  /\ UNCHANGED <<policy, visible, snapshot, lock>>

\* Read: a recorded statement that GetPolicy does not show is drift.  A Read
\* that finds it changes nothing.
Drift(p) ==
  /\ pc[p] = "idle"
  /\ recorded[p] /\ ~Shown(p)
  /\ Finish(p, "drift")
  /\ UNCHANGED <<policy, visible, snapshot, lock>>

\* GetPolicy catches up.
Propagate(f) ==
  /\ visible[f] # policy[f]
  /\ visible' = [visible EXCEPT ![f] = policy[f]]
  /\ UNCHANGED <<policy, snapshot, lock, pc, tries, recorded, last>>

AfterLock(p) ==
  \/ BeginAdd(p) \/ AddNotYet(p) \/ AddFails(p) \/ FinishAdd(p) \/ Appear(p)
  \/ BeginRemove(p) \/ RemoveFails(p) \/ FinishRemove(p) \/ Vanish(p)

Next ==
  \/ \E p \in Procs : Start(p) \/ Acquire(p) \/ AfterLock(p) \/ Drift(p)
  \/ \E f \in Functions : Propagate(f)

\* A goroutine that can run does; sync.Mutex hands the lock to a waiter that
\* has waited long enough, so none is overtaken for ever.
Fairness == \A p \in Procs : WF_vars(AfterLock(p)) /\ SF_vars(Acquire(p))

Spec == Init /\ [][Next]_vars /\ Fairness

-----------------------------------------------------------------------------

TypeOK ==
  /\ policy \in [Functions -> SUBSET Procs]
  /\ visible \in [Functions -> SUBSET Procs]
  /\ snapshot \in [Procs -> SUBSET Procs]
  /\ lock \in [Names -> Procs \union {NoOne}]
  /\ pc \in [Procs -> Locations]
  /\ tries \in [Procs -> 0..MaxTries]
  /\ recorded \in [Procs -> BOOLEAN]
  /\ last \in [Procs -> Outcomes]

\* Two resources spelled the same never have permission calls in progress at
\* once: the lock is held across the whole retry loop and given back on every
\* way out of it (permission_rsrc.go, Create and Delete).
CallsExclude ==
  \A p, q \in Procs :
    pc[p] \in Calling /\ pc[q] \in Calling /\ LockKey(p) = LockKey(q) => p = q

\* What the comment on functionLock says: all resources naming the same
\* function share one lock, so their calls exclude each other.
OneLockPerFunction ==
  \A p, q \in Procs :
    pc[p] \in Calling /\ pc[q] \in Calling /\ FunctionOf(p) = FunctionOf(q) => p = q

\* A statement whose Create succeeded is in the policy until its own Delete:
\* no other resource's write loses it (permission_rsrc.go, functionLocks).
NoLostStatement ==
  \A p \in Procs :
    pc[p] = "idle" /\ last[p] = "created" => p \in policy[FunctionOf(p)]

\* A statement whose Delete succeeded is gone and no other resource's write
\* brings it back (permission_rsrc.go, Delete).
StaysDeleted ==
  \A p \in Procs :
    pc[p] = "idle" /\ last[p] = "deleted" => p \notin policy[FunctionOf(p)]

\* The next plan never mistakes a slow policy for a removed statement: after a
\* Create that succeeded every GetPolicy shows it (permission_rsrc.go, read).
NoFalseDrift ==
  \A p \in Procs : pc[p] = "idle" /\ last[p] = "created" => Shown(p)

\* Every Create and Delete returns, whatever the other resources of the
\* function are doing under the lock (permission_rsrc.go, Create, Delete).
EveryOperationReturns == \A p \in Procs : pc[p] # "idle" ~> pc[p] = "idle"
=============================================================================
