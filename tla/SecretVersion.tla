---------------------------- MODULE SecretVersion ----------------------------
(***************************************************************************)
(* internal/service/secretsmanager/secret_version_rsrc.go: several version *)
(* resources of one secret, each in its own goroutine, moving the staging  *)
(* labels of the secret between its versions one call at a time.           *)
(*                                                                         *)
(* Secrets Manager is external: a label is on at most one version;         *)
(* attaching AWSCURRENT moves AWSPREVIOUS to the version that had it; a     *)
(* move names the version the label leaves and is refused if that is not   *)
(* where the label is; PutSecretValue takes its labels from wherever they  *)
(* are.  Any call may fail, before or after it took effect.                *)
(***************************************************************************)
EXTENDS Naturals, FiniteSets

CONSTANTS
  Resources,    \* version resources of the secret
  MaxVersions,  \* bound on the versions ever put
  Custom,       \* labels other than AWSCURRENT and AWSPREVIOUS
  Wishes,       \* version-stages the configurations may give
  Unset,        \* version-stages omitted
  Absent,       \* the resource is not in the configuration
  MaxGoals,     \* bound on changes of configuration
  MaxFaults     \* bound on failed calls

currentStage == "AWSCURRENT"
previousStage == "AWSPREVIOUS"
Labels == Custom \union {currentStage, previousStage}

ASSUME SecretAssumption ==
  /\ MaxVersions \in Nat /\ MaxGoals \in Nat /\ MaxFaults \in Nat
  /\ Custom \intersect {currentStage, previousStage} = {}
  /\ Wishes \subseteq SUBSET Labels
  /\ Unset \notin Wishes /\ Absent \notin Wishes \union {Unset}

Versions == 1..MaxVersions
None == 0

VARIABLES
  stages,    \* the labels of each version
  count,     \* versions put so far
  wish,      \* each resource's version-stages, or "absent"
  recorded,  \* the version the runtime recorded for a resource
  inputs,    \* the version-stages it recorded
  pc,
  add, remove,  \* what reconcileStages or Delete still has to do
  added,     \* addedCurrent
  holder,    \* the version findVersionWithStage found
  last,      \* how the resource's latest operation ended
  goals, faults

label == <<stages, count>>
record == <<recorded, inputs, last>>
bounds == <<wish, goals>>
work == <<add, remove, added, holder>>
vars == <<label, bounds, record, pc, work, faults>>

Locations == {"idle", "put", "readable", "entry", "add", "lookup", "move", "promote",
              "remove", "read", "delete_entry", "detach", "detached"}

TypeOK ==
  /\ stages \in [Versions -> SUBSET Labels]
  /\ count \in 0..MaxVersions
  /\ wish \in [Resources -> Wishes \union {Unset, Absent}]
  /\ recorded \in [Resources -> 0..MaxVersions]
  /\ inputs \in [Resources -> Wishes \union {Unset}]
  /\ pc \in [Resources -> Locations]
  /\ add \in [Resources -> SUBSET Labels]
  /\ remove \in [Resources -> SUBSET Labels]
  /\ added \in [Resources -> BOOLEAN]
  /\ holder \in [Resources -> 0..MaxVersions]
  /\ last \in [Resources -> {"none", "failed", "created", "updated", "deleted"}]
  /\ goals \in 0..MaxGoals /\ faults \in 0..MaxFaults

\* desiredVersionStages
Desired(r) == IF wish[r] \in {Unset, Absent} THEN {} ELSE wish[r]

PutPending(r) == IF Desired(r) = {} THEN {"AWSPENDING"} ELSE Desired(r)

\* A secret put with no stages, or an empty list of them, is the current one.
PutStages(r) == IF Desired(r) = {} THEN {currentStage} ELSE Desired(r)

HolderOf(l, s) ==
  IF \E v \in Versions : l \in s[v] THEN CHOOSE v \in Versions : l \in s[v]
  ELSE None

\* Secrets Manager puts the labels ls on v and takes them off the others; the
\* version that AWSCURRENT leaves becomes the only AWSPREVIOUS.
Attach(s, ls, v) ==
  LET old == HolderOf(currentStage, s)
      demotes == currentStage \in ls /\ old \notin {None, v}
      moved == [w \in Versions |-> IF w = v THEN s[w] \union ls ELSE s[w] \ ls]
  IN [w \in Versions |->
        IF ~demotes THEN moved[w]
        ELSE IF w = old THEN moved[w] \union {previousStage}
        ELSE moved[w] \ {previousStage}]

Init ==
  /\ stages = [v \in Versions |-> {}]
  /\ count = 0
  /\ wish \in [Resources -> Wishes \union {Unset, Absent}]
  /\ recorded = [r \in Resources |-> None]
  /\ inputs = [r \in Resources |-> Unset]
  /\ pc = [r \in Resources |-> "idle"]
  /\ add = [r \in Resources |-> {}]
  /\ remove = [r \in Resources |-> {}]
  /\ added = [r \in Resources |-> FALSE]
  /\ holder = [r \in Resources |-> None]
  /\ last = [r \in Resources |-> "none"]
  /\ goals = 0 /\ faults = 0

Goto(r, l) == pc' = [pc EXCEPT ![r] = l] /\ UNCHANGED record

Faulty == faults < MaxFaults /\ faults' = faults + 1

\* The operation returns, with its local variables forgotten.
Return(r, outcome) ==
  /\ pc' = [pc EXCEPT ![r] = "idle"]
  /\ last' = [last EXCEPT ![r] = outcome]
  /\ add' = [add EXCEPT ![r] = {}]
  /\ remove' = [remove EXCEPT ![r] = {}]
  /\ added' = [added EXCEPT ![r] = FALSE]
  /\ holder' = [holder EXCEPT ![r] = None]

Fail(r) == Return(r, "failed") /\ UNCHANGED <<recorded, inputs>>

Succeed(r, outcome, v) ==
  /\ Return(r, outcome)
  /\ recorded' = [recorded EXCEPT ![r] = v]
  /\ inputs' = [inputs EXCEPT ![r] = IF v = None THEN Unset ELSE wish[r]]

-----------------------------------------------------------------------------
\* What the runtime plans.

\* secretVersionStageDiff
ToAdd(have, want) == want \ have
ToRemove(have, want) == have \ want

\* secretVersionStageActionNeeded
ActionNeeded(have, want) ==
  ToAdd(have, want) # {} \/ ToRemove(have, want) \ {currentStage} # {}

\* stagesNeedUpdate, with the stages the plan's Read observed.
StagesNeedUpdate(r) ==
  /\ wish[r] # Unset
  /\ inputs[r] # wish[r] \/ ActionNeeded(stages[recorded[r]], Desired(r))

Settled(r) ==
  \/ wish[r] = Absent /\ recorded[r] = None
  \/ /\ wish[r] # Absent /\ recorded[r] # None
     /\ ~StagesNeedUpdate(r)

Start(r) ==
  /\ pc[r] = "idle"
  /\ ~Settled(r)
  /\ Goto(r, IF recorded[r] = None THEN "put"
             ELSE IF wish[r] = Absent THEN "delete_entry" ELSE "entry")
  /\ UNCHANGED <<label, bounds, work, faults>>

NewGoal(r) ==
  /\ pc[r] = "idle" /\ goals < MaxGoals
  /\ goals' = goals + 1
  /\ \E w \in Wishes \union {Unset, Absent} :
       w # wish[r] /\ wish' = [wish EXCEPT ![r] = w]
  /\ UNCHANGED <<label, record, pc, work, faults>>

-----------------------------------------------------------------------------
\* Create

\* The version is numbered by count when its answer arrives; the request token
\* makes a call the SDK sends again a single one.
Put(r) ==
  /\ pc[r] = "put" /\ count < MaxVersions
  /\ count' = count + 1
  /\ stages' = Attach(stages, PutStages(r), count + 1)
  /\ \/ /\ Goto(r, "readable")
        /\ holder' = [holder EXCEPT ![r] = count + 1]
        /\ UNCHANGED <<add, remove, added, faults>>
     \/ Faulty /\ Fail(r)
  /\ UNCHANGED bounds

\* waitReadable, which polls until the new version can be read.
Readable(r) ==
  /\ pc[r] = "readable"
  /\ Succeed(r, "created", holder[r])
  /\ UNCHANGED <<label, bounds, faults>>

-----------------------------------------------------------------------------
\* Update

\* reconcileStages: the version's labels are read once.
ReadEntry(r) ==
  /\ pc[r] = "entry"
  /\ LET have == stages[recorded[r]] IN
       /\ add' = [add EXCEPT ![r] = ToAdd(have, Desired(r))]
       /\ remove' = [remove EXCEPT ![r] = ToRemove(have, Desired(r))]
       /\ added' = [added EXCEPT ![r] = currentStage \in add'[r]]
  /\ Goto(r, "add")
  /\ UNCHANGED <<label, bounds, holder, faults>>

\* The labels a plain move may add next.
Addable(r) ==
  IF currentStage \in add[r] THEN add[r] \ {currentStage, previousStage} ELSE add[r]

\* The labels to add come sorted, so AWSCURRENT before AWSPREVIOUS; where a
\* label of the user's sorts is left open.  AWSCURRENT needs the version it
\* leaves.
NextAdd(r) ==
  /\ pc[r] = "add"
  /\ \/ add[r] = {} /\ Goto(r, "remove")
     \/ currentStage \in add[r] /\ Goto(r, "lookup")
     \/ Addable(r) # {} /\ Goto(r, "move")
  /\ UNCHANGED <<label, bounds, work, faults>>

\* findVersionWithStage
LookUp(r) ==
  /\ pc[r] = "lookup"
  /\ holder' = [holder EXCEPT ![r] = HolderOf(currentStage, stages)]
  /\ Goto(r, "promote")
  /\ UNCHANGED <<label, bounds, add, remove, added, faults>>

LeavesWhateverHolds(r, l) == HolderOf(l, stages)

LeavesNone(r, l) == None

\* The version a move says the label leaves: only AWSCURRENT's names one.
LeavesFrom(r, l) == IF l = currentStage THEN holder[r] ELSE None

\* UpdateSecretVersionStage with MoveToVersionId.
Move(r) ==
  /\ pc[r] \in {"move", "promote"}
  /\ \E l \in IF pc[r] = "promote" THEN {currentStage} ELSE Addable(r) :
       /\ IF HolderOf(l, stages) \in {None, recorded[r], LeavesFrom(r, l)}
          THEN /\ stages' = Attach(stages, {l}, recorded[r])
               /\ \/ /\ add' = [add EXCEPT ![r] = @ \ {l}]
                     /\ Goto(r, "add")
                     /\ UNCHANGED <<remove, added, holder, faults>>
                  \/ Faulty /\ Fail(r)
          ELSE Fail(r) /\ UNCHANGED <<stages, faults>>
  /\ UNCHANGED <<count, bounds>>

RemoveAll(r) == remove[r]

\* Update never takes AWSCURRENT away, nor the AWSPREVIOUS that its own
\* promotion has just moved.
Removable(r) ==
  remove[r] \ ({currentStage} \union IF added[r] THEN {previousStage} ELSE {})

\* One UpdateSecretVersionStage with RemoveFromVersionId; a label that is no
\* longer there is an error.
TakeOff(r, todo, done) ==
  IF todo = {} THEN Goto(r, done) /\ UNCHANGED <<stages, work, faults>>
  ELSE \E l \in todo :
    IF l \in stages[recorded[r]]
    THEN /\ stages' = [stages EXCEPT ![recorded[r]] = @ \ {l}]
         /\ \/ /\ remove' = [remove EXCEPT ![r] = @ \ {l}]
               /\ UNCHANGED <<pc, record, add, added, holder, faults>>
            \/ Faulty /\ Fail(r)
    ELSE Fail(r) /\ UNCHANGED <<stages, faults>>

Remove(r) ==
  /\ pc[r] = "remove"
  /\ TakeOff(r, Removable(r), "read")
  /\ UNCHANGED <<count, bounds>>

\* readByID after the changes.
Read(r) ==
  /\ pc[r] = "read"
  /\ Succeed(r, "updated", recorded[r])
  /\ UNCHANGED <<label, bounds, faults>>

-----------------------------------------------------------------------------
\* Delete

CurrentIsNotDeleted(r) ==
  /\ pc[r] = "delete_entry"
  /\ remove' = [remove EXCEPT ![r] =
       IF currentStage \in stages[recorded[r]] THEN {} ELSE stages[recorded[r]]]
  /\ IF currentStage \in stages[recorded[r]]
     THEN /\ pc' = [pc EXCEPT ![r] = "idle"]
          /\ last' = [last EXCEPT ![r] = "deleted"]
          /\ recorded' = [recorded EXCEPT ![r] = None]
          /\ UNCHANGED inputs
     ELSE Goto(r, "detach")
  /\ UNCHANGED <<label, bounds, add, added, holder, faults>>

\* Every label but AWSCURRENT is to go.
ReadDeleteEntry(r) ==
  /\ pc[r] = "delete_entry"
  /\ remove' = [remove EXCEPT ![r] = stages[recorded[r]] \ {currentStage}]
  /\ Goto(r, "detach")
  /\ UNCHANGED <<label, bounds, add, added, holder, faults>>

Detach(r) ==
  /\ pc[r] = "detach"
  /\ TakeOff(r, remove[r], "detached")
  /\ UNCHANGED <<count, bounds>>

\* secretVersionDeleteComplete
DeleteComplete(have) == have \in {{}, {currentStage}, {previousStage}}

\* waitDetached times out if labels stay.
Detached(r) ==
  /\ pc[r] = "detached"
  /\ IF DeleteComplete(stages[recorded[r]]) THEN Succeed(r, "deleted", None)
     ELSE Fail(r)
  /\ UNCHANGED <<label, bounds, faults>>

\* Secrets Manager drops a version that has lost its labels; a listing or a
\* removal that does not find it ends the delete, done.
VersionGone(r) ==
  /\ pc[r] \in {"delete_entry", "detach"}
  /\ stages[recorded[r]] = {}
  /\ Succeed(r, "deleted", None)
  /\ UNCHANGED <<label, bounds, faults>>

\* A call that fails with no effect.
CallFails(r) ==
  /\ pc[r] # "idle"
  /\ Faulty
  /\ Fail(r)
  /\ UNCHANGED <<label, bounds>>

Call(r) ==
  \/ Put(r) \/ Readable(r)
  \/ ReadEntry(r) \/ NextAdd(r) \/ LookUp(r) \/ Move(r) \/ Remove(r) \/ Read(r)
  \/ ReadDeleteEntry(r) \/ Detach(r) \/ Detached(r) \/ VersionGone(r)

Next == \E r \in Resources : Start(r) \/ NewGoal(r) \/ Call(r) \/ CallFails(r)

\* Operations go on, and whatever is not settled is applied again.
Fairness == \A r \in Resources : WF_vars(Start(r)) /\ WF_vars(Call(r))

Spec == Init /\ [][Next]_vars /\ Fairness

-----------------------------------------------------------------------------

\* Once the secret has a current version it always has one: no order of
\* promotions, updates and deletes takes AWSCURRENT off without putting it on
\* another version (secret_version_rsrc.go, reconcileStages and Delete).
CurrentNeverLost ==
  [][HolderOf(currentStage, stages) # None
       => HolderOf(currentStage, stages') # None]_vars

\* An Update demotes only the version it looked up: a promotion that lost the
\* race to another fails, and does not undo it (secret_version_rsrc.go,
\* addStage).
PromotionSeen ==
  [][\A r \in Resources :
       /\ pc[r] = "promote" /\ HolderOf(currentStage, stages) # recorded[r]
       /\ HolderOf(currentStage, stages') = recorded[r]
       => HolderOf(currentStage, stages) = holder[r]]_vars

\* A deleted version keeps no label of the user's, so that another version can
\* take each of them with a plain move (secret_version_rsrc.go, Delete).
DeletedIsBare ==
  [][\A r \in Resources :
       last'[r] = "deleted" /\ last[r] # "deleted" =>
         stages'[recorded[r]] \cap Custom = {}]_vars

\* Configurations that do not contend for a label: no two resources want the
\* same one, and one without stages of its own, which takes AWSCURRENT when
\* it is put, is alone.
Compatible ==
  \A r, s \in Resources :
    r # s => PutStages(r) \cap PutStages(s) = {} \/ Absent \in {wish[r], wish[s]}

\* A label no plain move can take: it is on a version nobody recorded, after a
\* Put whose answer was lost, or whose configuration no longer gives stages.
Stranded ==
  \E v \in Versions :
    /\ stages[v] \cap Custom # {}
    /\ \A r \in Resources : recorded[r] = v => wish[r] = Unset

\* Whatever order the goroutines run in and whichever calls fail halfway,
\* applying again ends with every label where a compatible configuration
\* wants it, unless it is stranded (secret_version_rsrc.go, reconcileStages).
Converges ==
  (<>[]Compatible) => <>[](Stranded \/ \A r \in Resources : Settled(r))
=============================================================================
