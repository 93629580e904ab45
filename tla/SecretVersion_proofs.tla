------------------------- MODULE SecretVersion_proofs -------------------------
(***************************************************************************)
(* Theorems about SecretVersion, for any number of resources and versions  *)
(* and any labels.  A resource owns the version it recorded or has just    *)
(* put, no two own the same, and no label is on two versions: what a       *)
(* promotion looked up can then only be stale in one way.                  *)
(***************************************************************************)
EXTENDS SecretVersion, TLAPS

\* Inside Update or Delete.
Acting == {"entry", "add", "lookup", "move", "promote", "remove", "read",
           "delete_entry", "detach", "detached"}

Deleting == {"idle", "delete_entry", "detach", "detached"}

\* What the local variables of an operation hold where it uses them.
PlaceOK ==
  \A r \in Resources :
    /\ pc[r] \in Acting => recorded[r] # None
    /\ pc[r] \in {"put", "readable"} => recorded[r] = None
    /\ pc[r] = "readable" => holder[r] # None
    /\ pc[r] = "detach" => currentStage \notin remove[r]
    /\ wish[r] = Absent => pc[r] \in Deleting

\* The version that is a resource's own.
Own(r) == IF pc[r] = "readable" THEN holder[r] ELSE recorded[r]

OwnOK ==
  /\ \A r \in Resources : Own(r) <= count
  /\ \A r, s \in Resources : r # s => Own(r) = None \/ Own(r) # Own(s)

\* A label is on one version at most.
OneHolder(s) ==
  \A l \in Labels, v, w \in Versions : l \in s[v] /\ l \in s[w] => v = w

\* AWSCURRENT may have moved since it was looked up, but is not gone.
SeenOK ==
  \A r \in Resources :
    pc[r] = "promote" /\ holder[r] # None => HolderOf(currentStage, stages) # None

IInv == TypeOK /\ PlaceOK /\ OwnOK /\ OneHolder(stages) /\ SeenOK

Step(r) == Start(r) \/ NewGoal(r) \/ Call(r) \/ CallFails(r)

-----------------------------------------------------------------------------
\* Labels and their holders.

LEMMA StageTypes ==
  ASSUME TypeOK, NEW r \in Resources
  PROVE  Desired(r) \subseteq Labels /\ PutStages(r) \subseteq Labels
<1>1. Desired(r) \subseteq Labels
  BY SecretAssumption DEF TypeOK, Desired
<1> QED
  BY <1>1 DEF PutStages, Labels

LEMMA AttachTypes ==
  ASSUME NEW s \in [Versions -> SUBSET Labels], NEW ls \in SUBSET Labels, NEW v
  PROVE  Attach(s, ls, v) \in [Versions -> SUBSET Labels]
  BY DEF Attach, Labels

LEMMA HolderTypes ==
  ASSUME NEW l, NEW s
  PROVE  /\ HolderOf(l, s) \in 0..MaxVersions
         /\ HolderOf(l, s) # None =>
              HolderOf(l, s) \in Versions /\ l \in s[HolderOf(l, s)]
         /\ HolderOf(l, s) = None <=> \A v \in Versions : l \notin s[v]
<1>1. CASE \E v \in Versions : l \in s[v]
  <2>1. HolderOf(l, s) \in Versions /\ l \in s[HolderOf(l, s)]
    BY <1>1 DEF HolderOf
  <2> QED
    BY <2>1, SecretAssumption DEF Versions, None
<1>2. CASE ~\E v \in Versions : l \in s[v]
  BY <1>2, SecretAssumption DEF HolderOf, None
<1> QED
  BY <1>1, <1>2

LEMMA HolderIs ==
  ASSUME NEW s, OneHolder(s), NEW l \in Labels, NEW v \in Versions, l \in s[v]
  PROVE  HolderOf(l, s) = v
<1>1. HolderOf(l, s) \in Versions /\ l \in s[HolderOf(l, s)]
  BY HolderTypes
<1> QED
  BY <1>1 DEF OneHolder

\* Where the label is on the same versions, the holder is the same.
LEMMA SameHolder ==
  ASSUME NEW s, NEW t, OneHolder(s), OneHolder(t), NEW l \in Labels,
         \A v \in Versions : l \in t[v] <=> l \in s[v]
  PROVE  HolderOf(l, t) = HolderOf(l, s)
<1>1. CASE HolderOf(l, s) = None
  BY <1>1, HolderTypes
<1>2. CASE HolderOf(l, s) # None
  BY <1>2, HolderTypes, HolderIs
<1> QED
  BY <1>1, <1>2

LEMMA AttachOneHolder ==
  ASSUME NEW s \in [Versions -> SUBSET Labels], OneHolder(s),
         NEW ls \in SUBSET Labels, NEW v \in Versions
  PROVE  OneHolder(Attach(s, ls, v))
<1> DEFINE moved == [w \in Versions |-> IF w = v THEN s[w] \union ls ELSE s[w] \ ls]
           old == HolderOf(currentStage, s)
           demoted == [w \in Versions |-> IF w = old THEN moved[w] \union {previousStage}
                                          ELSE moved[w] \ {previousStage}]
<1>1. OneHolder(moved)
  BY DEF OneHolder
<1>2. OneHolder(demoted)
  BY <1>1 DEF OneHolder
<1>3. Attach(s, ls, v) = moved \/ Attach(s, ls, v) = demoted
  BY DEF Attach
<1> QED
  BY <1>1, <1>2, <1>3

\* AWSCURRENT goes where it is attached, and nowhere when it is not.
LEMMA AttachCurrent ==
  ASSUME NEW s \in [Versions -> SUBSET Labels], NEW ls \in SUBSET Labels,
         NEW v \in Versions
  PROVE  /\ currentStage \in ls => currentStage \in Attach(s, ls, v)[v]
         /\ currentStage \notin ls =>
              \A w \in Versions :
                currentStage \in Attach(s, ls, v)[w] <=> currentStage \in s[w]
  BY DEF Attach, currentStage, previousStage

-----------------------------------------------------------------------------
\* Types.

LEMMA TypeInit == Init => TypeOK
  BY SecretAssumption DEF Init, TypeOK, Labels, Locations, None

LEMMA FaultyTypes ==
  ASSUME TypeOK, Faulty \/ UNCHANGED faults
  PROVE  faults' \in 0..MaxFaults
  BY SecretAssumption DEF TypeOK, Faulty

WorkOK ==
  /\ add \in [Resources -> SUBSET Labels] /\ remove \in [Resources -> SUBSET Labels]
  /\ added \in [Resources -> BOOLEAN] /\ holder \in [Resources -> 0..MaxVersions]

RecordOK ==
  /\ recorded \in [Resources -> 0..MaxVersions]
  /\ inputs \in [Resources -> Wishes \union {Unset}]
  /\ last \in [Resources -> {"none", "failed", "created", "updated", "deleted"}]

ControlOK == pc \in [Resources -> Locations] /\ RecordOK

LEMMA GotoTypes ==
  ASSUME TypeOK, NEW r \in Resources, NEW l \in Locations, Goto(r, l)
  PROVE  ControlOK'
  BY DEF TypeOK, Goto, record, ControlOK, RecordOK

LEMMA ReturnTypes ==
  ASSUME TypeOK, NEW r \in Resources,
         NEW o \in {"failed", "created", "updated", "deleted"}, Return(r, o)
  PROVE  /\ WorkOK' /\ pc' \in [Resources -> Locations]
         /\ last' \in [Resources -> {"none", "failed", "created", "updated", "deleted"}]
<1>1. WorkOK'
  BY SecretAssumption DEF TypeOK, Return, WorkOK, None
<1>2. pc' \in [Resources -> Locations]
  BY DEF TypeOK, Return, Locations
<1> QED
  BY <1>1, <1>2 DEF TypeOK, Return

LEMMA FailTypes ==
  ASSUME TypeOK, NEW r \in Resources, Fail(r)
  PROVE  WorkOK' /\ ControlOK'
  BY ReturnTypes DEF TypeOK, Fail, ControlOK, RecordOK

LEMMA SucceedTypes ==
  ASSUME TypeOK, NEW r \in Resources, NEW o \in {"created", "updated", "deleted"},
         NEW v \in 0..MaxVersions, Succeed(r, o, v), wish[r] # Absent \/ v = None
  PROVE  WorkOK' /\ ControlOK'
  BY ReturnTypes DEF TypeOK, Succeed, ControlOK, RecordOK

LEMMA TypeStep ==
  ASSUME TypeOK, PlaceOK, NEW r \in Resources, Step(r)
  PROVE  TypeOK'
<1> DEFINE BoundsOK == /\ wish \in [Resources -> Wishes \union {Unset, Absent}]
                       /\ goals \in 0..MaxGoals
           LabelOK == stages \in [Versions -> SUBSET Labels] /\ count \in 0..MaxVersions
           FaultsOK == faults \in 0..MaxFaults
<1> SUFFICES ControlOK' /\ WorkOK' /\ BoundsOK' /\ LabelOK' /\ FaultsOK'
  BY DEF TypeOK, ControlOK, RecordOK, WorkOK
<1>t. ControlOK /\ WorkOK /\ BoundsOK /\ LabelOK /\ FaultsOK
  BY DEF TypeOK, ControlOK, RecordOK, WorkOK
<1>l. recorded[r] # None => recorded[r] \in Versions
  BY DEF TypeOK, Versions, None
<1>p. /\ pc[r] \in Acting => recorded[r] # None
      /\ pc[r] \in {"put", "readable"} => wish[r] # Absent
      /\ pc[r] \in Acting \ Deleting => wish[r] # Absent
  BY DEF PlaceOK, Deleting
<1> USE DEF label, bounds, record, work
<1>1. CASE Start(r)
  <2>1. ControlOK'
    BY <1>1, GotoTypes DEF Start, Locations
  <2> QED
    BY <1>1, <1>t, <2>1 DEF Start, WorkOK
<1>2. CASE NewGoal(r)
  <2>1. goals' \in 0..MaxGoals
    BY <1>2, <1>t, SecretAssumption DEF NewGoal
  <2> QED
    BY <1>2, <1>t, <2>1 DEF NewGoal, WorkOK, ControlOK, RecordOK
<1>3. CASE CallFails(r)
  BY <1>3, <1>t, FailTypes, FaultyTypes DEF CallFails
<1>4. CASE Put(r)
  <2>1. count + 1 \in Versions /\ count' \in 0..MaxVersions
    BY <1>4, <1>t, SecretAssumption DEF Put, Versions
  <2>2. stages' \in [Versions -> SUBSET Labels]
    BY <1>4, <1>t, AttachTypes, StageTypes DEF Put
  <2>3. ControlOK' /\ WorkOK' /\ FaultsOK'
    <3>1. CASE Goto(r, "readable") /\ holder' = [holder EXCEPT ![r] = count + 1]
               /\ UNCHANGED <<add, remove, added, faults>>
      <4>1. ControlOK'
        BY <3>1, GotoTypes DEF Locations
      <4>2. WorkOK'
        BY <3>1, <1>t, <2>1 DEF WorkOK, Versions
      <4> QED
        BY <3>1, <1>t, <4>1, <4>2
    <3>2. CASE Faulty /\ Fail(r)
      BY <3>2, FailTypes, FaultyTypes
    <3> QED
      BY <1>4, <3>1, <3>2 DEF Put
  <2> QED
    BY <1>4, <1>t, <2>1, <2>2, <2>3 DEF Put
<1>5. CASE Readable(r)
  <2>1. holder[r] \in 0..MaxVersions
    BY <1>t DEF WorkOK
  <2>2. ControlOK' /\ WorkOK'
    BY <1>5, <1>p, <2>1, SucceedTypes DEF Readable
  <2> QED
    BY <1>5, <1>t, <2>2 DEF Readable
<1>6. CASE ReadEntry(r)
  <2>1. ControlOK'
    BY <1>6, GotoTypes DEF ReadEntry, Locations
  <2>2. stages[recorded[r]] \subseteq Labels
    BY <1>6, <1>t, <1>l, <1>p DEF ReadEntry, Acting
  <2>3. WorkOK'
    BY <1>6, <1>t, <2>2, StageTypes DEF ReadEntry, WorkOK, ToAdd, ToRemove
  <2> QED
    BY <1>6, <1>t, <2>1, <2>3 DEF ReadEntry
<1>7. CASE NextAdd(r)
  <2>1. ControlOK'
    BY <1>7, GotoTypes DEF NextAdd, Locations
  <2> QED
    BY <1>7, <1>t, <2>1 DEF NextAdd, WorkOK
<1>8. CASE LookUp(r)
  <2>1. ControlOK'
    BY <1>8, GotoTypes DEF LookUp, Locations
  <2>2. WorkOK'
    BY <1>8, <1>t, HolderTypes DEF LookUp, WorkOK
  <2> QED
    BY <1>8, <1>t, <2>1, <2>2 DEF LookUp
<1>9. CASE Move(r)
  <2>1. PICK l \in IF pc[r] = "promote" THEN {currentStage} ELSE Addable(r) :
          \/ /\ stages' = Attach(stages, {l}, recorded[r])
             /\ \/ /\ add' = [add EXCEPT ![r] = @ \ {l}]
                   /\ Goto(r, "add")
                   /\ UNCHANGED <<remove, added, holder, faults>>
                \/ Faulty /\ Fail(r)
          \/ Fail(r) /\ UNCHANGED <<stages, faults>>
    BY <1>9 DEF Move
  <2>2. {l} \in SUBSET Labels
    BY <1>t DEF Addable, Labels, WorkOK
  <2>3. stages' \in [Versions -> SUBSET Labels]
    BY <1>t, <2>1, <2>2, AttachTypes
  <2>4. CASE Goto(r, "add") /\ add' = [add EXCEPT ![r] = @ \ {l}]
             /\ UNCHANGED <<remove, added, holder, faults>>
    <3>1. ControlOK'
      BY <2>4, GotoTypes DEF Locations
    <3>2. WorkOK'
      BY <1>t, <2>4 DEF WorkOK
    <3> QED
      BY <1>9, <1>t, <2>3, <2>4, <3>1, <3>2 DEF Move
  <2>5. CASE Fail(r) /\ (Faulty \/ UNCHANGED faults)
    <3>1. ControlOK' /\ WorkOK' /\ FaultsOK'
      BY <2>5, FailTypes, FaultyTypes
    <3> QED
      BY <1>9, <1>t, <2>3, <3>1 DEF Move
  <2> QED
    BY <2>1, <2>4, <2>5
<1>10. CASE Remove(r) \/ Detach(r)
  <2>1. PICK todo \in SUBSET Labels, done \in Locations : TakeOff(r, todo, done)
    BY <1>10, <1>t DEF Remove, Detach, Removable, Locations, WorkOK
  <2>2. UNCHANGED <<count, bounds>>
    BY <1>10 DEF Remove, Detach
  <2>3. stages' \in [Versions -> SUBSET Labels]
    BY <1>t, <2>1 DEF TakeOff
  <2>4. CASE Goto(r, done) /\ UNCHANGED <<work, faults>>
    <3>1. ControlOK'
      BY <2>4, GotoTypes
    <3> QED
      BY <1>t, <2>2, <2>3, <2>4, <3>1 DEF WorkOK
  <2>5. CASE \E l \in todo : /\ remove' = [remove EXCEPT ![r] = @ \ {l}]
                             /\ UNCHANGED <<pc, record, add, added, holder, faults>>
    BY <1>t, <2>2, <2>3, <2>5 DEF WorkOK, ControlOK, RecordOK
  <2>6. CASE Fail(r) /\ (Faulty \/ UNCHANGED faults)
    <3>1. ControlOK' /\ WorkOK' /\ FaultsOK'
      BY <2>6, FailTypes, FaultyTypes
    <3> QED
      BY <1>t, <2>2, <2>3, <3>1
  <2> QED
    BY <2>1, <2>4, <2>5, <2>6 DEF TakeOff
<1>11. CASE Read(r)
  <2>1. recorded[r] \in 0..MaxVersions
    BY <1>t DEF ControlOK, RecordOK
  <2>2. ControlOK' /\ WorkOK'
    BY <1>11, <1>p, <2>1, SucceedTypes DEF Read, Acting, Deleting
  <2> QED
    BY <1>11, <1>t, <2>2 DEF Read
<1>12. CASE ReadDeleteEntry(r)
  <2>1. ControlOK'
    BY <1>12, GotoTypes DEF ReadDeleteEntry, Locations
  <2>2. stages[recorded[r]] \subseteq Labels
    BY <1>12, <1>t, <1>l, <1>p DEF ReadDeleteEntry, Acting
  <2>3. WorkOK'
    BY <1>12, <1>t, <2>2 DEF ReadDeleteEntry, WorkOK
  <2> QED
    BY <1>12, <1>t, <2>1, <2>3 DEF ReadDeleteEntry
<1>13. CASE Detached(r) \/ VersionGone(r)
  <2>1. None \in 0..MaxVersions
    BY SecretAssumption DEF None
  <2>2. ControlOK' /\ WorkOK'
    BY <1>13, <2>1, SucceedTypes, FailTypes DEF Detached, VersionGone
  <2> QED
    BY <1>13, <1>t, <2>2 DEF Detached, VersionGone
<1> QED
  BY <1>1, <1>2, <1>3, <1>4, <1>5, <1>6, <1>7, <1>8, <1>9, <1>10, <1>11, <1>12, <1>13
     DEF Step, Call

-----------------------------------------------------------------------------
\* What one resource's step changes.

\* A step leaves the other resources' own variables alone.
LEMMA Others ==
  ASSUME TypeOK, NEW r \in Resources, NEW s \in Resources, r # s, Step(r)
  PROVE  /\ pc'[s] = pc[s] /\ recorded'[s] = recorded[s] /\ holder'[s] = holder[s]
         /\ remove'[s] = remove[s] /\ wish'[s] = wish[s]
<1> USE DEF TypeOK, label, bounds, record, work, Goto, Return, Fail, Succeed
<1>1. CASE Start(r) \/ NewGoal(r) \/ CallFails(r)
  BY <1>1 DEF Start, NewGoal, CallFails
<1>2. CASE Put(r) \/ Readable(r) \/ ReadEntry(r)
  BY <1>2 DEF Put, Readable, ReadEntry
<1>3. CASE NextAdd(r) \/ LookUp(r)
  BY <1>3 DEF NextAdd, LookUp
<1>6. CASE Move(r)
  <2>1. \/ Fail(r) /\ UNCHANGED bounds
        \/ Goto(r, "add") /\ UNCHANGED <<remove, added, holder, bounds>>
    BY <1>6 DEF Move
  <2> QED
    BY <2>1
<1>4. CASE Remove(r) \/ Detach(r)
  BY <1>4 DEF Remove, Detach, TakeOff
<1>5. CASE Read(r) \/ ReadDeleteEntry(r) \/ Detached(r) \/ VersionGone(r)
  BY <1>5 DEF Read, ReadDeleteEntry, Detached, VersionGone
<1> QED
  BY <1>1, <1>2, <1>3, <1>4, <1>5, <1>6 DEF Step, Call

\* Its own place, afterwards.
LEMMA OwnPlace ==
  ASSUME TypeOK, PlaceOK, NEW r \in Resources, Step(r)
  PROVE  /\ pc'[r] \in Acting => recorded'[r] # None
         /\ pc'[r] \in {"put", "readable"} => recorded'[r] = None
         /\ pc'[r] = "readable" => holder'[r] # None
         /\ pc'[r] = "detach" => currentStage \notin remove'[r]
         /\ wish'[r] = Absent => pc'[r] \in Deleting
<1> USE DEF TypeOK, PlaceOK, Acting, Deleting, label, bounds, record, work, Goto, Return
<1>1. CASE Start(r) \/ NewGoal(r) \/ CallFails(r)
  BY <1>1 DEF Start, NewGoal, CallFails, Settled, Fail
<1>2. CASE Put(r)
  BY <1>2, SecretAssumption DEF Put, Fail, None
<1>3. CASE Readable(r) \/ ReadEntry(r) \/ NextAdd(r) \/ LookUp(r)
  BY <1>3 DEF Readable, ReadEntry, NextAdd, LookUp, Succeed
<1>4. CASE Move(r)
  BY <1>4 DEF Move, Fail
<1>5. CASE Remove(r) \/ Detach(r)
  BY <1>5 DEF Remove, Detach, TakeOff, Fail
<1>6. CASE Read(r) \/ ReadDeleteEntry(r) \/ Detached(r) \/ VersionGone(r)
  BY <1>6 DEF Read, ReadDeleteEntry, Detached, VersionGone, Succeed, Fail
<1> QED
  BY <1>1, <1>2, <1>3, <1>4, <1>5, <1>6 DEF Step, Call

LEMMA PlaceStep ==
  ASSUME TypeOK, PlaceOK, NEW r \in Resources, Step(r)
  PROVE  PlaceOK'
  BY Others, OwnPlace DEF PlaceOK

\* A resource's own version stays, is forgotten, or is the one just put.
LEMMA OwnStep ==
  ASSUME TypeOK, PlaceOK, OwnOK, NEW r \in Resources, Step(r)
  PROVE  /\ count' \in Nat /\ count <= count'
         /\ Own(r)' \in {Own(r), None} \/ (Own(r)' = count' /\ count' = count + 1)
<1> USE DEF label, bounds, record, work
<1>t. count \in Nat
  BY SecretAssumption DEF TypeOK
<1>0. CASE Put(r)
  <2>1. count' = count + 1 /\ recorded[r] = None
    BY <1>0 DEF Put, PlaceOK
  <2>2. Own(r)' \in {None, count + 1}
    BY <1>0, <2>1 DEF Put, Fail, Return, Goto, Own, TypeOK
  <2> QED
    BY <1>t, <2>1, <2>2
<1> USE DEF Own, TypeOK
<1>1. CASE Start(r) \/ NewGoal(r)
  BY <1>1, <1>t DEF Start, NewGoal, Goto
<1>2. CASE UNCHANGED count /\ Fail(r)
  BY <1>2, <1>t DEF Fail, Return, PlaceOK
<1>3. CASE Readable(r) \/ Read(r)
  BY <1>3, <1>t DEF Readable, Read, Succeed, Return
<1>4. CASE ReadEntry(r) \/ NextAdd(r) \/ LookUp(r) \/ ReadDeleteEntry(r)
  BY <1>4, <1>t DEF ReadEntry, NextAdd, LookUp, ReadDeleteEntry, Goto
<1>5. CASE Move(r)
  <2>1. UNCHANGED count
        /\ (Fail(r) \/ (Goto(r, "add") /\ UNCHANGED holder /\ pc[r] # "readable"))
    BY <1>5 DEF Move
  <2> QED
    BY <1>2, <1>t, <2>1 DEF Goto
<1>6. CASE Remove(r) \/ Detach(r)
  <2>1. /\ UNCHANGED count
        /\ pc[r] # "readable"
        /\ \/ Fail(r)
           \/ Goto(r, "read") \/ Goto(r, "detached")
           \/ UNCHANGED <<pc, recorded>>
    BY <1>6 DEF Remove, Detach, TakeOff
  <2> QED
    BY <1>2, <1>t, <2>1 DEF Goto
<1>7. CASE Detached(r) \/ VersionGone(r)
  <2>1. UNCHANGED count /\ (Fail(r) \/ Succeed(r, "deleted", None))
    BY <1>7 DEF Detached, VersionGone
  <2> QED
    BY <1>2, <1>t, <2>1 DEF Succeed, Return
<1>8. CASE CallFails(r)
  BY <1>2, <1>8 DEF CallFails
<1> QED
  BY <1>0, <1>1, <1>3, <1>4, <1>5, <1>6, <1>7, <1>8 DEF Step, Call

LEMMA OwnNext ==
  ASSUME TypeOK, PlaceOK, OwnOK, NEW r \in Resources, Step(r)
  PROVE  OwnOK'
<1>1. \A s \in Resources : Own(s) \in Nat /\ Own(s) <= count
  BY SecretAssumption DEF OwnOK, Own, TypeOK
<1>2. \A s \in Resources : s # r => Own(s)' = Own(s)
  BY Others DEF Own
<1>3. count \in Nat /\ count' \in Nat /\ count <= count'
  BY OwnStep, SecretAssumption DEF TypeOK
<1>4. Own(r)' \in {Own(r), None} \/ (Own(r)' = count' /\ count' = count + 1)
  BY OwnStep
<1>5. \A s \in Resources : Own(s)' <= count'
  BY <1>1, <1>2, <1>3, <1>4 DEF None
<1>6. ASSUME NEW s \in Resources, s # r
      PROVE  (Own(s)' = None \/ Own(s)' # Own(r)') /\ (Own(r)' = None \/ Own(r)' # Own(s)')
  <2>1. Own(s) = None \/ Own(s) # Own(r)
    BY <1>6 DEF OwnOK
  <2>2. Own(r) = None \/ Own(r) # Own(s)
    BY <1>6 DEF OwnOK
  <2> QED
    BY <1>1, <1>2, <1>3, <1>4, <1>6, <2>1, <2>2
<1>7. ASSUME NEW s \in Resources, NEW q \in Resources, s # r, q # r, s # q
      PROVE  Own(s)' = None \/ Own(s)' # Own(q)'
  BY <1>2, <1>7 DEF OwnOK
<1> QED
  BY <1>5, <1>6, <1>7 DEF OwnOK

\* The three things a step does to the labels: nothing, put some on the new
\* version or on the resource's own, or take one off that is not AWSCURRENT.
Attaches(r) ==
  \E ls \in SUBSET Labels, v \in Versions :
    /\ stages' = Attach(stages, ls, v)
    /\ \/ v = count + 1
       \/ /\ v = recorded[r]
          /\ currentStage \in ls =>
               /\ pc[r] = "promote"
               /\ HolderOf(currentStage, stages) \in {None, v, holder[r]}

TakesOff(r) ==
  \E l \in Labels \ {currentStage} :
    stages' = [stages EXCEPT ![recorded[r]] = @ \ {l}]

LEMMA StagesStep ==
  ASSUME TypeOK, PlaceOK, NEW r \in Resources, Step(r)
  PROVE  UNCHANGED stages \/ Attaches(r) \/ TakesOff(r)
<1>l. recorded[r] # None => recorded[r] \in Versions
  BY DEF TypeOK, Versions, None
<1>1. CASE Put(r)
  <2>1. count + 1 \in Versions
    BY <1>1, SecretAssumption DEF Put, Versions, TypeOK
  <2> QED
    BY <1>1, <2>1, StageTypes DEF Put, Attaches
<1>2. CASE Move(r)
  <2>1. recorded[r] \in Versions
    BY <1>2, <1>l DEF Move, PlaceOK, Acting
  <2>2. PICK l \in IF pc[r] = "promote" THEN {currentStage} ELSE Addable(r) :
          \/ UNCHANGED stages
          \/ /\ HolderOf(l, stages) \in {None, recorded[r], LeavesFrom(r, l)}
             /\ stages' = Attach(stages, {l}, recorded[r])
    BY <1>2 DEF Move
  <2>3. {l} \in SUBSET Labels
    BY DEF TypeOK, Addable, Labels
  <2>4. CASE l = currentStage
    <3>1. pc[r] = "promote"
      BY <1>2, <2>4 DEF Move, Addable
    <3> QED
      BY <2>1, <2>2, <2>3, <2>4, <3>1 DEF Attaches, LeavesFrom
  <2>5. CASE l # currentStage
    BY <2>1, <2>2, <2>3, <2>5 DEF Attaches
  <2> QED
    BY <2>4, <2>5
<1>3. CASE Remove(r) \/ Detach(r)
  <2>1. PICK todo \in SUBSET (Labels \ {currentStage}), done \in Locations :
            TakeOff(r, todo, done)
    BY <1>3 DEF Remove, Detach, Removable, PlaceOK, TypeOK, Locations
  <2> QED
    BY <2>1 DEF TakeOff, TakesOff
<1>4. CASE Start(r) \/ NewGoal(r) \/ CallFails(r) \/ Readable(r) \/ ReadEntry(r)
  BY <1>4 DEF Start, NewGoal, CallFails, Readable, ReadEntry, label
<1>5. CASE \/ NextAdd(r) \/ LookUp(r) \/ Read(r)
           \/ ReadDeleteEntry(r) \/ Detached(r) \/ VersionGone(r)
  BY <1>5 DEF NextAdd, LookUp, Read, ReadDeleteEntry, Detached, VersionGone, label
<1> QED
  BY <1>1, <1>2, <1>3, <1>4, <1>5 DEF Step, Call

LEMMA OneHolderStep ==
  ASSUME TypeOK, PlaceOK, OneHolder(stages), NEW r \in Resources, Step(r)
  PROVE  OneHolder(stages')
<1>1. CASE Attaches(r)
  BY <1>1, AttachOneHolder DEF Attaches, TypeOK
<1>2. CASE TakesOff(r)
  BY <1>2 DEF TakesOff, OneHolder, TypeOK
<1> QED
  BY <1>1, <1>2, StagesStep

\* AWSCURRENT changes hands only where it is attached.
LEMMA CurrentStep ==
  ASSUME TypeOK, PlaceOK, OneHolder(stages), NEW r \in Resources, Step(r)
  PROVE  \/ HolderOf(currentStage, stages') = HolderOf(currentStage, stages)
         \/ HolderOf(currentStage, stages') = count + 1 /\ count + 1 \in Versions
         \/ /\ pc[r] = "promote"
            /\ HolderOf(currentStage, stages') = recorded[r]
            /\ recorded[r] \in Versions
            /\ HolderOf(currentStage, stages) \in {None, recorded[r], holder[r]}
<1>o. OneHolder(stages') /\ currentStage \in Labels
  BY OneHolderStep DEF Labels
<1>1. CASE Attaches(r)
  <2>1. PICK ls \in SUBSET Labels, v \in Versions :
          /\ stages' = Attach(stages, ls, v)
          /\ \/ v = count + 1
             \/ /\ v = recorded[r]
                /\ currentStage \in ls =>
                     /\ pc[r] = "promote"
                     /\ HolderOf(currentStage, stages) \in {None, v, holder[r]}
    BY <1>1 DEF Attaches
  <2>2. CASE currentStage \in ls
    <3>1. HolderOf(currentStage, stages') = v
      BY <1>o, <2>1, <2>2, AttachCurrent, HolderIs DEF TypeOK
    <3> QED
      BY <2>1, <2>2, <3>1
  <2>3. CASE currentStage \notin ls
    <3>1. \A w \in Versions : currentStage \in stages'[w] <=> currentStage \in stages[w]
      BY <2>1, <2>3, AttachCurrent DEF TypeOK
    <3> QED
      BY <1>o, <3>1, SameHolder
  <2> QED
    BY <2>2, <2>3
<1>2. CASE TakesOff(r)
  <2>1. \A w \in Versions : currentStage \in stages'[w] <=> currentStage \in stages[w]
    BY <1>2 DEF TakesOff, TypeOK
  <2> QED
    BY <1>o, <2>1, SameHolder
<1>3. CASE UNCHANGED stages
  BY <1>3
<1> QED
  BY <1>1, <1>2, <1>3, StagesStep

LEMMA CurrentKept ==
  ASSUME TypeOK, PlaceOK, OneHolder(stages), NEW r \in Resources, Step(r),
         HolderOf(currentStage, stages) # None
  PROVE  HolderOf(currentStage, stages') # None
<1>1. None \notin Versions
  BY DEF None, Versions
<1> QED
  BY <1>1, CurrentStep

LEMMA SeenStep ==
  ASSUME TypeOK, PlaceOK, OneHolder(stages), SeenOK, NEW r \in Resources, Step(r)
  PROVE  SeenOK'
<1> SUFFICES ASSUME NEW s \in Resources, pc'[s] = "promote", holder'[s] # None
             PROVE  HolderOf(currentStage, stages') # None
  BY DEF SeenOK
<1>1. CASE pc[s] = "promote" /\ holder[s] = holder'[s]
  BY <1>1, CurrentKept DEF SeenOK
<1>2. CASE s = r /\ LookUp(r)
  BY <1>2 DEF LookUp, label, TypeOK
<1>3. s = r => LookUp(r)
  <2> SUFFICES ASSUME s = r
               PROVE  LookUp(r)
    OBVIOUS
  <2> USE DEF TypeOK, record, Goto, Return, Fail, Succeed
  <2>1. ~Start(r) /\ ~NewGoal(r) /\ ~CallFails(r)
    BY DEF Start, NewGoal, CallFails
  <2>2. ~Put(r) /\ ~Readable(r) /\ ~ReadEntry(r)
    BY DEF Put, Readable, ReadEntry
  <2>3. ~NextAdd(r)
    BY DEF NextAdd
  <2>4. ~Move(r)
    <3>1. Move(r) => pc' = [pc EXCEPT ![r] = "add"] \/ pc' = [pc EXCEPT ![r] = "idle"]
      BY DEF Move
    <3> QED
      BY <3>1
  <2>5. ~Remove(r) /\ ~Detach(r)
    <3>1. Remove(r) \/ Detach(r) =>
            \/ pc[r] # "promote" /\ UNCHANGED pc
            \/ \E l \in {"idle", "read", "detached"} : pc' = [pc EXCEPT ![r] = l]
      BY DEF Remove, Detach, TakeOff
    <3> QED
      BY <3>1
  <2>6. ~Read(r) /\ ~ReadDeleteEntry(r) /\ ~Detached(r) /\ ~VersionGone(r)
    BY DEF Read, ReadDeleteEntry, Detached, VersionGone
  <2> QED
    BY <2>1, <2>2, <2>3, <2>4, <2>5, <2>6 DEF Step, Call
<1> QED
  BY <1>1, <1>2, <1>3, Others

-----------------------------------------------------------------------------
\* The theorems.

LEMMA Initially == Init => IInv
<1> SUFFICES ASSUME Init
             PROVE  IInv
  OBVIOUS
<1>1. PlaceOK
  BY DEF Init, PlaceOK, Acting, Deleting
<1>2. OwnOK
  BY DEF Init, OwnOK, Own, None
<1>3. OneHolder(stages) /\ SeenOK
  BY DEF Init, OneHolder, SeenOK
<1> QED
  BY <1>1, <1>2, <1>3, TypeInit DEF IInv

LEMMA Inductive == IInv /\ [Next]_vars => IInv'
<1> SUFFICES ASSUME IInv, [Next]_vars
             PROVE  IInv'
  OBVIOUS
<1>1. CASE Next
  <2>1. PICK r \in Resources : Step(r)
    BY <1>1 DEF Next, Step
  <2> QED
    BY <2>1, TypeStep, PlaceStep, OwnNext, OneHolderStep, SeenStep DEF IInv
<1>2. CASE UNCHANGED vars
  BY <1>2 DEF vars, label, bounds, record, work, IInv, TypeOK, PlaceOK, OwnOK, Own,
              OneHolder, SeenOK
<1> QED
  BY <1>1, <1>2

LEMMA Invariance == Spec => []IInv
  BY Initially, Inductive, PTL DEF Spec

\* Type correctness of every state that Create, Update and Delete of several
\* version resources reach, whichever calls fail halfway
\* (secret_version_rsrc.go).
THEOREM TypeCorrect == Spec => []TypeOK
<1>1. IInv => TypeOK
  BY DEF IInv
<1> QED
  BY <1>1, Invariance, PTL

\* A secret that has a current version keeps having one
\* (secret_version_rsrc.go, reconcileStages and Delete).
THEOREM CurrentIsKept == Spec => CurrentNeverLost
<1>1. IInv /\ [Next]_vars =>
        [HolderOf(currentStage, stages) # None
           => HolderOf(currentStage, stages') # None]_vars
  BY CurrentKept DEF Next, Step, IInv
<1> QED
  BY <1>1, Invariance, PTL DEF Spec, CurrentNeverLost

\* A promotion takes AWSCURRENT from the version the update looked up, never
\* from one that another promotion has made current since
\* (secret_version_rsrc.go, addStage).
THEOREM PromotionIsSeen == Spec => PromotionSeen
<1> DEFINE Seen == \A r \in Resources :
                     /\ pc[r] = "promote" /\ HolderOf(currentStage, stages) # recorded[r]
                     /\ HolderOf(currentStage, stages') = recorded[r]
                     => HolderOf(currentStage, stages) = holder[r]
<1>1. IInv /\ [Next]_vars => [Seen]_vars
  <2> SUFFICES ASSUME IInv, NEW q \in Resources, Step(q), NEW r \in Resources,
                      pc[r] = "promote", HolderOf(currentStage, stages) # recorded[r],
                      HolderOf(currentStage, stages') = recorded[r]
               PROVE  HolderOf(currentStage, stages) = holder[r]
    BY DEF Next, Step
  <2>1. recorded[r] # None /\ Own(r) = recorded[r] /\ Own(r) \in Nat /\ Own(r) <= count
    BY SecretAssumption DEF IInv, PlaceOK, Acting, OwnOK, Own, TypeOK
  <2>2. /\ pc[q] = "promote" /\ recorded[q] = recorded[r]
        /\ HolderOf(currentStage, stages) \in {None, recorded[q], holder[q]}
    BY <2>1, CurrentStep, SecretAssumption DEF IInv, TypeOK
  <2>3. q = r
    BY <2>1, <2>2 DEF IInv, OwnOK, Own
  <2> QED
    BY <2>2, <2>3 DEF IInv, SeenOK
<1> QED
  BY <1>1, Invariance, PTL DEF Spec, PromotionSeen

\* A delete succeeds only when none of the user's labels is left on the
\* version (secret_version_rsrc.go, Delete and secretVersionDeleteComplete).
THEOREM DeletedIsDetached == Spec => DeletedIsBare
<1> DEFINE Bare == \A r \in Resources :
                     last'[r] = "deleted" /\ last[r] # "deleted" =>
                       stages'[recorded[r]] \cap Custom = {}
<1>1. IInv /\ [Next]_vars => [Bare]_vars
  <2> SUFFICES ASSUME IInv, NEW q \in Resources, Step(q), NEW r \in Resources,
                      last'[r] = "deleted", last[r] # "deleted"
               PROVE  stages'[recorded[r]] \cap Custom = {}
    BY DEF Next, Step
  <2>1. (Detached(q) \/ VersionGone(q)) /\ q = r /\ ~Fail(q)
    <3> USE DEF IInv, TypeOK, record, Goto, Return, Fail, Succeed
    <3>1. ~Start(q) /\ ~NewGoal(q) /\ ~CallFails(q)
      BY DEF Start, NewGoal, CallFails
    <3>2. ~Put(q) /\ ~Readable(q) /\ ~ReadEntry(q)
      BY DEF Put, Readable, ReadEntry
    <3>3. ~NextAdd(q) /\ ~LookUp(q) /\ ~Read(q) /\ ~ReadDeleteEntry(q)
      BY DEF NextAdd, LookUp, Read, ReadDeleteEntry
    <3>4. ~Move(q)
      <4>1. Move(q) => last' = last \/ last' = [last EXCEPT ![q] = "failed"]
        BY DEF Move
      <4> QED
        BY <4>1
    <3>5. ~Remove(q) /\ ~Detach(q)
      <4>1. Remove(q) \/ Detach(q) => last' = last \/ last' = [last EXCEPT ![q] = "failed"]
        BY DEF Remove, Detach, TakeOff
      <4> QED
        BY <4>1
    <3>6. Detached(q) \/ VersionGone(q)
      BY <3>1, <3>2, <3>3, <3>4, <3>5 DEF Step, Call
    <3>7. q = r
      BY <3>6 DEF Detached, VersionGone
    <3> QED
      BY <3>6, <3>7
  <2>2. DeleteComplete(stages[recorded[r]]) /\ UNCHANGED stages
    BY <2>1 DEF Detached, VersionGone, DeleteComplete, label
  <2> QED
    BY <2>2, SecretAssumption DEF DeleteComplete
<1> QED
  BY <1>1, Invariance, PTL DEF Spec, DeletedIsBare
=============================================================================
