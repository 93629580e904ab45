--------------------------- MODULE Lifecycle_proofs ---------------------------
(***************************************************************************)
(* Theorems about Lifecycle, for any catalogue whose programs keep the     *)
(* rules, and any number of failures and changes of goal.  A program is    *)
(* used through the rules only: that a step which no guard can keep from   *)
(* being made is still to come until it is made, and what it leaves then.  *)
(***************************************************************************)
EXTENDS Lifecycle, WellFoundedInduction, TLAPS

LawfulOK == Lawful(res)

Present == thing.is # "absent"

\* What the operation knows of goal and record.
PlaceOK ==
  /\ op = "idle" => todo = {}
  /\ op # "idle" => todo \subseteq DOMAIN Program(op) /\ result = "none"
  /\ op \in {"create", "cleanup"} => recorded = None /\ goal # None
  /\ op = "update" => recorded # None /\ goal # None
  /\ op = "delete" => recorded # None /\ goal = None
  /\ op = "cleanup" => res.cleanup # << >>

Things ==
  [is : {"absent", "settled", "busy", "going"}, shows : BOOLEAN,
   version : {"recorded", "answered", "lost"},
   known : [res.inputs -> SUBSET {1, 2}], has : [res.inputs -> SUBSET {1, 2}]]

(* Of the steps left, j is made whatever the guards on AWS come to.         *)
Ahead(j) ==
  /\ j \in todo
  /\ \A s \in todo : s <= j /\ Program(op)[s].live # {} => s + Program(op)[s].span <= j

\* An await that is not passed while the object is busy.
Waits(s) == s.do = "await" /\ (s.by = "id" \/ s.absent # "fine")

\* Every call that starts a transition still has its wait behind it.
OrderOK ==
  op # "idle" =>
    \A i, k \in todo :
      i < k /\ StartsTransition(res, Program(op)[i]) /\ CanBeRefused(Program(op)[k])
      => \E j \in todo : i < j /\ j < k /\ Waits(Program(op)[j]) /\ Unskipped(Program(op), i, j)

\* A transition that began while the operation was calm has its wait to come.
GuardOK ==
  op # "idle" /\ calm /\ thing.is = "busy" =>
    \A k \in todo : CanBeRefused(Program(op)[k]) =>
      \E j \in todo : j < k /\ Waits(Program(op)[j]) /\ Ahead(j)

\* A step of Create that confirms is still to come until it found the object.
Looks ==
  op = "create" /\ res.lags => \A j \in DOMAIN res.create : Confirms(res, j) =>
    j \in todo \/ ((Present => thing.shows) /\ \A i \in todo : j < i)

\* What is recorded shows: Create looked for it after it was made.
ShowsOK ==
  /\ Present /\ ~thing.shows => res.lags
  /\ Present /\ recorded # None => thing.shows
  /\ Looks

\* The object has the recorded name, unless an update failed half-way, and
\* has the wanted one when Create or Update is through with it.
KeepsName ==
  recorded # None /\ ~torn /\ op \in {"idle", "delete"} =>
    thing.has[res.name] = recorded[res.name]

GetsName ==
  op = "create" => \A c \in DOMAIN res.create : MakesNamed(res, c) =>
    c \in todo \/ thing.has[res.name] = goal[res.name]

ChangesName ==
  op = "update" /\ ~torn =>
    \/ thing.has[res.name] = goal[res.name]
    \/ /\ thing.has[res.name] = recorded[res.name]
       /\ \A u \in DOMAIN res.update : Renames(res, u) => u \in todo

NameOK == res.name # "" /\ Present => KeepsName /\ GetsName /\ ChangesName

\* Only a deletion that takes its time leaves an object on its way out.
GoingOK == thing.is = "going" => DeletesSlowly(res)

\* What a Delete, or a cleanup, is allowed to leave.
Excused ==
  \/ op = "delete" /\ torn /\ res.name # ""
  \/ op = "delete" /\ \E f \in res.keeps : recorded[f] # {}
  \/ op = "cleanup" /\ res.lags

\* Otherwise, as long as there is an object, the step that sees the end of
\* it is still to come.
LastOK ==
  Present /\ op \in {"delete", "cleanup"} /\ ~Excused =>
    \E j \in todo : Program(op)[j].do = LastStep(res) /\ Ahead(j)

IInv == LawfulOK /\ TypeOK /\ PlaceOK /\ OrderOK /\ GuardOK /\ NeverTooEarly
        /\ ShowsOK /\ NameOK /\ GoingOK /\ LastOK

-----------------------------------------------------------------------------
\* What success rests on: the wanted inputs reach the object.

AppliesOK == Applies(res)

\* What was before, and what is wanted, of the inputs K.
Before(K) == [h \in K |-> Prior[h]]
Asked(K)  == [h \in K |-> Wanted[h]]

\* The object holds of f, as far as e is concerned, what is wanted.
Holding(f, e) == Right(thing.has[f], Wanted[f], e)

\* What the runtime knows: a goal that changed after a failure, an update that
\* has a reason, another object where an input may not change.
RuntimeOK ==
  /\ turned => torn
  /\ op = "update" => recorded # goal
  /\ recorded # None /\ goal # None => \A f \in res.inputs \cap res.replace : goal[f] = recorded[f]

\* Every guard of the steps left may hold, by any of the inputs.
MayOK ==
  op \in {"create", "update"} =>
    \A K \in SUBSET res.inputs, k \in todo : \A t \in Program(op)[k].when :
      Possible(res, t, Before(K), Asked(K))

\* Create makes the object, or has made it.
MadeOK ==
  /\ made => op = "create"
  /\ op = "create" /\ ~made => \E c \in todo : res.create[c].do = "create" /\ Ahead(c)

\* An update that is rejected does not get past the step that rejects it.
RejectOK ==
  op = "update" /\ Present =>
    \A K \in SUBSET res.inputs, i \in DOMAIN res.update :
      RejectsAt(res, i, Before(K), Asked(K)) => i \in todo

\* A step that settles an input is still to come, or has: what is left is not
\* tied to it, and does no harm.
UpdateOK ==
  op = "update" /\ Present =>
    \A K \in SUBSET res.inputs : \A f \in K, e \in {1, 2}, j \in DOMAIN res.update :
      Settles(res, res.update, j, f, Before(K), Asked(K), e) =>
        \/ j \in todo
        \/ Holding(f, e) /\ \A k \in todo : ~Tied(res, res.update, k, j, Before(K), Asked(K))

\* The same of two steps, of which one does.
EitherOK ==
  op = "update" /\ Present =>
    \A K \in SUBSET res.inputs : \A f \in K, e \in {1, 2}, i, j \in DOMAIN res.update :
      EitherSettles(res, res.update, i, j, f, Before(K), Asked(K), e) =>
        i \in todo \/ j \in todo \/ Holding(f, e)

\* What is recorded, and still wanted, stays, where no step of Update hurts it.
KeepOK ==
  op \in {"idle", "update"} /\ Present /\ ~turned /\ recorded # None /\ goal # None =>
    \A K \in SUBSET res.inputs : \A f \in K \ res.gaps, e \in {1, 2} :
      Owed(res, f, recorded[f], e) /\ Right(recorded[f], goal[f], e)
      /\ NoneHurts(res, res.update, f, Before(K), Asked(K), e)
      => Holding(f, e)

\* The same of a step of Create, after which no other object is made.
CreateOK ==
  op = "create" =>
    \A K \in SUBSET res.inputs : \A f \in K, e \in {1, 2}, j \in DOMAIN res.create :
      SettlesNew(res, j, f, Before(K), Asked(K), e) =>
        j \in todo \/ ((Present => Holding(f, e)) /\ \A k \in todo : j < k)

\* An input that the object is made with.
BornOK ==
  op = "create" /\ made /\ Present =>
    \A K \in SUBSET res.inputs : \A f \in K, e \in {1, 2} :
      MadeRight(res, f, Before(K), Asked(K), e) => Holding(f, e)

\* Between operations the object holds what is recorded, unless one failed
\* half-way, and what is wanted, if that is what is recorded.
Holdings(x) ==
  \A f \in res.inputs \ res.gaps, e \in {1, 2} :
    Owed(res, f, x[f], e) => Right(thing.has[f], x[f], e)

HeldOK    == op = "idle" /\ Present /\ ~torn /\ recorded # None => Holdings(recorded)
AppliedOK == op = "idle" /\ Present /\ ~turned /\ recorded = goal /\ goal # None => Holdings(goal)

Faithful == AppliesOK /\ RuntimeOK /\ MayOK /\ MadeOK /\ RejectOK /\ UpdateOK /\ EitherOK
            /\ KeepOK /\ CreateOK /\ BornOK /\ HeldOK /\ AppliedOK

-----------------------------------------------------------------------------
\* The first of the steps left.

LEMMA LeastStep ==
  ASSUME NEW S \in SUBSET Nat, S # {}
  PROVE  First(S) \in S /\ \A j \in S : First(S) <= j
<1> DEFINE R == OpToRel(<, Nat)
<1>1. IsWellFoundedOn(R, Nat)
  BY NatLessThanWellFounded
<1>2. \A i, j \in Nat : i < j => <<i, j>> \in R
  BY DEF OpToRel
<1> HIDE DEF R
<1>3. PICK i \in S : \A y \in S : <<y, i>> \notin R
  BY <1>1, WFMin
<1>4. ASSUME NEW j \in S
      PROVE  i <= j
  <2>1. i \in Nat /\ j \in Nat
    OBVIOUS
  <2>2. ~(j < i)
    BY <1>2, <1>3, <2>1
  <2> QED
    BY <2>1, <2>2
<1> QED
  BY <1>4 DEF First

-----------------------------------------------------------------------------
\* Guards.

Sets == [res.inputs -> SUBSET {1, 2}]

LEMMA GivenOrAbsent ==
  ASSUME NEW g, NEW a, g.test = "given", a.test = "absent", a.of = g.of,
         NEW wanted, NEW prior, NEW has
  PROVE  Passes(g, wanted, prior, has) <=> ~Passes(a, wanted, prior, has)
  BY DEF Passes, Holds

LEMMA NothingGiven ==
  ASSUME NEW g, g.test = "given", g.of = {}, NEW wanted, NEW prior, NEW has
  PROVE  ~Passes(g, wanted, prior, has)
  BY DEF Passes, Holds

LEMMA NoneOfThem ==
  ASSUME NEW F \in SUBSET res.inputs, NEW a, a.test = "absent", a.of \subseteq F,
         NEW wanted, NEW prior, NEW has, \A f \in F : wanted[f] = {}
  PROVE  Passes(a, wanted, prior, has)
  BY DEF Passes, Holds

LEMMA AnotherName ==
  ASSUME NEW t, t.test \in {"changed", "differs", "drifted"}, NEW f \in res.inputs,
         f \in t.of, NEW wanted, NEW prior, NEW has,
         wanted[f] # prior[f], has[f] = prior[f]
  PROVE  Passes(t, wanted, prior, has)
<1>1. CASE t.test = "changed"
  BY <1>1 DEF Passes, Holds
<1>2. CASE t.test = "differs"
  BY <1>2 DEF Passes, Holds
<1>3. CASE t.test = "drifted"
  BY <1>3 DEF Passes, Holds
<1> QED
  BY <1>1, <1>2, <1>3

LEMMA WrittenTypes ==
  ASSUME NEW how \in Ways, NEW old \in SUBSET {1, 2}, NEW prior \in SUBSET {1, 2},
         NEW wanted \in SUBSET {1, 2}, NEW known \in SUBSET {1, 2}
  PROVE  Written(how, old, prior, wanted, known) \in SUBSET {1, 2}
  BY DEF Written, Ways

-----------------------------------------------------------------------------
\* Types.

LEMMA InputTypes == Inputs \subseteq Sets
  BY DEF Inputs, Sets, Values

LEMMA NothingTypes == Unset \in Sets /\ Nothing \in Things
  BY DEF Unset, Sets, Nothing, Things

LEMMA WantedTypes ==
  ASSUME TypeOK, PlaceOK, op # "idle"
  PROVE  Wanted \in Inputs /\ Wanted \in Sets /\ Prior \in Sets
<1>1. op \in {"create", "update", "delete", "cleanup"}
  BY DEF TypeOK
<1>2. Wanted \in Inputs
  BY <1>1 DEF TypeOK, PlaceOK, Wanted
<1>3. Prior \in Sets
  BY InputTypes, NothingTypes DEF TypeOK, Prior
<1> QED
  BY <1>2, <1>3, InputTypes

\* The programs, and the step at hand.
LEMMA Programmed ==
  ASSUME LawfulOK, TypeOK, op # "idle"
  PROVE  Program(op) \in Programs(res) /\ DOMAIN Program(op) \subseteq Nat
<1>1. op \in {"create", "update", "delete", "cleanup"}
  BY DEF TypeOK
<1>2. Program(op) \in Programs(res)
  BY <1>1 DEF Program, Programs
<1> QED
  BY <1>2 DEF LawfulOK, Lawful, Spelled

LEMMA AtHand ==
  ASSUME LawfulOK, TypeOK, PlaceOK, Running
  PROVE  /\ op # "idle"
         /\ todo \subseteq DOMAIN Program(op) /\ todo \subseteq Nat
         /\ First(todo) \in todo /\ \A j \in todo : First(todo) <= j
         /\ First(todo) \in DOMAIN Program(op) /\ First(todo) \in Nat
  BY Programmed, LeastStep DEF Running, PlaceOK

LEMMA Numbered ==
  ASSUME LawfulOK, TypeOK, PlaceOK, Running
  PROVE  todo \subseteq DOMAIN Program(op) /\ \A s \in todo : 0 < s
<1>1. todo \subseteq DOMAIN Program(op) /\ Program(op) \in Programs(res)
  BY AtHand, Programmed
<1>2. DOMAIN Program(op) \subseteq Nat \ {0}
  BY <1>1 DEF LawfulOK, Lawful, Spelled
<1>3. ASSUME NEW s \in todo
      PROVE  0 < s
  <2>1. s \in Nat /\ s # 0
    BY <1>1, <1>2
  <2> QED
    BY <2>1
<1> QED
  BY <1>1, <1>3

\* What a step leaves of the variables that have nothing to do with it.
RestTyped == /\ goal' \in Inputs \cup {None} /\ recorded' \in Inputs \cup {None}
        /\ op' \in {"idle", "create", "update", "delete", "cleanup"}
        /\ result' \in {"none", "done", "failed", "refused", "undone"}
        /\ made' \in BOOLEAN /\ calm' \in BOOLEAN /\ torn' \in BOOLEAN /\ turned' \in BOOLEAN
        /\ goals' \in 0..MaxGoals

LEMMA ResStays == [Next]_vars => UNCHANGED res
<1> SUFFICES ASSUME [Next]_vars
             PROVE  UNCHANGED res
  OBVIOUS
<1> USE DEF chosenVars, Continue, Fail, Succeed, Answered
<1>0. \A how, now : Fail(how, now) => UNCHANGED res
  OBVIOUS
<1> HIDE DEF Fail
<1>1. CASE Write \/ CreateNew \/ CreateTwice \/ Remove
  BY <1>0, <1>1 DEF Write, CreateNew, CreateTwice, Remove
<1>5. CASE Missing
  BY <1>0, <1>5 DEF Missing
<1>2. CASE Refused \/ Satisfied \/ InVain \/ Rejects \/ Skip \/ Finish
  BY <1>0, <1>2 DEF Refused, Satisfied, InVain, Rejects, Skip, Finish
<1>3. CASE Begin \/ Drift \/ ChangeGoal \/ StepFails \/ Crash \/ Vanish \/ Settle \/ Show
  BY <1>0, <1>3 DEF Begin, Drift, ChangeGoal, StepFails, Crash, Vanish, Settle, Show
<1>4. CASE UNCHANGED vars
  BY <1>4 DEF vars
<1> QED
  BY <1>1, <1>2, <1>3, <1>4, <1>5 DEF Next, Work

LEMMA FaultTypes ==
  ASSUME TypeOK, Fault \/ UNCHANGED faults
  PROVE  faults' \in 0..MaxFaults
  BY BoundsAssumption DEF TypeOK, Fault

LEMMA ContinueTypes ==
  ASSUME TypeOK, NEW now, Continue(now), made' \in BOOLEAN
  PROVE  RestTyped /\ thing' = now /\ res' = res
  BY DEF TypeOK, Continue, RestTyped, chosenVars, runtimeVars

LEMMA FailTypes ==
  ASSUME TypeOK, NEW how \in {"failed", "refused"}, NEW now \in Things, Fail(how, now)
  PROVE  RestTyped /\ thing' \in Things /\ res' = res
<1>1. thing' \in Things
  BY DEF Fail, Unanswered, Things
<1>2. Unlike(now, recorded) \in BOOLEAN
  BY DEF Unlike
<1>3. /\ UNCHANGED <<res, goal, recorded, goals, turned>>
      /\ op' \in {"idle", "cleanup"}
      /\ result' \in {how, result}
      /\ made' = FALSE /\ calm' \in BOOLEAN
      /\ torn' = (torn \/ Unlike(now, recorded))
  <2>1. CASE op = "create" /\ made /\ res.cleanup # << >>
    BY <2>1 DEF Fail, chosenVars, runtimeVars
  <2>2. CASE ~(op = "create" /\ made /\ res.cleanup # << >>)
    BY <2>2 DEF Fail, chosenVars, runtimeVars
  <2> QED
    BY <2>1, <2>2
<1> QED
  BY <1>1, <1>2, <1>3 DEF TypeOK, RestTyped

LEMMA ThingTypes ==
  ASSUME LawfulOK, TypeOK, PlaceOK, Running
  PROVE  thing \in Things /\ Rewritten \in Things /\ Made \in Things /\ Deleted \in Things
<1>1. thing \in Things
  BY DEF TypeOK, Things
<1>2. Wanted \in Sets /\ Prior \in Sets /\ op # "idle"
  BY WantedTypes DEF Running
<1>3. \A t \in Things : Busied(t) \in Things
  BY DEF Busied, Things
<1>4. Rewritten \in Things
  <2>1. \A f \in DOMAIN Step.sends : Step.sends[f] \in Ways
    BY AtHand, Programmed DEF Step, LawfulOK, Lawful, Spelled
  <2> DEFINE has == [f \in res.inputs |->
                       IF f \in DOMAIN Step.sends
                       THEN Written(Step.sends[f], Busied(thing).has[f], Prior[f], Wanted[f],
                                    thing.known[f])
                       ELSE Busied(thing).has[f]]
  <2>2. Busied(thing) \in Things
    BY <1>1, <1>3
  <2>3. has \in [res.inputs -> SUBSET {1, 2}]
    <3> SUFFICES ASSUME NEW f \in res.inputs
                 PROVE  has[f] \in SUBSET {1, 2}
      OBVIOUS
    <3>1. /\ Busied(thing).has[f] \in SUBSET {1, 2} /\ thing.known[f] \in SUBSET {1, 2}
          /\ Prior[f] \in SUBSET {1, 2} /\ Wanted[f] \in SUBSET {1, 2}
      BY <1>1, <1>2, <2>2 DEF Things, Sets
    <3> QED
      BY <2>1, <3>1, WrittenTypes
  <2>4. Rewritten = [Busied(thing) EXCEPT
                       !.version = IF Step.match # "none" THEN "answered" ELSE @, !.has = has]
    BY DEF Rewritten
  <2> HIDE DEF has
  <2> QED
    BY <2>2, <2>3, <2>4 DEF Things
<1>5. Made \in Things
  <2> DEFINE has == [f \in res.inputs |-> IF f \in DOMAIN Step.sends THEN Wanted[f] ELSE {}]
             new == [is |-> "settled", shows |-> ~res.lags, version |-> "recorded",
                     known |-> Unset, has |-> has]
  <2>1. has \in [res.inputs -> SUBSET {1, 2}]
    BY <1>2 DEF Sets
  <2>2. Unset \in [res.inputs -> SUBSET {1, 2}]
    BY NothingTypes DEF Sets
  <2> HIDE DEF has
  <2>3. new \in Things
    BY <2>1, <2>2 DEF Things
  <2> QED
    BY <1>3, <2>3 DEF Made, has
<1>6. Deleted \in Things
  BY <1>1, NothingTypes DEF Deleted, Things
<1> QED
  BY <1>1, <1>4, <1>5, <1>6

LEMMA TypeInit == Init => TypeOK /\ LawfulOK
<1> SUFFICES ASSUME Init
             PROVE  TypeOK /\ LawfulOK
  OBVIOUS
<1>1. LawfulOK
  BY CatalogueAssumption DEF Init, LawfulOK
<1>2. TypeOK
  <2>1. thing \in Things
    BY NothingTypes DEF Init
  <2>2. goal \in Inputs
    BY DEF Init
  <2>3. faults \in 0..MaxFaults /\ goals \in 0..MaxGoals
    BY BoundsAssumption DEF Init
  <2>4. /\ recorded = None /\ op = "idle" /\ result = "none"
        /\ made = FALSE /\ calm = TRUE /\ torn = FALSE /\ turned = FALSE
    BY DEF Init
  <2> QED
    BY <2>1, <2>2, <2>3, <2>4 DEF TypeOK, Things
<1> QED
  BY <1>1, <1>2

LEMMA TypeNext == LawfulOK /\ TypeOK /\ PlaceOK /\ [Next]_vars => TypeOK'
<1> SUFFICES ASSUME LawfulOK, TypeOK, PlaceOK, [Next]_vars
             PROVE  TypeOK'
  OBVIOUS
<1>0. ASSUME RestTyped, thing' \in Things, Fault \/ UNCHANGED faults
      PROVE  TypeOK'
  <2>1. res' = res
    BY ResStays
  <2> QED
    BY <1>0, <2>1, FaultTypes DEF RestTyped, TypeOK, Things, Inputs
<1>t. thing \in Things /\ RestTyped \in BOOLEAN /\ made \in BOOLEAN
  BY DEF TypeOK, Things, RestTyped
<1>1. CASE Write
  <2>1. Running /\ Rewritten \in Things
    BY <1>1, ThingTypes DEF Write, Reached
  <2> QED
    BY <1>0, <1>1, <1>t, <2>1, ContinueTypes, FailTypes DEF Write, Answered, Quietly
<1>2. CASE CreateNew \/ CreateTwice
  <2>1. Running /\ Made \in Things
    BY <1>2, ThingTypes DEF CreateNew, CreateTwice, Reached
  <2> QED
    BY <1>0, <1>2, <1>t, <2>1, ContinueTypes, FailTypes DEF CreateNew, CreateTwice
<1>3. CASE Remove
  <2>1. Running /\ Deleted \in Things
    BY <1>3, ThingTypes DEF Remove, Reached
  <2> QED
    BY <1>0, <1>3, <1>t, <2>1, ContinueTypes, FailTypes DEF Remove, Answered, Quietly
<1>4. CASE Refused \/ Satisfied
  BY <1>0, <1>4, <1>t, ContinueTypes, FailTypes DEF Refused, Satisfied, Quietly
<1>5. CASE Missing
  <2>1. CASE UNCHANGED <<chosenVars, runtimeVars, thing, op, result, made, calm, torn, turned>>
    BY <1>0, <1>5, <1>t, <2>1 DEF Missing, RestTyped, TypeOK, chosenVars, runtimeVars
  <2> QED
    BY <1>0, <1>5, <1>t, <2>1, ContinueTypes, FailTypes DEF Missing
<1>6. CASE InVain \/ Rejects \/ StepFails
  BY <1>0, <1>6, <1>t, FailTypes DEF InVain, Rejects, StepFails
<1>7. CASE Skip \/ Vanish \/ Settle \/ Show
  <2>1. thing' \in Things
    BY <1>7, <1>t, NothingTypes DEF Skip, Vanish, Settle, Show, Things, runtimeVars, chosenVars
  <2> QED
    BY <1>0, <1>7, <2>1
       DEF Skip, Vanish, Settle, Show, Quietly, RestTyped, TypeOK, chosenVars, runtimeVars
<1>8. CASE Finish
  <2>1. thing' \in Things
    BY <1>8, <1>t DEF Finish, Succeed, Things
  <2>2. recorded' \in Inputs \cup {None} /\ UNCHANGED <<goal, goals, faults>>
    BY <1>8 DEF Finish, Succeed, TypeOK
  <2>3. torn' \in BOOLEAN /\ turned' \in BOOLEAN
    BY <1>8 DEF Finish, Succeed, TypeOK, Unlike
  <2> QED
    BY <1>0, <1>8, <2>1, <2>2, <2>3 DEF Finish, Succeed, RestTyped, TypeOK
<1>9. CASE Begin
  <2>1. op' \in {"idle", "create", "update", "delete", "cleanup"}
    BY <1>9 DEF Begin, Due
  <2> QED
    BY <1>0, <1>9, <1>t, <2>1 DEF Begin, RestTyped, TypeOK, chosenVars, runtimeVars
<1>10. CASE Drift \/ ChangeGoal
  <2>1. goals' \in 0..MaxGoals
    BY <1>10, BoundsAssumption DEF Drift, ChangeGoal, TypeOK
  <2> QED
    BY <1>0, <1>10, <1>t, <2>1 DEF Drift, ChangeGoal, RestTyped, TypeOK, Quietly, chosenVars
<1>11. CASE Crash
  <2>1. thing' \in Things
    BY <1>11, <1>t DEF Crash, Unanswered, Things
  <2> QED
    BY <1>0, <1>11, <2>1 DEF Crash, Unlike, RestTyped, TypeOK, chosenVars, runtimeVars
<1>12. CASE UNCHANGED vars
  BY <1>0, <1>12, <1>t DEF vars, RestTyped, TypeOK
<1> QED
  BY <1>1, <1>2, <1>3, <1>4, <1>5, <1>6, <1>7, <1>8, <1>9, <1>10, <1>11, <1>12 DEF Next, Work
-----------------------------------------------------------------------------
\* The kinds of steps, in place of the actions.

\* The object after a call that is carried out.
Carried(now) ==
  \/ Step.do = "write" /\ Found(Step.by) /\ Accepted /\ now = Rewritten
  \/ Step.do = "create" /\ now = Made
  \/ Step.do = "delete" /\ Found(Step.by) /\ Accepted /\ now = Deleted

\* Not there, where that makes no error.
Misses ==
  /\ Step.do \in {"write", "delete", "look", "await"}
  /\ ~Found(Step.by)
  /\ Step.do = "await" => thing.is = "absent" \/ ~Names(Step.by)

\* A step that is passed and leaves the object as it is.
Passable ==
  \/ Step.do = "write" /\ Found(Step.by) /\ Step.absent = "fine" /\ Step.strict
  \/ Step.do \in {"write", "delete"} /\ thing.is = "going" /\ Step.going = "fine"
  \/ Misses /\ Step.absent = "fine"
  \/ Step.do = "await" /\ Found(Step.by) /\ thing.is = "settled"
  \/ Step.do = "look" /\ Found(Step.by)
  \/ Step.do = "gone" /\ (thing.is = "absent" \/ ~Names(Step.by))

Calls ==
  /\ Running /\ \E now : Carried(now) /\ Continue(now)
  /\ made' = IF Step.do = "create" THEN TRUE ELSE made

Passing == Running /\ Passable /\ Continue(thing) /\ UNCHANGED made

Ends ==
  /\ Running /\ Misses /\ Step.absent = "ends"
  /\ todo' = {}
  /\ UNCHANGED <<chosenVars, runtimeVars, thing, op, result, made, calm, torn, turned>>

Breaks ==
  /\ Running
  /\ \E how, now :
       /\ how \in {"failed", "refused"}
       /\ now = thing \/ Carried(now)
       /\ how = "refused" => calm /\ thing.is = "busy" /\ CanBeRefused(Step)
       /\ Fail(how, now)

LEMMA StepKinds ==
  ASSUME [Next]_vars
  PROVE  \/ Begin \/ Finish \/ Crash
         \/ Drift \/ ChangeGoal \/ Vanish \/ Settle \/ Show \/ UNCHANGED vars
         \/ Calls \/ Passing \/ Ends \/ Skip \/ Breaks
<1> USE DEF Reached
<1> HIDE DEF Fail, Continue
<1>1. CASE Write
  <2>1. CASE Clashes(Step) /\ Step.absent = "fine"
    BY <1>1, <2>1 DEF Write, Passing, Passable, Clashes, Quietly
  <2>2. CASE (Clashes(Step) /\ Step.absent # "fine") \/ (~Clashes(Step) /\ Mismatch)
    BY <1>1, <2>2 DEF Write, Breaks
  <2>3. CASE ~Clashes(Step) /\ ~Mismatch
    BY <1>1, <2>3 DEF Write, Answered, Calls, Breaks, Carried, Quietly
  <2> QED
    BY <2>1, <2>2, <2>3
<1>2. CASE CreateNew
  <2>1. Running /\ Step.do = "create" /\ Carried(Made)
    BY <1>2 DEF CreateNew, Carried
  <2>2. CASE Continue(Made) /\ made' = TRUE
    BY <2>1, <2>2 DEF Calls
  <2>3. CASE Fail("failed", Made)
    BY <2>1, <2>3 DEF Breaks
  <2> QED
    BY <1>2, <2>2, <2>3 DEF CreateNew
<1>3. CASE CreateTwice \/ InVain \/ Rejects \/ StepFails
  BY <1>3 DEF CreateTwice, InVain, Rejects, StepFails, Breaks
<1>4. CASE Remove
  <2>1. \/ Fail("failed", thing) \/ Answered(Deleted)
    BY <1>4 DEF Remove
  <2> QED
    BY <1>4, <2>1 DEF Remove, Answered, Calls, Breaks, Carried, Quietly
<1>5. CASE Refused
  BY <1>5 DEF Refused, Breaks, Passing, Passable, CanBeRefused
<1>6. CASE Missing
  BY <1>6 DEF Missing, Misses, Breaks, Passing, Passable, Ends
<1>7. CASE Satisfied
  BY <1>7 DEF Satisfied, Passing, Passable, Quietly
<1> QED
  BY <1>1, <1>2, <1>3, <1>4, <1>5, <1>6, <1>7 DEF Next, Work

LEMMA ContinueDoes ==
  ASSUME NEW now, Continue(now)
  PROVE  /\ UNCHANGED <<res, op, goal, recorded, goals, result, calm, torn, turned>>
         /\ thing' = now /\ todo' = todo \ {First(todo)}
  BY DEF Continue, chosenVars, runtimeVars

LEMMA EndsDoes ==
  ASSUME Ends
  PROVE  /\ UNCHANGED <<res, op, thing, goal, recorded, goals, result, made, calm, torn, turned>>
         /\ todo' = {}
  BY DEF Ends, chosenVars, runtimeVars

LEMMA SkipDoes ==
  ASSUME Skip
  PROVE  /\ Running /\ Step.live # {}
         /\ UNCHANGED <<res, op, thing, goal, recorded, goals, result, made, calm, torn, turned>>
         /\ todo' = {i \in todo : i >= First(todo) + Step.span}
  BY DEF Skip, Quietly, chosenVars, runtimeVars

\* The steps an operation starts with.
LEMMA ApplicableIs ==
  ASSUME NEW o, NEW wanted, NEW prior
  PROVE  /\ Applicable(o, wanted, prior) \subseteq DOMAIN Program(o)
         /\ \A i \in DOMAIN Program(o) :
              i \in Applicable(o, wanted, prior) <=>
                \A t \in Program(o)[i].when : Passes(t, wanted, prior, thing.has)
  BY DEF Applicable

\* An operation begins with a step that no guard can keep from being made.
LEMMA CertainApply ==
  ASSUME NEW o, NEW j \in DOMAIN Program(o), NEW F \in SUBSET res.inputs,
         CertainlyMade(Program(o), j, F), NEW wanted, NEW prior, \A f \in F : wanted[f] = {}
  PROVE  \E k \in Applicable(o, wanted, prior) :
           Program(o)[k].do = Program(o)[j].do /\ Unskipped(Program(o), 0, k)
<1> DEFINE p == Program(o)
<1>1. CASE Unconditional(p, j, F)
  <2>1. \A t \in p[j].when : t.test = "absent" /\ t.of \subseteq F
    BY <1>1 DEF Unconditional
  <2>2. \A t \in p[j].when : Passes(t, wanted, prior, thing.has)
    BY <2>1, NoneOfThem
  <2>3. j \in Applicable(o, wanted, prior)
    BY <2>2, ApplicableIs
  <2> QED
    BY <2>3 DEF CertainlyMade
<1>2. CASE \E k \in DOMAIN p : Alternatives(p, j, k)
  <2>1. PICK k \in DOMAIN p : Alternatives(p, j, k)
    BY <1>2
  <2>2. PICK g \in p[j].when, a \in p[k].when :
          /\ p[j].when = {g} /\ p[k].when = {a}
          /\ g.test = "given" /\ a.test = "absent" /\ a.of = g.of
    BY <2>1 DEF Alternatives
  <2>3. Passes(g, wanted, prior, thing.has) \/ Passes(a, wanted, prior, thing.has)
    BY <2>2, GivenOrAbsent
  <2>4. j \in Applicable(o, wanted, prior) \/ k \in Applicable(o, wanted, prior)
    BY <2>2, <2>3, ApplicableIs
  <2> QED
    BY <2>1, <2>4 DEF CertainlyMade, Alternatives
<1> QED
  BY <1>1, <1>2 DEF CertainlyMade

LEMMA FailDoes ==
  ASSUME TypeOK, NEW how, NEW now \in Things, Fail(how, now)
  PROVE  /\ UNCHANGED <<res, goal, recorded, turned>> /\ made' = FALSE
         /\ thing'.is = now.is /\ thing'.shows = now.shows /\ thing'.has = now.has
         /\ torn' = (torn \/ Unlike(now, recorded))
         /\ \/ op' = "idle" /\ todo' = {} /\ result' = how
            \/ /\ op = "create" /\ res.cleanup # << >> /\ op' = "cleanup"
               /\ todo' = Applicable("cleanup", Wanted, Prior) /\ result' = result
               /\ calm' = (now.is \in {"settled", "absent"})
<1>1. thing' = Unanswered(now) /\ torn' = (torn \/ Unlike(now, recorded))
      /\ UNCHANGED <<res, goal, recorded, turned>> /\ made' = FALSE
  BY DEF Fail, chosenVars, runtimeVars
<1>2. thing'.is = now.is /\ thing'.shows = now.shows /\ thing'.has = now.has
  BY <1>1 DEF Unanswered, Things
<1>3. CASE op = "create" /\ made /\ res.cleanup # << >>
  BY <1>1, <1>2, <1>3 DEF Fail
<1>4. CASE ~(op = "create" /\ made /\ res.cleanup # << >>)
  BY <1>1, <1>2, <1>4 DEF Fail
<1> QED
  BY <1>3, <1>4
-----------------------------------------------------------------------------
\* The steps that are left.

Onward ==
  \/ todo' = todo \ {First(todo)}
  \/ todo' = {}
  \/ todo' = {i \in todo : i >= First(todo) + Step.span}

\* Those that stay are all those after some step.
LEMMA StaysClosed ==
  ASSUME LawfulOK, TypeOK, PlaceOK, Running, Onward
  PROVE  /\ todo' \subseteq todo
         /\ \A i \in todo', j \in todo : i < j => j \in todo'
<1>1. /\ todo \subseteq Nat /\ First(todo) \in todo /\ First(todo) \in Nat
      /\ \A j \in todo : First(todo) <= j
  BY AtHand
<1>2. Step.span \in Nat
  BY AtHand, Programmed DEF Step, LawfulOK, Lawful, Spelled
<1>3. ASSUME NEW i \in todo', NEW j \in todo, i < j
      PROVE  j \in todo'
  <2>1. i \in Nat /\ j \in Nat /\ i \in todo /\ First(todo) <= i
    BY <1>1, <1>3 DEF Onward
  <2>2. CASE todo' = todo \ {First(todo)}
    BY <1>1, <1>3, <2>1, <2>2
  <2>3. CASE todo' = {k \in todo : k >= First(todo) + Step.span}
    <3>1. i >= First(todo) + Step.span
      BY <1>3, <2>3
    <3> QED
      BY <1>1, <1>2, <1>3, <2>1, <2>3, <3>1
  <2> QED
    BY <1>3, <2>2, <2>3 DEF Onward
<1> QED
  BY <1>3 DEF Onward

\* A step that nothing makes the code pass over stays until it is made.
LEMMA AheadStays ==
  ASSUME LawfulOK, TypeOK, PlaceOK, Running, NEW j, Ahead(j), UNCHANGED <<op, res>>,
         \/ todo' = todo \ {First(todo)} /\ j # First(todo)
         \/ todo' = {i \in todo : i >= First(todo) + Step.span} /\ Step.live # {}
  PROVE  Ahead(j)'
<1>1. /\ todo \subseteq Nat /\ First(todo) \in todo /\ First(todo) \in Nat
      /\ \A i \in todo : First(todo) <= i
  BY AtHand
<1>2. Step.span \in Nat
  BY AtHand, Programmed DEF Step, LawfulOK, Lawful, Spelled
<1>3. UNCHANGED Program(op)
  BY DEF Program
<1>4. j \in todo /\ \A s \in todo : s <= j /\ Program(op)[s].live # {} => s + Program(op)[s].span <= j
  BY DEF Ahead
<1>5. j \in todo'
  BY <1>1, <1>2, <1>4 DEF Step
<1>6. todo' \subseteq todo
  OBVIOUS
<1> QED
  BY <1>3, <1>4, <1>5, <1>6 DEF Ahead

\* Ahead, by the program.
LEMMA UnskippedAhead ==
  ASSUME NEW j \in todo, NEW i, todo \subseteq DOMAIN Program(op), Unskipped(Program(op), i, j),
         \A s \in todo : i < s
  PROVE  Ahead(j)
  BY DEF Unskipped, Ahead

\* And stays.
LEMMA UnskippedStays ==
  ASSUME LawfulOK, TypeOK, PlaceOK, Skip, NEW j \in todo, Unskipped(Program(op), 0, j)
  PROVE  j \in todo'
<1>1. /\ UNCHANGED <<op, res>> /\ Running /\ Step.live # {}
      /\ todo' = {i \in todo : i >= First(todo) + Step.span}
  BY SkipDoes
<1>2. todo \subseteq DOMAIN Program(op) /\ \A s \in todo : 0 < s
  BY <1>1, Numbered
<1>3. Ahead(j)
  BY <1>2, UnskippedAhead
<1>4. Ahead(j)'
  BY <1>1, <1>3, AheadStays
<1> QED
  BY <1>4 DEF Ahead

LEMMA PlaceInit == Init => PlaceOK
  BY DEF Init, PlaceOK

LEMMA PlaceNext == LawfulOK /\ TypeOK /\ PlaceOK /\ [Next]_vars => PlaceOK'
<1> SUFFICES ASSUME LawfulOK, TypeOK, PlaceOK, [Next]_vars
             PROVE  PlaceOK'
  OBVIOUS
<1>p. res' = res
  BY ResStays
<1>q. \A o : Program(o)' = Program(o)
  BY <1>p DEF Program
<1>1. CASE Begin
  <2>1. op' = Due /\ Due # "none" /\ result' = "none" /\ UNCHANGED <<goal, recorded>>
        /\ todo' = Applicable(Due, Wanted, Prior)
    BY <1>1 DEF Begin, chosenVars, runtimeVars
  <2>2. todo' \subseteq DOMAIN Program(op')
    BY <2>1, ApplicableIs
  <2>3. \/ op' = "create" /\ recorded' = None /\ goal' # None
        \/ op' = "delete" /\ recorded' # None /\ goal' = None
        \/ op' = "update" /\ recorded' # None /\ goal' # None
    BY <2>1 DEF Due
  <2> QED
    BY <1>q, <2>1, <2>2, <2>3 DEF PlaceOK
<1>2. CASE Finish \/ Crash
  BY <1>2 DEF Finish, Succeed, Crash, PlaceOK
<1>3. CASE Drift \/ ChangeGoal \/ Vanish \/ Settle \/ Show \/ UNCHANGED vars
  <2>1. UNCHANGED <<op, todo, result>>
    BY <1>3 DEF Drift, ChangeGoal, Vanish, Settle, Show, vars
  <2>2. op = "idle" \/ UNCHANGED <<goal, recorded>>
    BY <1>3 DEF Drift, ChangeGoal, Vanish, Settle, Show, vars, runtimeVars
  <2> QED
    BY <1>p, <1>q, <2>1, <2>2 DEF PlaceOK
<1>4. CASE Calls \/ Passing \/ Ends \/ Skip
  <2>1. UNCHANGED <<op, goal, recorded, result>> /\ todo' \subseteq todo
    BY <1>4, ContinueDoes, EndsDoes, SkipDoes DEF Calls, Passing
  <2>2. op # "idle"
    BY <1>4, SkipDoes DEF Calls, Passing, Ends, Running
  <2> QED
    BY <1>p, <1>q, <2>1, <2>2 DEF PlaceOK
<1>5. CASE Breaks
  <2>1. PICK how, now : Fail(how, now) /\ (now = thing \/ Carried(now)) /\ Running
    BY <1>5 DEF Breaks
  <2>2. now \in Things
    BY <2>1, ThingTypes DEF Carried
  <2>3. CASE op' = "idle" /\ todo' = {}
    BY <2>3 DEF PlaceOK
  <2>4. CASE /\ op = "create" /\ res.cleanup # << >> /\ op' = "cleanup"
             /\ todo' = Applicable("cleanup", Wanted, Prior) /\ result' = result
    <3>1. UNCHANGED <<goal, recorded>>
      BY <2>1, <2>2, FailDoes
    <3>2. todo' \subseteq DOMAIN Program(op')
      BY <2>4, ApplicableIs
    <3> QED
      BY <1>p, <1>q, <2>4, <3>1, <3>2 DEF PlaceOK
  <2> QED
    BY <2>1, <2>2, <2>3, <2>4, FailDoes
<1> QED
  BY <1>1, <1>2, <1>3, <1>4, <1>5, StepKinds
-----------------------------------------------------------------------------
\* A wait stands before the next call that AWS would refuse.

LEMMA WaitsApply ==
  ASSUME LawfulOK, NEW o \in {"create", "update", "delete", "cleanup"}, NEW wanted, NEW prior,
         NEW i \in Applicable(o, wanted, prior), NEW k \in Applicable(o, wanted, prior),
         i < k, StartsTransition(res, Program(o)[i]), CanBeRefused(Program(o)[k])
  PROVE  \E j \in Applicable(o, wanted, prior) :
           i < j /\ j < k /\ Waits(Program(o)[j]) /\ Unskipped(Program(o), i, j)
<1> DEFINE p == Program(o)
<1>1. p \in Programs(res)
  BY DEF Program, Programs
<1>2. /\ i \in DOMAIN p /\ k \in DOMAIN p
      /\ \A t \in p[i].when \cup p[k].when : Passes(t, wanted, prior, thing.has)
  BY ApplicableIs
<1>3. ~Exclusive(p[i], p[k])
  <2> SUFFICES ASSUME Exclusive(p[i], p[k])
               PROVE  FALSE
    OBVIOUS
  <2>1. PICK g \in p[i].when :
          g.test = "given" /\ (g.of = {} \/ \E a \in p[k].when : a.test = "absent" /\ a.of = g.of)
    BY DEF Exclusive
  <2>2. Passes(g, wanted, prior, thing.has)
    BY <1>2
  <2>3. CASE g.of = {}
    BY <2>1, <2>2, <2>3, NothingGiven
  <2>4. CASE \E a \in p[k].when : a.test = "absent" /\ a.of = g.of
    BY <1>2, <2>1, <2>2, <2>4, GivenOrAbsent
  <2> QED
    BY <2>1, <2>3, <2>4
<1>4. PICK j \in DOMAIN p : WaitBetween(p, i, j, k)
  BY <1>1, <1>2, <1>3 DEF LawfulOK, Lawful, WaitsStand
<1>5. j \in Applicable(o, wanted, prior)
  BY <1>2, <1>4, ApplicableIs DEF WaitBetween
<1> QED
  BY <1>4, <1>5 DEF WaitBetween, Waits

LEMMA OrderNext == LawfulOK /\ TypeOK /\ PlaceOK /\ OrderOK /\ [Next]_vars => OrderOK'
<1> SUFFICES ASSUME LawfulOK, TypeOK, PlaceOK, OrderOK, [Next]_vars
             PROVE  OrderOK'
  OBVIOUS
<1>p. res' = res
  BY ResStays
<1>q. \A o : Program(o)' = Program(o)
  BY <1>p DEF Program
<1>r. \A s : StartsTransition(res, s)' = StartsTransition(res, s)
  BY <1>p
<1>0. ASSUME NEW o \in {"create", "update", "delete", "cleanup"},
             op' = o, todo' = Applicable(o, Wanted, Prior)
      PROVE  OrderOK'
  BY <1>0, <1>p, <1>q, WaitsApply DEF OrderOK
<1>1. CASE Begin
  <2>1. Due \in {"create", "update", "delete"}
    BY <1>1 DEF Begin, Due
  <2> QED
    BY <1>0, <1>1, <2>1 DEF Begin
<1>2. CASE Finish \/ Crash
  BY <1>2 DEF Finish, Succeed, Crash, OrderOK
<1>3. CASE Drift \/ ChangeGoal \/ Vanish \/ Settle \/ Show \/ UNCHANGED vars
  <2>1. UNCHANGED <<op, todo>>
    BY <1>3 DEF Drift, ChangeGoal, Vanish, Settle, Show, vars
  <2> QED
    BY <1>p, <1>q, <2>1 DEF OrderOK
<1>4. CASE Calls \/ Passing \/ Ends \/ Skip
  <2>1. op' = op /\ Running /\ Onward
    BY <1>4, ContinueDoes, EndsDoes, SkipDoes DEF Calls, Passing, Ends, Onward
  <2>2. todo' \subseteq todo /\ \A i \in todo', j \in todo : i < j => j \in todo'
    BY <2>1, StaysClosed
  <2> SUFFICES ASSUME op # "idle", NEW i \in todo', NEW k \in todo', i < k,
                      StartsTransition(res, Program(op)[i]), CanBeRefused(Program(op)[k])
               PROVE  \E j \in todo' : i < j /\ j < k /\ Waits(Program(op)[j])
                                       /\ Unskipped(Program(op), i, j)
    BY <1>p, <1>q, <2>1 DEF OrderOK
  <2>3. i \in todo /\ k \in todo
    BY <2>2
  <2>4. PICK j \in todo : /\ i < j /\ j < k /\ Waits(Program(op)[j])
                          /\ Unskipped(Program(op), i, j)
    BY <2>3 DEF OrderOK
  <2>5. j \in todo'
    BY <2>2, <2>4
  <2> QED
    BY <2>4, <2>5
<1>5. CASE Breaks
  <2>1. PICK how, now : Fail(how, now) /\ (now = thing \/ Carried(now)) /\ Running
    BY <1>5 DEF Breaks
  <2>2. now \in Things
    BY <2>1, ThingTypes DEF Carried
  <2>3. \/ op' = "idle"
        \/ op' = "cleanup" /\ todo' = Applicable("cleanup", Wanted, Prior)
    BY <2>1, <2>2, FailDoes
  <2> QED
    BY <1>0, <2>3 DEF OrderOK
<1> QED
  BY <1>1, <1>2, <1>3, <1>4, <1>5, StepKinds

LEMMA GuardNext ==
  LawfulOK /\ TypeOK /\ PlaceOK /\ OrderOK /\ GuardOK /\ [Next]_vars => GuardOK'
<1> SUFFICES ASSUME LawfulOK, TypeOK, PlaceOK, OrderOK, GuardOK, [Next]_vars
             PROVE  GuardOK'
  OBVIOUS
<1>p. res' = res
  BY ResStays
<1>q. \A o : Program(o)' = Program(o)
  BY <1>p DEF Program
<1>0. ASSUME op' = "idle" \/ ~calm' \/ thing'.is # "busy"
      PROVE  GuardOK'
  BY <1>0 DEF GuardOK
<1>1. CASE Begin
  BY <1>0, <1>1 DEF Begin
<1>2. CASE Finish \/ Crash
  BY <1>0, <1>2 DEF Finish, Succeed, Crash
<1>3. CASE Drift \/ ChangeGoal \/ Vanish \/ Settle
  BY <1>0, <1>3 DEF Drift, ChangeGoal, Vanish, Settle, Nothing, TypeOK
<1>4. CASE Show \/ UNCHANGED vars
  <2>1. UNCHANGED <<op, todo, calm>> /\ thing'.is = thing.is
    BY <1>4 DEF Show, vars, TypeOK
  <2> QED
    BY <1>p, <1>q, <2>1 DEF GuardOK, Ahead
<1>5. CASE Ends
  BY <1>5, EndsDoes DEF GuardOK
<1>6. CASE Breaks
  <2>1. PICK how, now : Fail(how, now) /\ (now = thing \/ Carried(now)) /\ Running
    BY <1>6 DEF Breaks
  <2>2. now \in Things
    BY <2>1, ThingTypes DEF Carried
  <2>3. \/ op' = "idle"
        \/ calm' = (now.is \in {"settled", "absent"}) /\ thing'.is = now.is
    BY <2>1, <2>2, FailDoes
  <2> QED
    BY <1>0, <2>3
<1>7. ASSUME Running, UNCHANGED <<op, calm>>, thing.is = "busy",
             \A j \in todo : Waits(Program(op)[j]) => j # First(todo) \/ Step.live # {},
             \/ todo' = todo \ {First(todo)}
                /\ \A j \in todo : Waits(Program(op)[j]) => j # First(todo)
             \/ todo' = {i \in todo : i >= First(todo) + Step.span} /\ Step.live # {}
      PROVE  GuardOK'
  <2> SUFFICES ASSUME op # "idle", calm, NEW k \in todo', CanBeRefused(Program(op)[k])
               PROVE  \E j \in todo' : j < k /\ Waits(Program(op)[j]) /\ Ahead(j)'
    BY <1>p, <1>q, <1>7 DEF GuardOK
  <2>1. k \in todo
    BY <1>7
  <2>2. PICK j \in todo : j < k /\ Waits(Program(op)[j]) /\ Ahead(j)
    BY <1>7, <2>1 DEF GuardOK
  <2>3. Ahead(j)'
    BY <1>7, <1>p, <2>2, AheadStays
  <2> QED
    BY <2>2, <2>3 DEF Ahead
<1>8. CASE Calls
  <2>1. PICK now : Carried(now) /\ Continue(now) /\ Running
    BY <1>8 DEF Calls
  <2>2. UNCHANGED <<op, calm>> /\ thing' = now /\ todo' = todo \ {First(todo)}
    BY <2>1, ContinueDoes
  <2>3. Step.do \in {"write", "create", "delete"}
    BY <2>1 DEF Carried
  <2>4. CASE Step.do # "delete" /\ Step.call \in res.slow
    <3> SUFFICES ASSUME op # "idle", NEW k \in todo', CanBeRefused(Program(op)[k])
                 PROVE  \E j \in todo' : j < k /\ Waits(Program(op)[j]) /\ Ahead(j)'
      BY <1>p, <1>q, <2>2 DEF GuardOK
    <3>1. /\ First(todo) \in todo /\ todo \subseteq Nat /\ todo \subseteq DOMAIN Program(op)
          /\ \A j \in todo : First(todo) <= j
      BY <2>1, AtHand
    <3>2. k \in todo /\ First(todo) < k
      <4>1. k \in todo /\ k # First(todo) /\ First(todo) <= k
        BY <2>2, <3>1
      <4>2. k \in Nat /\ First(todo) \in Nat
        BY <3>1, <4>1
      <4> QED
        BY <4>1, <4>2
    <3>3. StartsTransition(res, Program(op)[First(todo)])
      BY <2>3, <2>4 DEF StartsTransition, Step
    <3>4. PICK j \in todo : /\ First(todo) < j /\ j < k /\ Waits(Program(op)[j])
                            /\ Unskipped(Program(op), First(todo), j)
      BY <3>1, <3>2, <3>3 DEF OrderOK
    <3>5. Ahead(j)'
      <4>1. j \in todo'
        BY <2>2, <3>1, <3>4
      <4>2. ASSUME NEW s \in todo'
            PROVE  First(todo) < s /\ s \in DOMAIN Program(op)
        <5>1. s \in todo /\ s # First(todo) /\ First(todo) <= s
          BY <2>2, <3>1, <4>2
        <5>2. s \in Nat /\ First(todo) \in Nat
          BY <3>1, <5>1
        <5> QED
          BY <3>1, <5>1, <5>2
      <4> QED
        BY <1>q, <2>2, <3>4, <4>1, <4>2 DEF Ahead, Unskipped
    <3> QED
      BY <3>4, <3>5 DEF Ahead
  <2>5. CASE Step.do = "delete" \/ Step.call \notin res.slow
    <3>1. \/ thing'.is # "busy"
          \/ Step.do = "write" /\ thing.is = "busy"
      <4>1. CASE Step.do = "delete"
        BY <2>1, <2>2, <4>1 DEF Carried, Deleted, Nothing, TypeOK
      <4>2. CASE Step.do = "create"
        BY <2>1, <2>2, <2>5, <4>2 DEF Carried, Made, Busied
      <4>3. CASE Step.do = "write"
        BY <2>1, <2>2, <2>5, <4>3 DEF Carried, Rewritten, Busied, TypeOK
      <4> QED
        BY <2>3, <4>1, <4>2, <4>3
    <3> QED
      BY <1>0, <1>7, <2>1, <2>2, <3>1 DEF Waits, Step
  <2> QED
    BY <2>4, <2>5
<1>9. CASE Passing
  <2>1. UNCHANGED <<op, calm, thing>> /\ todo' = todo \ {First(todo)} /\ Running /\ Passable
    BY <1>9, ContinueDoes DEF Passing
  <2>2. ASSUME thing.is = "busy"
        PROVE  ~Waits(Step)
    BY <2>1, <2>2 DEF Passable, Misses, Waits, Names
  <2> QED
    BY <1>0, <1>7, <2>1, <2>2 DEF Step
<1>10. CASE Skip
  <2>1. /\ UNCHANGED <<op, calm, thing>> /\ Running /\ Step.live # {}
        /\ todo' = {i \in todo : i >= First(todo) + Step.span}
    BY <1>10, SkipDoes
  <2> QED
    BY <1>0, <1>7, <2>1
<1> QED
  BY <1>1, <1>2, <1>3, <1>4, <1>5, <1>6, <1>8, <1>9, <1>10, StepKinds

LEMMA EarlyNext ==
  LawfulOK /\ TypeOK /\ PlaceOK /\ GuardOK /\ NeverTooEarly /\ [Next]_vars => NeverTooEarly'
<1> SUFFICES ASSUME LawfulOK, TypeOK, PlaceOK, GuardOK, NeverTooEarly, [Next]_vars
             PROVE  NeverTooEarly'
  OBVIOUS
<1> USE DEF NeverTooEarly
<1>1. CASE Begin \/ Finish \/ Crash
  BY <1>1 DEF Begin, Finish, Succeed, Crash
<1>2. CASE Drift \/ ChangeGoal \/ Vanish \/ Settle \/ Show \/ UNCHANGED vars
  BY <1>2 DEF Drift, ChangeGoal, Vanish, Settle, Show, vars
<1>3. CASE Calls \/ Passing \/ Ends \/ Skip
  BY <1>3, ContinueDoes, EndsDoes, SkipDoes DEF Calls, Passing
<1>4. CASE Breaks
  <2>1. PICK how, now :
          /\ how \in {"failed", "refused"} /\ Running /\ (now = thing \/ Carried(now)) /\ Fail(how, now)
          /\ how = "refused" => calm /\ thing.is = "busy" /\ CanBeRefused(Step)
    BY <1>4 DEF Breaks
  <2>2. now \in Things
    BY <2>1, ThingTypes DEF Carried
  <2>3. how # "refused"
    <3> SUFFICES ASSUME how = "refused"
                 PROVE  FALSE
      OBVIOUS
    <3>1. First(todo) \in todo /\ todo \subseteq Nat /\ \A j \in todo : First(todo) <= j
      BY <2>1, AtHand
    <3>2. PICK j \in todo : j < First(todo)
      BY <2>1, <3>1 DEF GuardOK, Running, Step
    <3>3. First(todo) <= j /\ j \in Nat /\ First(todo) \in Nat
      BY <3>1
    <3> QED
      BY <3>2, <3>3
  <2> QED
    BY <2>1, <2>2, <2>3, FailDoes
<1> QED
  BY <1>1, <1>2, <1>3, <1>4, StepKinds
-----------------------------------------------------------------------------
\* What is recorded shows.

LEMMA OnlyCreate ==
  ASSUME LawfulOK, TypeOK, PlaceOK, Running, Step.do = "create"
  PROVE  op = "create"
<1>1. op \in {"create", "update", "delete", "cleanup"} /\ First(todo) \in DOMAIN Program(op)
  BY AtHand DEF TypeOK
<1>2. ASSUME op # "create"
      PROVE  Program(op) \in {res.update, res.delete, res.cleanup}
  BY <1>1, <1>2 DEF Program
<1> QED
  BY <1>1, <1>2 DEF Step, LawfulOK, Lawful, OnlyCreateMakes

LEMMA CarriedIs ==
  ASSUME LawfulOK, TypeOK, PlaceOK, Running, NEW now, Carried(now)
  PROVE  \/ /\ Step.do = "write" /\ now = Rewritten /\ Present
            /\ now.is \in {thing.is, "busy"} /\ now.shows = thing.shows
         \/ /\ Step.do = "create" /\ now = Made /\ op = "create" /\ recorded = None
            /\ now.is \in {"settled", "busy"} /\ now.shows = ~res.lags
         \/ /\ Step.do = "delete" /\ Step.call \in res.slow
            /\ now.is = "going" /\ Present /\ now.shows = thing.shows /\ now.has = thing.has
         \/ /\ Step.do = "delete" /\ Step.call \notin res.slow
            /\ now = Nothing /\ now.is = "absent"
<1>1. CASE Step.do = "write"
  BY <1>1 DEF Carried, Rewritten, Busied, TypeOK, Found, Present
<1>2. CASE Step.do = "create"
  <2>1. op = "create" /\ recorded = None
    BY <1>2, OnlyCreate DEF PlaceOK
  <2>2. now = Made
    BY <1>2 DEF Carried
  <2>3. Made.is \in {"settled", "busy"} /\ Made.shows = ~res.lags
    BY DEF Made, Busied
  <2> QED
    BY <1>2, <2>1, <2>2, <2>3
<1>3. CASE Step.do = "delete"
  BY <1>3 DEF Carried, Deleted, Nothing, TypeOK, Found, Present
<1> QED
  BY <1>1, <1>2, <1>3 DEF Carried

LEMMA ShowsInit == Init => ShowsOK
  BY DEF Init, ShowsOK, Looks, Nothing, Present

LEMMA ShowsNext == LawfulOK /\ TypeOK /\ PlaceOK /\ ShowsOK /\ [Next]_vars => ShowsOK'
<1> SUFFICES ASSUME LawfulOK, TypeOK, PlaceOK, ShowsOK, [Next]_vars
             PROVE  ShowsOK'
  OBVIOUS
<1>p. res' = res
  BY ResStays
<1>s. /\ Present /\ ~thing.shows => res.lags
      /\ Present /\ recorded # None => thing.shows
      /\ Looks
  BY DEF ShowsOK, Looks
<1>0. ASSUME Present' => Present /\ thing'.shows = thing.shows,
             recorded' \in {recorded, None}, Looks'
      PROVE  ShowsOK'
  BY <1>0, <1>s, <1>p DEF ShowsOK, Looks
<1>i. ASSUME op' # "create"
      PROVE  Looks'
  BY <1>i DEF Looks
<1>1. CASE Begin
  <2>1. UNCHANGED <<thing, recorded>> /\ op' = Due /\ todo' = Applicable(Due, Wanted, Prior)
    BY <1>1 DEF Begin, runtimeVars
  <2>2. Looks'
    <3> SUFFICES ASSUME op' = "create", NEW j \in DOMAIN res.create, Confirms(res, j)
                 PROVE  j \in todo'
      BY <1>p DEF Looks
    <3>1. Due = "create" /\ Program(Due) = res.create /\ res.create[j].when = {}
      BY <2>1 DEF Confirms, Program
    <3> QED
      BY <2>1, <3>1, ApplicableIs
  <2> QED
    BY <1>0, <2>1, <2>2 DEF Present
<1>2. CASE Finish
  <2>1. /\ op' = "idle" /\ thing'.is = thing.is /\ thing'.shows = thing.shows
        /\ recorded' # None => op \in {"create", "update"}
        /\ op # "idle" /\ todo = {}
    BY <1>2 DEF Finish, Succeed, TypeOK
  <2>2. Present /\ op = "create" => thing.shows
    <3>1. CASE res.lags
      BY <1>s, <2>1, <3>1 DEF Looks, LawfulOK, Lawful, CreateConfirms
    <3> QED
      BY <1>s, <3>1
  <2>3. Present /\ recorded' # None => thing.shows
    BY <1>s, <2>1, <2>2 DEF PlaceOK
  <2> QED
    BY <1>p, <1>s, <1>i, <2>1, <2>3 DEF ShowsOK, Present
<1>3. CASE Crash
  <2>1. op' = "idle" /\ thing'.is = thing.is /\ thing'.shows = thing.shows /\ recorded' = recorded
    BY <1>3 DEF Crash, Unanswered, TypeOK, runtimeVars
  <2> QED
    BY <1>0, <1>i, <2>1 DEF Present
<1>4. CASE Drift \/ ChangeGoal \/ Vanish
  <2>1. /\ op' = "idle" /\ thing' \in {thing, Nothing} /\ recorded' \in {recorded, None}
    BY <1>4 DEF Drift, ChangeGoal, Vanish, runtimeVars
  <2> QED
    BY <1>0, <1>i, <2>1 DEF Present, Nothing
<1>5. CASE Settle \/ UNCHANGED vars
  <2>1. /\ UNCHANGED <<op, todo, recorded>>
        /\ Present' => Present /\ thing'.shows = thing.shows
    BY <1>5 DEF Settle, vars, runtimeVars, Present, Nothing, TypeOK
  <2>2. Looks'
    BY <1>p, <1>s, <2>1 DEF Looks
  <2> QED
    BY <1>0, <2>1, <2>2
<1>6. CASE Show
  <2>1. UNCHANGED <<op, todo, recorded>> /\ thing'.shows
    BY <1>6 DEF Show, runtimeVars, TypeOK
  <2> QED
    BY <1>p, <1>s, <2>1 DEF ShowsOK, Looks
\* What happens to a step that confirms, when the first step is made.
<1>7. ASSUME Running, UNCHANGED <<op, recorded>>, todo' = todo \ {First(todo)},
             Present' => Present /\ thing'.shows = thing.shows,
             \/ Step.do \notin {"look", "await"}
             \/ Step.absent # "fails"
             \/ Present => thing.shows
      PROVE  ShowsOK'
  <2>1. Looks'
    <3> SUFFICES ASSUME op = "create", res.lags, NEW j \in DOMAIN res.create, Confirms(res, j)
                 PROVE  j \in todo' \/ ((Present' => thing'.shows) /\ \A i \in todo' : j < i)
      BY <1>p, <1>7 DEF Looks
    <3>1. /\ todo \subseteq Nat /\ First(todo) \in todo /\ \A i \in todo : First(todo) <= i
      BY <1>7, AtHand
    <3>2. CASE j = First(todo)
      <4>1. Present => thing.shows
        BY <1>7, <3>2 DEF Confirms, Step, Program
      <4>2. \A i \in todo' : j < i
        <5> SUFFICES ASSUME NEW i \in todo'
                     PROVE  j < i
          OBVIOUS
        <5>1. i \in Nat /\ First(todo) \in Nat /\ First(todo) <= i /\ i # First(todo)
          BY <1>7, <3>1
        <5> QED
          BY <3>2, <5>1
      <4> QED
        BY <1>7, <4>1, <4>2
    <3>3. CASE j # First(todo)
      BY <1>7, <1>s, <3>3 DEF Looks
    <3> QED
      BY <3>2, <3>3
  <2> QED
    BY <1>0, <1>7, <2>1
<1>8. CASE Calls
  <2>1. PICK now : Carried(now) /\ Continue(now) /\ Running
    BY <1>8 DEF Calls
  <2>2. UNCHANGED <<op, recorded>> /\ thing' = now /\ todo' = todo \ {First(todo)}
    BY <2>1, ContinueDoes
  <2>3. CASE Step.do # "create"
    <3>1. Step.do \in {"write", "delete"} /\ (Present' => Present /\ thing'.shows = thing.shows)
      BY <2>1, <2>2, <2>3, CarriedIs DEF Present
    <3> QED
      BY <1>7, <2>1, <2>2, <3>1
  <2>4. CASE Step.do = "create"
    <3>1. op = "create" /\ recorded = None /\ thing'.shows = ~res.lags
      BY <2>1, <2>2, <2>4, CarriedIs
    <3>2. ASSUME res.lags, NEW j \in DOMAIN res.create, Confirms(res, j)
          PROVE  j \in todo'
      <4>1. First(todo) \in todo /\ First(todo) \in DOMAIN res.create /\ First(todo) \in Nat
        BY <2>1, <3>1, AtHand DEF Program
      <4>2. First(todo) < j
        BY <2>4, <3>1, <3>2, <4>1 DEF Confirms, Step, Program
      <4>3. j \in Nat
        BY <3>1, <2>1, Programmed DEF Program, Running
      <4>4. ~(j < First(todo))
        BY <4>1, <4>2, <4>3
      <4>5. j \in todo
        BY <1>s, <3>1, <3>2, <4>1, <4>4 DEF Looks
      <4> QED
        BY <2>2, <4>1, <4>2, <4>5
    <3> QED
      BY <1>p, <2>2, <3>1, <3>2 DEF ShowsOK, Looks
  <2> QED
    BY <2>3, <2>4
<1>9. CASE Passing
  <2>1. UNCHANGED <<op, recorded, thing>> /\ todo' = todo \ {First(todo)} /\ Running /\ Passable
    BY <1>9, ContinueDoes DEF Passing
  <2>2. \/ Step.do \notin {"look", "await"}
        \/ Step.absent # "fails"
        \/ thing.shows
    BY <2>1 DEF Passable, Misses, Found
  <2> QED
    BY <1>7, <2>1, <2>2 DEF Present
<1>10. CASE Ends
  <2>1. UNCHANGED <<op, recorded, thing>> /\ Running /\ Step.absent = "ends"
    BY <1>10, EndsDoes DEF Ends
  <2>2. ~(op = "create" /\ res.lags)
    <3>1. First(todo) \in DOMAIN Program(op)
      BY <2>1, AtHand
    <3> QED
      BY <2>1, <3>1 DEF Step, Program, LawfulOK, Lawful, CreateConfirms
  <2>3. Looks'
    BY <1>p, <2>1, <2>2 DEF Looks
  <2> QED
    BY <1>0, <2>1, <2>3 DEF Present
<1>11. CASE Skip
  <2>1. /\ UNCHANGED <<op, recorded, thing>> /\ Running /\ Step.live # {}
        /\ todo' = {i \in todo : i >= First(todo) + Step.span}
    BY <1>11, SkipDoes
  <2>2. Looks'
    <3> SUFFICES ASSUME op = "create", res.lags, NEW j \in DOMAIN res.create, Confirms(res, j)
                 PROVE  j \in todo' \/ ((Present' => thing'.shows) /\ \A i \in todo' : j < i)
      BY <1>p, <2>1 DEF Looks
    <3>1. ASSUME j \in todo
          PROVE  j \in todo'
      BY <1>11, <3>1, UnskippedStays DEF Confirms, Program
    <3> QED
      BY <1>s, <2>1, <3>1 DEF Looks, Present
  <2> QED
    BY <1>0, <2>1, <2>2 DEF Present
<1>12. CASE Breaks
  <2>1. PICK how, now : Fail(how, now) /\ (now = thing \/ Carried(now)) /\ Running
    BY <1>12 DEF Breaks
  <2>2. now \in Things
    BY <2>1, ThingTypes DEF Carried
  <2>3. /\ recorded' = recorded /\ op' \in {"idle", "cleanup"}
        /\ thing'.is = now.is /\ thing'.shows = now.shows
    BY <2>1, <2>2, FailDoes
  <2>4. CASE now = thing \/ Step.do # "create"
    <3>1. Present' => Present /\ thing'.shows = thing.shows
      BY <2>1, <2>3, <2>4, CarriedIs DEF Present
    <3> QED
      BY <1>0, <1>i, <2>3, <3>1
  <2>5. CASE now # thing /\ Step.do = "create"
    <3>1. recorded = None /\ now.shows = ~res.lags
      BY <2>1, <2>5, CarriedIs
    <3> QED
      BY <1>p, <1>i, <2>3, <3>1 DEF ShowsOK
  <2> QED
    BY <2>4, <2>5
<1> QED
  BY <1>1, <1>2, <1>3, <1>4, <1>5, <1>6, <1>8, <1>9, <1>10, <1>11, <1>12, StepKinds
-----------------------------------------------------------------------------
\* The name.

LEMMA RewrittenHas ==
  ASSUME LawfulOK, TypeOK, PlaceOK, Running, NEW f \in res.inputs
  PROVE  Rewritten.has[f] =
           IF Sends(Step, f)
           THEN Written(Step.sends[f], thing.has[f], Prior[f], Wanted[f], thing.known[f])
           ELSE thing.has[f]
<1> DEFINE has == [g \in res.inputs |->
                     IF g \in DOMAIN Step.sends
                     THEN Written(Step.sends[g], Busied(thing).has[g], Prior[g], Wanted[g],
                                  thing.known[g])
                     ELSE Busied(thing).has[g]]
<1>1. Busied(thing) \in Things /\ Busied(thing).has = thing.has
  BY ThingTypes DEF Busied, Things
<1>2. Rewritten = [Busied(thing) EXCEPT
                     !.version = IF Step.match # "none" THEN "answered" ELSE @, !.has = has]
  BY DEF Rewritten
<1>3. has[f] = IF f \in DOMAIN Step.sends
               THEN Written(Step.sends[f], thing.has[f], Prior[f], Wanted[f], thing.known[f])
               ELSE thing.has[f]
  BY <1>1
<1> HIDE DEF has
<1>4. Rewritten.has = has
  BY <1>1, <1>2 DEF Things
<1> QED
  BY <1>3, <1>4 DEF Sends

LEMMA MadeHas ==
  ASSUME NEW f \in res.inputs
  PROVE  Made.has[f] = IF Sends(Step, f) THEN Wanted[f] ELSE {}
<1> DEFINE has == [g \in res.inputs |-> IF g \in DOMAIN Step.sends THEN Wanted[g] ELSE {}]
           new == [is |-> "settled", shows |-> ~res.lags, version |-> "recorded",
                   known |-> Unset, has |-> has]
<1>1. has[f] = IF Sends(Step, f) THEN Wanted[f] ELSE {}
  BY DEF Sends
<1>2. Made = Busied(new)
  BY DEF Made
<1> HIDE DEF has
<1>3. Busied(new).has = has
  BY DEF Busied
<1> QED
  BY <1>1, <1>2, <1>3

\* A rename passes its guards while the object has the old name.
LEMMA RenamesPass ==
  ASSUME res.name \in res.inputs, NEW u \in DOMAIN res.update, Renames(res, u),
         NEW wanted, NEW prior, NEW has,
         wanted[res.name] # prior[res.name], has[res.name] = prior[res.name]
  PROVE  \A t \in res.update[u].when : Passes(t, wanted, prior, has)
<1> SUFFICES ASSUME NEW t \in res.update[u].when
             PROVE  Passes(t, wanted, prior, has)
  OBVIOUS
<1>1. t.test \in {"changed", "differs", "drifted"} /\ res.name \in t.of
  BY DEF Renames
<1> QED
  BY <1>1, AnotherName

LEMMA NameInit == Init => NameOK
<1> SUFFICES ASSUME Init
             PROVE  thing.is = "absent"
  BY DEF NameOK, Present
<1> QED
  BY DEF Init, Nothing

LEMMA NameNext == LawfulOK /\ TypeOK /\ PlaceOK /\ NameOK /\ [Next]_vars => NameOK'
<1> DEFINE n == res.name
<1>p. ASSUME [Next]_vars
      PROVE  res' = res
  BY <1>p, ResStays
<1> SUFFICES ASSUME LawfulOK, TypeOK, PlaceOK, NameOK, [Next]_vars, n # "", Present'
             PROVE  KeepsName' /\ GetsName' /\ ChangesName'
  BY <1>p DEF NameOK
<1>r. res' = res
  BY <1>p
<1>k. /\ n \in res.inputs /\ n \in res.required /\ res.cleanup = << >>
      /\ \A i \in DOMAIN res.create : res.create[i].absent # "ends"
      /\ \A i \in DOMAIN res.update : res.update[i].absent # "ends"
      /\ \E c \in DOMAIN res.create : MakesNamed(res, c)
      /\ \A i \in DOMAIN res.create : Sends(res.create[i], n) <=> res.create[i].do = "create"
      /\ \A i \in DOMAIN res.update :
           Sends(res.update[i], n) => res.update[i].sends[n] \in {"put", "replace"}
      /\ \E u \in DOMAIN res.update : Renames(res, u)
      /\ \A i \in DOMAIN res.delete : ~Sends(res.delete[i], n)
  BY DEF LawfulOK, Lawful, NameIsKept
<1>o. op # "cleanup" /\ op \in {"idle", "create", "update", "delete"}
  BY <1>k DEF PlaceOK, TypeOK
<1>s. Present => KeepsName /\ GetsName /\ ChangesName
  BY DEF NameOK
<1>i. ASSUME op' = "idle", recorded' = None \/ KeepsName'
      PROVE  KeepsName' /\ GetsName' /\ ChangesName'
  BY <1>i DEF KeepsName, GetsName, ChangesName
<1>0. ASSUME UNCHANGED <<op, goal, recorded, torn>>, Present, thing'.has[n] = thing.has[n],
             op = "create" =>
               \A c \in DOMAIN res.create : c \in todo /\ MakesNamed(res, c) => c \in todo',
             op = "update" =>
               \A u \in DOMAIN res.update : u \in todo /\ Renames(res, u) => u \in todo'
      PROVE  KeepsName' /\ GetsName' /\ ChangesName'
  <2>1. KeepsName'
    BY <1>0, <1>r, <1>s DEF KeepsName
  <2>2. GetsName'
    BY <1>0, <1>r, <1>s DEF GetsName
  <2>3. ChangesName'
    BY <1>0, <1>r, <1>s DEF ChangesName
  <2> QED
    BY <2>1, <2>2, <2>3
<1>1. CASE Begin
  <2>1. /\ UNCHANGED <<thing, recorded, goal, torn>> /\ op = "idle" /\ op' = Due
        /\ todo' = Applicable(Due, Wanted, Prior) /\ Due \in {"create", "update", "delete"}
        /\ Present
    BY <1>1 DEF Begin, runtimeVars, Due, Present
  <2>2. KeepsName'
    BY <1>r, <1>s, <2>1 DEF KeepsName
  <2>3. GetsName'
    <3> SUFFICES ASSUME op' = "create", NEW c \in DOMAIN res.create, MakesNamed(res, c)
                 PROVE  c \in todo'
      BY <1>r DEF GetsName
    <3>1. Due = "create" /\ Program(Due) = res.create /\ res.create[c].when = {}
      BY <2>1 DEF MakesNamed, Program
    <3> QED
      BY <2>1, <3>1, ApplicableIs
  <2>4. ChangesName'
    <3> SUFFICES ASSUME op' = "update", ~torn, goal[n] # recorded[n],
                        NEW u \in DOMAIN res.update, Renames(res, u)
                 PROVE  u \in todo'
      <4>1. Due = "update" => recorded # None
        BY DEF Due
      <4> QED
        BY <1>r, <1>s, <2>1, <4>1 DEF ChangesName, KeepsName
    <3>1. /\ Due = "update" /\ Program(Due) = res.update
          /\ Wanted = goal /\ Prior = recorded /\ recorded # None
      BY <2>1 DEF Program, Due, Wanted, Prior
    <3>2. thing.has[n] = recorded[n]
      BY <1>s, <2>1, <3>1 DEF KeepsName
    <3>3. \A t \in res.update[u].when : Passes(t, Wanted, Prior, thing.has)
      BY <1>k, <3>1, <3>2, RenamesPass
    <3> QED
      BY <2>1, <3>1, <3>3, ApplicableIs
  <2> QED
    BY <2>2, <2>3, <2>4
<1>2. CASE Finish
  <2>1. /\ op' = "idle" /\ thing'.is = thing.is /\ thing'.has = thing.has /\ todo = {}
        /\ recorded' = IF op \in {"create", "update"} THEN goal ELSE None
        /\ torn' = (torn /\ Unlike(thing, recorded'))
    BY <1>2 DEF Finish, Succeed, TypeOK
  <2>2. Present
    BY <2>1 DEF Present
  <2>3. CASE op = "create"
    <3>1. thing.has[n] = goal[n]
      BY <1>k, <1>s, <2>1, <2>2, <2>3 DEF GetsName
    <3> QED
      BY <1>i, <1>r, <2>1, <2>3, <3>1 DEF KeepsName
  <2>4. CASE op = "update"
    <3>1. ASSUME ~torn'
          PROVE  thing.has[n] = goal[n]
      <4>1. CASE torn
        BY <2>1, <2>2, <2>4, <3>1, <4>1 DEF Unlike, Present
      <4>2. CASE ~torn
        BY <1>k, <1>s, <2>1, <2>2, <2>4, <4>2 DEF ChangesName
      <4> QED
        BY <4>1, <4>2
    <3> QED
      BY <1>i, <1>r, <2>1, <2>4, <3>1 DEF KeepsName
  <2>5. CASE op \notin {"create", "update"}
    BY <1>i, <2>1, <2>5
  <2> QED
    BY <2>3, <2>4, <2>5
<1>3. CASE Crash
  <2>1. /\ op' = "idle" /\ thing'.is = thing.is /\ thing'.has = thing.has /\ recorded' = recorded
        /\ torn' = (torn \/ Unlike(thing, recorded))
    BY <1>3 DEF Crash, Unanswered, TypeOK, runtimeVars
  <2>2. KeepsName'
    BY <1>r, <2>1 DEF KeepsName, Unlike, Present
  <2> QED
    BY <1>i, <2>1, <2>2
<1>4. CASE Breaks
  <2>1. PICK how, now : Fail(how, now) /\ (now = thing \/ Carried(now)) /\ Running
    BY <1>4 DEF Breaks
  <2>2. now \in Things
    BY <2>1, ThingTypes DEF Carried
  <2>3. /\ op' = "idle" /\ thing'.is = now.is /\ thing'.has = now.has /\ recorded' = recorded
        /\ torn' = (torn \/ Unlike(now, recorded))
    BY <1>k, <2>1, <2>2, FailDoes
  <2>4. KeepsName'
    BY <1>r, <2>3 DEF KeepsName, Unlike, Present
  <2> QED
    BY <1>i, <2>3, <2>4
<1>5. CASE Drift
  BY <1>5, <1>i DEF Drift
<1>6. CASE ChangeGoal \/ Vanish
  <2>1. UNCHANGED <<op, recorded, torn, thing>> /\ op = "idle"
    <3>1. ~Vanish
      <4>1. Nothing.is = "absent" /\ thing'.is # "absent"
        BY DEF Nothing, Present
      <4> QED
        BY <4>1 DEF Vanish
    <3> QED
      BY <1>6, <3>1 DEF ChangeGoal
  <2>2. KeepsName'
    BY <1>r, <1>s, <2>1 DEF KeepsName, Present
  <2> QED
    BY <1>i, <2>1, <2>2
<1>7. CASE Settle \/ Show \/ UNCHANGED vars
  <2>1. /\ UNCHANGED <<op, goal, recorded, torn, todo>>
        /\ Present /\ thing'.has = thing.has
    <3>1. CASE Settle
      <4>1. thing.is \in {"busy", "going"} /\ thing' # Nothing
        BY <3>1 DEF Settle, Present, Nothing
      <4>2. thing' = [thing EXCEPT !.is = "settled"]
        BY <3>1, <4>1 DEF Settle
      <4> QED
        BY <3>1, <4>1, <4>2 DEF Settle, runtimeVars, Present, TypeOK
    <3>2. CASE Show
      BY <3>2 DEF Show, runtimeVars, Present, TypeOK
    <3>3. CASE UNCHANGED vars
      BY <3>3 DEF vars, Present
    <3> QED
      BY <1>7, <3>1, <3>2, <3>3
  <2> QED
    BY <1>0, <2>1
<1>8. CASE Calls
  <2>1. PICK now : Carried(now) /\ Continue(now) /\ Running
    BY <1>8 DEF Calls
  <2>2. /\ UNCHANGED <<op, goal, recorded, torn>> /\ thing' = now
        /\ todo' = todo \ {First(todo)}
    BY <2>1, ContinueDoes
  <2>3. First(todo) \in DOMAIN Program(op) /\ op # "idle"
    BY <2>1, AtHand
  <2>4. CASE Step.do = "create"
    <3>1. op = "create" /\ now = Made /\ Wanted = goal /\ Program(op) = res.create
      BY <2>1, <2>4, CarriedIs DEF Wanted, PlaceOK, Program
    <3>2. Sends(Step, n)
      BY <1>k, <2>3, <2>4, <3>1 DEF Step
    <3>3. now.has[n] = goal[n]
      BY <1>k, <3>1, <3>2, MadeHas
    <3> QED
      BY <1>r, <2>2, <3>1, <3>3 DEF KeepsName, GetsName, ChangesName
  <2>5. CASE Step.do = "delete"
    <3>1. Present /\ thing'.has = thing.has
      BY <2>1, <2>2, <2>5, CarriedIs DEF Present
    <3> QED
      BY <1>0, <2>2, <2>5, <3>1 DEF MakesNamed, Renames, Step, Program
  <2>6. CASE Step.do = "write" /\ ~Sends(Step, n)
    <3>1. Present /\ thing'.has[n] = thing.has[n]
      BY <1>k, <2>1, <2>2, <2>6, CarriedIs, RewrittenHas DEF Present
    <3> QED
      BY <1>0, <2>2, <2>6, <3>1 DEF MakesNamed, Renames, Step, Program
  <2>7. CASE Step.do = "write" /\ Sends(Step, n)
    <3>1. op = "update" /\ Program(op) = res.update
      BY <1>k, <1>o, <2>3, <2>7 DEF Step, Program
    <3>2. /\ Step.sends[n] \in {"put", "replace"}
          /\ Wanted = goal /\ Prior = recorded
      BY <1>k, <2>3, <2>7, <3>1 DEF Step, Wanted, Prior, PlaceOK
    <3>3. /\ now = Rewritten /\ Present
          /\ Rewritten.has[n] = Written(Step.sends[n], thing.has[n], Prior[n], Wanted[n], thing.known[n])
      BY <1>k, <2>1, <2>7, CarriedIs, RewrittenHas
    <3>4. ASSUME ~torn
          PROVE  now.has[n] = goal[n]
      BY <1>s, <3>1, <3>2, <3>3, <3>4 DEF Written, ChangesName
    <3> QED
      BY <1>r, <2>2, <3>1, <3>4 DEF KeepsName, GetsName, ChangesName
  <2> QED
    BY <2>1, <2>4, <2>5, <2>6, <2>7 DEF Carried
<1>9. CASE Passing
  <2>1. /\ UNCHANGED <<op, goal, recorded, torn, thing>> /\ Running /\ Passable
        /\ todo' = todo \ {First(todo)}
    BY <1>9, ContinueDoes DEF Passing
  <2>2. /\ Step.do # "create"
        /\ Step.do = "write" => Step.absent = "fine" \/ Step.going = "fine"
    BY <2>1 DEF Passable, Misses
  <2> QED
    BY <1>0, <2>1, <2>2 DEF MakesNamed, Renames, Step, Program, Present
<1>10. CASE Ends
  <2>1. UNCHANGED <<op, goal, recorded, torn, thing>> /\ Running /\ Step.absent = "ends"
    BY <1>10, EndsDoes DEF Ends
  <2>2. op \notin {"create", "update"}
    <3>1. First(todo) \in DOMAIN Program(op)
      BY <2>1, AtHand
    <3> QED
      BY <1>k, <2>1, <3>1 DEF Step, Program
  <2> QED
    BY <1>0, <2>1, <2>2 DEF Present
<1>11. CASE Skip
  <2>1. /\ UNCHANGED <<op, goal, recorded, torn, thing>> /\ Running /\ Step.live # {}
        /\ todo' = {i \in todo : i >= First(todo) + Step.span}
    BY <1>11, SkipDoes
  <2>2. ASSUME NEW j \in todo, Unskipped(Program(op), 0, j)
        PROVE  j \in todo'
    BY <1>11, <2>2, UnskippedStays
  <2> QED
    BY <1>0, <2>1, <2>2 DEF MakesNamed, Renames, Program, Present
<1> QED
  BY <1>1, <1>2, <1>3, <1>4, <1>5, <1>6, <1>7, <1>8, <1>9, <1>10, <1>11, StepKinds
-----------------------------------------------------------------------------
\* The end of the object.

\* Whatever handle a step uses, it finds what is there.
LEMMA InReach ==
  ASSUME LawfulOK, TypeOK, PlaceOK, ShowsOK, NameOK,
         Present, op \in {"delete", "cleanup"}, ~Excused, NEW by
  PROVE  Found(by)
<1>1. CASE op = "delete"
  <2>1. recorded # None /\ goal = None /\ thing.shows
    BY <1>1 DEF PlaceOK, ShowsOK
  <2>2. Wanted = recorded /\ Prior = recorded
    BY <2>1 DEF Wanted, Prior
  <2>3. res.name # "" => thing.has[res.name] = recorded[res.name]
    BY <1>1, <2>1 DEF Excused, NameOK, KeepsName
  <2> QED
    BY <2>1, <2>2, <2>3 DEF Found, Names, Present
<1>2. CASE op = "cleanup"
  <2>1. res.name = ""
    BY <1>2 DEF PlaceOK, LawfulOK, Lawful, NameIsKept
  <2>2. thing.shows
    BY <1>2 DEF ShowsOK, Excused
  <2> QED
    BY <2>1, <2>2 DEF Found, Names, Present
<1> QED
  BY <1>1, <1>2

\* An operation that leaves nothing begins with such a step.
LEMMA LeavesApply ==
  ASSUME LawfulOK, NEW o \in {"delete", "cleanup"}, NEW F, NEW wanted, NEW prior,
         LeavesNothing(res, Program(o), F), \A f \in F : wanted[f] = {}
  PROVE  \E j \in Applicable(o, wanted, prior) :
           Program(o)[j].do = LastStep(res) /\ Unskipped(Program(o), 0, j)
<1>1. PICK j \in DOMAIN Program(o) :
        Program(o)[j].do = LastStep(res) /\ CertainlyMade(Program(o), j, F)
  BY DEF LeavesNothing
<1>2. F \in SUBSET res.inputs
  BY DEF LeavesNothing
<1> QED
  BY <1>1, <1>2, CertainApply

LEMMA BeginsAhead ==
  ASSUME LawfulOK, NEW o \in {"delete", "cleanup"}, NEW F, NEW wanted, NEW prior,
         LeavesNothing(res, Program(o), F), \A f \in F : wanted[f] = {},
         res' = res, op' = o, todo' = Applicable(o, wanted, prior)
  PROVE  LastOK'
<1>1. PICK j \in Applicable(o, wanted, prior) :
        Program(o)[j].do = LastStep(res) /\ Unskipped(Program(o), 0, j)
  BY LeavesApply
<1>2. Program(op)' = Program(o) /\ Program(o) \in Programs(res)
  BY DEF Program, Programs
<1>3. DOMAIN Program(o) \subseteq Nat \ {0}
  BY <1>2 DEF LawfulOK, Lawful, Spelled
<1>4. ASSUME NEW s \in todo'
      PROVE  s \in DOMAIN Program(o) /\ 0 < s
  <2>1. s \in DOMAIN Program(o)
    BY <1>4, ApplicableIs
  <2>2. s \in Nat /\ s # 0
    BY <1>3, <2>1
  <2> QED
    BY <2>1, <2>2
<1>5. Ahead(j)'
  BY <1>1, <1>2, <1>4 DEF Ahead, Unskipped
<1>6. LastStep(res)' = LastStep(res)
  OBVIOUS
<1> QED
  BY <1>1, <1>2, <1>5, <1>6 DEF LastOK

LEMMA SlowIs ==
  ASSUME LawfulOK, TypeOK, PlaceOK, Running, Step.do = "delete", Step.call \in res.slow
  PROVE  DeletesSlowly(res)
  BY AtHand, Programmed DEF DeletesSlowly, Step

LEMMA GoingInit == Init => GoingOK /\ LastOK
<1> SUFFICES ASSUME Init
             PROVE  thing.is = "absent"
  BY DEF GoingOK, LastOK, Present
<1> QED
  BY DEF Init, Nothing

LEMMA GoingNext == LawfulOK /\ TypeOK /\ PlaceOK /\ GoingOK /\ [Next]_vars => GoingOK'
<1> SUFFICES ASSUME LawfulOK, TypeOK, PlaceOK, GoingOK, [Next]_vars, thing'.is = "going"
             PROVE  DeletesSlowly(res)
  BY ResStays DEF GoingOK
<1>0. ASSUME thing.is = "going"
      PROVE  DeletesSlowly(res)
  BY <1>0 DEF GoingOK
<1>1. ASSUME Running, NEW now, Carried(now), now.is = "going"
      PROVE  DeletesSlowly(res)
  BY <1>0, <1>1, CarriedIs, SlowIs
<1>2. CASE Begin \/ Drift \/ ChangeGoal \/ UNCHANGED vars
  BY <1>0, <1>2 DEF Begin, Drift, ChangeGoal, vars
<1>3. CASE Finish \/ Crash
  BY <1>0, <1>3 DEF Finish, Succeed, Crash, Unanswered, TypeOK
<1>4. CASE Vanish \/ Settle \/ Show
  BY <1>0, <1>4 DEF Vanish, Settle, Show, Nothing, TypeOK
<1>5. CASE Calls
  BY <1>1, <1>5, ContinueDoes DEF Calls
<1>6. CASE Passing \/ Ends \/ Skip
  BY <1>0, <1>6, ContinueDoes, EndsDoes, SkipDoes DEF Passing
<1>7. CASE Breaks
  <2>1. PICK how, now : Fail(how, now) /\ (now = thing \/ Carried(now)) /\ Running
    BY <1>7 DEF Breaks
  <2>2. now \in Things
    BY <2>1, ThingTypes DEF Carried
  <2>3. now.is = "going"
    BY <2>1, <2>2, FailDoes
  <2> QED
    BY <1>0, <1>1, <2>1, <2>3
<1> QED
  BY <1>2, <1>3, <1>4, <1>5, <1>6, <1>7, StepKinds

LEMMA LastNext ==
  LawfulOK /\ TypeOK /\ PlaceOK /\ ShowsOK /\ NameOK /\ GoingOK /\ LastOK /\ [Next]_vars => LastOK'
<1> SUFFICES ASSUME LawfulOK, TypeOK, PlaceOK, ShowsOK, NameOK, GoingOK, LastOK, [Next]_vars
             PROVE  LastOK'
  OBVIOUS
<1>p. res' = res
  BY ResStays
<1>q. \A o : Program(o)' = Program(o)
  BY <1>p DEF Program
<1>i. ASSUME op' \notin {"delete", "cleanup"}
      PROVE  LastOK'
  BY <1>i DEF LastOK
<1>0. ASSUME UNCHANGED <<op, recorded, torn>>, Present' => Present,
             ASSUME NEW j \in todo, Program(op)[j].do = LastStep(res), Ahead(j),
                    Present, Present', op \in {"delete", "cleanup"}, ~Excused
             PROVE  Ahead(j)'
      PROVE  LastOK'
  <2> SUFFICES ASSUME Present', op \in {"delete", "cleanup"}, ~Excused
               PROVE  \E j \in todo' : Program(op)[j].do = LastStep(res) /\ Ahead(j)'
    BY <1>0, <1>p, <1>q DEF LastOK, Excused
  <2>1. PICK j \in todo : Program(op)[j].do = LastStep(res) /\ Ahead(j)
    BY <1>0 DEF LastOK
  <2>2. Ahead(j)'
    BY <1>0, <2>1
  <2> QED
    BY <2>1, <2>2 DEF Ahead
<1>1. CASE Begin
  <2>1. CASE Due = "delete"
    <3>1. /\ recorded # None /\ goal = None /\ UNCHANGED recorded
          /\ op' = "delete" /\ todo' = Applicable("delete", recorded, Prior)
      BY <1>1, <2>1 DEF Begin, Due, Wanted, runtimeVars
    <3>2. CASE \E f \in res.keeps : recorded[f] # {}
      BY <1>p, <3>1, <3>2 DEF LastOK, Excused
    <3>3. CASE \A f \in res.keeps : recorded[f] = {}
      <4>1. res.keeps \cap res.required = {}
        BY <3>1, <3>3 DEF TypeOK, Inputs
      <4>2. LeavesNothing(res, Program("delete"), res.keeps)
        BY <4>1 DEF Program, LawfulOK, Lawful, DeleteLeavesNothing
      <4> QED
        BY <1>p, <3>1, <3>3, <4>2, BeginsAhead
    <3> QED
      BY <3>2, <3>3
  <2>2. CASE Due # "delete"
    BY <1>1, <1>i, <2>2 DEF Begin, Due
  <2> QED
    BY <2>1, <2>2
<1>2. CASE Finish \/ Crash
  BY <1>2, <1>i DEF Finish, Succeed, Crash
<1>3. CASE Drift \/ ChangeGoal \/ Vanish
  BY <1>3, <1>i DEF Drift, ChangeGoal, Vanish
<1>4. CASE Settle \/ Show \/ UNCHANGED vars
  <2>1. UNCHANGED <<op, todo, recorded, torn>> /\ (Present' => Present)
    BY <1>4 DEF Settle, Show, vars, runtimeVars, Present
  <2>2. \A j : Ahead(j) => Ahead(j)'
    BY <1>q, <2>1 DEF Ahead
  <2> QED
    BY <1>0, <2>1, <2>2
<1>5. CASE Breaks
  <2>1. PICK how, now : Fail(how, now) /\ (now = thing \/ Carried(now)) /\ Running
    BY <1>5 DEF Breaks
  <2>2. now \in Things
    BY <2>1, ThingTypes DEF Carried
  <2>3. CASE op' = "idle"
    BY <1>i, <2>3
  <2>4. CASE op' = "cleanup" /\ res.cleanup # << >> /\ todo' = Applicable("cleanup", Wanted, Prior)
    <3>1. LeavesNothing(res, Program("cleanup"), {})
      BY <2>4 DEF Program, LawfulOK, Lawful, DeleteLeavesNothing
    <3> QED
      BY <1>p, <2>4, <3>1, BeginsAhead
  <2> QED
    BY <2>1, <2>2, <2>3, <2>4, FailDoes
<1>6. CASE Calls
  <2>1. PICK now : Carried(now) /\ Continue(now) /\ Running
    BY <1>6 DEF Calls
  <2>2. /\ UNCHANGED <<op, recorded, torn>> /\ thing' = now /\ todo' = todo \ {First(todo)}
    BY <2>1, ContinueDoes
  <2>3. CASE Step.do = "create"
    BY <1>i, <2>1, <2>2, <2>3, OnlyCreate
  <2>4. CASE Step.do # "create"
    <3>1. Present' => Present
      BY <2>1, <2>2, <2>4, CarriedIs DEF Present
    <3>2. ASSUME NEW j \in todo, Program(op)[j].do = LastStep(res), Ahead(j), Present'
          PROVE  Ahead(j)'
      <4>1. j # First(todo)
        <5> SUFFICES ASSUME Step.do = LastStep(res)
                     PROVE  FALSE
          BY <3>2 DEF Step
        <5>1. Step.do = "delete" /\ ~DeletesSlowly(res)
          BY <2>1 DEF LastStep, Carried
        <5>2. Step.call \notin res.slow
          BY <2>1, <5>1, SlowIs
        <5> QED
          BY <2>1, <2>2, <3>2, <5>1, <5>2, CarriedIs DEF Present
      <4> QED
        BY <1>p, <2>1, <2>2, <3>2, <4>1, AheadStays
    <3> QED
      BY <1>0, <2>2, <3>1, <3>2
  <2> QED
    BY <2>3, <2>4
<1>7. CASE Passing
  <2>1. /\ UNCHANGED <<op, recorded, torn, thing>> /\ Running /\ Passable
        /\ todo' = todo \ {First(todo)}
    BY <1>7, ContinueDoes DEF Passing
  <2>2. ASSUME NEW j \in todo, Program(op)[j].do = LastStep(res), Ahead(j),
               Present, op \in {"delete", "cleanup"}, ~Excused
        PROVE  Ahead(j)'
    <3>1. j # First(todo)
      <4> SUFFICES ASSUME Step.do = LastStep(res)
                   PROVE  FALSE
        BY <2>2 DEF Step
      <4>1. Found(Step.by) /\ Names(Step.by) /\ thing.is # "absent"
        BY <2>2, InReach DEF Found
      <4>2. CASE Step.do = "gone"
        BY <2>1, <4>1, <4>2 DEF Passable, Misses
      <4>3. CASE Step.do = "delete"
        <5>1. ~DeletesSlowly(res)
          BY <4>3 DEF LastStep
        <5>2. thing.is # "going"
          BY <5>1 DEF GoingOK
        <5> QED
          BY <2>1, <4>1, <4>3, <5>2 DEF Passable, Misses
      <4> QED
        BY <4>2, <4>3 DEF LastStep
    <3> QED
      BY <1>p, <2>1, <2>2, <3>1, AheadStays
  <2> QED
    BY <1>0, <2>1, <2>2 DEF Present
<1>8. CASE Ends
  <2>1. UNCHANGED <<op, recorded, torn, thing>> /\ Misses
    BY <1>8, EndsDoes DEF Ends
  <2>2. ~(Present /\ op \in {"delete", "cleanup"} /\ ~Excused)
    BY <2>1, InReach DEF Misses
  <2> QED
    BY <1>0, <2>1, <2>2 DEF Present
<1>9. CASE Skip
  <2>1. /\ UNCHANGED <<op, recorded, torn, thing>> /\ Running /\ Step.live # {}
        /\ todo' = {i \in todo : i >= First(todo) + Step.span}
    BY <1>9, SkipDoes
  <2>2. \A j : Ahead(j) => Ahead(j)'
    BY <1>p, <2>1, AheadStays
  <2> QED
    BY <1>0, <2>1, <2>2 DEF Present
<1> QED
  BY <1>1, <1>2, <1>3, <1>4, <1>5, <1>6, <1>7, <1>8, <1>9, StepKinds
-----------------------------------------------------------------------------
\* A guard, by some of the inputs.

LEMMA OnIs ==
  ASSUME NEW K \in SUBSET res.inputs, NEW t
  PROVE  /\ On(t, res.inputs, K).test = t.test /\ On(t, res.inputs, K).orGone = t.orGone
         /\ On(t, res.inputs, K).of \cap K = t.of \cap K
         /\ On(t, res.inputs, K).of \ (t.of \cap K) = t.of \ (t.of \cap res.inputs)
  BY DEF On

LEMMA CertainPasses ==
  ASSUME NEW K \in SUBSET res.inputs, NEW t, t.test \in Tests,
         NEW wanted \in Inputs, NEW prior, NEW has,
         Certain(res, t, [h \in K |-> prior[h]], [h \in K |-> wanted[h]])
  PROVE  Passes(t, wanted, prior, has)
<1> DEFINE W == [h \in K |-> wanted[h]]
           B == [h \in K |-> prior[h]]
           o == On(t, res.inputs, K)
           F == t.of \cap K
           I == t.of \cap res.inputs
<1>1. o.test = t.test /\ o.orGone = t.orGone /\ o.of \cap K = F /\ o.of \ F = t.of \ I
  BY OnIs
<1>2. F \subseteq I /\ \A f \in F : W[f] = wanted[f] /\ B[f] = prior[f]
  OBVIOUS
<1>3. /\ DOMAIN W = K /\ t.test \notin {"over", "under", "has", "already"} /\ (t.test \in OfEach => I = F)
      /\ (t.test = "given" /\ I \cap res.required # {}) \/ Holds(o, K, W, B, W)
  BY DEF Certain
<1>4. CASE t.test = "given" /\ I \cap res.required # {}
  BY <1>4 DEF Inputs, Passes, Holds
<1>5. CASE Holds(o, K, W, B, W)
  <2> HIDE DEF W, B, o, F, I
  <2> USE <1>1, <1>2, <1>3, <1>5
  <2>1. CASE t.test \in {"given", "absent"}
    BY <2>1 DEF Holds, Passes, OfEach, I
  <2>2. CASE t.test \in {"changed", "changedTo", "removed", "recorded", "introduced"}
    BY <2>2 DEF Holds, Passes, I
  <2>3. CASE t.test \in {"kept", "unedited", "unintroduced"}
    BY <2>3 DEF Holds, Passes, OfEach, I
  <2>5. CASE t.test \in {"added", "dropped", "differs"}
    BY <2>5 DEF Holds, Passes, I
  <2>6. CASE t.test \in {"raised", "lowered"}
    BY <2>6 DEF Holds, Passes, I
  <2>4. CASE t.test \in {"drifted", "astray"}
    BY <2>4 DEF Holds, Passes, I
  <2> QED
    BY <2>1, <2>2, <2>3, <2>4, <2>5, <2>6 DEF Tests
<1> QED
  BY <1>3, <1>4, <1>5

LEMMA PassesPossible ==
  ASSUME NEW K \in SUBSET res.inputs, NEW t, t.test \in Tests,
         NEW wanted, NEW prior, NEW has, Passes(t, wanted, prior, has)
  PROVE  Possible(res, t, [h \in K |-> prior[h]], [h \in K |-> wanted[h]])
<1> DEFINE W == [h \in K |-> wanted[h]]
           B == [h \in K |-> prior[h]]
           o == On(t, res.inputs, K)
           F == t.of \cap K
           I == t.of \cap res.inputs
<1>1. o.test = t.test /\ o.orGone = t.orGone /\ o.of \cap K = F /\ o.of \ F = t.of \ I
  BY OnIs
<1>2. F \subseteq I /\ \A f \in F : W[f] = wanted[f] /\ B[f] = prior[f]
  OBVIOUS
<1>3. SUFFICES ASSUME t.test \notin Sees, t.test \in OfEach \/ I = F
               PROVE  Holds(o, K, W, B, W)
  <2>1. DOMAIN W = K /\ F = I \cap K
    OBVIOUS
  <2> QED
    BY <2>1 DEF Possible
<1> HIDE DEF W, B, o, F, I
<1> USE <1>1, <1>2, <1>3
<1>4. CASE t.test \in {"kept", "unedited", "unintroduced"}
  BY <1>4 DEF Holds, Passes, I
<1>5. CASE t.test = "absent"
  BY <1>5 DEF Holds, Passes, I
<1>6. CASE t.test = "given"
  BY <1>6 DEF Holds, Passes, OfEach, I
<1>7. CASE t.test \in {"changed", "changedTo", "removed", "recorded", "introduced"}
  BY <1>7 DEF Holds, Passes, OfEach, I
<1>8. CASE t.test \in {"added", "dropped", "raised", "lowered"}
  BY <1>8 DEF Holds, Passes, OfEach, I
<1> QED
  BY <1>4, <1>5, <1>6, <1>7, <1>8 DEF Tests, Sees

LEMMA ShownPasses ==
  ASSUME NEW K \in SUBSET res.inputs, NEW f \in K, NEW t, t.test \in Tests,
         NEW wanted \in Inputs, NEW prior, NEW has,
         Shown(res, t, f, has[f], [h \in K |-> prior[h]], [h \in K |-> wanted[h]])
  PROVE  Passes(t, wanted, prior, has)
<1> DEFINE W == [h \in K |-> wanted[h]]
           B == [h \in K |-> prior[h]]
           o == On(t, res.inputs, {f})
           H == [h \in {f} |-> has[f]]
           I == t.of \cap res.inputs
<1>1. CASE Certain(res, t, B, W)
  BY <1>1, CertainPasses
<1>2. CASE /\ t.test \in {"differs", "drifted", "astray", "over", "under", "has"}
           /\ Holds(o, {f}, W, B, H)
  <2>1. o.test = t.test /\ o.orGone = t.orGone /\ o.of \cap {f} = t.of \cap {f}
    BY OnIs
  <2>2. W[f] = wanted[f] /\ B[f] = prior[f] /\ H[f] = has[f] /\ (f \in t.of => f \in I)
    OBVIOUS
  <2> HIDE DEF W, B, o, H, I
  <2> QED
    BY <1>2, <2>1, <2>2 DEF Holds, Passes, I
<1> QED
  BY <1>1, <1>2 DEF Shown, Sees

\* What an operation that makes or changes the object knows.
LEMMA Knowing ==
  ASSUME TypeOK, PlaceOK, op \in {"create", "update"}
  PROVE  /\ Wanted = goal /\ goal # None /\ Wanted \in Inputs /\ Wanted \in Sets /\ Prior \in Sets
         /\ op = "create" => Prior = Unset
         /\ op = "update" => Prior = recorded /\ recorded # None /\ recorded \in Inputs
<1>1. goal # None /\ goal \in Inputs
  BY DEF TypeOK, PlaceOK
<1>2. op # "idle"
  OBVIOUS
<1> QED
  BY <1>1, <1>2, WantedTypes DEF TypeOK, PlaceOK, Wanted, Prior

LEMMA KnowingStays ==
  ASSUME UNCHANGED <<goal, recorded, res>>
  PROVE  /\ Wanted' = Wanted /\ Prior' = Prior
         /\ \A K : Before(K)' = Before(K) /\ Asked(K)' = Asked(K)
<1>1. Wanted' = Wanted /\ Prior' = Prior
  BY DEF Wanted, Prior, Unset
<1> QED
  BY <1>1 DEF Before, Asked

LEMMA Tested ==
  ASSUME LawfulOK, NEW p \in Programs(res), NEW i \in DOMAIN p
  PROVE  \A t \in p[i].when \cup p[i].live : t.test \in Tests
  BY DEF LawfulOK, Lawful, Spelled

\* A guard that fails, where guards only fail if it is right.
LEMMA SureHolds ==
  ASSUME NEW K \in SUBSET res.inputs, NEW f \in K, NEW e, NEW guards,
         Wanted \in Inputs, thing.has[f] \in Contents,
         Sure(res, guards, f, Before(K), Asked(K), e),
         NEW t \in guards, t.test \in Tests, ~Passes(t, Wanted, Prior, thing.has)
  PROVE  Holding(f, e)
<1>1. ~Shown(res, t, f, thing.has[f], Before(K), Asked(K))
  BY ShownPasses DEF Before, Asked
<1>2. Asked(K)[f] = Wanted[f]
  BY DEF Asked
<1> QED
  BY <1>1, <1>2 DEF Sure, Holding

\* A call that may be made, and does no harm.
LEMMA Harmless ==
  ASSUME LawfulOK, TypeOK, PlaceOK, MayOK, Running, op \in {"create", "update"},
         NEW K \in SUBSET res.inputs, NEW f \in K, NEW e,
         Unhurt(res, Step, f, Before(K), Asked(K), e), Holding(f, e),
         NEW now, Carried(now), now.is # "absent", Step.do # "create"
  PROVE  Right(now.has[f], Wanted[f], e)
<1>1. CASE Step.do = "delete"
  BY <1>1, CarriedIs DEF Holding
<1>2. CASE Step.do = "write" /\ ~Sends(Step, f)
  BY <1>2, CarriedIs, RewrittenHas DEF Holding
<1>3. CASE Step.do = "write" /\ Sends(Step, f)
  <2>1. now.has[f] = Written(Step.sends[f], thing.has[f], Prior[f], Wanted[f], thing.known[f])
    BY <1>3, CarriedIs, RewrittenHas
  <2>2. \A t \in Step.when : Possible(res, t, Before(K), Asked(K))
    BY AtHand DEF MayOK, Step
  <2>3. Before(K)[f] = Prior[f] /\ Asked(K)[f] = Wanted[f]
    BY DEF Before, Asked
  <2>4. thing.has[f] \in Contents /\ thing.known[f] \in Contents
    BY DEF TypeOK, Contents
  <2> QED
    BY <1>3, <2>1, <2>2, <2>3, <2>4 DEF Unhurt, Holding
<1> QED
  BY <1>1, <1>2, <1>3 DEF Carried

\* A step that makes an input right, when it is made.
LEMMA Fixing ==
  ASSUME LawfulOK, TypeOK, PlaceOK, Running, op # "idle",
         NEW K \in SUBSET res.inputs, NEW f \in K, NEW e,
         Fixes(Step, f, Before(K), Asked(K), e)
  PROVE  /\ Step.do = "write"
         /\ \A now : Carried(now) => Right(now.has[f], Wanted[f], e)
         /\ Step.absent = "fails" \/ Found("id") => ~Passable
<1>1. /\ Step.do = "write" /\ Sends(Step, f) /\ Step.going # "fine" /\ Step.absent # "ends"
      /\ Step.absent = "fine" => Step.by = "id" /\ ~Step.strict
      /\ \A v, k \in Contents :
           Right(Written(Step.sends[f], v, Before(K)[f], Asked(K)[f], k), Asked(K)[f], e)
  BY DEF Fixes
<1>2. Before(K)[f] = Prior[f] /\ Asked(K)[f] = Wanted[f]
  BY DEF Before, Asked
<1>3. thing.has[f] \in Contents /\ thing.known[f] \in Contents
  BY DEF TypeOK, Contents
<1>4. ASSUME NEW now, Carried(now)
      PROVE  Right(now.has[f], Wanted[f], e)
  <2>1. now.has[f] = Written(Step.sends[f], thing.has[f], Prior[f], Wanted[f], thing.known[f])
    BY <1>1, <1>4, CarriedIs, RewrittenHas
  <2> QED
    BY <1>1, <1>2, <1>3, <2>1
<1>5. ASSUME Step.absent = "fails" \/ Found("id")
      PROVE  ~Passable
  BY <1>1, <1>5 DEF Passable, Misses
<1> QED
  BY <1>1, <1>4, <1>5

\* So does one that settles it.
LEMMA Settling ==
  ASSUME LawfulOK, TypeOK, PlaceOK, Running, op # "idle",
         NEW K \in SUBSET res.inputs, NEW f \in K, NEW e,
         Settles(res, Program(op), First(todo), f, Before(K), Asked(K), e)
  PROVE  /\ Step.do = "write"
         /\ \A now : Carried(now) => Right(now.has[f], Wanted[f], e)
         /\ Step.absent = "fails" \/ Found("id") => ~Passable
<1>1. Fixes(Step, f, Before(K), Asked(K), e)
  BY DEF Settles, Step
<1> QED
  BY <1>1, Fixing

\* A step passed over, because AWS shows that it is not needed.
LEMMA PassedOver ==
  ASSUME LawfulOK, TypeOK, PlaceOK, Skip, op \in {"create", "update"},
         NEW K \in SUBSET res.inputs, NEW f \in K, NEW e, NEW j \in todo, j \notin todo',
         Settles(res, Program(op), j, f, Before(K), Asked(K), e)
  PROVE  Holding(f, e) /\ \A k \in todo' : j < k
<1>1. /\ Running /\ todo' = {i \in todo : i >= First(todo) + Step.span}
      /\ \E t \in Step.live : ~Passes(t, Wanted, Prior, thing.has)
  BY SkipDoes DEF Skip
<1>2. /\ todo \subseteq Nat /\ First(todo) \in todo /\ First(todo) \in Nat
      /\ \A i \in todo : First(todo) <= i
      /\ First(todo) \in DOMAIN Program(op) /\ Program(op) \in Programs(res)
  BY <1>1, AtHand, Programmed
<1>3. Step.span \in Nat /\ \A t \in Step.live : t.test \in Tests
  BY <1>2, Tested DEF Step, LawfulOK, Lawful, Spelled
<1>4. First(todo) <= j /\ First(todo) + Step.span > j
  BY <1>1, <1>2, <1>3
<1>5. \A k \in todo' : j < k
  BY <1>1, <1>2, <1>3, <1>4
<1>6. Sure(res, Step.live, f, Before(K), Asked(K), e)
  BY <1>1, <1>2, <1>4 DEF Settles, Step
<1>7. Wanted \in Inputs /\ thing.has[f] \in Contents
  BY Knowing DEF TypeOK, Contents
<1> QED
  BY <1>1, <1>3, <1>5, <1>6, <1>7, SureHolds

-----------------------------------------------------------------------------
\* What the steps leave of what success rests on.

LEMMA BeginDoes ==
  ASSUME Begin
  PROVE  /\ UNCHANGED <<res, goal, recorded, thing, made, torn, turned>>
         /\ op = "idle" /\ op' = Due /\ Due \in {"create", "update", "delete"}
         /\ todo' = Applicable(Due, Wanted, Prior)
  BY DEF Begin, Due, chosenVars, runtimeVars

LEMMA FinishDoes ==
  ASSUME TypeOK, Finish
  PROVE  /\ op # "idle" /\ op' = "idle" /\ todo = {} /\ todo' = {} /\ made' = FALSE
         /\ UNCHANGED <<res, goal>> /\ thing'.is = thing.is /\ thing'.has = thing.has
         /\ recorded' = IF op \in {"create", "update"} THEN goal ELSE None
         /\ torn' = (torn /\ Unlike(thing, recorded'))
         /\ turned' = (turned /\ Unlike(thing, recorded'))
  BY DEF Finish, Succeed, TypeOK, chosenVars

LEMMA CrashDoes ==
  ASSUME TypeOK, Crash
  PROVE  /\ op' = "idle" /\ todo' = {} /\ made' = FALSE
         /\ UNCHANGED <<res, goal, recorded, turned>> /\ thing'.is = thing.is /\ thing'.has = thing.has
         /\ torn' = (torn \/ Unlike(thing, recorded))
  BY DEF Crash, Unanswered, TypeOK, chosenVars, runtimeVars

LEMMA BreaksDoes ==
  ASSUME LawfulOK, TypeOK, PlaceOK, Breaks
  PROVE  /\ Running /\ UNCHANGED <<res, goal, recorded, turned>> /\ made' = FALSE
         /\ \/ op' = "idle" /\ todo' = {}
            \/ op = "create" /\ op' = "cleanup"
         /\ \E now : /\ now = thing \/ Carried(now)
                     /\ thing'.is = now.is /\ thing'.has = now.has
                     /\ torn' = (torn \/ Unlike(now, recorded))
<1>1. PICK how, now : Fail(how, now) /\ (now = thing \/ Carried(now)) /\ Running
  BY DEF Breaks
<1>2. now \in Things
  BY <1>1, ThingTypes DEF Carried
<1> QED
  BY <1>1, <1>2, FailDoes

LEMMA AsideDoes ==
  ASSUME TypeOK, Settle \/ Show \/ UNCHANGED vars
  PROVE  /\ UNCHANGED <<res, op, todo, goal, recorded, made, torn, turned>>
         /\ Present' => Present /\ thing'.has = thing.has
<1>1. CASE Settle
  <2>1. CASE thing.is = "busy"
    BY <1>1, <2>1 DEF Settle, Quietly, chosenVars, runtimeVars, Present, TypeOK
  <2>2. CASE thing.is # "busy"
    BY <1>1, <2>2 DEF Settle, Quietly, chosenVars, runtimeVars, Present, Nothing
  <2> QED
    BY <2>1, <2>2
<1>2. CASE Show
  BY <1>2 DEF Show, Quietly, chosenVars, runtimeVars, Present, TypeOK
<1>3. CASE UNCHANGED vars
  BY <1>3 DEF vars, Present
<1> QED
  BY <1>1, <1>2, <1>3

LEMMA BetweenDoes ==
  ASSUME Drift \/ ChangeGoal \/ Vanish
  PROVE  /\ op = "idle" /\ op' = "idle" /\ UNCHANGED <<res, todo, made, torn>>
         /\ \/ Drift /\ recorded' = None /\ UNCHANGED <<goal, thing, turned>>
            \/ /\ ChangeGoal /\ UNCHANGED <<recorded, thing>> /\ turned' = (turned \/ torn)
               /\ goal' # None /\ Wanted # None =>
                    \A f \in res.inputs \cap res.replace : goal'[f] = Wanted[f]
            \/ Vanish /\ ~Present' /\ UNCHANGED <<goal, recorded, turned>>
  BY DEF Drift, ChangeGoal, Vanish, Quietly, chosenVars, runtimeVars, Present, Nothing

\* A step that goes on to the next.
LEMMA GoesOn ==
  ASSUME LawfulOK, TypeOK, PlaceOK, Calls \/ Passing \/ Ends \/ Skip
  PROVE  /\ Running /\ Onward /\ todo' \subseteq todo
         /\ UNCHANGED <<res, op, goal, recorded, torn, turned>>
<1>1. Running /\ Onward /\ UNCHANGED <<res, op, goal, recorded, torn, turned>>
  BY ContinueDoes, EndsDoes, SkipDoes DEF Calls, Passing, Ends, Onward
<1> QED
  BY <1>1, StaysClosed

LEMMA RuntimeNext == LawfulOK /\ TypeOK /\ PlaceOK /\ RuntimeOK /\ [Next]_vars => RuntimeOK'
<1> SUFFICES ASSUME LawfulOK, TypeOK, PlaceOK, RuntimeOK, [Next]_vars
             PROVE  RuntimeOK'
  OBVIOUS
<1>1. CASE Begin
  BY <1>1, BeginDoes DEF RuntimeOK, Due
<1>t. turned => torn
  BY DEF RuntimeOK
<1>2. CASE Finish
  <2>1. turned' => torn'
    BY <1>2, <1>t, FinishDoes
  <2>2. recorded' \in {goal, None} /\ goal' = goal /\ op' = "idle"
    BY <1>2, FinishDoes
  <2> QED
    BY <2>1, <2>2 DEF RuntimeOK
<1>3. CASE Crash
  <2>1. turned' => torn'
    BY <1>3, <1>t, CrashDoes
  <2>2. UNCHANGED <<res, goal, recorded>> /\ op' = "idle"
    BY <1>3, CrashDoes
  <2> QED
    BY <2>1, <2>2 DEF RuntimeOK
<1>4. CASE Drift \/ ChangeGoal \/ Vanish
  <2>1. UNCHANGED <<res, torn>> /\ op' = "idle" /\ recorded' \in {recorded, None}
    BY <1>4, BetweenDoes
  <2>2. turned' => torn'
    BY <1>4, <1>t, BetweenDoes
  <2>3. ASSUME recorded' # None, goal' # None
        PROVE  \A f \in res.inputs \cap res.replace : goal'[f] = recorded'[f]
    <3>1. recorded' = recorded
      BY <2>1, <2>3
    <3>2. CASE goal' = goal
      BY <2>3, <3>1, <3>2 DEF RuntimeOK
    <3>3. CASE goal' # goal
      <4>1. Wanted # None => \A f \in res.inputs \cap res.replace : goal'[f] = Wanted[f]
        BY <1>4, <2>3, <3>3, BetweenDoes
      <4> QED
        BY <2>3, <3>1, <4>1 DEF RuntimeOK, Wanted
    <3> QED
      BY <3>2, <3>3
  <2> QED
    BY <2>1, <2>2, <2>3 DEF RuntimeOK
<1>5. CASE Settle \/ Show \/ UNCHANGED vars
  BY <1>5, AsideDoes DEF RuntimeOK
<1>6. CASE Calls \/ Passing \/ Ends \/ Skip
  BY <1>6, GoesOn DEF RuntimeOK
<1>7. CASE Breaks
  <2>1. turned' => torn'
    BY <1>7, <1>t, BreaksDoes
  <2>2. UNCHANGED <<res, goal, recorded>> /\ op' # "update"
    BY <1>7, BreaksDoes
  <2> QED
    BY <2>1, <2>2 DEF RuntimeOK
<1> QED
  BY <1>1, <1>2, <1>3, <1>4, <1>5, <1>6, <1>7, StepKinds

\* Of the steps an operation begins with, all that is known of the inputs.
LEMMA MayApply ==
  ASSUME LawfulOK, NEW o \in {"create", "update"}, NEW wanted, NEW prior,
         NEW k \in Applicable(o, wanted, prior), NEW K \in SUBSET res.inputs
  PROVE  \A t \in Program(o)[k].when :
           Possible(res, t, [h \in K |-> prior[h]], [h \in K |-> wanted[h]])
<1>1. k \in DOMAIN Program(o) /\ \A t \in Program(o)[k].when : Passes(t, wanted, prior, thing.has)
  BY ApplicableIs
<1>2. Program(o) \in Programs(res)
  BY DEF Program, Programs
<1>3. \A t \in Program(o)[k].when : t.test \in Tests
  BY <1>1, <1>2, Tested
<1> QED
  BY <1>1, <1>3, PassesPossible

LEMMA MayNext == LawfulOK /\ TypeOK /\ PlaceOK /\ MayOK /\ [Next]_vars => MayOK'
<1> SUFFICES ASSUME LawfulOK, TypeOK, PlaceOK, MayOK, [Next]_vars
             PROVE  MayOK'
  OBVIOUS
<1>p. res' = res /\ \A o : Program(o)' = Program(o)
  BY ResStays DEF Program
<1>i. ASSUME op' \notin {"create", "update"}
      PROVE  MayOK'
  BY <1>i DEF MayOK
<1>0. ASSUME UNCHANGED <<res, op, goal, recorded>>, todo' \subseteq todo
      PROVE  MayOK'
  <2>1. \A K : Before(K)' = Before(K) /\ Asked(K)' = Asked(K)
    BY <1>0, KnowingStays
  <2> QED
    BY <1>0, <1>p, <2>1 DEF MayOK
<1>1. CASE Begin
  <2>1. /\ UNCHANGED <<res, goal, recorded>> /\ op' = Due /\ todo' = Applicable(Due, Wanted, Prior)
    BY <1>1, BeginDoes
  <2>2. \A K : Before(K)' = [h \in K |-> Prior[h]] /\ Asked(K)' = [h \in K |-> Wanted[h]]
    BY <2>1, KnowingStays DEF Before, Asked
  <2>3. CASE Due \in {"create", "update"}
    <3>1. ASSUME NEW K \in SUBSET res.inputs, NEW k \in Applicable(Due, Wanted, Prior)
          PROVE  \A t \in Program(Due)[k].when :
                   Possible(res, t, [h \in K |-> Prior[h]], [h \in K |-> Wanted[h]])
      BY <2>3, <3>1, MayApply
    <3>2. Program(op)' = Program(Due)
      BY <2>1 DEF Program
    <3> QED
      BY <2>1, <2>2, <3>1, <3>2 DEF MayOK
  <2> QED
    BY <1>i, <2>1, <2>3
<1>2. CASE Finish \/ Crash
  BY <1>2, <1>i, FinishDoes, CrashDoes
<1>3. CASE Drift \/ ChangeGoal \/ Vanish
  BY <1>3, <1>i, BetweenDoes
<1>4. CASE Settle \/ Show \/ UNCHANGED vars
  BY <1>4, <1>0, AsideDoes
<1>5. CASE Calls \/ Passing \/ Ends \/ Skip
  BY <1>5, <1>0, GoesOn
<1>6. CASE Breaks
  BY <1>6, <1>i, BreaksDoes
<1> QED
  BY <1>1, <1>2, <1>3, <1>4, <1>5, <1>6, StepKinds

\* Create begins with a step that makes the object.
LEMMA CreatesApply ==
  ASSUME LawfulOK, AppliesOK, NEW wanted, NEW prior
  PROVE  \E c \in Applicable("create", wanted, prior) :
           res.create[c].do = "create" /\ Unskipped(res.create, 0, c)
<1>1. PICK c \in DOMAIN res.create : res.create[c].do = "create" /\ CertainlyMade(res.create, c, {})
  BY DEF AppliesOK, Applies
<1>2. Program("create") = res.create
  BY DEF Program
<1> QED
  BY <1>1, <1>2, CertainApply

LEMMA MadeNext ==
  LawfulOK /\ TypeOK /\ PlaceOK /\ AppliesOK /\ MadeOK /\ [Next]_vars => MadeOK'
<1> SUFFICES ASSUME LawfulOK, TypeOK, PlaceOK, AppliesOK, MadeOK, [Next]_vars
             PROVE  MadeOK'
  OBVIOUS
<1>p. res' = res /\ \A o : Program(o)' = Program(o)
  BY ResStays DEF Program
<1>i. ASSUME op' # "create", ~made'
      PROVE  MadeOK'
  BY <1>i DEF MadeOK
<1>o. op # "create" => ~made
  BY DEF MadeOK
<1>0. ASSUME UNCHANGED <<op, made>>,
             ASSUME NEW c \in todo, op = "create", res.create[c].do = "create", Ahead(c)
             PROVE  Ahead(c)'
      PROVE  MadeOK'
  <2> SUFFICES ASSUME op = "create", ~made
               PROVE  \E c \in todo' : res.create[c].do = "create" /\ Ahead(c)'
    BY <1>0, <1>p DEF MadeOK
  <2>1. PICK c \in todo : res.create[c].do = "create" /\ Ahead(c)
    BY DEF MadeOK
  <2>2. Ahead(c)'
    BY <1>0, <2>1
  <2> QED
    BY <2>1, <2>2 DEF Ahead
<1>1. CASE Begin
  <2>1. op = "idle" /\ op' = Due /\ made' = made /\ todo' = Applicable(Due, Wanted, Prior)
    BY <1>1, BeginDoes
  <2>2. CASE Due = "create"
    <3>1. PICK c \in todo' : res.create[c].do = "create" /\ Unskipped(res.create, 0, c)
      BY <2>1, <2>2, CreatesApply
    <3>2. Program(op)' = res.create /\ res.create \in Programs(res)
      BY <1>p, <2>1, <2>2 DEF Program, Programs
    <3>3. ASSUME NEW s \in todo'
          PROVE  s \in DOMAIN res.create /\ 0 < s
      <4>1. s \in DOMAIN res.create
        BY <2>1, <2>2, <3>3, ApplicableIs DEF Program
      <4>2. s \in Nat /\ s # 0
        BY <3>2, <4>1 DEF LawfulOK, Lawful, Spelled
      <4> QED
        BY <4>1, <4>2
    <3>4. Ahead(c)'
      BY <3>1, <3>2, <3>3 DEF Ahead, Unskipped
    <3> QED
      BY <1>o, <1>p, <2>1, <2>2, <3>1, <3>4 DEF MadeOK
  <2> QED
    BY <1>i, <1>o, <2>1, <2>2
<1>2. CASE Finish \/ Crash
  BY <1>2, <1>i, FinishDoes, CrashDoes
<1>3. CASE Drift \/ ChangeGoal \/ Vanish
  BY <1>3, <1>i, <1>o, BetweenDoes
<1>4. CASE Settle \/ Show \/ UNCHANGED vars
  <2>1. UNCHANGED <<op, made, todo>>
    BY <1>4, AsideDoes
  <2>2. \A c : Ahead(c) => Ahead(c)'
    BY <1>p, <2>1 DEF Ahead
  <2> QED
    BY <1>0, <2>1, <2>2
<1>5. CASE Breaks
  BY <1>5, <1>i, BreaksDoes
<1>6. CASE Calls
  <2>1. /\ Running /\ UNCHANGED op /\ todo' = todo \ {First(todo)}
        /\ made' = IF Step.do = "create" THEN TRUE ELSE made
    BY <1>6, ContinueDoes DEF Calls
  <2>2. CASE Step.do = "create"
    <3>1. op = "create"
      BY <2>1, <2>2, OnlyCreate
    <3> QED
      BY <2>1, <2>2, <3>1 DEF MadeOK
  <2>3. CASE Step.do # "create"
    <3>1. ASSUME NEW c \in todo, op = "create", res.create[c].do = "create", Ahead(c)
          PROVE  Ahead(c)'
      <4>1. c # First(todo)
        BY <2>3, <3>1 DEF Step, Program
      <4> QED
        BY <1>p, <2>1, <3>1, <4>1, AheadStays
    <3> QED
      BY <1>0, <2>1, <2>3, <3>1
  <2> QED
    BY <2>2, <2>3
<1>7. CASE Passing
  <2>1. Running /\ UNCHANGED <<op, made>> /\ todo' = todo \ {First(todo)} /\ Step.do # "create"
    BY <1>7, ContinueDoes DEF Passing, Passable, Misses
  <2>2. ASSUME NEW c \in todo, op = "create", res.create[c].do = "create", Ahead(c)
        PROVE  Ahead(c)'
    <3>1. c # First(todo)
      BY <2>1, <2>2 DEF Step, Program
    <3> QED
      BY <1>p, <2>1, <2>2, <3>1, AheadStays
  <2> QED
    BY <1>0, <2>1, <2>2
<1>8. CASE Ends
  <2>1. Running /\ UNCHANGED <<op, made>> /\ Step.absent = "ends"
    BY <1>8, EndsDoes DEF Ends
  <2>2. op # "create"
    <3>1. First(todo) \in DOMAIN Program(op)
      BY <2>1, AtHand
    <3> QED
      BY <2>1, <3>1 DEF Step, Program, AppliesOK, Applies
  <2> QED
    BY <1>i, <1>o, <2>1, <2>2
<1>9. CASE Skip
  <2>1. /\ UNCHANGED <<op, made>> /\ Running /\ Step.live # {}
        /\ todo' = {i \in todo : i >= First(todo) + Step.span}
    BY <1>9, SkipDoes
  <2>2. \A c : Ahead(c) => Ahead(c)'
    BY <1>p, <2>1, AheadStays
  <2> QED
    BY <1>0, <2>1, <2>2
<1> QED
  BY <1>1, <1>2, <1>3, <1>4, <1>5, <1>6, <1>7, <1>8, <1>9, StepKinds

\* An update that ends because the object is missing ends without an object.
LEMMA EndsAbsent ==
  ASSUME LawfulOK, TypeOK, PlaceOK, ShowsOK, AppliesOK, op = "update", Ends
  PROVE  ~Present
<1>1. Running /\ Misses /\ Step.absent = "ends"
  BY DEF Ends
<1>2. Step.by = "id"
  BY <1>1, AtHand DEF Step, Program, AppliesOK, Applies
<1>3. recorded # None
  BY DEF PlaceOK
<1> QED
  BY <1>1, <1>2, <1>3 DEF Misses, Found, Names, ShowsOK, Present

LEMMA RejectNext ==
  LawfulOK /\ TypeOK /\ PlaceOK /\ ShowsOK /\ AppliesOK /\ RejectOK /\ [Next]_vars => RejectOK'
<1> SUFFICES ASSUME LawfulOK, TypeOK, PlaceOK, ShowsOK, AppliesOK, RejectOK, [Next]_vars
             PROVE  RejectOK'
  OBVIOUS
<1>p. res' = res
  BY ResStays
<1>i. ASSUME op' # "update" \/ ~Present'
      PROVE  RejectOK'
  BY <1>i DEF RejectOK
<1>0. ASSUME UNCHANGED <<op, goal, recorded>>, Present' => Present,
             ASSUME op = "update", NEW i \in todo, NEW K \in SUBSET res.inputs,
                    i \in DOMAIN res.update, RejectsAt(res, i, Before(K), Asked(K))
             PROVE  i \in todo'
      PROVE  RejectOK'
  <2>1. \A K : Before(K)' = Before(K) /\ Asked(K)' = Asked(K)
    BY <1>0, <1>p, KnowingStays
  <2> QED
    BY <1>0, <1>p, <2>1 DEF RejectOK
<1>1. CASE Begin
  <2>1. /\ UNCHANGED <<goal, recorded, thing>> /\ op' = Due /\ todo' = Applicable(Due, Wanted, Prior)
    BY <1>1, BeginDoes
  <2>2. \A K : Before(K)' = Before(K) /\ Asked(K)' = Asked(K)
    BY <1>p, <2>1, KnowingStays
  <2>3. CASE Due = "update"
    <3>1. Wanted \in Inputs /\ Program("update") = res.update /\ res.update \in Programs(res)
      BY <2>3 DEF Due, Wanted, TypeOK, Program, Programs
    <3>2. ASSUME NEW K \in SUBSET res.inputs, NEW i \in DOMAIN res.update,
                 RejectsAt(res, i, Before(K), Asked(K))
          PROVE  i \in todo'
      <4>1. \A t \in res.update[i].when : t.test \in Tests /\ Certain(res, t, Before(K), Asked(K))
        BY <3>1, <3>2, Tested DEF RejectsAt
      <4>2. \A t \in res.update[i].when : Passes(t, Wanted, Prior, thing.has)
        BY <3>1, <4>1, CertainPasses DEF Before, Asked
      <4> QED
        BY <2>1, <2>3, <3>1, <4>2, ApplicableIs
    <3> QED
      BY <1>p, <2>2, <3>2 DEF RejectOK
  <2> QED
    BY <1>i, <2>1, <2>3
<1>2. CASE Finish \/ Crash
  BY <1>2, <1>i, FinishDoes, CrashDoes
<1>3. CASE Drift \/ ChangeGoal \/ Vanish
  BY <1>3, <1>i, BetweenDoes
<1>4. CASE Settle \/ Show \/ UNCHANGED vars
  BY <1>4, <1>0, AsideDoes
<1>5. CASE Breaks
  BY <1>5, <1>i, BreaksDoes
<1>6. CASE Calls \/ Passing
  <2>1. Running /\ UNCHANGED <<op, goal, recorded>> /\ todo' = todo \ {First(todo)}
        /\ Step.do # "reject"
    BY <1>6, ContinueDoes DEF Calls, Carried, Passing, Passable, Misses
  <2>2. op = "update" /\ Present' => Present
    BY <1>6, <2>1, CarriedIs, ContinueDoes DEF Calls, Passing, Present
  <2>3. ASSUME op = "update", NEW i \in todo, NEW K \in SUBSET res.inputs,
               RejectsAt(res, i, Before(K), Asked(K))
        PROVE  i \in todo'
    BY <2>1, <2>3 DEF RejectsAt, Step, Program
  <2> QED
    BY <1>0, <1>i, <2>1, <2>2, <2>3
<1>7. CASE Ends
  BY <1>7, <1>i, EndsAbsent, EndsDoes DEF Present
<1>8. CASE Skip
  <2>1. UNCHANGED <<op, goal, recorded, thing>>
    BY <1>8, SkipDoes
  <2>2. ASSUME op = "update", NEW i \in todo, NEW K \in SUBSET res.inputs,
               RejectsAt(res, i, Before(K), Asked(K))
        PROVE  i \in todo'
    BY <1>8, <2>2, UnskippedStays DEF RejectsAt, Program
  <2> QED
    BY <1>0, <2>1, <2>2 DEF Present
<1> QED
  BY <1>1, <1>2, <1>3, <1>4, <1>5, <1>6, <1>7, <1>8, StepKinds

LEMMA UpdateNext ==
  LawfulOK /\ TypeOK /\ PlaceOK /\ ShowsOK /\ AppliesOK /\ MayOK /\ UpdateOK /\ [Next]_vars
    => UpdateOK'
<1>p. ASSUME [Next]_vars
      PROVE  res' = res
  BY <1>p, ResStays
<1> SUFFICES ASSUME LawfulOK, TypeOK, PlaceOK, ShowsOK, AppliesOK, MayOK, UpdateOK, [Next]_vars,
                    op' = "update", Present', NEW K \in SUBSET res.inputs, NEW f \in K,
                    NEW e \in {1, 2}, NEW j \in DOMAIN res.update,
                    Settles(res, res.update, j, f, Before(K)', Asked(K)', e)
             PROVE  \/ j \in todo'
                    \/ /\ Holding(f, e)'
                       /\ \A k \in todo' : ~Tied(res, res.update, k, j, Before(K)', Asked(K)')
  BY <1>p DEF UpdateOK
<1>r. res' = res /\ Program("update") = res.update /\ res.update \in Programs(res)
  BY <1>p DEF Program, Programs
<1>1. CASE Begin
  <2>1. /\ UNCHANGED <<goal, recorded, thing>> /\ Due = "update"
        /\ todo' = Applicable("update", Wanted, Prior)
    BY <1>1, BeginDoes
  <2>2. /\ Wanted \in Inputs /\ thing.has[f] \in Contents
        /\ Wanted' = Wanted /\ Before(K)' = Before(K) /\ Asked(K)' = Asked(K)
    BY <1>r, <2>1, KnowingStays DEF Due, Wanted, TypeOK, Contents
  <2> SUFFICES ASSUME j \notin todo'
               PROVE  Holding(f, e) /\ \A k \in todo' : ~Tied(res, res.update, k, j, Before(K), Asked(K))
    BY <2>1, <2>2 DEF Holding
  <2>3. PICK t \in res.update[j].when : ~Passes(t, Wanted, Prior, thing.has)
    BY <1>r, <2>1, ApplicableIs
  <2>4. t.test \in Tests
    BY <1>r, Tested
  <2>5. Holding(f, e)
    BY <2>2, <2>3, <2>4, SureHolds DEF Settles
  <2>6. ASSUME NEW k \in todo', Tied(res, res.update, k, j, Before(K), Asked(K))
        PROVE  FALSE
    <3>1. \A u \in res.update[k].when : Passes(u, Wanted, Prior, thing.has)
      BY <1>r, <2>1, ApplicableIs
    <3>2. Certain(res, t, Before(K), Asked(K))
      BY <2>3, <2>6, <3>1 DEF Tied
    <3> QED
      BY <2>2, <2>3, <2>4, <3>2, CertainPasses DEF Before, Asked
  <2> QED
    BY <2>5, <2>6
<1>2. CASE Finish \/ Crash \/ Breaks
  BY <1>2, FinishDoes, CrashDoes, BreaksDoes
<1>3. CASE Drift \/ ChangeGoal \/ Vanish
  BY <1>3, BetweenDoes
\* The others go on with the same update.
<1>n. ASSUME UNCHANGED <<op, goal, recorded>>, Present
      PROVE  /\ op = "update" /\ Program(op) = res.update
             /\ Wanted' = Wanted /\ Before(K)' = Before(K) /\ Asked(K)' = Asked(K)
             /\ Settles(res, res.update, j, f, Before(K), Asked(K), e)
             /\ \/ j \in todo
                \/ Holding(f, e) /\ \A k \in todo : ~Tied(res, res.update, k, j, Before(K), Asked(K))
  <2>1. Wanted' = Wanted /\ Before(K)' = Before(K) /\ Asked(K)' = Asked(K)
    BY <1>n, <1>r, KnowingStays
  <2> QED
    BY <1>n, <1>r, <2>1 DEF UpdateOK
<1>4. CASE Settle \/ Show \/ UNCHANGED vars
  <2>1. UNCHANGED <<op, goal, recorded, todo>> /\ Present /\ thing'.has = thing.has
    BY <1>4, AsideDoes
  <2> QED
    BY <1>n, <2>1 DEF Holding
<1>5. CASE Calls
  <2>1. PICK now : Carried(now) /\ Continue(now) /\ Running
    BY <1>5 DEF Calls
  <2>2. UNCHANGED <<op, goal, recorded>> /\ thing' = now /\ todo' = todo \ {First(todo)}
    BY <2>1, ContinueDoes
  <2>3. Step.do # "create" /\ Present /\ now.is # "absent"
    BY <2>1, <2>2, CarriedIs DEF Present
  <2>4. /\ todo \subseteq Nat /\ First(todo) \in todo /\ \A i \in todo : First(todo) <= i
        /\ First(todo) \in DOMAIN res.update /\ Step = res.update[First(todo)]
    BY <1>n, <2>1, <2>2, <2>3, AtHand DEF Step
  <2>5. CASE j = First(todo)
    <3>1. Right(now.has[f], Wanted[f], e)
      BY <1>n, <2>1, <2>2, <2>3, <2>5, Settling
    <3>2. ASSUME NEW k \in todo'
          PROVE  ~(k <= j)
      <4>1. k \in Nat /\ First(todo) \in Nat /\ k # First(todo) /\ First(todo) <= k
        BY <2>2, <2>4
      <4> QED
        BY <2>5, <4>1
    <3> QED
      BY <1>n, <2>2, <2>3, <3>1, <3>2 DEF Holding, Tied
  <2>6. CASE j # First(todo) /\ j \in todo
    BY <2>2, <2>6
  <2>7. CASE j \notin todo
    <3>1. Holding(f, e) /\ \A k \in todo : ~Tied(res, res.update, k, j, Before(K), Asked(K))
      BY <1>n, <2>2, <2>3, <2>7
    <3>2. Unhurt(res, Step, f, Before(K), Asked(K), e)
      BY <1>n, <2>2, <2>3, <2>4, <3>1 DEF Settles
    <3>3. Right(now.has[f], Wanted[f], e)
      BY <1>n, <2>1, <2>2, <2>3, <3>1, <3>2, Harmless
    <3> QED
      BY <1>n, <2>2, <2>3, <3>1, <3>3 DEF Holding
  <2> QED
    BY <2>5, <2>6, <2>7
<1>6. CASE Passing
  <2>1. /\ Running /\ Passable /\ UNCHANGED <<op, goal, recorded, thing>>
        /\ todo' = todo \ {First(todo)} /\ Present
    BY <1>6, ContinueDoes DEF Passing, Present
  <2>2. Found("id")
    BY <1>n, <2>1 DEF PlaceOK, ShowsOK, Found, Names, Present
  <2>3. j # First(todo)
    BY <1>n, <2>1, <2>2, Settling
  <2> QED
    BY <1>n, <2>1, <2>3 DEF Holding
<1>7. CASE Ends
  BY <1>7, EndsAbsent, EndsDoes DEF Present
<1>8. CASE Skip
  <2>1. UNCHANGED <<op, goal, recorded, thing>> /\ Present /\ todo' \subseteq todo
    BY <1>8, SkipDoes DEF Present
  <2>2. CASE j \in todo /\ j \notin todo'
    <3>1. Holding(f, e) /\ \A k \in todo' : j < k
      BY <1>8, <1>n, <2>1, <2>2, PassedOver
    <3>2. todo \subseteq Nat
      BY <1>8, AtHand, SkipDoes
    <3>3. \A k \in todo' : ~(k <= j)
      BY <2>1, <2>2, <3>1, <3>2
    <3> QED
      BY <1>n, <2>1, <3>1, <3>3 DEF Holding, Tied
  <2> QED
    BY <1>n, <2>1, <2>2 DEF Holding
<1> QED
  BY <1>1, <1>2, <1>3, <1>4, <1>5, <1>6, <1>7, <1>8, StepKinds

LEMMA EitherNext ==
  LawfulOK /\ TypeOK /\ PlaceOK /\ ShowsOK /\ AppliesOK /\ MayOK /\ EitherOK /\ [Next]_vars
    => EitherOK'
<1>p. ASSUME [Next]_vars
      PROVE  res' = res
  BY <1>p, ResStays
<1> SUFFICES ASSUME LawfulOK, TypeOK, PlaceOK, ShowsOK, AppliesOK, MayOK, EitherOK, [Next]_vars,
                    op' = "update", Present', NEW K \in SUBSET res.inputs, NEW f \in K,
                    NEW e \in {1, 2}, NEW i \in DOMAIN res.update, NEW j \in DOMAIN res.update,
                    EitherSettles(res, res.update, i, j, f, Before(K)', Asked(K)', e)
             PROVE  i \in todo' \/ j \in todo' \/ Holding(f, e)'
  BY <1>p DEF EitherOK
<1>r. res' = res /\ Program("update") = res.update /\ res.update \in Programs(res)
  BY <1>p DEF Program, Programs
<1>1. CASE Begin
  <2>1. /\ UNCHANGED <<goal, recorded, thing>> /\ Due = "update"
        /\ todo' = Applicable("update", Wanted, Prior)
    BY <1>1, BeginDoes
  <2>2. /\ Wanted \in Inputs /\ thing.has[f] \in Contents
        /\ Wanted' = Wanted /\ Before(K)' = Before(K) /\ Asked(K)' = Asked(K)
    BY <1>r, <2>1, KnowingStays DEF Due, Wanted, TypeOK, Contents
  <2>3. CASE Right(thing.has[f], Asked(K)[f], e)
    BY <2>1, <2>2, <2>3 DEF Holding, Asked
  <2>4. ASSUME NEW k \in {i, j},
               \A t \in res.update[k].when :
                 Shown(res, t, f, thing.has[f], Before(K), Asked(K))
        PROVE  k \in todo'
    <3>1. \A t \in res.update[k].when : t.test \in Tests
      BY <1>r, Tested
    <3>2. \A t \in res.update[k].when : Passes(t, Wanted, Prior, thing.has)
      BY <2>2, <2>4, <3>1, ShownPasses DEF Before, Asked
    <3> QED
      BY <1>r, <2>1, <3>2, ApplicableIs
  <2> QED
    BY <2>2, <2>3, <2>4 DEF EitherSettles
<1>2. CASE Finish \/ Crash \/ Breaks
  BY <1>2, FinishDoes, CrashDoes, BreaksDoes
<1>3. CASE Drift \/ ChangeGoal \/ Vanish
  BY <1>3, BetweenDoes
\* The others go on with the same update.
<1>n. ASSUME UNCHANGED <<op, goal, recorded>>, Present
      PROVE  /\ op = "update" /\ Program(op) = res.update /\ Wanted' = Wanted
             /\ \A k \in {i, j} : /\ Fixes(res.update[k], f, Before(K), Asked(K), e)
                                  /\ res.update[k].absent = "fails"
                                  /\ Unskipped(res.update, 0, k)
             /\ NoneHurts(res, res.update, f, Before(K), Asked(K), e)
             /\ i \in todo \/ j \in todo \/ Holding(f, e)
  <2>1. Wanted' = Wanted /\ Before(K)' = Before(K) /\ Asked(K)' = Asked(K)
    BY <1>n, <1>r, KnowingStays
  <2>2. EitherSettles(res, res.update, i, j, f, Before(K), Asked(K), e)
    BY <2>1
  <2>3. i \in todo \/ j \in todo \/ Holding(f, e)
    BY <1>n, <2>2 DEF EitherOK
  <2> QED
    BY <1>n, <1>r, <2>1, <2>2, <2>3 DEF EitherSettles
<1>4. CASE Settle \/ Show \/ UNCHANGED vars
  <2>1. UNCHANGED <<op, goal, recorded, todo>> /\ Present /\ thing'.has = thing.has
    BY <1>4, AsideDoes
  <2> QED
    BY <1>n, <2>1 DEF Holding
<1>5. CASE Calls
  <2>1. PICK now : Carried(now) /\ Continue(now) /\ Running
    BY <1>5 DEF Calls
  <2>2. UNCHANGED <<op, goal, recorded>> /\ thing' = now /\ todo' = todo \ {First(todo)}
    BY <2>1, ContinueDoes
  <2>3. Step.do # "create" /\ Present /\ now.is # "absent"
    BY <2>1, <2>2, CarriedIs DEF Present
  <2>4. First(todo) \in DOMAIN res.update /\ Step = res.update[First(todo)]
    BY <1>n, <2>1, <2>2, <2>3, AtHand DEF Step
  <2>5. CASE First(todo) \in {i, j}
    <3>1. Fixes(Step, f, Before(K), Asked(K), e)
      BY <1>n, <2>2, <2>3, <2>4, <2>5
    <3>2. Right(now.has[f], Wanted[f], e)
      BY <1>n, <2>1, <2>2, <2>3, <3>1, Fixing
    <3> QED
      BY <1>n, <2>2, <2>3, <3>2 DEF Holding
  <2>6. CASE First(todo) \notin {i, j} /\ (i \in todo \/ j \in todo)
    BY <2>2, <2>6
  <2>7. CASE i \notin todo /\ j \notin todo
    <3>1. Holding(f, e) /\ Unhurt(res, Step, f, Before(K), Asked(K), e)
      BY <1>n, <2>2, <2>3, <2>4, <2>7 DEF NoneHurts
    <3>2. Right(now.has[f], Wanted[f], e)
      BY <1>n, <2>1, <2>2, <2>3, <3>1, Harmless
    <3> QED
      BY <1>n, <2>2, <2>3, <3>2 DEF Holding
  <2> QED
    BY <2>5, <2>6, <2>7
<1>6. CASE Passing
  <2>1. /\ Running /\ Passable /\ UNCHANGED <<op, goal, recorded, thing>>
        /\ todo' = todo \ {First(todo)} /\ Present
    BY <1>6, ContinueDoes DEF Passing, Present
  <2>2. First(todo) \notin {i, j}
    <3>1. ASSUME First(todo) \in {i, j}
          PROVE  FALSE
      <4>1. Fixes(Step, f, Before(K), Asked(K), e) /\ Step.absent = "fails"
        BY <1>n, <2>1, <3>1 DEF Step
      <4> QED
        BY <1>n, <2>1, <4>1, Fixing
    <3> QED
      BY <3>1
  <2> QED
    BY <1>n, <2>1, <2>2 DEF Holding
<1>7. CASE Ends
  BY <1>7, EndsAbsent, EndsDoes DEF Present
<1>8. CASE Skip
  <2>1. UNCHANGED <<op, goal, recorded, thing>> /\ Present
    BY <1>8, SkipDoes DEF Present
  <2>2. \A k \in {i, j} : k \in todo => k \in todo'
    BY <1>8, <1>n, <2>1, UnskippedStays
  <2> QED
    BY <1>n, <2>1, <2>2 DEF Holding
<1> QED
  BY <1>1, <1>2, <1>3, <1>4, <1>5, <1>6, <1>7, <1>8, StepKinds

LEMMA CreateNext ==
  LawfulOK /\ TypeOK /\ PlaceOK /\ AppliesOK /\ MayOK /\ CreateOK /\ [Next]_vars => CreateOK'
<1>p. ASSUME [Next]_vars
      PROVE  res' = res
  BY <1>p, ResStays
<1> SUFFICES ASSUME LawfulOK, TypeOK, PlaceOK, AppliesOK, MayOK, CreateOK, [Next]_vars,
                    op' = "create", NEW K \in SUBSET res.inputs, NEW f \in K,
                    NEW e \in {1, 2}, NEW j \in DOMAIN res.create,
                    SettlesNew(res, j, f, Before(K)', Asked(K)', e)
             PROVE  j \in todo' \/ ((Present' => Holding(f, e)') /\ \A k \in todo' : j < k)
  BY <1>p DEF CreateOK
<1>r. res' = res /\ Program("create") = res.create /\ res.create \in Programs(res)
  BY <1>p DEF Program, Programs
<1>1. CASE Begin
  <2>1. /\ UNCHANGED <<goal, recorded>> /\ Due = "create"
        /\ todo' = Applicable("create", Wanted, Prior)
    BY <1>1, BeginDoes
  <2>2. Wanted \in Inputs /\ Before(K)' = Before(K) /\ Asked(K)' = Asked(K)
    BY <1>r, <2>1, KnowingStays DEF Due, Wanted, TypeOK
  <2>3. \A t \in res.create[j].when : t.test \in Tests /\ Certain(res, t, Before(K), Asked(K))
    BY <1>r, <2>2, Tested DEF SettlesNew
  <2>4. \A t \in res.create[j].when : Passes(t, Wanted, Prior, thing.has)
    BY <2>2, <2>3, CertainPasses DEF Before, Asked
  <2> QED
    BY <1>r, <2>1, <2>4, ApplicableIs
<1>2. CASE Finish \/ Crash \/ Breaks
  BY <1>2, FinishDoes, CrashDoes, BreaksDoes
<1>3. CASE Drift \/ ChangeGoal \/ Vanish
  BY <1>3, BetweenDoes
\* The others go on with the same Create.
<1>n. ASSUME UNCHANGED <<op, goal, recorded>>
      PROVE  /\ op = "create" /\ Program(op) = res.create
             /\ Wanted' = Wanted /\ Before(K)' = Before(K) /\ Asked(K)' = Asked(K)
             /\ Settles(res, res.create, j, f, Before(K), Asked(K), e)
             /\ res.create[j].absent = "fails" /\ res.create[j].do = "write"
             /\ \A c \in DOMAIN res.create : res.create[c].do = "create" => c < j
             /\ j \in todo \/ ((Present => Holding(f, e)) /\ \A k \in todo : j < k)
  <2>1. Wanted' = Wanted /\ Before(K)' = Before(K) /\ Asked(K)' = Asked(K)
    BY <1>n, <1>r, KnowingStays
  <2>2. SettlesNew(res, j, f, Before(K), Asked(K), e)
    BY <2>1
  <2>3. j \in todo \/ ((Present => Holding(f, e)) /\ \A k \in todo : j < k)
    BY <1>n, <2>2 DEF CreateOK
  <2>4. /\ Settles(res, res.create, j, f, Before(K), Asked(K), e)
        /\ res.create[j].absent = "fails"
        /\ \A c \in DOMAIN res.create : res.create[c].do = "create" => c < j
    BY <2>2 DEF SettlesNew
  <2>5. res.create[j].do = "write"
    BY <2>4 DEF Settles, Fixes
  <2> QED
    BY <1>n, <1>r, <2>1, <2>3, <2>4, <2>5
<1>4. CASE Settle \/ Show \/ UNCHANGED vars
  <2>1. /\ UNCHANGED <<op, goal, recorded, todo>>
        /\ Present' => Present /\ thing'.has = thing.has
    BY <1>4, AsideDoes
  <2> QED
    BY <1>n, <2>1 DEF Holding
<1>5. CASE Calls
  <2>1. PICK now : Carried(now) /\ Continue(now) /\ Running
    BY <1>5 DEF Calls
  <2>2. UNCHANGED <<op, goal, recorded>> /\ thing' = now /\ todo' = todo \ {First(todo)}
    BY <2>1, ContinueDoes
  <2>3. /\ todo \subseteq Nat /\ First(todo) \in todo /\ \A i \in todo : First(todo) <= i
        /\ First(todo) \in DOMAIN res.create /\ Step = res.create[First(todo)]
        /\ j \in Nat
    BY <1>n, <2>1, <2>2, AtHand, Programmed DEF Step, Running
  <2>4. CASE Step.do = "create"
    <3>1. First(todo) < j /\ First(todo) \in Nat
      BY <1>n, <2>2, <2>3, <2>4
    <3>2. ~(j < First(todo))
      BY <2>3, <3>1
    <3> QED
      BY <1>n, <2>2, <2>3, <2>4, <3>2
  <2>5. CASE Step.do # "create" /\ j = First(todo)
    <3>1. Right(now.has[f], Wanted[f], e)
      BY <1>n, <2>1, <2>2, <2>5, Settling
    <3>2. ASSUME NEW k \in todo'
          PROVE  j < k
      <4>1. k \in Nat /\ First(todo) \in Nat /\ k # First(todo) /\ First(todo) <= k
        BY <2>2, <2>3
      <4> QED
        BY <2>5, <4>1
    <3> QED
      BY <1>n, <2>2, <3>1, <3>2 DEF Holding
  <2>6. CASE j # First(todo) /\ j \in todo
    BY <2>2, <2>6
  <2>7. CASE Step.do # "create" /\ j \notin todo
    <3>1. (Present => Holding(f, e)) /\ \A k \in todo : j < k
      BY <1>n, <2>2, <2>7
    <3>2. ASSUME Present'
          PROVE  Holding(f, e)'
      <4>1. Present /\ now.is # "absent"
        BY <2>1, <2>2, <2>7, <3>2, CarriedIs DEF Present
      <4>2. ~(First(todo) <= j)
        BY <2>3, <3>1
      <4>3. Unhurt(res, Step, f, Before(K), Asked(K), e)
        BY <1>n, <2>2, <2>3, <4>2 DEF Settles, Tied
      <4>4. Right(now.has[f], Wanted[f], e)
        BY <1>n, <2>1, <2>2, <2>7, <3>1, <4>1, <4>3, Harmless
      <4> QED
        BY <1>n, <2>2, <4>4 DEF Holding
    <3> QED
      BY <2>2, <3>1, <3>2
  <2> QED
    BY <2>4, <2>5, <2>6, <2>7
<1>6. CASE Passing
  <2>1. /\ Running /\ Passable /\ UNCHANGED <<op, goal, recorded, thing>>
        /\ todo' = todo \ {First(todo)}
    BY <1>6, ContinueDoes DEF Passing
  <2>2. j # First(todo)
    <3> SUFFICES ASSUME j = First(todo)
                 PROVE  FALSE
      OBVIOUS
    <3>1. Step.absent = "fails"
      BY <1>n, <2>1 DEF Step
    <3> QED
      BY <1>n, <2>1, <3>1, Settling
  <2> QED
    BY <1>n, <2>1, <2>2 DEF Holding, Present
<1>7. CASE Ends
  <2>1. Running /\ op = "create" /\ Step.absent = "ends"
    BY <1>7, EndsDoes DEF Ends
  <2> QED
    BY <2>1, AtHand DEF Step, Program, AppliesOK, Applies
<1>8. CASE Skip
  <2>1. UNCHANGED <<op, goal, recorded, thing>> /\ todo' \subseteq todo
    BY <1>8, SkipDoes
  <2>2. CASE j \in todo /\ j \notin todo'
    <3>1. Holding(f, e) /\ \A k \in todo' : j < k
      BY <1>8, <1>n, <2>1, <2>2, PassedOver
    <3> QED
      BY <1>n, <2>1, <3>1 DEF Holding
  <2> QED
    BY <1>n, <2>1, <2>2 DEF Holding, Present
<1> QED
  BY <1>1, <1>2, <1>3, <1>4, <1>5, <1>6, <1>7, <1>8, StepKinds

LEMMA BornNext ==
  LawfulOK /\ TypeOK /\ PlaceOK /\ MayOK /\ MadeOK /\ BornOK /\ [Next]_vars => BornOK'
<1>p. ASSUME [Next]_vars
      PROVE  res' = res
  BY <1>p, ResStays
<1> SUFFICES ASSUME LawfulOK, TypeOK, PlaceOK, MayOK, MadeOK, BornOK, [Next]_vars,
                    op' = "create", made', Present', NEW K \in SUBSET res.inputs, NEW f \in K,
                    NEW e \in {1, 2}, MadeRight(res, f, Before(K)', Asked(K)', e)
             PROVE  Holding(f, e)'
  BY <1>p DEF BornOK
<1>r. res' = res
  BY <1>p
<1>1. CASE Begin
  BY <1>1, BeginDoes DEF MadeOK
<1>2. CASE Finish \/ Crash \/ Breaks
  BY <1>2, FinishDoes, CrashDoes, BreaksDoes
<1>3. CASE Drift \/ ChangeGoal \/ Vanish
  BY <1>3, BetweenDoes
\* The others go on with the same Create.
<1>n. ASSUME UNCHANGED <<op, goal, recorded>>
      PROVE  /\ op = "create" /\ Program(op) = res.create
             /\ Wanted' = Wanted /\ Before(K)' = Before(K) /\ Asked(K)' = Asked(K)
             /\ MadeRight(res, f, Before(K), Asked(K), e)
             /\ made /\ Present => Holding(f, e)
  <2>1. Wanted' = Wanted /\ Before(K)' = Before(K) /\ Asked(K)' = Asked(K)
    BY <1>n, <1>r, KnowingStays
  <2> QED
    BY <1>n, <2>1 DEF BornOK, Program
<1>4. CASE Settle \/ Show \/ UNCHANGED vars
  <2>1. UNCHANGED <<op, goal, recorded, made>> /\ Present /\ thing'.has = thing.has
    BY <1>4, AsideDoes
  <2> QED
    BY <1>n, <2>1 DEF Holding
<1>5. CASE Calls
  <2>1. PICK now : Carried(now) /\ Continue(now) /\ Running
    BY <1>5 DEF Calls
  <2>2. UNCHANGED <<op, goal, recorded>> /\ thing' = now /\ now.is # "absent"
    BY <2>1, ContinueDoes DEF Present
  <2>3. First(todo) \in todo /\ First(todo) \in DOMAIN res.create /\ Step = res.create[First(todo)]
    BY <1>n, <2>1, <2>2, AtHand DEF Step
  <2>4. CASE Step.do = "create"
    <3>1. \A t \in Step.when : Possible(res, t, Before(K), Asked(K))
      BY <1>n, <2>2, <2>3 DEF MayOK
    <3>2. Sends(Step, f) \/ e \notin Wanted[f]
      <4>1. Asked(K)[f] = Wanted[f]
        BY DEF Asked
      <4> QED
        BY <1>n, <2>2, <2>3, <2>4, <3>1, <4>1 DEF MadeRight
    <3>3. now.has[f] = IF Sends(Step, f) THEN Wanted[f] ELSE {}
      BY <2>1, <2>4, MadeHas DEF Carried
    <3> QED
      BY <1>n, <2>2, <3>2, <3>3 DEF Holding, Right
  <2>5. CASE Step.do # "create"
    <3>1. made /\ Present
      BY <1>5, <2>1, <2>2, <2>5, CarriedIs DEF Calls, Present
    <3>2. Unhurt(res, Step, f, Before(K), Asked(K), e)
      BY <1>n, <2>2, <2>3 DEF MadeRight, NoneHurts
    <3>3. Right(now.has[f], Wanted[f], e)
      BY <1>n, <2>1, <2>2, <2>5, <3>1, <3>2, Harmless
    <3> QED
      BY <1>n, <2>2, <3>3 DEF Holding
  <2> QED
    BY <2>4, <2>5
<1>6. CASE Passing \/ Ends \/ Skip
  <2>1. UNCHANGED <<op, goal, recorded, thing, made>>
    BY <1>6, ContinueDoes, EndsDoes, SkipDoes DEF Passing
  <2> QED
    BY <1>n, <2>1 DEF Holding, Present
<1> QED
  BY <1>1, <1>2, <1>3, <1>4, <1>5, <1>6, StepKinds

-----------------------------------------------------------------------------
\* An operation that is through has applied every input.

\* What is known of some inputs is known of inputs that the rules speak of.
LEMMA Assigned ==
  ASSUME NEW x \in Inputs, NEW K \in SUBSET res.inputs
  PROVE  [h \in K |-> x[h]] \in Assignments(res, K)
<1>1. \A h \in K : x[h] \in Values /\ (h \in res.required => x[h] # {})
  BY DEF Inputs
<1> QED
  BY <1>1 DEF Assignments

LEMMA UpdateDone ==
  ASSUME TypeOK, PlaceOK, AppliesOK, RuntimeOK, RejectOK, UpdateOK, EitherOK, KeepOK,
         op = "update", todo = {}, Present, ~turned
  PROVE  Holdings(goal)
<1>1. /\ Wanted = goal /\ goal # None /\ Prior = recorded /\ recorded # None
      /\ goal \in Inputs /\ recorded \in Inputs
  BY Knowing
<1> SUFFICES ASSUME NEW f \in res.inputs \ res.gaps, NEW e \in {1, 2}, Owed(res, f, goal[f], e)
             PROVE  Holding(f, e)
  BY <1>1 DEF Holdings, Holding
<1>2. PICK K \in SUBSET res.inputs : f \in K /\ UpdateApplies(res, f, K)
  <2>1. UpdateApplies(res, f, {f}) \/ \E h \in res.inputs : UpdateApplies(res, f, {f, h})
    BY DEF AppliesOK, Applies
  <2>2. CASE UpdateApplies(res, f, {f})
    <3>1. {f} \in SUBSET res.inputs /\ f \in {f}
      OBVIOUS
    <3> QED
      BY <2>2, <3>1
  <2>3. ASSUME NEW h \in res.inputs, UpdateApplies(res, f, {f, h})
        PROVE  \E K \in SUBSET res.inputs : f \in K /\ UpdateApplies(res, f, K)
    <3>1. {f, h} \in SUBSET res.inputs /\ f \in {f, h}
      OBVIOUS
    <3> QED
      BY <2>3, <3>1
  <2> QED
    BY <2>1, <2>2, <2>3
<1>3. Before(K) \in Assignments(res, K) /\ Asked(K) \in Assignments(res, K)
  BY <1>1, Assigned DEF Before, Asked
<1>4. \A h \in K : Before(K)[h] = recorded[h] /\ Asked(K)[h] = goal[h]
  BY <1>1 DEF Before, Asked
<1>5. \A h \in K \cap res.replace : Before(K)[h] = Asked(K)[h]
  BY <1>1, <1>4 DEF RuntimeOK
<1>6. UpdateSettles(res, f, Before(K), Asked(K), e)
  BY <1>2, <1>3, <1>4, <1>5 DEF UpdateApplies
<1>7. ~Rejected(res, Before(K), Asked(K))
  BY DEF RejectOK, Rejected
<1>8. CASE \E j \in DOMAIN res.update : Settles(res, res.update, j, f, Before(K), Asked(K), e)
  BY <1>2, <1>8 DEF UpdateOK
<1>9. CASE /\ Owed(res, f, Before(K)[f], e) /\ Right(Before(K)[f], Asked(K)[f], e)
           /\ NoneHurts(res, res.update, f, Before(K), Asked(K), e)
  <2>1. Owed(res, f, recorded[f], e) /\ Right(recorded[f], goal[f], e)
    BY <1>2, <1>4, <1>9
  <2> QED
    BY <1>1, <1>2, <1>9, <2>1 DEF KeepOK
<1>10. CASE \E i, j \in DOMAIN res.update :
              EitherSettles(res, res.update, i, j, f, Before(K), Asked(K), e)
  BY <1>2, <1>10 DEF EitherOK
<1> QED
  BY <1>6, <1>7, <1>8, <1>9, <1>10 DEF UpdateSettles

LEMMA CreateDone ==
  ASSUME TypeOK, PlaceOK, AppliesOK, MadeOK, CreateOK, BornOK, op = "create", todo = {}, Present
  PROVE  Holdings(goal)
<1>1. Wanted = goal /\ goal \in Inputs /\ Prior = Unset /\ made
  BY Knowing DEF MadeOK, TypeOK
<1> SUFFICES ASSUME NEW f \in res.inputs \ res.gaps, NEW e \in {1, 2}, Owed(res, f, goal[f], e)
             PROVE  Holding(f, e)
  BY <1>1 DEF Holdings, Holding
<1>2. PICK K \in SUBSET res.inputs : f \in K /\ CreateApplies(res, f, K)
  <2>1. CreateApplies(res, f, {f}) \/ \E h \in res.inputs : CreateApplies(res, f, {f, h})
    BY DEF AppliesOK, Applies
  <2>2. CASE CreateApplies(res, f, {f})
    <3>1. {f} \in SUBSET res.inputs /\ f \in {f}
      OBVIOUS
    <3> QED
      BY <2>2, <3>1
  <2>3. ASSUME NEW h \in res.inputs, CreateApplies(res, f, {f, h})
        PROVE  \E K \in SUBSET res.inputs : f \in K /\ CreateApplies(res, f, K)
    <3>1. {f, h} \in SUBSET res.inputs /\ f \in {f, h}
      OBVIOUS
    <3> QED
      BY <2>3, <3>1
  <2> QED
    BY <2>1, <2>2, <2>3
<1>3. Before(K) = [h \in K |-> {}]
  BY <1>1 DEF Before, Unset
<1>4. Asked(K) \in Assignments(res, K) /\ Asked(K)[f] = goal[f]
  BY <1>1, <1>2, Assigned DEF Asked
<1>5. \/ \E j \in DOMAIN res.create : SettlesNew(res, j, f, Before(K), Asked(K), e)
      \/ MadeRight(res, f, Before(K), Asked(K), e)
  BY <1>2, <1>3, <1>4 DEF CreateApplies
<1>6. CASE \E j \in DOMAIN res.create : SettlesNew(res, j, f, Before(K), Asked(K), e)
  BY <1>2, <1>6 DEF CreateOK
<1>7. CASE MadeRight(res, f, Before(K), Asked(K), e)
  BY <1>1, <1>2, <1>7 DEF BornOK
<1> QED
  BY <1>5, <1>6, <1>7

\* Or the object happens to hold just that.
LEMMA LikeHolds ==
  ASSUME NEW x, NEW t, t.is # "absent", ~Unlike(t, x), t.has = thing'.has, UNCHANGED res
  PROVE  \A f \in res.inputs \ res.gaps, e \in {1, 2} : Right(thing'.has[f], x[f], e)
  BY DEF Unlike, Right

LEMMA FinishHolds ==
  ASSUME LawfulOK, TypeOK, PlaceOK, Faithful, Finish, Present', recorded' # None, ~torn' \/ ~turned'
  PROVE  recorded' = goal' /\ Holdings(goal)'
<1>1. /\ op \in {"create", "update"} /\ todo = {} /\ recorded' = goal /\ UNCHANGED <<res, goal>>
      /\ thing'.has = thing.has /\ Present
      /\ torn' = (torn /\ Unlike(thing, goal)) /\ turned' = (turned /\ Unlike(thing, goal))
  BY FinishDoes DEF Present
<1>2. CASE ~Unlike(thing, goal)
  BY <1>1, <1>2, LikeHolds DEF Holdings, Present
<1>3. CASE Unlike(thing, goal)
  <2>1. ~turned
    BY <1>1, <1>3 DEF Faithful, RuntimeOK
  <2>2. Holdings(goal)
    BY <1>1, <2>1, UpdateDone, CreateDone DEF Faithful
  <2> QED
    BY <1>1, <2>2 DEF Holdings
<1> QED
  BY <1>1, <1>2, <1>3

\* A failure leaves what is recorded, or is remembered.
LEMMA FailureHolds ==
  ASSUME LawfulOK, TypeOK, PlaceOK, Crash \/ Breaks, Present', ~torn'
  PROVE  Holdings(recorded)'
<1>1. UNCHANGED <<res, recorded>>
  BY CrashDoes, BreaksDoes
<1>2. PICK now : thing'.is = now.is /\ thing'.has = now.has /\ torn' = (torn \/ Unlike(now, recorded))
  BY CrashDoes, BreaksDoes
<1>3. \A f \in res.inputs \ res.gaps, e \in {1, 2} : Right(thing'.has[f], recorded[f], e)
  BY <1>1, <1>2, LikeHolds DEF Present
<1> QED
  BY <1>1, <1>3 DEF Holdings

LEMMA HeldNext ==
  LawfulOK /\ TypeOK /\ PlaceOK /\ Faithful /\ [Next]_vars => HeldOK'
<1> SUFFICES ASSUME LawfulOK, TypeOK, PlaceOK, Faithful, [Next]_vars,
                    op' = "idle", Present', ~torn', recorded' # None
             PROVE  Holdings(recorded)'
  BY DEF HeldOK
<1>0. ASSUME op = "idle", Present, ~torn, UNCHANGED <<res, recorded>>, thing'.has = thing.has
      PROVE  Holdings(recorded)'
  BY <1>0 DEF Faithful, HeldOK, Holdings
<1>1. CASE Begin
  BY <1>1, BeginDoes
<1>2. CASE Finish
  BY <1>2, FinishHolds DEF Holdings
<1>3. CASE Crash \/ Breaks
  BY <1>3, FailureHolds
<1>4. CASE Drift \/ ChangeGoal \/ Vanish
  BY <1>0, <1>4, BetweenDoes DEF Present
<1>5. CASE Settle \/ Show \/ UNCHANGED vars
  BY <1>0, <1>5, AsideDoes
<1>6. CASE Calls \/ Passing \/ Ends \/ Skip
  BY <1>6, GoesOn DEF Running
<1> QED
  BY <1>1, <1>2, <1>3, <1>4, <1>5, <1>6, StepKinds

LEMMA AppliedNext ==
  LawfulOK /\ TypeOK /\ PlaceOK /\ Faithful /\ [Next]_vars => AppliedOK'
<1> SUFFICES ASSUME LawfulOK, TypeOK, PlaceOK, Faithful, [Next]_vars,
                    op' = "idle", Present', ~turned', recorded' = goal', goal' # None
             PROVE  Holdings(goal)'
  BY DEF AppliedOK
<1>1. CASE Begin
  BY <1>1, BeginDoes
<1>2. CASE Finish
  BY <1>2, FinishHolds
<1>3. CASE Crash \/ Breaks
  <2>1. recorded = goal /\ goal # None /\ op # "idle"
    BY <1>3, CrashDoes, BreaksDoes DEF Crash, Running
  <2> QED
    BY <2>1 DEF PlaceOK, TypeOK, Faithful, RuntimeOK
<1>4. CASE Drift \/ ChangeGoal \/ Vanish
  <2>1. /\ op = "idle" /\ UNCHANGED <<res, recorded, thing>> /\ Present /\ ~torn
    BY <1>4, BetweenDoes DEF Present
  <2>2. Holdings(recorded)
    BY <2>1 DEF Faithful, HeldOK
  <2> QED
    BY <2>1, <2>2 DEF Holdings
<1>5. CASE Settle \/ Show \/ UNCHANGED vars
  <2>1. UNCHANGED <<res, op, goal, recorded, turned>> /\ Present /\ thing'.has = thing.has
    BY <1>5, AsideDoes
  <2>2. Holdings(goal)
    BY <2>1 DEF Faithful, AppliedOK
  <2> QED
    BY <2>1, <2>2 DEF Holdings
<1>6. CASE Calls \/ Passing \/ Ends \/ Skip
  BY <1>6, GoesOn DEF Running
<1> QED
  BY <1>1, <1>2, <1>3, <1>4, <1>5, <1>6, StepKinds

LEMMA KeepNext ==
  LawfulOK /\ TypeOK /\ PlaceOK /\ Faithful /\ [Next]_vars => KeepOK'
<1>p. ASSUME [Next]_vars
      PROVE  res' = res
  BY <1>p, ResStays
<1> SUFFICES ASSUME LawfulOK, TypeOK, PlaceOK, Faithful, [Next]_vars,
                    op' \in {"idle", "update"}, Present', ~turned', recorded' # None, goal' # None,
                    NEW K \in SUBSET res.inputs, NEW f \in K \ res.gaps, NEW e \in {1, 2},
                    Owed(res, f, recorded'[f], e), Right(recorded'[f], goal'[f], e),
                    NoneHurts(res, res.update, f, Before(K)', Asked(K)', e)
             PROVE  Right(thing'.has[f], goal'[f], e)
  <2>1. goal' # None => Wanted' = goal'
    BY DEF Wanted
  <2> QED
    BY <1>p, <2>1 DEF KeepOK, Holding
<1>r. res' = res
  BY <1>p
\* As long as goal and record stay, it is as it was.
<1>0. ASSUME op \in {"idle", "update"}, Present, UNCHANGED <<goal, recorded, turned>>
      PROVE  /\ Holding(f, e) /\ Wanted = goal'
             /\ NoneHurts(res, res.update, f, Before(K), Asked(K), e)
  <2>1. Before(K)' = Before(K) /\ Asked(K)' = Asked(K)
    BY <1>0, <1>r, KnowingStays
  <2> QED
    BY <1>0, <2>1 DEF Faithful, KeepOK, Wanted
<1>1. CASE Begin
  <2>1. UNCHANGED <<goal, recorded, thing, turned>> /\ op = "idle"
    BY <1>1, BeginDoes
  <2> QED
    BY <1>0, <2>1 DEF Holding, Present
<1>2. CASE Finish
  <2>1. recorded' = goal' /\ Holdings(goal)'
    BY <1>2, FinishHolds
  <2> QED
    BY <1>r, <2>1 DEF Holdings
<1>3. CASE Crash
  <2>1. /\ UNCHANGED <<goal, recorded, turned>> /\ Present /\ thing'.has = thing.has /\ op # "idle"
    BY <1>3, CrashDoes DEF Crash, Present
  <2>2. op = "update"
    BY <2>1 DEF PlaceOK, TypeOK
  <2> QED
    BY <1>0, <2>1, <2>2 DEF Holding
\* A call that is carried out in an update.
<1>4. ASSUME op = "update", Running, NEW now, Carried(now), Present, now.is # "absent",
             UNCHANGED <<goal, recorded, turned>>
      PROVE  Right(now.has[f], goal'[f], e)
  <2>1. Holding(f, e) /\ Wanted = goal' /\ NoneHurts(res, res.update, f, Before(K), Asked(K), e)
    BY <1>0, <1>4
  <2>2. Unhurt(res, Step, f, Before(K), Asked(K), e)
    BY <1>4, <2>1, AtHand DEF NoneHurts, Step, Program
  <2>3. Step.do # "create"
    BY <1>4, OnlyCreate
  <2> QED
    BY <1>4, <2>1, <2>2, <2>3, Harmless DEF Faithful
<1>5. CASE Breaks
  <2>1. /\ UNCHANGED <<goal, recorded, turned>> /\ Running
        /\ \E now : (now = thing \/ Carried(now)) /\ thing'.is = now.is /\ thing'.has = now.has
    BY <1>5, BreaksDoes
  <2>2. op = "update"
    BY <2>1 DEF PlaceOK, TypeOK, Running
  <2>3. PICK now : (now = thing \/ Carried(now)) /\ thing'.is = now.is /\ thing'.has = now.has
    BY <2>1
  <2>4. CASE now = thing
    BY <1>0, <2>1, <2>2, <2>3, <2>4 DEF Holding, Present
  <2>5. CASE Carried(now)
    <3>1. Present /\ now.is # "absent"
      BY <2>1, <2>2, <2>3, <2>5, CarriedIs DEF Present
    <3> QED
      BY <1>4, <2>1, <2>2, <2>3, <2>5, <3>1
  <2> QED
    BY <2>3, <2>4, <2>5
<1>6. CASE Drift \/ ChangeGoal \/ Vanish
  <2>1. /\ op = "idle" /\ UNCHANGED <<res, recorded, thing>> /\ Present
        /\ ~torn \/ UNCHANGED <<goal, turned>>
    BY <1>6, BetweenDoes DEF Present
  <2>2. CASE ~torn
    <3>1. Holdings(recorded)
      BY <2>1, <2>2 DEF Faithful, HeldOK
    <3> QED
      BY <2>1, <3>1 DEF Holdings, Right
  <2>3. CASE UNCHANGED <<goal, turned>>
    BY <1>0, <2>1, <2>3 DEF Holding
  <2> QED
    BY <2>1, <2>2, <2>3
<1>7. CASE Settle \/ Show \/ UNCHANGED vars
  <2>1. UNCHANGED <<op, goal, recorded, turned>> /\ Present /\ thing'.has = thing.has
    BY <1>7, AsideDoes
  <2> QED
    BY <1>0, <2>1 DEF Holding
<1>8. CASE Calls
  <2>1. PICK now : Carried(now) /\ Continue(now) /\ Running
    BY <1>8 DEF Calls
  <2>2. UNCHANGED <<op, goal, recorded, turned>> /\ thing' = now /\ op = "update"
    BY <2>1, ContinueDoes DEF Running
  <2>3. Present /\ now.is # "absent"
    BY <2>1, <2>2, CarriedIs DEF Present
  <2> QED
    BY <1>4, <2>1, <2>2, <2>3
<1>9. CASE Passing \/ Ends \/ Skip
  <2>1. UNCHANGED <<op, goal, recorded, turned, thing>>
    BY <1>9, ContinueDoes, EndsDoes, SkipDoes DEF Passing
  <2> QED
    BY <1>0, <2>1 DEF Holding, Present
<1> QED
  BY <1>1, <1>2, <1>3, <1>5, <1>6, <1>7, <1>8, <1>9, StepKinds

LEMMA FaithfulInit == Init => Faithful
<1> SUFFICES ASSUME Init
             PROVE  Faithful
  OBVIOUS
<1>1. AppliesOK
  BY CatalogueAssumption DEF Init, AppliesOK
<1>2. /\ op = "idle" /\ ~Present /\ made = FALSE /\ turned = FALSE /\ recorded = None
  BY DEF Init, Nothing, Present
<1> QED
  BY <1>1, <1>2 DEF Faithful, RuntimeOK, MayOK, MadeOK, RejectOK, UpdateOK, EitherOK, KeepOK,
                    CreateOK, BornOK, HeldOK, AppliedOK

LEMMA FaithfulNext == IInv /\ Faithful /\ [Next]_vars => Faithful'
<1> SUFFICES ASSUME IInv, Faithful, [Next]_vars
             PROVE  Faithful'
  OBVIOUS
<1>1. LawfulOK /\ TypeOK /\ PlaceOK /\ ShowsOK
  BY DEF IInv
<1>2. /\ AppliesOK /\ RuntimeOK /\ MayOK /\ MadeOK /\ RejectOK /\ UpdateOK /\ EitherOK
      /\ KeepOK /\ CreateOK /\ BornOK /\ HeldOK /\ AppliedOK
  BY DEF Faithful
<1>3. AppliesOK'
  BY <1>2, ResStays DEF AppliesOK
<1>4. RuntimeOK' /\ MayOK' /\ MadeOK' /\ RejectOK'
  BY <1>1, <1>2, RuntimeNext, MayNext, MadeNext, RejectNext
<1>5. UpdateOK' /\ EitherOK' /\ CreateOK' /\ BornOK'
  BY <1>1, <1>2, UpdateNext, EitherNext, CreateNext, BornNext
<1>6. KeepOK' /\ HeldOK' /\ AppliedOK'
  BY <1>1, KeepNext, HeldNext, AppliedNext
<1> QED
  BY <1>3, <1>4, <1>5, <1>6 DEF Faithful

\* Every element right, but for what nothing asks for.
LEMMA HoldingsApply ==
  ASSUME TypeOK, goal # None, Holdings(goal), NEW f \in res.inputs \ res.gaps
  PROVE  \/ thing.has[f] = goal[f]
         \/ goal[f] = {} /\ f \in Sticky(res)
         \/ goal[f] \subseteq thing.has[f] /\ f \in Forgetful(res)
<1>1. goal[f] \in SUBSET {1, 2} /\ thing.has[f] \in SUBSET {1, 2}
  BY InputTypes DEF TypeOK, Sets
<1> SUFFICES ASSUME ~(goal[f] = {} /\ f \in Sticky(res))
             PROVE  \/ thing.has[f] = goal[f]
                    \/ goal[f] \subseteq thing.has[f] /\ f \in Forgetful(res)
  OBVIOUS
<1>2. \A e \in {1, 2} : (f \in Forgetful(res) => e \in goal[f]) => (e \in thing.has[f] <=> e \in goal[f])
  BY DEF Holdings, Owed, Right
<1> QED
  BY <1>1, <1>2
-----------------------------------------------------------------------------
\* The theorems.

LEMMA Inductive == IInv /\ [Next]_vars => IInv'
<1> SUFFICES ASSUME IInv, [Next]_vars
             PROVE  IInv'
  OBVIOUS
<1>1. LawfulOK'
  BY ResStays DEF IInv, LawfulOK
<1> QED
  BY <1>1, TypeNext, PlaceNext, OrderNext, GuardNext, EarlyNext, ShowsNext, NameNext,
     GoingNext, LastNext DEF IInv

LEMMA Invariance == Spec => []IInv
<1>1. Init => IInv
  <2> SUFFICES ASSUME Init
               PROVE  IInv
    OBVIOUS
  <2>1. OrderOK /\ GuardOK /\ NeverTooEarly
    BY DEF Init, OrderOK, GuardOK, NeverTooEarly
  <2> QED
    BY <2>1, TypeInit, PlaceInit, ShowsInit, NameInit, GoingInit DEF IInv
<1>2. IInv /\ [Next]_vars => IInv'
  BY Inductive
<1> QED
  BY <1>1, <1>2, PTL DEF Spec

(* The object, the record and the operation have their types, whatever the  *)
(* steps of the programs send: the calls of Create, Update and Delete of    *)
(* every resource.                                                          *)
THEOREM TypeCorrect == Spec => []TypeOK
<1>1. IInv => TypeOK
  BY DEF IInv
<1> QED
  BY <1>1, Invariance, PTL

(* A resource whose code waits after every call that starts a transition    *)
(* (WaitsStand) is never refused for being in one: no interleaving with the *)
(* transition, no retry and no cleanup gets past the wait.                  *)
THEOREM WaitsSuffice == Spec => []NeverTooEarly
<1>1. IInv => NeverTooEarly
  BY DEF IInv
<1> QED
  BY <1>1, Invariance, PTL

(* A resource whose Create looks for what it made, where that may not show  *)
(* at once (CreateConfirms), and whose Update renames whenever the name is  *)
(* another (NameIsKept), is not taken for gone by Read while it is there,   *)
(* unless an update failed half-way.                                        *)
THEOREM PlansSeeWhatIsThere == Spec => NoFalseDrift
<1>1. IInv /\ [Next]_vars => [Drift => thing.is = "absent" \/ torn]_vars
  <2> SUFFICES ASSUME IInv, Drift, Present, ~torn
               PROVE  FALSE
    BY DEF Present
  <2>1. op = "idle" /\ recorded # None /\ ~Found(res.reads)
    BY DEF Drift
  <2>2. thing.shows /\ ~Names(res.reads)
    BY <2>1 DEF IInv, ShowsOK, Found, Present
  <2>3. res.name # "" /\ res.reads = "prior"
    BY <2>2 DEF IInv, LawfulOK, Lawful, NameIsKept, Names
  <2>4. thing.has[res.name] = recorded[res.name]
    BY <2>1, <2>3 DEF IInv, NameOK, KeepsName
  <2> QED
    BY <2>1, <2>2, <2>3, <2>4 DEF Names, Prior
<1> QED
  BY <1>1, Invariance, PTL DEF Spec, NoFalseDrift

(* A resource whose Delete, and cleanup, delete, and wait for the end where *)
(* that takes its time, in a step that no guard passes over                 *)
(* (DeleteLeavesNothing), leaves no object behind when it succeeds.         *)
THEOREM DeletionIsComplete == Spec => DeletedIsGone
<1> DEFINE A == /\ op = "delete" /\ op' = "idle" /\ result' = "done" =>
                     \/ thing'.is = "absent"
                     \/ torn /\ res.name # ""
                     \/ \E f \in res.keeps : recorded[f] # {}
                /\ op = "cleanup" /\ result' = "undone" => thing'.is = "absent" \/ res.lags
<1>1. IInv /\ [Next]_vars => [A]_vars
  <2> SUFFICES ASSUME IInv, [Next]_vars
               PROVE  A
    OBVIOUS
  <2>1. op # "idle" => result = "none"
    BY DEF IInv, PlaceOK
  <2>2. CASE Finish
    <3>1. todo = {} /\ thing'.is = thing.is
      BY <2>2 DEF Finish, Succeed, IInv, TypeOK
    <3>2. op \in {"delete", "cleanup"} => ~Present \/ Excused
      BY <3>1 DEF IInv, LastOK
    <3> QED
      BY <3>1, <3>2 DEF Present, Excused
  <2>3. CASE Begin \/ Crash
    BY <2>3 DEF Begin, Crash
  <2>4. CASE Drift \/ ChangeGoal \/ Vanish \/ Settle \/ Show \/ UNCHANGED vars
    BY <2>1, <2>4 DEF Drift, ChangeGoal, Vanish, Settle, Show, vars
  <2>5. CASE Calls \/ Passing \/ Ends \/ Skip
    BY <2>1, <2>5, ContinueDoes, EndsDoes, SkipDoes DEF Calls, Passing
  <2>6. CASE Breaks
    <3>1. PICK how, now : /\ how \in {"failed", "refused"} /\ Running /\ Fail(how, now)
                          /\ now = thing \/ Carried(now)
      BY <2>6 DEF Breaks
    <3>2. LawfulOK /\ TypeOK /\ PlaceOK
      BY DEF IInv
    <3>3. now \in Things
      BY <3>1, <3>2, ThingTypes DEF Carried
    <3> QED
      BY <2>1, <3>1, <3>2, <3>3, FailDoes DEF Running
  <2> QED
    BY <2>2, <2>3, <2>4, <2>5, <2>6, StepKinds
<1> QED
  BY <1>1, Invariance, PTL DEF Spec, DeletedIsGone

(* A resource whose Create and Update send every input that is not in gaps, *)
(* and send it again unless it is what AWS shows, or nothing of it was      *)
(* changed (Applies), holds what is wanted whenever the runtime finds       *)
(* nothing left to do: after any number of failures, lost answers, crashes  *)
(* and changes of goal, but for a goal taken back after a failed update.    *)
THEOREM SuccessMeansApplied == Spec => []SettledMeansApplied
<1>1. Init => Faithful
  BY FaithfulInit
<1>2. IInv /\ Faithful /\ [Next]_vars => Faithful'
  BY FaithfulNext
<1>3. IInv /\ Faithful => SettledMeansApplied
  <2> SUFFICES ASSUME IInv, Faithful, Settled, goal # None, Present, ~turned,
                      NEW f \in res.inputs \ res.gaps
               PROVE  \/ thing.has[f] = goal[f]
                      \/ goal[f] = {} /\ f \in Sticky(res)
                      \/ goal[f] \subseteq thing.has[f] /\ f \in Forgetful(res)
    BY DEF SettledMeansApplied, Present
  <2>1. Holdings(goal)
    BY DEF Faithful, AppliedOK, Settled
  <2> QED
    BY <2>1, HoldingsApply DEF IInv
<1> QED
  BY <1>1, <1>2, <1>3, Invariance, PTL DEF Spec
=============================================================================
