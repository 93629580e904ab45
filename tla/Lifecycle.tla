----------------------------- MODULE Lifecycle -----------------------------
(***************************************************************************)
(* One resource of the library over its life: what the runtime asks of it, *)
(* the steps its Create, Update and Delete take (its programs, from the    *)
(* catalogues), the AWS object they act on, and what can go wrong between  *)
(* any two of them: a call that fails, a call that is carried out and      *)
(* whose answer is lost, a wait that runs out, a process that dies, an     *)
(* object that someone else deletes.  A failed operation is applied again  *)
(* by the next run, and the wanted inputs may change between runs.         *)
(*                                                                         *)
(* Init chooses the resource and the inputs that vary, so that one run     *)
(* covers the whole Catalogue, a set of resources.                         *)
(***************************************************************************)
EXTENDS Rules

CONSTANTS
  Catalogue,   \* the resources, by name
  None,        \* no inputs: nothing wanted, or nothing recorded
  MaxFaults,   \* bound on failures
  MaxGoals     \* bound on changes of what is wanted

ASSUME BoundsAssumption == MaxFaults \in Nat /\ MaxGoals \in Nat

ASSUME CatalogueAssumption ==
  \A seen \in {Views(Catalogue)} : \A v \in DOMAIN seen : Lawful(seen[v]) /\ Applies(seen[v])

VARIABLES
  view,      \* the name of the resource, and the inputs of it that vary
  res,       \* what the catalogue says of it, as far as they are concerned
  goal,      \* the inputs in the stack, or None
  recorded,  \* the inputs of the last success, or None: runtime.Prior.Inputs
  thing,     \* the AWS object: what it is, whether it shows, what it holds,
             \* and what the recorded outputs know of its version and holdings
  op,        \* the operation in progress
  todo,      \* the steps of it that are left
  result,    \* how the last operation ended
  made,      \* this Create has made the object
  calm,      \* history: the object was in no transition when the operation began
  torn,      \* history: an operation failed and left a difference
  turned,    \* history: the goal changed while torn
  faults, goals

chosenVars == <<view, res>>
runtimeVars == <<goal, recorded, goals>>
vars == <<view, res, goal, recorded, thing, op, todo, result,
          made, calm, torn, turned, faults, goals>>

Inputs == {i \in [res.inputs -> Values] : \A f \in res.required : i[f] # {}}

Unset   == [f \in res.inputs |-> {}]
Nothing == [is |-> "absent", shows |-> FALSE, version |-> "recorded", known |-> Unset, has |-> Unset]

TypeOK ==
  /\ goal \in Inputs \cup {None}
  /\ recorded \in Inputs \cup {None}
  /\ thing \in [is : {"absent", "settled", "busy", "going"}, shows : BOOLEAN,
                version : {"recorded", "answered", "lost"},
                known : [res.inputs -> SUBSET {1, 2}], has : [res.inputs -> SUBSET {1, 2}]]
  /\ op \in {"idle", "create", "update", "delete", "cleanup"}
  /\ result \in {"none", "done", "failed", "refused", "undone"}
  /\ made \in BOOLEAN /\ calm \in BOOLEAN /\ torn \in BOOLEAN /\ turned \in BOOLEAN
  /\ faults \in 0..MaxFaults
  /\ goals \in 0..MaxGoals

Init ==
  /\ \E seen \in {Views(Catalogue)} : view \in DOMAIN seen /\ res = seen[view]
  /\ goal \in {i \in Inputs : \A f \in res.inputs \ Ranked(res) : 2 \notin i[f]}   \* 1 and 2 are alike
  /\ recorded = None
  /\ thing = Nothing
  /\ op = "idle" /\ todo = {} /\ result = "none"
  /\ made = FALSE /\ calm = TRUE /\ torn = FALSE /\ turned = FALSE
  /\ faults = 0 /\ goals = 0

---------------------------------------------------------------------------
(* What a step means.                                                      *)

(* The receiver of the operation: Delete is called on the recorded inputs.  *)
Wanted == IF goal = None THEN recorded ELSE goal
Prior  == IF recorded = None THEN Unset ELSE recorded

(* A guard that compares inputs with inputs is settled for the operation;   *)
(* one that looks at AWS is evaluated when the step is reached.             *)
Passes(t, wanted, prior, has) == Holds(t, res.inputs, wanted, prior, has)

Program(o) ==
  CASE o = "create"  -> res.create
    [] o = "update"  -> res.update
    [] o = "delete"  -> res.delete
    [] o = "cleanup" -> res.cleanup

(* The steps of an operation whose guards on the inputs hold, and on what   *)
(* the plan's Read observed: prior.Observed.                                *)
Applicable(o, wanted, prior) ==
  LET program  == Program(o)
      Taken(i) == \A t \in program[i].when : Passes(t, wanted, prior, thing.has)
  IN {i \in DOMAIN program : Taken(i)}

First(steps) == CHOOSE i \in steps : \A j \in steps : i <= j

Step == Program(op)[First(todo)]

(* The handle a step uses names the object, and the object shows.           *)
Names(by) ==
  IF by = "id" \/ res.name = "" THEN TRUE
  ELSE thing.has[res.name] = IF by = "prior" THEN Prior[res.name] ELSE Wanted[res.name]

Found(by) == thing.is # "absent" /\ thing.shows /\ Names(by)

(* The object is there and does not hold those inputs.                      *)
Unlike(t, inputs) == t.is # "absent" /\ (inputs = None \/ t.has # inputs)

Running == op # "idle" /\ todo # {}

Reached(do) ==
  /\ Running
  /\ Step.do = do
  /\ \A t \in Step.live : Passes(t, Wanted, Prior, thing.has)

---------------------------------------------------------------------------
(* How an operation goes on and ends, with the object as `now`.            *)

Quietly == UNCHANGED <<made, faults>>
Fault   == faults < MaxFaults /\ faults' = faults + 1

Continue(now) ==
  /\ thing' = now
  /\ todo' = todo \ {First(todo)}
  /\ UNCHANGED <<chosenVars, runtimeVars, op, result, calm, torn, turned>>

(* The version an operation left, which its success would have recorded.    *)
Unanswered(t) == IF t.version = "answered" THEN [t EXCEPT !.version = "lost"] ELSE t

(* An error.  A Create whose first call succeeded runs its cleanup, if it   *)
(* has one.                                                                 *)
Fail(how, now) ==
  /\ thing' = Unanswered(now)
  /\ IF op = "create" /\ made /\ res.cleanup # << >>
     THEN /\ op' = "cleanup" /\ todo' = Applicable("cleanup", Wanted, Prior)
          /\ calm' = (now.is \in {"settled", "absent"}) /\ UNCHANGED result
     ELSE /\ op' = "idle" /\ todo' = {}
          /\ result' = how /\ calm' = TRUE
  /\ made' = FALSE
  /\ torn' = (torn \/ Unlike(now, recorded))
  /\ UNCHANGED <<chosenVars, runtimeVars, turned>>

(* Success: the runtime records the inputs, or forgets the resource.        *)
Succeed ==
  /\ op' = "idle" /\ todo' = {}
  /\ result' = IF op = "cleanup" THEN "undone" ELSE "done"
  /\ recorded' = IF op \in {"create", "update"} THEN goal ELSE None
  /\ thing' = [thing EXCEPT !.version = IF @ = "answered" THEN "recorded" ELSE @,
                             !.known = [f \in res.inputs |-> IF f \in res.holds THEN thing.has[f] ELSE {}]]
  /\ torn' = (torn /\ Unlike(thing, recorded'))
  /\ turned' = (turned /\ Unlike(thing, recorded'))
  /\ made' = FALSE /\ calm' = TRUE
  /\ UNCHANGED <<chosenVars, goal, goals, faults>>

AnsweredUnchecked(now) ==
  \/ Continue(now) /\ Quietly
  \/ Continue(thing) /\ UNCHANGED made /\ Fault

(* A call that is carried out, and whose answer arrives or is lost.         *)
Answered(now) ==
  \/ Continue(now) /\ Quietly
  \/ Fail("failed", now) /\ Fault

---------------------------------------------------------------------------
(* The runtime.                                                            *)

Due ==
  CASE recorded = None /\ goal # None -> "create"
    [] recorded # None /\ goal = None -> "delete"
    [] recorded # None /\ goal # None /\ recorded # goal -> "update"
    [] OTHER -> "none"

(* The runtime calls what its plan asks for.                                *)
Begin ==
  /\ op = "idle"
  /\ Due # "none"
  /\ Due = "update" => Found(res.reads)
  /\ op' = Due
  /\ todo' = Applicable(Due, Wanted, Prior)
  /\ result' = "none"
  /\ calm' = (thing.is \in {"settled", "absent"})
  /\ UNCHANGED <<chosenVars, runtimeVars, thing, made, torn, turned, faults>>

(* The plan reads first, and Read returned runtime.ErrNotFound.             *)
Drift ==
  /\ op = "idle"
  /\ recorded # None
  /\ ~Found(res.reads)
  /\ recorded' = None
  /\ UNCHANGED <<chosenVars, goal, goals, thing, op, todo, result, calm, torn, turned>>
  /\ Quietly

ChangeGoalUnchecked ==
  /\ op = "idle"
  /\ goals < MaxGoals /\ goals' = goals + 1
  /\ goal' \in ([res.inputs -> Values] \cup {None}) \ {goal}
  /\ turned' = (turned \/ torn)
  /\ UNCHANGED <<chosenVars, recorded, thing, op, todo, result, calm, torn>>
  /\ Quietly

(* Someone edits the stack.  Another value of an input in ReplaceFields     *)
(* would be another object.                                                 *)
ChangeGoal ==
  /\ op = "idle"
  /\ goals < MaxGoals /\ goals' = goals + 1
  /\ goal' \in (Inputs \cup {None}) \ {goal}
  /\ goal' # None /\ Wanted # None => \A f \in res.inputs \cap res.replace : goal'[f] = Wanted[f]
  /\ turned' = (turned \/ torn)
  /\ UNCHANGED <<chosenVars, recorded, thing, op, todo, result, calm, torn>>
  /\ Quietly

---------------------------------------------------------------------------
(* Steps.                                                                  *)

Accepted == thing.is = "settled" \/ Step.busy = "accepted"

(* AWS refuses the call for what the object holds.                          *)
Clashes(s) ==
  s.strict /\ \E f \in DOMAIN s.sends : Clash(s.sends[f], thing.has[f], Prior[f], Wanted[f])

(* AWS has another version than the one the step sends.                     *)
Mismatch == Step.match = "recorded" /\ thing.version = "lost"

Busied(t) == IF Step.call \in res.slow THEN [t EXCEPT !.is = "busy"] ELSE t

(* The object after a call that sends inputs.                               *)
Rewritten ==
  [Busied(thing) EXCEPT
     !.version = IF Step.match # "none" THEN "answered" ELSE @,
     !.has = [f \in res.inputs |->
        IF f \in DOMAIN Step.sends
        THEN Written(Step.sends[f], @[f], Prior[f], Wanted[f], thing.known[f])
        ELSE @[f]]]

Write ==
  /\ Reached("write") /\ Found(Step.by) /\ Accepted
  /\ IF Clashes(Step) /\ Step.absent = "fine" THEN Continue(thing) /\ Quietly
     ELSE IF Clashes(Step) \/ Mismatch THEN Fail("failed", thing) /\ UNCHANGED faults
     ELSE Answered(Rewritten)

(* The object that a Create makes.                                          *)
Made ==
  Busied([is |-> "settled", shows |-> ~res.lags, version |-> "recorded", known |-> Unset,
          has |-> [f \in res.inputs |-> IF f \in DOMAIN Step.sends THEN Wanted[f] ELSE {}]])

(* AWS refuses a second object of a name.  Where it names objects itself it *)
(* makes another, and the first is nobody's.                                *)
CreateNew ==
  /\ Reached("create")
  /\ thing.is = "absent" \/ ~res.named
  /\ \/ Continue(Made) /\ made' = TRUE /\ UNCHANGED faults
     \/ Fail("failed", Made) /\ Fault

CreateTwice ==
  /\ Reached("create")
  /\ thing.is # "absent" /\ res.named
  /\ Fail("failed", thing)
  /\ UNCHANGED faults

(* What a call that deletes leaves of the object at first.                  *)
Deleted == IF Step.call \in res.slow THEN [thing EXCEPT !.is = "going"] ELSE Nothing

(* AWS does not delete what is protected, or holds something.               *)
Remove ==
  /\ Reached("delete") /\ Found(Step.by) /\ Accepted
  /\ IF Mismatch \/ \E f \in res.protect \cup res.holds : thing.has[f] # {}
     THEN Fail("failed", thing) /\ UNCHANGED faults
     ELSE Answered(Deleted)

(* The object is in transition and the call is refused.                     *)
Refused ==
  /\ Running /\ Step.do \in {"write", "delete"} /\ Reached(Step.do)
  /\ Found(Step.by) /\ ~Accepted
  /\ \/ thing.is = "going" /\ Step.going = "fine" /\ Continue(thing) /\ UNCHANGED made
     \/ thing.is = "going" /\ Step.going = "fails" /\ Fail("failed", thing)
     \/ thing.is = "busy" /\ Step.busy = "refused"
        /\ Fail(IF calm THEN "refused" ELSE "failed", thing)
  /\ UNCHANGED faults

(* The object is not there, or not under this handle.                       *)
Missing ==
  /\ Running /\ Step.do \in {"write", "delete", "look", "await"} /\ Reached(Step.do)
  /\ ~Found(Step.by)
  /\ Step.do = "await" => thing.is = "absent" \/ ~Names(Step.by)
  /\ \/ Step.absent = "fine" /\ Continue(thing) /\ UNCHANGED made
     \/ Step.absent = "fails" /\ Fail("failed", thing)
     \/ /\ Step.absent = "ends"
        /\ todo' = {}
        /\ UNCHANGED <<chosenVars, runtimeVars, thing, op, result, made, calm, torn, turned>>
  /\ UNCHANGED faults

(* A wait that returns after its first look, whatever it saw.               *)
SatisfiedAtOnce ==
  /\ \E do \in {"await", "look", "gone"} : Reached(do)
  /\ Continue(thing)
  /\ Quietly

(* A wait or a read that finds what it looks for.                           *)
Satisfied ==
  /\ \/ Reached("await") /\ Found(Step.by) /\ thing.is = "settled"
     \/ Reached("look") /\ Found(Step.by)
     \/ Reached("gone") /\ (thing.is = "absent" \/ ~Names(Step.by))
  /\ Continue(thing)
  /\ Quietly

(* A wait for what will not come runs out.                                  *)
InVain ==
  /\ \/ Reached("await") /\ Found(Step.by) /\ thing.is = "going"
     \/ Reached("gone") /\ Found(Step.by) /\ thing.is # "going"
  /\ Fail("failed", thing)
  /\ UNCHANGED faults

(* The code returns an error of its own.                                    *)
Rejects == Reached("reject") /\ Fail("failed", thing) /\ UNCHANGED faults

(* A guard on what AWS shows does not hold.                                 *)
Skip ==
  /\ Running
  /\ \E t \in Step.live : ~Passes(t, Wanted, Prior, thing.has)
  /\ todo' = {i \in todo : i >= First(todo) + Step.span}
  /\ UNCHANGED <<chosenVars, runtimeVars, thing, op, result, calm, torn, turned>>
  /\ Quietly

Finish == op # "idle" /\ todo = {} /\ Succeed

---------------------------------------------------------------------------
(* What goes wrong: a call or a read fails without effect, or a wait runs   *)
(* out; the process dies; someone else deletes the object.                  *)

StepFails == Running /\ Fail("failed", thing) /\ Fault

Crash ==
  /\ op # "idle" /\ Fault
  /\ op' = "idle" /\ todo' = {} /\ result' = "failed"
  /\ made' = FALSE /\ calm' = TRUE
  /\ thing' = Unanswered(thing)
  /\ torn' = (torn \/ Unlike(thing, recorded))
  /\ UNCHANGED <<chosenVars, runtimeVars, turned>>

Vanish ==
  /\ op = "idle" /\ thing.is = "settled" /\ Fault
  /\ thing' = Nothing
  /\ UNCHANGED <<chosenVars, runtimeVars, op, todo, result, made, calm, torn, turned>>

(* AWS: a transition ends, and a new object shows.                          *)
Settle ==
  /\ thing.is \in {"busy", "going"}
  /\ thing' = IF thing.is = "busy" THEN [thing EXCEPT !.is = "settled"] ELSE Nothing
  /\ UNCHANGED <<chosenVars, runtimeVars, op, todo, result, calm, torn, turned>>
  /\ Quietly

Show ==
  /\ thing.is # "absent" /\ ~thing.shows
  /\ thing' = [thing EXCEPT !.shows = TRUE]
  /\ UNCHANGED <<chosenVars, runtimeVars, op, todo, result, calm, torn, turned>>
  /\ Quietly

Work ==
  \/ Begin \/ Drift \/ Finish \/ Skip
  \/ Write \/ CreateNew \/ CreateTwice \/ Remove
  \/ Refused \/ Missing \/ Satisfied \/ InVain \/ Rejects

Next == Work \/ Settle \/ Show \/ ChangeGoal \/ StepFails \/ Crash \/ Vanish

Spec == Init /\ [][Next]_vars /\ WF_vars(Work) /\ WF_vars(Settle) /\ WF_vars(Show)

---------------------------------------------------------------------------
(* The properties.                                                         *)

Settled == op = "idle" /\ recorded = goal

(* When the runtime has nothing left to do, the object holds every input    *)
(* that was given, and nothing of one that is gone unless the code never    *)
(* sends an absence: no way of creating it, no order of updates, and no     *)
(* number of failed attempts makes a success a lie.  The one excuse is a    *)
(* goal taken back after an update had failed half-way, which the runtime   *)
(* does not see: it compares inputs with inputs.                            *)
SettledMeansApplied ==
  Settled /\ goal # None /\ thing.is # "absent" /\ ~turned =>
    \A f \in res.inputs \ res.gaps :
      \/ thing.has[f] = goal[f]
      \/ goal[f] = {} /\ f \in Sticky(res)
      \/ goal[f] \subseteq thing.has[f] /\ f \in Forgetful(res)

(* The same of every input, those in gaps included.  For an EC2 instance    *)
(* ec2/instance_rsrc.go:111-113 says so: security groups, protection flags, *)
(* ... "and tags are reconciled in place".                                  *)
EveryInputApplied ==
  Settled /\ goal # None /\ thing.is # "absent" /\ ~turned =>
    \A f \in res.inputs : thing.has[f] = goal[f] \/ (goal[f] = {} /\ f \in Sticky(res))

(* An operation that begins on a settled object never calls while the       *)
(* object is still in the transition its own last call started: wherever a  *)
(* call of that name is made, a wait stands before the next one.            *)
NeverTooEarly == result # "refused"

(* A plan takes an object for gone only when it is, or when an update that  *)
(* renames it failed half-way: a Create does not return before Read finds   *)
(* what it made.                                                            *)
NoFalseDrift == [][Drift => thing.is = "absent" \/ torn]_vars

(* A Delete that returned success leaves nothing, not even an object on its *)
(* way out, whose name could not be used again: unless an update that       *)
(* renames it failed half-way, and Delete looked for the old name, or the   *)
(* stack asked to keep it.  The same of a Create that cleans up after       *)
(* itself, but what AWS does not show yet cannot be deleted.                *)
DeletedIsGone ==
  [][/\ op = "delete" /\ op' = "idle" /\ result' = "done" =>
          \/ thing'.is = "absent"
          \/ torn /\ res.name # ""
          \/ \E f \in res.keeps : recorded[f] # {}
     /\ op = "cleanup" /\ result' = "undone" => thing'.is = "absent" \/ res.lags]_vars

(* Delete takes away of an input what the recorded inputs, or outputs, know *)
(* of it, and the object holds more.                                        *)
LeftOver(f) ==
  \E i \in DOMAIN res.delete :
     /\ Sends(res.delete[i], f)
     /\ \/ res.delete[i].sends[f] = "take" /\ ~(thing.has[f] \subseteq recorded[f])
        \/ res.delete[i].sends[f] = "recall" /\ ~(thing.has[f] \subseteq thing.known[f])

(* What no repetition of the run gets past: an object of the name that      *)
(* nobody recorded; an update the code rejects; a call of Update that AWS   *)
(* refuses for what the object holds, an element already added or dropped,  *)
(* or more, or less, than what is now asked for; a delete AWS refuses,      *)
(* because the object is protected or holds what no record knows of, or one *)
(* of what is gone that Delete does not expect to be gone; a version that   *)
(* the answer of a lost call would have told; and, after an update failed   *)
(* half-way, a rename already made.                                         *)
Hindered ==
  \/ recorded = None /\ thing.is # "absent" /\ res.named
  \/ Due = "update" /\ \E i \in DOMAIN res.update :
       res.update[i].do = "reject"
       /\ \A t \in res.update[i].when \cup res.update[i].live : Passes(t, Wanted, Prior, thing.has)
  \/ Due = "update" /\ \E i \in Applicable("update", Wanted, Prior) :
       /\ Clashes(res.update[i]) /\ res.update[i].absent # "fine"
       /\ \A t \in res.update[i].live : Passes(t, Wanted, Prior, thing.has)
  \/ goal = None /\ \E f \in res.protect : thing.has[f] # {}
  \/ Due = "delete" /\ \E f \in res.holds : LeftOver(f)
  \/ goal = None /\ thing.is = "absent" /\ res.brittle
  \/ Due # "none" /\ thing.version = "lost"
  \/ torn /\ res.name # ""

(* Otherwise a run that is repeated gets there.                             *)
Converges == <>[]Settled \/ <>[]Hindered
=============================================================================
