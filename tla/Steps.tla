------------------------------- MODULE Steps -------------------------------
(***************************************************************************)
(* The language in which the catalogues (Rds, Ec2, ...) write down what    *)
(* Create, Update and Delete of a resource do: a program is a sequence of  *)
(* steps, one for each AWS call, wait or read, in the order of the code.   *)
(* Lifecycle runs these programs against an AWS object.                    *)
(*                                                                         *)
(* An input is the set of its elements; {} is an input that is not given,  *)
(* and a scalar is a set of one.  Where the code compares amounts, {} is   *)
(* the least.  A step has                                                  *)
(*                                                                         *)
(*   do      what it is: create, write, delete, await, gone, look or       *)
(*           reject, an error without a call                               *)
(*   call    the AWS operation                                             *)
(*   sends   the inputs it sends, each with what of it is sent             *)
(*           (Written in Rules)                                            *)
(*   when    the guards around it in the code, all of which must hold      *)
(*   by      the handle it uses: an identifier the service gave ("id"),    *)
(*           the recorded name ("prior") or the wanted one ("goal")        *)
(*   absent  what the code makes of a missing object or element            *)
(*   busy    what the code makes of an object still in transition          *)
(*   going   what it makes of one that is being deleted                    *)
(*   live    tests of what AWS shows, and                                  *)
(*   span    how many steps are passed over when they fail                 *)
(*   strict  AWS refuses to add what is there, to drop or change what is   *)
(*           not, to raise what is higher and to lower what is lower       *)
(*   match   which version it sends (IfMatch) for AWS to compare: none,    *)
(*           the one recorded, or the one the plan's Read observed         *)
(***************************************************************************)
EXTENDS Sequences, Naturals

Values == {{}, {1}, {2}}

---------------------------------------------------------------------------
(* Guards: sets of tests, of which all must hold.                          *)

LOCAL Test(test, F, G) == {[test |-> test, of |-> F \cup G, orGone |-> G]}

Given(F)     == Test("given", F, {})      \* a wanted input is there
Absent(F)    == Test("absent", F, {})     \* none of them is
Changed(F)   == Test("changed", F, {})    \* against the recorded inputs
ChangedTo(F) == Test("changedTo", F, {})  \* changed, and still given
Edited(F, G) == Test("changedTo", F, G)   \* changed, and F still given
Removed(F)   == Test("removed", F, {})    \* recorded, no longer given
Recorded(F)  == Test("recorded", F, {})   \* a recorded input is there
Introduced(F) == Test("introduced", F, {}) \* none recorded, and now given
Unintroduced(F) == Test("unintroduced", F, {}) \* none of them is
Kept(F)      == Test("kept", F, {})       \* not changed
Unedited(F)  == Test("unedited", F, {})   \* none changed, and still given
Raised(F)    == Test("raised", F, {})     \* more than recorded
Lowered(F)   == Test("lowered", F, {})    \* less than recorded
Added(F)     == Test("added", F, {})      \* an element not recorded
Dropped(F)   == Test("dropped", F, {})    \* a recorded element not wanted
Differs(F)   == Test("differs", F, {})    \* against what AWS shows
Has(F)       == Test("has", F, {})        \* AWS shows something
Already(F)   == Test("already", F, {})    \* AWS shows what is wanted
Drifted(F)   == Test("drifted", F, {})    \* changed, or the plan's Read saw another value
DriftedOr(F, G) == Test("drifted", F, G)  \* the same of F, or G changed
Astray(F)    == Test("astray", F, {})     \* the same, of an input not given too
Over(F)      == Test("over", F, {})       \* more than AWS shows
Under(F)     == Test("under", F, {})      \* less than AWS shows

When(guards, program) ==
  << >> \o [i \in DOMAIN program |->
     [program[i] EXCEPT !.when = @ \cup guards]]

(* A guard on what AWS shows is evaluated once, when the call before it has *)
(* returned; when it fails, the whole program under it is passed over.      *)
WhenLive(guards, program) ==
  << [program[1] EXCEPT !.live = guards, !.span = Len(program)] >> \o Tail(program)

---------------------------------------------------------------------------
(* Steps, each a program of one step.                                      *)

LOCAL Step(do, call, F, how) ==
  << [do |-> do, call |-> call, sends |-> [f \in F |-> how], when |-> {},
      by |-> "id", absent |-> "fails", busy |-> "refused", going |-> "fails",
      strict |-> FALSE, match |-> "none", live |-> {}, span |-> 1] >>

Create(call, F)  == Step("create", call, F, "send")
Send(call, F)    == Step("write", call, F, "send")     \* every input given
Modify(call, F)  == Step("write", call, F, "changed")  \* the changed ones that are given
Put(call, F)     == Step("write", call, F, "put")      \* all; one not given is cleared
Replace(call, F) == Step("write", call, F, "replace")  \* the changed ones, given or not
Restore(call, F) == Step("write", call, F, "restore")  \* the changed ones, and those given
Diff(call, F)    == Step("write", call, F, "diff")     \* elements added and dropped since recorded
Patch(call, F)   == Step("write", call, F, "patch")    \* all wanted, and those dropped since go
Adjust(call, F)  == Step("write", call, F, "adjust")   \* the same, of the inputs still given
Add(call, F)     == Step("write", call, F, "add")      \* elements added since recorded
Drop(call, F)    == Step("write", call, F, "drop")     \* elements dropped since recorded
Take(call, F)    == Step("write", call, F, "take")     \* the elements recorded go (Delete)
Recall(call, F)  == Step("write", call, F, "recall")   \* those in the recorded outputs go (Delete)
Raise(call, F)   == Step("write", call, F, "raise")    \* all, none of which AWS has more of
Lower(call, F)   == Step("write", call, F, "lower")    \* all, none of which AWS has less of
Clear(call, F)   == Step("write", call, F, "clear")
Poke(call)       == Step("write", call, {}, "send")    \* changes no input
Delete(call)     == Step("delete", call, {}, "send")
Await            == Step("await", "", {}, "send")      \* until it shows and is settled
Gone             == Step("gone", "", {}, "send")       \* until it shows no more
Look             == Step("look", "", {}, "send")       \* a read that must find it
Reject           == Step("reject", "", {}, "send")     \* an error before any call

(* One call that sends some inputs one way and some another.               *)
p ++ q ==
  LET P == p[1].sends
      Q == q[1].sends
  IN  << [p[1] EXCEPT !.sends =
            [f \in DOMAIN P \cup DOMAIN Q |-> IF f \in DOMAIN P THEN P[f] ELSE Q[f]]] >>

LOCAL With(program, field, value) ==
  << >> \o [i \in DOMAIN program |-> [program[i] EXCEPT ![field] = value]]

AbsentOk(program)   == With(program, "absent", "fine")    \* not found is no error
AbsentEnds(program) == With(program, "absent", "ends")    \* not found ends it, done
GoingOk(program)    == With(program, "going", "fine")     \* being deleted is as good
Retried(program)    == With(program, "busy", "retried")   \* called until accepted
Anytime(program)    == With(program, "busy", "accepted")  \* needs no settled object
Strict(program)     == With(program, "strict", TRUE)
Matched(program)    == With(program, "match", "recorded")
Revised(program)    == With(program, "match", "observed")
ByPrior(program)    == With(program, "by", "prior")
ByGoal(program)     == With(program, "by", "goal")

(* Elements are added, and dropped, by calls made only when there are any.  *)
AddEach(call, f)  == When(Added({f}), Add(call, {f}))
DropEach(call, f) == When(Dropped({f}), Drop(call, {f}))

(* The same for each group of inputs in turn.                               *)
Chain(Program(_), groups) ==
  LET chain[i \in 0..Len(groups)] ==
        IF i = 0 THEN << >> ELSE chain[i - 1] \o Program(groups[i])
  IN  chain[Len(groups)]

Tags == {"tags"}

(* syncTags: what AWS shows becomes what is wanted, in calls that do not    *)
(* wait for anything; TagSync is about the calls themselves.                *)
SyncTags == When(Changed(Tags), Anytime(Put("SyncTags", Tags)))

---------------------------------------------------------------------------
(* What a catalogue says of a resource.  inputs are those that AWS keeps;   *)
(* an input that only steers a call (a timeout, force-destroy) is no part   *)
(* of it.  replace are the inputs whose change makes the runtime create     *)
(* another object, gaps those that the code accepts and then leaves out of  *)
(* what it creates, or of what it updates; slow are the calls after which   *)
(* the object is in transition, protect and holds what makes AWS refuse to  *)
(* delete it (holds is what Delete takes away itself), and cleanup is what  *)
(* a failed Create runs once the object is there.  name is the input that   *)
(* renames the object, reads the handle Read uses; named says that AWS      *)
(* refuses a second object of that name, lags that a new object may not     *)
(* show at once, brittle that Delete fails when the object is gone, keeps   *)
(* the inputs that make it leave the object alone, and together which       *)
(* inputs are worth watching jointly.                                       *)

Resource(inputs, replace, create, update, delete) ==
  [inputs |-> inputs, replace |-> replace, create |-> create,
   update |-> update, delete |-> delete, cleanup |-> << >>,
   required |-> {}, gaps |-> {}, slow |-> {}, protect |-> {}, holds |-> {},
   keeps |-> {}, name |-> "", reads |-> "id", named |-> TRUE, lags |-> FALSE,
   together |-> {}, brittle |-> FALSE]

(* Inputs that are left as they are in AWS when they are no longer given:   *)
(* no step of Update ever sends their absence.                              *)
Sticky(r) ==
  {f \in r.inputs :
     \A i \in DOMAIN r.update :
        f \in DOMAIN r.update[i].sends =>
          \/ r.update[i].sends[f] \in {"send", "changed", "add", "adjust"}
          \/ \E t \in r.update[i].when : t.test \in {"given", "changedTo", "raised"}
                                             /\ t.of = {f} /\ f \notin t.orGone}

(* Among them those whose elements are dropped by comparing two records:    *)
(* what was there when the input was taken away is forgotten, and stays.    *)
Forgetful(r) ==
  {f \in Sticky(r) :
     \E i \in DOMAIN r.update :
        f \in DOMAIN r.update[i].sends /\ r.update[i].sends[f] \in {"drop", "diff", "adjust"}}

(* Inputs of which it matters which of two values is more.                  *)
Ranked(r) ==
  LET By(s) == {f \in DOMAIN s.sends : s.sends[f] \in {"raise", "lower"}}
               \cup UNION {t.of : t \in {u \in s.when \cup s.live :
                                         u.test \in {"raised", "lowered", "over", "under"}}}
  IN  UNION {UNION {By(p[i]) : i \in DOMAIN p} : p \in {r.create, r.update, r.delete, r.cleanup}}

(* What of a resource concerns the inputs W, with the required ones of the *)
(* others given and nothing else: tests and steps that are settled by that *)
(* go.                                                                     *)
LOCAL Concerning(program, W, required) ==
  LET Others(t) == (t.of \cap required) \ W # {}
      Idle(t)   == t.of \cap W = {}
      Holds(t)  == \/ t.test = "given" /\ Others(t)
                   \/ t.test = "absent" /\ Idle(t) /\ ~Others(t)
                   \/ t.test \in {"kept", "unedited", "unintroduced"} /\ Idle(t)
      Fails(t)  == \/ t.test = "absent" /\ Others(t)
                   \/ t.test = "given" /\ Idle(t) /\ ~Others(t)
                   \/ t.test \notin {"given", "absent", "kept", "unedited", "unintroduced"} /\ Idle(t)
      Open(t)   == IF Fails(t) THEN [test |-> "given", of |-> {}, orGone |-> {}]
                   ELSE [t EXCEPT !.of = @ \cap W, !.orGone = @ \cap W]
      Rest(s)   == [s EXCEPT !.when = {Open(t) : t \in {u \in @ : ~Holds(u)}},
                             !.live = {Open(t) : t \in {u \in @ : ~Holds(u)}},
                             !.sends = [f \in DOMAIN s.sends \cap W |-> s.sends[f]]]
      all       == << >> \o [i \in DOMAIN program |-> Rest(program[i])]
  IN  IF \E i \in DOMAIN program : program[i].live # {} THEN all
      ELSE SelectSeq(all, LAMBDA s : \A t \in s.when : ~Fails(t))

About(r, W) ==
  [r EXCEPT
     !.inputs = W, !.replace = @ \cap W, !.required = @ \cap W, !.gaps = @ \cap W,
     !.protect = @ \cap W, !.holds = @ \cap W, !.keeps = @ \cap W,
     !.name = IF @ \in W THEN @ ELSE "", !.together = {},
     !.create  = Concerning(@, W, r.required), !.update  = Concerning(@, W, r.required),
     !.delete  = Concerning(@, W, r.required), !.cleanup = Concerning(@, W, r.required)]

(* Inputs that no step, guard or aspect of a resource tells apart behave    *)
(* alike: one of each kind stands for the others.                           *)
LOCAL Uses(program, f) ==
  << >> \o [i \in DOMAIN program |->
     << IF f \in DOMAIN program[i].sends THEN program[i].sends[f] ELSE "not",
        {g \in program[i].when \cup program[i].live : f \in g.of} >>]

LOCAL Role(r, f) ==
  << Uses(r.create, f), Uses(r.update, f), Uses(r.delete, f), Uses(r.cleanup, f),
     f \in r.replace, f \in r.required, f \in r.gaps, f \in r.protect, f \in r.holds,
     f \in r.keeps, f = r.name >>

Representatives(r) ==
  LET roles == {<<f, Role(r, f)>> : f \in r.inputs}
  IN  {(CHOOSE p \in roles : p[2] = k)[1] : k \in {p[2] : p \in roles}}

(* What is left of a view when its names are taken away.                    *)
LOCAL Shape(v) ==
  LET Alias(f)  == IF f \notin v.inputs THEN "another" ELSE "it"
      Alike(F)  == {Alias(f) : f \in F}
      AsTest(t) == [test |-> t.test, of |-> Alike(t.of), orGone |-> Alike(t.orGone)]
      AsStep(s) == [s EXCEPT !.call = IF @ \in v.slow THEN "slow" ELSE "quick",
                             !.sends = {@[f] : f \in DOMAIN @},
                             !.when = {AsTest(t) : t \in @}, !.live = {AsTest(t) : t \in @}]
      AsProgram(p) == << >> \o [i \in DOMAIN p |-> AsStep(p[i])]
  IN  [v EXCEPT !.inputs = Alike(@), !.replace = Alike(@), !.required = Alike(@),
                !.gaps = Alike(@), !.protect = Alike(@), !.holds = Alike(@),
                !.keeps = Alike(@), !.name = Alias(@), !.slow = {}, !.create = AsProgram(@),
                !.update = AsProgram(@), !.delete = AsProgram(@), !.cleanup = AsProgram(@)]

(* The views of a catalogue, a function from names to resources: each is a *)
(* resource and the inputs watched, one kind of input at a time and those   *)
(* that go together.  Of those with one input that differ only in names one *)
(* stands for the others.                                                   *)
Views(catalogue) ==
  LET Seen(v)  == About(catalogue[v[1]], v[2])
      singles  == UNION {{<<n, {f}>> : f \in Representatives(catalogue[n])} : n \in DOMAIN catalogue}
      together == UNION {{<<n, W>> : W \in catalogue[n].together} : n \in DOMAIN catalogue}
      shapes   == {<<v, Shape(Seen(v))>> : v \in singles}
      chosen   == {(CHOOSE p \in shapes : p[2] = k)[1] : k \in {p[2] : p \in shapes}}
  IN  [v \in together \cup chosen |-> Seen(v)]
=============================================================================
