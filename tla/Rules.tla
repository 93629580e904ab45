------------------------------- MODULE Rules -------------------------------
(***************************************************************************)
(* What the programs of every catalogue have in common: rules that can be  *)
(* read off a program without running it.  Lifecycle assumes them of its   *)
(* Catalogue, TLC evaluates them on every resource, and Lifecycle_proofs   *)
(* derives from them what Lifecycle promises, for any number of inputs,    *)
(* failures and changes of mind.                                           *)
(***************************************************************************)
EXTENDS Steps

---------------------------------------------------------------------------
(* What a guard and a call mean.                                           *)

(* More of it, where {} is the least.                                       *)
Exceeds(x, y) == \E e \in x \ y : \A d \in y \ x : d < e

(* A test, as far as the inputs are concerned: of the wanted values, those  *)
(* before, and what AWS shows.                                              *)
Holds(t, inputs, wanted, prior, has) ==
  LET F == t.of \cap inputs
      given == t.of \ F # {} \/ \E f \in F : wanted[f] # {}
  IN CASE t.test = "given"     -> given
       [] t.test = "absent"    -> ~given
       [] t.test = "changed"   -> \E f \in F : wanted[f] # prior[f]
       [] t.test = "changedTo" -> \E f \in F : wanted[f] # prior[f] /\ (wanted[f] # {} \/ f \in t.orGone)
       [] t.test = "removed"   -> \E f \in F : prior[f] # {} /\ wanted[f] = {}
       [] t.test = "recorded"  -> \E f \in F : prior[f] # {}
       [] t.test = "introduced" -> \E f \in F : prior[f] = {} /\ wanted[f] # {}
       [] t.test = "unintroduced" -> \A f \in F : prior[f] # {} \/ wanted[f] = {}
       [] t.test = "kept"      -> \A f \in F : wanted[f] = prior[f]
       [] t.test = "unedited"  -> \A f \in F : wanted[f] = prior[f] \/ wanted[f] = {}
       [] t.test = "raised"    -> \E f \in F : Exceeds(wanted[f], prior[f])
       [] t.test = "lowered"   -> \E f \in F : Exceeds(prior[f], wanted[f])
       [] t.test = "added"     -> \E f \in F : wanted[f] \ prior[f] # {}
       [] t.test = "dropped"   -> \E f \in F : prior[f] \ wanted[f] # {}
       [] t.test = "differs"   -> \E f \in F : has[f] # wanted[f]
       [] t.test = "drifted"   ->
            \E f \in F : wanted[f] # prior[f] \/ (f \notin t.orGone /\ wanted[f] # {} /\ has[f] # wanted[f])
       [] t.test = "astray"    -> \E f \in F : wanted[f] # prior[f] \/ has[f] # wanted[f]
       [] t.test = "over"      -> \E f \in F : Exceeds(wanted[f], has[f])
       [] t.test = "under"     -> \E f \in F : Exceeds(has[f], wanted[f])
       [] t.test = "has"       -> \E f \in F : has[f] # {}
       [] t.test = "already"   -> \A f \in F : has[f] = wanted[f]

(* What an input of the object is after a call that sends it.               *)
Written(how, old, prior, wanted, known) ==
  CASE how = "send"    -> IF wanted # {} THEN wanted ELSE old
    [] how = "changed" -> IF wanted # prior /\ wanted # {} THEN wanted ELSE old
    [] how = "put"     -> wanted
    [] how = "replace" -> IF wanted # prior THEN wanted ELSE old
    [] how = "adjust"  -> IF wanted = {} THEN old
                          ELSE (old \ (prior \ wanted)) \cup (wanted \ prior)
    [] how = "diff"    -> (old \ (prior \ wanted)) \cup (wanted \ prior)
    [] how = "restore" -> IF wanted # prior \/ wanted # {} THEN wanted ELSE old
    [] how = "patch"   -> (old \ (prior \ wanted)) \cup wanted
    [] how = "add"     -> old \cup (wanted \ prior)
    [] how = "drop"    -> old \ (prior \ wanted)
    [] how = "take"    -> old \ wanted
    [] how = "recall"  -> old \ known
    [] how \in {"raise", "lower"} -> wanted
    [] how = "clear"   -> {}

(* AWS refuses a strict call for what it finds of an input.                 *)
Clash(how, has, prior, wanted) ==
  \/ how \in {"add", "diff"} /\ (wanted \ prior) \cap has # {}
  \/ how \in {"drop", "diff"} /\ ~((prior \ wanted) \subseteq has)
  \/ how = "raise" /\ Exceeds(has, wanted)
  \/ how = "lower" /\ Exceeds(wanted, has)
  \/ how \in {"send", "clear"} /\ has = {}

---------------------------------------------------------------------------
(* What a program is made of.                                              *)

Ways == {"send", "changed", "put", "replace", "adjust", "diff", "restore",
         "patch", "add", "drop", "take", "recall", "raise", "lower", "clear"}

Tests == {"given", "absent", "changed", "changedTo", "removed", "recorded", "introduced",
          "unintroduced", "kept", "unedited", "raised", "lowered", "added", "dropped",
          "differs", "drifted", "astray", "over", "under", "has", "already"}

Programs(r) == {r.create, r.update, r.delete, r.cleanup}

Sends(s, f) == f \in DOMAIN s.sends

(* Steps are numbered, test what Holds knows, and send as Written does.     *)
Spelled(r) ==
  \A p \in Programs(r) :
    /\ DOMAIN p \subseteq Nat \ {0}
    /\ \A i \in DOMAIN p :
         /\ p[i].span \in Nat
         /\ \A t \in p[i].when \cup p[i].live : t.test \in Tests
         /\ \A f \in DOMAIN p[i].sends : p[i].sends[f] \in Ways

(* No failing guard on what AWS shows makes the code go from i, or a step   *)
(* after it, past j.                                                        *)
Unskipped(p, i, j) ==
  \A s \in DOMAIN p : i < s /\ s <= j /\ p[s].live # {} => s + p[s].span <= j

(* Some input is given where s is made, and is not where t is.              *)
Exclusive(s, t) ==
  \E g \in s.when :
    /\ g.test = "given"
    /\ g.of = {} \/ \E a \in t.when : a.test = "absent" /\ a.of = g.of

(* A wait that stands between i and k whenever both are made.               *)
WaitBetween(p, i, j, k) ==
  /\ i < j /\ j < k
  /\ p[j].do = "await"
  /\ p[j].by = "id" \/ p[j].absent # "fine"
  /\ p[j].when \subseteq p[i].when \cup p[k].when
  /\ Unskipped(p, i, j)

StartsTransition(r, s) == s.do \in {"create", "write"} /\ s.call \in r.slow
CanBeRefused(s)        == s.do \in {"write", "delete"} /\ s.busy = "refused"

(* After a call that leaves the object in transition the code waits, before *)
(* the next one that AWS would refuse for that.                             *)
WaitsStand(r) ==
  \A p \in Programs(r) : \A i, k \in DOMAIN p :
    /\ i < k /\ StartsTransition(r, p[i]) /\ CanBeRefused(p[k])
    /\ ~Exclusive(p[i], p[k])
    => \E j \in DOMAIN p : WaitBetween(p, i, j, k)

(* Only Create makes objects.                                               *)
OnlyCreateMakes(r) ==
  \A p \in {r.update, r.delete, r.cleanup} : \A i \in DOMAIN p : p[i].do # "create"

(* A Create whose object may not show at once looks until it does.          *)
Confirms(r, j) ==
  /\ r.create[j].do \in {"look", "await"} /\ r.create[j].absent = "fails"
  /\ r.create[j].when = {} /\ Unskipped(r.create, 0, j)
  /\ \A i \in DOMAIN r.create : r.create[i].do = "create" => i < j

CreateConfirms(r) ==
  r.lags => /\ \A i \in DOMAIN r.create : r.create[i].absent # "ends"
            /\ \E j \in DOMAIN r.create : Confirms(r, j)

(* Where an input names the object, Create sends it, with the first call,   *)
(* Update changes it whenever it is another than the recorded one, and      *)
(* nothing else touches it.                                                 *)
MakesNamed(r, c) ==
  /\ r.create[c].do = "create"
  /\ r.create[c].when = {} /\ Unskipped(r.create, 0, c)

Renames(r, u) ==
  /\ r.update[u].do = "write" /\ Sends(r.update[u], r.name)
  /\ \A t \in r.update[u].when :
       t.test \in {"changed", "differs", "drifted"} /\ r.name \in t.of
  /\ Unskipped(r.update, 0, u)
  /\ r.update[u].absent = "fails" /\ r.update[u].going # "fine"

NameIsKept(r) ==
  r.name # "" =>
    /\ r.name \in r.inputs \cap r.required
    /\ r.reads \in {"id", "prior"}
    /\ r.cleanup = << >>
    /\ \A p \in {r.create, r.update} : \A i \in DOMAIN p : p[i].absent # "ends"
    /\ \E c \in DOMAIN r.create : MakesNamed(r, c)
    /\ \A i \in DOMAIN r.create : Sends(r.create[i], r.name) <=> r.create[i].do = "create"
    /\ \A i \in DOMAIN r.update :
         Sends(r.update[i], r.name) => r.update[i].sends[r.name] \in {"put", "replace"}
    /\ \E u \in DOMAIN r.update : Renames(r, u)
    /\ \A i \in DOMAIN r.delete : ~Sends(r.delete[i], r.name)

(* A step that no guard keeps from being made but that one of F is given,   *)
(* or one of two of which always one is made.                               *)
Unconditional(p, j, F) == \A t \in p[j].when : t.test = "absent" /\ t.of \subseteq F

Alternatives(p, j, k) ==
  /\ p[k].do = p[j].do /\ Unskipped(p, 0, k)
  /\ \E g \in p[j].when, a \in p[k].when :
       /\ p[j].when = {g} /\ p[k].when = {a}
       /\ g.test = "given" /\ a.test = "absent" /\ a.of = g.of

CertainlyMade(p, j, F) ==
  /\ Unskipped(p, 0, j)
  /\ Unconditional(p, j, F) \/ \E k \in DOMAIN p : Alternatives(p, j, k)

(* A deletion deletes, and where that takes its time waits for the end.     *)
DeletesSlowly(r) ==
  \E p \in Programs(r) : \E i \in DOMAIN p : p[i].do = "delete" /\ p[i].call \in r.slow

LastStep(r) == IF DeletesSlowly(r) THEN "gone" ELSE "delete"

LeavesNothing(r, p, F) ==
  F \subseteq r.inputs /\ \E j \in DOMAIN p : p[j].do = LastStep(r) /\ CertainlyMade(p, j, F)

DeleteLeavesNothing(r) ==
  /\ r.keeps \cap r.required = {} => LeavesNothing(r, r.delete, r.keeps)
  /\ r.cleanup # << >> => LeavesNothing(r, r.cleanup, {})

Lawful(r) ==
  /\ Spelled(r)
  /\ WaitsStand(r)
  /\ OnlyCreateMakes(r)
  /\ CreateConfirms(r)
  /\ NameIsKept(r)
  /\ DeleteLeavesNothing(r)

---------------------------------------------------------------------------
(* Success means applied.  What follows looks at one element e of one input *)
(* f, given what is wanted and what was before of some inputs, f among      *)
(* them, and nothing of the others.                                         *)

Contents == SUBSET {1, 2}

\* Tests of what AWS shows, and of all their inputs, not of some.
Sees   == {"differs", "drifted", "astray", "over", "under", "has", "already"}
OfEach == {"absent", "unintroduced", "kept", "unedited", "already"}

(* What a test says of the inputs K.                                        *)
On(t, inputs, K) ==
  [test |-> t.test, of |-> t.of \ (inputs \ K), orGone |-> t.orGone]

(* It holds, or may hold, whatever the other inputs are and AWS shows.      *)
Certain(r, t, prior, wanted) ==
  LET K == DOMAIN wanted IN
  /\ t.test \notin {"over", "under", "has", "already"}
  /\ t.test \in OfEach => t.of \cap r.inputs \subseteq K
  /\ \/ t.test = "given" /\ t.of \cap r.inputs \cap r.required # {}
     \/ Holds(On(t, r.inputs, K), K, wanted, prior, wanted)

Possible(r, t, prior, wanted) ==
  LET K == DOMAIN wanted IN
  \/ t.test \in Sees
  \/ t.test \notin OfEach /\ ~(t.of \cap r.inputs \subseteq K)
  \/ Holds(On(t, r.inputs, K), K, wanted, prior, wanted)

(* It holds where AWS shows v of f.                                         *)
Shown(r, t, f, v, prior, wanted) ==
  \/ Certain(r, t, prior, wanted)
  \/ /\ t.test \in Sees \ {"already"}
     /\ Holds(On(t, r.inputs, {f}), {f}, wanted, prior, [h \in {f} |-> v])

Right(v, x, e) == e \in v <=> e \in x

(* If a step is made, an element that is right stays right.                 *)
Unhurt(r, s, f, prior, wanted, e) ==
  s.do = "write" /\ Sends(s, f) /\ (\A t \in s.when : Possible(r, t, prior, wanted)) =>
    \A v, k \in Contents :
      Right(v, wanted[f], e) =>
        Right(Written(s.sends[f], v, prior[f], wanted[f], k), wanted[f], e)

(* These guards only fail where it is right.                                *)
Sure(r, guards, f, prior, wanted, e) ==
  \A v \in Contents :
    Right(v, wanted[f], e) \/ \A t \in guards : Shown(r, t, f, v, prior, wanted)

(* The step at k stands before the one at j and is only made with it.       *)
Tied(r, p, k, j, prior, wanted) ==
  k <= j /\ \A t \in p[j].when : Certain(r, t, prior, wanted) \/ t \in p[k].when

(* The step makes it right.                                                 *)
Fixes(s, f, prior, wanted, e) ==
  /\ s.do = "write" /\ Sends(s, f)
  /\ s.going # "fine" /\ s.absent # "ends"
  /\ s.absent = "fine" => s.by = "id" /\ ~s.strict
  /\ \A v, k \in Contents :
       Right(Written(s.sends[f], v, prior[f], wanted[f], k), wanted[f], e)

(* The step at j makes it right, is made unless it is right, and no later   *)
(* one undoes that.                                                         *)
Settles(r, p, j, f, prior, wanted, e) ==
  /\ Fixes(p[j], f, prior, wanted, e)
  /\ Sure(r, p[j].when, f, prior, wanted, e)
  /\ \A i \in DOMAIN p : i <= j /\ p[i].live # {} /\ i + p[i].span > j =>
       Sure(r, p[i].live, f, prior, wanted, e)
  /\ \A k \in DOMAIN p :
       Tied(r, p, k, j, prior, wanted) \/ Unhurt(r, p[k], f, prior, wanted, e)

NoneHurts(r, p, f, prior, wanted, e) ==
  \A k \in DOMAIN p : Unhurt(r, p[k], f, prior, wanted, e)

(* One of two steps makes it right, at either end of the program, unless    *)
(* the plan's Read saw that it is right.                                    *)
EitherSettles(r, p, i, j, f, prior, wanted, e) ==
  /\ \A k \in {i, j} : /\ Fixes(p[k], f, prior, wanted, e)
                       /\ p[k].absent = "fails" /\ Unskipped(p, 0, k)
  /\ \A v \in Contents :
       \/ Right(v, wanted[f], e)
       \/ \E k \in {i, j} : \A t \in p[k].when : Shown(r, t, f, v, prior, wanted)
  /\ NoneHurts(r, p, f, prior, wanted, e)

(* Update returns an error of its own.                                      *)
RejectsAt(r, i, prior, wanted) ==
  /\ r.update[i].do = "reject" /\ Unskipped(r.update, 0, i)
  /\ \A t \in r.update[i].when : Certain(r, t, prior, wanted)

Rejected(r, prior, wanted) == \E i \in DOMAIN r.update : RejectsAt(r, i, prior, wanted)

(* Inputs x ask for e, to be there or not: an input no longer given may     *)
(* leave what it was, if that is accepted; and where elements are dropped   *)
(* by comparing two records, what no record has may be left.                *)
Owed(r, f, x, e) ==
  /\ x = {} /\ f \in Sticky(r) => Rejected(r, [h \in {f} |-> {1}], [h \in {f} |-> {}])
  /\ f \in Forgetful(r) => e \in x

Assignments(r, K) == {x \in [K -> Values] : \A h \in K \cap r.required : x[h] # {}}

(* Some step of Update makes it right, or one of two; or it is as it was,   *)
(* and right.                                                               *)
UpdateSettles(r, f, prior, wanted, e) ==
  \/ Rejected(r, prior, wanted)
  \/ \E j \in DOMAIN r.update : Settles(r, r.update, j, f, prior, wanted, e)
  \/ \E i, j \in DOMAIN r.update : EitherSettles(r, r.update, i, j, f, prior, wanted, e)
  \/ /\ Owed(r, f, prior[f], e) /\ Right(prior[f], wanted[f], e)
     /\ NoneHurts(r, r.update, f, prior, wanted, e)

UpdateApplies(r, f, K) ==
  \A prior, wanted \in Assignments(r, K) :
    (\A h \in K \cap r.replace : prior[h] = wanted[h]) =>
      \A e \in {1, 2} : Owed(r, f, wanted[f], e) => UpdateSettles(r, f, prior, wanted, e)

(* Some step of Create does, after the object is made, or it is made so.    *)
SettlesNew(r, j, f, prior, wanted, e) ==
  /\ Settles(r, r.create, j, f, prior, wanted, e)
  /\ r.create[j].absent = "fails"
  /\ \A t \in r.create[j].when : Certain(r, t, prior, wanted)
  /\ \A c \in DOMAIN r.create : r.create[c].do = "create" => c < j

MadeRight(r, f, prior, wanted, e) ==
  /\ \A c \in DOMAIN r.create :
       r.create[c].do = "create" /\ (\A t \in r.create[c].when : Possible(r, t, prior, wanted))
       => Sends(r.create[c], f) \/ e \notin wanted[f]
  /\ NoneHurts(r, r.create, f, prior, wanted, e)

CreateApplies(r, f, K) ==
  \A prior \in {[h \in K |-> {}]}, wanted \in Assignments(r, K), e \in {1, 2} :
    Owed(r, f, wanted[f], e) =>
      \/ \E j \in DOMAIN r.create : SettlesNew(r, j, f, prior, wanted, e)
      \/ MadeRight(r, f, prior, wanted, e)

(* A Create makes the object; an Update ends early only when it is gone;    *)
(* and every input that is not in gaps is applied by both, which takes one  *)
(* other input to tell where guards look at both.                           *)
Applies(r) ==
  /\ \E c \in DOMAIN r.create : r.create[c].do = "create" /\ CertainlyMade(r.create, c, {})
  /\ \A i \in DOMAIN r.create : r.create[i].absent # "ends"
  /\ \A i \in DOMAIN r.update : r.update[i].absent = "ends" => r.update[i].by = "id"
  /\ \A f \in r.inputs \ r.gaps :
       /\ UpdateApplies(r, f, {f}) \/ \E h \in r.inputs : UpdateApplies(r, f, {f, h})
       /\ CreateApplies(r, f, {f}) \/ \E h \in r.inputs : CreateApplies(r, f, {f, h})
=============================================================================
