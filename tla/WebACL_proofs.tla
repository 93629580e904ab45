---------------------------- MODULE WebACL_proofs ----------------------------
(***************************************************************************)
(* Theorems about WebACL, for any configurations, rules and bounds.  The   *)
(* lock token is the thread: it only grows, so that an operation knows     *)
(* from two of them whether anyone wrote in between.                       *)
(***************************************************************************)
EXTENDS WebACL, FiniteSetTheorems, TLAPS

Updating == {"prepare", "update", "refresh", "update_again", "tags", "read"}
Deleting == {"delete", "refresh_delete", "delete_again"}
First    == {"update", "delete", "refresh", "refresh_delete"}
Again    == {"update_again", "delete_again"}

\* Where the code can be for a goal and a record.
PlaceOK ==
  /\ pc \in {"create", "read_created"} \union Updating => desired.op = "apply"
  /\ pc \in Updating \union Deleting => prior.known
  /\ pc # "idle" => result = "none"

\* What the tokens presented and the refresh say of the ACL's history.
TokensOK ==
  /\ atRefresh <= acl.token
  /\ pc \in {"create", "read_created", "prepare"} => sent = {}
  /\ pc \in First => sent \subseteq {input.token}
  /\ pc \in Again => /\ input.token = atRefresh
                     /\ \E t \in Tokens : sent \subseteq {t, input.token}
  /\ \E t, u \in Tokens : sent \subseteq {t, u}
  /\ result = "plan_again" => acl.token > atRefresh

\* The update carries the rules the configuration owns, and where it owns
\* none, those of the read that gave the token.
InputOK ==
  /\ pc \in {"prepare", "update", "refresh", "update_again"} => desired.own \subseteq input.shield
  /\ pc = "prepare" => desired.own = {}
  /\ pc = "update" /\ desired.own = {} =>
       /\ input.token <= acl.token
       /\ acl.exists /\ acl.token = input.token => acl.shield = input.shield

\* A write that was accepted and that nobody followed is still there.
AppliedOK ==
  /\ pc \in {"tags", "read"} \/ (pc = "idle" /\ result = "updated")
  /\ sent # {} /\ ~disturbed
  => acl.exists /\ acl.config = desired.config /\ desired.own \subseteq acl.shield

\* Unless the goal turned, the tags are those recorded or those wanted, since
\* only an update for the goal wrote them; and past the tag step the latter.
TagsOK ==
  /\ pc = "read_created" => tags = desired.tags
  /\ ~turned =>
       /\ prior.known => tags = prior.tags \/ (desired.op = "apply" /\ tags = desired.tags)
       /\ pc = "read" \/ (pc = "idle" /\ result = "updated") => tags = desired.tags

IInv == TypeOK /\ PlaceOK /\ TokensOK /\ InputOK /\ AppliedOK /\ TagsOK

ACLs == [exists : {FALSE}, token : Tokens]
        \union [exists : {TRUE}, config : Configs, shield : SUBSET ShieldRules,
                token : Tokens]
Records == [known : {FALSE}]
           \union [known : {TRUE}, config : Configs, own : SUBSET ShieldRules,
                   tags : TagSets, token : Tokens]

\* What the runtime keeps when an operation ends.
ControlOK == prior \in Records /\ pc \in Locations /\ result \in Results

LEMMA GoalTypes ==
  ASSUME desired \in Goals, desired.op = "apply"
  PROVE  desired.config \in Configs /\ desired.own \in SUBSET ShieldRules
         /\ desired.tags \in TagSets
  BY DEF Goals

LEMMA ReturnTypes ==
  ASSUME TypeOK, NEW r \in Results, Return(r),
         r \in {"created", "updated"} => desired.op = "apply"
  PROVE  ControlOK'
<1>1. pc' \in Locations /\ result' \in Results
  BY DEF Return, Locations
<1>2. prior' \in Records
  <2>1. acl.token \in Tokens
    BY DEF TypeOK
  <2>2. CASE r \in {"created", "updated"}
    BY <2>1, <2>2, GoalTypes DEF Return, TypeOK, Records
  <2>3. CASE r = "deleted"
    BY <2>3 DEF Return, Records, Unrecorded
  <2>4. CASE r \notin {"created", "updated", "deleted"}
    BY <2>4 DEF Return, TypeOK, Records
  <2> QED
    BY <2>2, <2>3, <2>4
<1> QED
  BY <1>1, <1>2 DEF ControlOK

LEMMA GotoTypes ==
  ASSUME TypeOK, NEW l \in Locations, Goto(l)
  PROVE  ControlOK'
  BY DEF TypeOK, Goto, ControlOK, Records, Results

LEMMA ACLTypes ==
  ASSUME NEW t \in Tokens
  PROVE  /\ NoACL(t) \in ACLs
         /\ \A c \in Configs, s \in SUBSET ShieldRules : ACL(c, s, t) \in ACLs
  BY DEF ACL, NoACL, ACLs

LEMMA TokenTypes ==
  ASSUME acl \in ACLs
  PROVE  0 \in Tokens /\ acl.token \in Tokens /\ acl.token + 1 \in Tokens
<1>1. acl.token \in Tokens
  BY DEF ACLs
<1> QED
  BY <1>1 DEF Tokens

LEMMA RecordTypes ==
  /\ Unrecorded \in Records
  /\ \A r \in Records : r.known => r.token \in Tokens
  BY DEF Unrecorded, Records

LEMMA TypeInit == Init => TypeOK
<1> SUFFICES ASSUME Init
             PROVE  TypeOK
  OBVIOUS
<1>1. acl \in ACLs
  BY ACLTypes DEF Init, Tokens
<1>2. prior \in Records
  BY RecordTypes DEF Init
<1>3. input \in [shield : SUBSET ShieldRules, token : Tokens] /\ observed \in Tokens
  BY DEF Init, Tokens
<1>4. goals \in 0..MaxGoals /\ foreign \in 0..MaxForeign /\ faults \in 0..MaxFaults
  BY WebACLAssumption DEF Init
<1>5. pc \in Locations /\ result \in Results
  BY DEF Init, Locations, Results
<1> QED
  BY <1>1, <1>2, <1>3, <1>4, <1>5 DEF Init, TypeOK, ACLs, Records, Tokens

LEMMA TypeNext == TypeOK /\ PlaceOK /\ [Next]_vars => TypeOK'
<1> SUFFICES ASSUME TypeOK, PlaceOK, [Next]_vars
             PROVE  TypeOK'
  OBVIOUS
<1> USE DEF Results, Succeeded, env
<1> DEFINE ServiceOK == acl \in ACLs /\ tags \in TagSets /\ associated \in BOOLEAN
           CallOK == /\ input \in [shield : SUBSET ShieldRules, token : Tokens]
                     /\ sent \subseteq Tokens /\ atRefresh \in Tokens
                     /\ disturbed \in BOOLEAN /\ turned \in BOOLEAN /\ observed \in Tokens
           BoundsOK == /\ goals \in 0..MaxGoals /\ foreign \in 0..MaxForeign
                       /\ faults \in 0..MaxFaults
<1> SUFFICES ControlOK' /\ ServiceOK' /\ CallOK' /\ BoundsOK' /\ desired' \in Goals
  BY DEF TypeOK, ControlOK, ACLs, Records
<1>t. ControlOK /\ ServiceOK /\ CallOK /\ BoundsOK /\ desired \in Goals
  BY DEF TypeOK, ControlOK, ACLs, Records
<1>b. BoundsOK' /\ desired' \in Goals
  <2>1. CASE Start \/ Plan \/ PlanMissing \/ CallFails \/ Create \/ ReadCreated \/ Prepare
    BY <1>t, <2>1, WebACLAssumption
       DEF Start, Plan, PlanMissing, CallFails, Create, ReadCreated, Prepare, Faulty
  <2>2. CASE Update \/ Delete
    <3>1. UNCHANGED <<goals, foreign, desired>> /\ (UNCHANGED faults \/ Faulty)
      BY <2>2 DEF Update, Delete
    <3> QED
      BY <1>t, <3>1, WebACLAssumption DEF Faulty
  <2>4. CASE Refresh \/ SyncTags \/ Read \/ RefreshDelete
    BY <1>t, <2>4, WebACLAssumption DEF Refresh, SyncTags, Read, RefreshDelete, Faulty
  <2>3. CASE NewGoal \/ ForeignWrite \/ Associate \/ Disassociate \/ UNCHANGED vars
    BY <1>t, <2>3, WebACLAssumption
       DEF NewGoal, ForeignWrite, Associate, Disassociate, vars
  <2> QED
    BY <2>1, <2>2, <2>3, <2>4 DEF Next, Call
<1>n. 0 \in Tokens /\ acl.token \in Tokens /\ acl.token + 1 \in Tokens
  BY <1>t, TokenTypes
<1>r. prior.known => prior.token \in Tokens
  BY <1>t, RecordTypes DEF ControlOK
<1>1. CASE Start
  <2>1. ControlOK'
    BY <1>1, GotoTypes, ReturnTypes DEF Start, AfterConfig, Locations
  <2>2. input' \in [shield : SUBSET ShieldRules, token : Tokens]
    BY <1>1, <1>t, <1>n, <1>r, GoalTypes DEF Start, PriorToken
  <2> QED
    BY <1>1, <1>t, <1>n, <1>b, <2>1, <2>2 DEF Start
<1>2. CASE Plan \/ PlanMissing \/ NewGoal
  BY <1>2, <1>t, <1>n, <1>b, RecordTypes DEF Plan, PlanMissing, NewGoal, ControlOK
<1>3. CASE Create
  <2>1. ControlOK'
    BY <1>3, GotoTypes, ReturnTypes DEF Create, Locations
  <2>2. ServiceOK'
    BY <1>3, <1>t, <1>n, ACLTypes, GoalTypes DEF Create, PlaceOK
  <2> QED
    BY <1>3, <1>t, <1>b, <2>1, <2>2 DEF Create
<1>4. CASE ReadCreated \/ Read \/ CallFails
  BY <1>4, <1>t, <1>b, ReturnTypes DEF ReadCreated, Read, CallFails, PlaceOK, Updating
<1>5. CASE Prepare
  <2>1. ControlOK'
    BY <1>5, GotoTypes, ReturnTypes DEF Prepare, Locations
  <2>2. acl.exists => Prepared \in [shield : SUBSET ShieldRules, token : Tokens]
    BY <1>t DEF Prepared, ACLs
  <2> QED
    BY <1>5, <1>t, <1>b, <2>1, <2>2 DEF Prepare
<1>6. CASE Update
  <2>1. ControlOK'
    BY <1>6, GotoTypes, ReturnTypes DEF Update, Conflict, AfterConfig, Locations
  <2>2. acl' \in ACLs
    BY <1>6, <1>t, <1>n, ACLTypes, GoalTypes DEF Update, PlaceOK, Updating
  <2> QED
    BY <1>6, <1>t, <1>b, <2>1, <2>2 DEF Update
<1>7. CASE Refresh \/ RefreshDelete
  <2>1. ControlOK'
    BY <1>7, GotoTypes, ReturnTypes DEF Refresh, RefreshDelete, Locations
  <2> QED
    BY <1>7, <1>t, <1>n, <1>b, <2>1 DEF Refresh, RefreshDelete, Refreshed
<1>8. CASE SyncTags
  <2>1. ControlOK'
    BY <1>8, GotoTypes, ReturnTypes DEF SyncTags, Locations
  <2> QED
    BY <1>8, <1>t, <1>b, <2>1, GoalTypes DEF SyncTags, PlaceOK, Updating
<1>9. CASE Delete
  <2>1. ControlOK'
    BY <1>9, GotoTypes, ReturnTypes DEF Delete, Locations
  <2> QED
    BY <1>9, <1>t, <1>n, <1>b, <2>1, ACLTypes DEF Delete
<1>10. CASE ForeignWrite \/ Associate \/ Disassociate
  <2>1. acl' \in ACLs
    BY <1>10, <1>t, <1>n, ACLTypes DEF ForeignWrite, Associate, Disassociate
  <2> QED
    BY <1>10, <1>t, <1>b, <2>1 DEF ForeignWrite, Associate, Disassociate, ControlOK
<1>11. CASE UNCHANGED vars
  BY <1>11, <1>t DEF vars, ControlOK
<1> QED
  BY <1>1, <1>2, <1>3, <1>4, <1>5, <1>6, <1>7, <1>8, <1>9, <1>10, <1>11 DEF Next, Call

LEMMA PlaceInit == Init => PlaceOK
  BY DEF Init, PlaceOK, Updating, Deleting

LEMMA PlaceNext == TypeOK /\ PlaceOK /\ [Next]_vars => PlaceOK'
<1> SUFFICES ASSUME TypeOK, PlaceOK, [Next]_vars
             PROVE  PlaceOK'
  OBVIOUS
<1> USE DEF PlaceOK, Goto, Return, env, Updating, Deleting
<1>1. CASE Start
  BY <1>1 DEF Start, AfterConfig, Unrecorded
<1>2. CASE Plan \/ PlanMissing \/ NewGoal \/ CallFails
  BY <1>2 DEF Plan, PlanMissing, NewGoal, CallFails
<1>3. CASE Create \/ ReadCreated \/ Prepare
  BY <1>3 DEF Create, ReadCreated, Prepare
<1>4. CASE Update
  BY <1>4 DEF Update, Conflict, AfterConfig
<1>5. CASE Refresh \/ SyncTags \/ Read
  BY <1>5 DEF Refresh, SyncTags, Read
<1>6. CASE Delete \/ RefreshDelete
  BY <1>6 DEF Delete, RefreshDelete
<1>7. CASE ForeignWrite \/ Associate \/ Disassociate \/ UNCHANGED vars
  BY <1>7 DEF ForeignWrite, Associate, Disassociate, vars
<1> QED
  BY <1>1, <1>2, <1>3, <1>4, <1>5, <1>6, <1>7 DEF Next, Call

LEMMA TokenGrows ==
  ASSUME TypeOK, [Next]_vars
  PROVE  acl.token \in Nat /\ acl'.token \in Nat /\ acl.token <= acl'.token
<1>1. acl.token \in Nat
  BY TokenTypes DEF TypeOK, ACLs, Tokens
<1>2. \/ UNCHANGED acl
      \/ \E c, s : acl' = ACL(c, s, acl.token + 1)
      \/ acl' = NoACL(acl.token)
  <2>1. CASE Create \/ Update \/ Delete \/ ForeignWrite
    BY <2>1 DEF Create, Update, Delete, ForeignWrite
  <2>2. CASE Start \/ Plan \/ PlanMissing \/ NewGoal \/ CallFails \/ ReadCreated \/ Prepare
    BY <2>2 DEF Start, Plan, PlanMissing, NewGoal, CallFails, ReadCreated, Prepare
  <2>3. CASE \/ Refresh \/ SyncTags \/ Read \/ RefreshDelete
             \/ Associate \/ Disassociate \/ UNCHANGED vars
    BY <2>3 DEF Refresh, SyncTags, Read, RefreshDelete, Associate, Disassociate, vars
  <2> QED
    BY <2>1, <2>2, <2>3 DEF Next, Call
<1>3. CASE \E c, s : acl' = ACL(c, s, acl.token + 1)
  BY <1>1, <1>3 DEF ACL
<1> QED
  BY <1>1, <1>2, <1>3 DEF NoACL

LEMMA TokensInit == Init => TokensOK
  BY DEF Init, TokensOK, NoACL, Tokens, First, Again

LEMMA TokensNext == TypeOK /\ PlaceOK /\ TokensOK /\ [Next]_vars => TokensOK'
<1> SUFFICES ASSUME TypeOK, PlaceOK, TokensOK, [Next]_vars
             PROVE  TokensOK'
  OBVIOUS
<1>t. /\ acl.token \in Nat /\ acl'.token \in Nat /\ acl.token <= acl'.token
      /\ atRefresh \in Nat /\ input.token \in Tokens /\ 0 \in Tokens
  BY TokenGrows DEF TypeOK, Tokens
<1> USE DEF TokensOK, Goto, Return, env, First, Again
<1>1. CASE Start
  BY <1>1, <1>t DEF Start, AfterConfig, Tokens
<1>2. CASE Plan \/ PlanMissing \/ NewGoal \/ CallFails
  BY <1>2, <1>t DEF Plan, PlanMissing, NewGoal, CallFails, PlaceOK
<1>3. CASE Create \/ ReadCreated \/ Prepare
  BY <1>3, <1>t DEF Create, ReadCreated, Prepare
<1>4. CASE Update \/ Delete
  <2>1. /\ sent' = sent \union {input.token}
        /\ UNCHANGED <<input, atRefresh>>
    BY <1>4 DEF Update, Delete
  <2>2. CASE pc \in {"update", "delete"}
    <3>1. sent' \subseteq {input.token}
      BY <2>1, <2>2
    <3>2. \E t, u \in Tokens : sent' \subseteq {t, u}
      BY <1>t, <3>1
    <3>3. /\ pc' \in {"idle", "tags", "read"} \union First
          /\ result' # "plan_again"
      BY <1>4, <2>2 DEF Update, Delete, Conflict, AfterConfig
    <3> QED
      BY <1>t, <2>1, <3>1, <3>2, <3>3
  <2>3. CASE pc \in Again
    <3>1. PICK t \in Tokens : sent \subseteq {t, input.token}
      BY <2>3
    <3>2. sent' \subseteq {t, input.token}
      BY <2>1, <3>1
    <3>3. pc' \in {"idle", "tags", "read"} \union Again
      BY <1>4, <2>3 DEF Update, Delete, Conflict, AfterConfig
    <3>4. result' = "plan_again" => acl'.token = acl.token /\ acl.token # input.token
      BY <1>4, <2>3 DEF Update, Delete, Conflict, AfterConfig
    <3>5. result' = "plan_again" => acl'.token > atRefresh'
      BY <1>t, <2>1, <2>3, <3>4
    <3> QED
      BY <1>t, <2>1, <2>3, <3>2, <3>3, <3>5
  <2> QED
    BY <1>4, <2>2, <2>3 DEF Update, Delete
<1>5. CASE Refresh \/ RefreshDelete
  <2>1. /\ UNCHANGED <<acl, sent>> /\ atRefresh' = acl.token
        /\ sent \subseteq {input.token}
        /\ result' # "plan_again"
    BY <1>5 DEF Refresh, RefreshDelete
  <2>2. acl.token \in Tokens /\ \E t, u \in Tokens : sent' \subseteq {t, u}
    BY <1>t, <2>1 DEF Tokens
  <2>3. CASE pc' = "idle"
    BY <1>t, <2>1, <2>2, <2>3
  <2>4. CASE pc' \in Again
    <3>1. input' = [input EXCEPT !.token = acl.token]
      BY <1>5, <2>4 DEF Refresh, RefreshDelete, Refreshed
    <3>2. input'.token = acl.token
      BY <3>1 DEF TypeOK
    <3>3. \E t \in Tokens : sent' \subseteq {t, input'.token}
      BY <1>t, <2>1
    <3> QED
      BY <1>t, <2>1, <2>2, <2>4, <3>2, <3>3
  <2> QED
    BY <1>5, <2>3, <2>4 DEF Refresh, RefreshDelete
<1>7. CASE SyncTags \/ Read
  BY <1>7, <1>t DEF SyncTags, Read
<1>8. CASE ForeignWrite \/ Associate \/ Disassociate \/ UNCHANGED vars
  BY <1>8, <1>t DEF ForeignWrite, Associate, Disassociate, vars
<1> QED
  BY <1>1, <1>2, <1>3, <1>4, <1>5, <1>7, <1>8 DEF Next, Call

LEMMA InputInit == Init => InputOK
  BY DEF Init, InputOK

LEMMA InputNext == TypeOK /\ PlaceOK /\ InputOK /\ [Next]_vars => InputOK'
<1> SUFFICES ASSUME TypeOK, PlaceOK, InputOK, [Next]_vars
             PROVE  InputOK'
  OBVIOUS
<1>t. /\ acl.token \in Nat /\ acl'.token \in Nat /\ acl.token <= acl'.token
      /\ input.token \in Nat
  BY TokenGrows DEF TypeOK, Tokens
<1> USE DEF InputOK, Goto, Return, env
<1>1. CASE Start
  <2>1. CASE pc' \in {"prepare", "update"}
    <3>1. /\ input' = [shield |-> desired.own, token |-> PriorToken]
          /\ UNCHANGED <<acl, desired>>
          /\ pc' = IF desired.own # {} THEN "update" ELSE "prepare"
      BY <1>1, <2>1 DEF Start, AfterConfig
    <3> QED
      BY <3>1
  <2>2. CASE pc' \notin {"prepare", "update"}
    <3>1. pc' \notin {"prepare", "update", "refresh", "update_again"}
      BY <1>1, <2>2 DEF Start, AfterConfig
    <3> QED
      BY <3>1
  <2> QED
    BY <2>1, <2>2
<1>2. CASE Plan \/ PlanMissing \/ NewGoal \/ CallFails
  BY <1>2, <1>t DEF Plan, PlanMissing, NewGoal, CallFails
<1>3. CASE Create \/ ReadCreated
  BY <1>3, <1>t DEF Create, ReadCreated
<1>4. CASE Prepare
  BY <1>4, <1>t DEF Prepare, Prepared
<1>5. CASE Update
  <2>1. CASE pc' = "update"
    <3>1. /\ pc = "update" /\ UNCHANGED <<input, desired>>
          /\ acl.token = input.token /\ acl'.token = acl.token + 1
      BY <1>5, <2>1 DEF Update, Conflict, AfterConfig, ACL
    <3> QED
      BY <1>t, <2>1, <3>1
  <2>2. CASE pc' # "update"
    <3>1. /\ UNCHANGED <<input, desired>> /\ pc' # "prepare"
          /\ pc' \in {"refresh", "update_again"} => pc \in {"update", "update_again"}
      BY <1>5, <2>2 DEF Update, Conflict, AfterConfig
    <3> QED
      BY <2>2, <3>1
  <2> QED
    BY <2>1, <2>2
<1>6. CASE Refresh
  <2>1. UNCHANGED desired /\ pc' \in {"idle", "update_again"}
    BY <1>6 DEF Refresh
  <2>2. pc' = "update_again" => input'.shield = input.shield
    BY <1>6 DEF Refresh, Refreshed, TypeOK
  <2> QED
    BY <1>6, <2>1, <2>2 DEF Refresh
<1>7. CASE SyncTags \/ Read \/ Delete \/ RefreshDelete
  BY <1>7 DEF SyncTags, Read, Delete, RefreshDelete
<1>8. CASE ForeignWrite
  <2>1. acl'.token = acl.token + 1 /\ UNCHANGED <<pc, input, desired>>
    BY <1>8 DEF ForeignWrite, ACL
  <2> QED
    BY <1>t, <2>1
<1>9. CASE Associate \/ Disassociate \/ UNCHANGED vars
  BY <1>9 DEF Associate, Disassociate, vars
<1> QED
  BY <1>1, <1>2, <1>3, <1>4, <1>5, <1>6, <1>7, <1>8, <1>9 DEF Next, Call

LEMMA AppliedInit == Init => AppliedOK
  BY DEF Init, AppliedOK

LEMMA AppliedNext ==
  TypeOK /\ PlaceOK /\ TokensOK /\ InputOK /\ AppliedOK /\ [Next]_vars => AppliedOK'
<1> SUFFICES ASSUME TypeOK, PlaceOK, TokensOK, InputOK, AppliedOK, [Next]_vars
             PROVE  AppliedOK'
  OBVIOUS
<1> USE DEF AppliedOK, Goto, Return, env
<1>1. CASE Start
  BY <1>1 DEF Start
<1>2. CASE Plan \/ PlanMissing \/ NewGoal \/ CallFails
  BY <1>2 DEF Plan, PlanMissing, NewGoal, CallFails
<1>3. CASE Create \/ ReadCreated \/ Prepare
  BY <1>3 DEF Create, ReadCreated, Prepare
<1>4. CASE Update
  <2>1. CASE pc' \in {"idle", "refresh"} /\ result' # "updated"
    BY <2>1
  <2>2. CASE acl' = ACL(desired.config, input.shield, acl.token + 1)
    <3>1. desired.own \subseteq input.shield /\ UNCHANGED desired
      BY <1>4 DEF Update, InputOK
    <3> QED
      BY <2>2, <3>1 DEF ACL
  <2> QED
    BY <1>4, <2>1, <2>2 DEF Update, Conflict
<1>5. CASE Refresh \/ RefreshDelete \/ Delete
  BY <1>5 DEF Refresh, RefreshDelete, Delete
<1>6. CASE SyncTags \/ Read
  BY <1>6 DEF SyncTags, Read
<1>7. CASE ForeignWrite \/ Associate \/ Disassociate \/ UNCHANGED vars
  BY <1>7 DEF ForeignWrite, Associate, Disassociate, vars
<1> QED
  BY <1>1, <1>2, <1>3, <1>4, <1>5, <1>6, <1>7 DEF Next, Call

LEMMA TagsInit == Init => TagsOK
  BY DEF Init, TagsOK, Unrecorded

LEMMA TagsNext == TypeOK /\ PlaceOK /\ TagsOK /\ [Next]_vars => TagsOK'
<1> SUFFICES ASSUME TypeOK, PlaceOK, TagsOK, [Next]_vars
             PROVE  TagsOK'
  OBVIOUS
<1>t. turned \in BOOLEAN
  BY DEF TypeOK
<1> USE DEF TagsOK, Goto, Return, env
<1>1. CASE Start
  BY <1>1, <1>t DEF Start, AfterConfig
<1>2. CASE Plan \/ PlanMissing \/ CallFails
  BY <1>2, <1>t DEF Plan, PlanMissing, CallFails, Unrecorded
<1>8. CASE NewGoal
  <2>1. /\ pc' = "idle" /\ result' = "none" /\ UNCHANGED <<tags, prior>>
        /\ ~turned' => ~turned /\ (prior.known => tags = prior.tags)
    BY <1>8, <1>t, Zenon DEF NewGoal
  <2> QED
    BY <2>1
<1>3. CASE Create \/ ReadCreated \/ Prepare
  BY <1>3, <1>t DEF Create, ReadCreated, Prepare, PlaceOK
<1>4. CASE Update
  <2>1. UNCHANGED <<tags, desired, turned>> /\ prior.known /\ desired.op = "apply"
    BY <1>4 DEF Update, PlaceOK, Updating
  <2>2. /\ UNCHANGED prior /\ pc' # "read_created"
        /\ pc' = "read" => desired.tags = prior.tags
        /\ pc' = "idle" => result' # "updated"
    BY <1>4 DEF Update, Conflict, AfterConfig
  <2> QED
    BY <1>t, <2>1, <2>2
<1>5. CASE SyncTags \/ Read
  BY <1>5, <1>t DEF SyncTags, Read, PlaceOK, Updating
<1>6. CASE Refresh \/ RefreshDelete \/ Delete
  BY <1>6, <1>t DEF Refresh, RefreshDelete, Delete, Unrecorded
<1>7. CASE ForeignWrite \/ Associate \/ Disassociate \/ UNCHANGED vars
  BY <1>7, <1>t DEF ForeignWrite, Associate, Disassociate, vars
<1> QED
  BY <1>1, <1>2, <1>3, <1>4, <1>5, <1>6, <1>7, <1>8 DEF Next, Call

\* A delete that succeeded saw the ACL absent or removed it, and nothing
\* creates one before the next operation.
GoneOK == result = "deleted" => ~acl.exists

LEMMA GoneNext == PlaceOK /\ GoneOK /\ [Next]_vars => GoneOK'
<1> SUFFICES ASSUME PlaceOK, GoneOK, [Next]_vars
             PROVE  GoneOK'
  OBVIOUS
<1> USE DEF GoneOK, Goto, Return, env
<1>1. CASE Start \/ Plan \/ PlanMissing \/ NewGoal \/ CallFails
  BY <1>1 DEF Start, Plan, PlanMissing, NewGoal, CallFails
<1>2. CASE Create \/ ReadCreated \/ Prepare
  BY <1>2 DEF Create, ReadCreated, Prepare
<1>3. CASE Update \/ Refresh \/ SyncTags \/ Read
  BY <1>3 DEF Update, Conflict, Refresh, SyncTags, Read
<1>4. CASE Delete \/ RefreshDelete
  BY <1>4 DEF Delete, RefreshDelete, NoACL
<1>5. CASE ForeignWrite \/ Associate \/ Disassociate \/ UNCHANGED vars
  BY <1>5 DEF ForeignWrite, Associate, Disassociate, vars
<1> QED
  BY <1>1, <1>2, <1>3, <1>4, <1>5 DEF Next, Call

LEMMA Invariance == Spec => [](IInv /\ GoneOK)
<1>1. Init => IInv /\ GoneOK
  BY TypeInit, PlaceInit, TokensInit, InputInit, AppliedInit, TagsInit DEF IInv, Init, GoneOK
<1>2. IInv /\ GoneOK /\ [Next]_vars => (IInv /\ GoneOK)'
  BY TypeNext, PlaceNext, TokensNext, InputNext, AppliedNext, TagsNext, GoneNext DEF IInv
<1> QED
  BY <1>1, <1>2, PTL DEF Spec

\* Type correctness of every state that create, update, delete and their
\* retries and refreshes reach (web_acl_rsrc.go, web_acl_update.go,
\* web_acl_delete.go).
THEOREM TypeCorrect == Spec => []TypeOK
<1>1. IInv => TypeOK
  BY DEF IInv
<1> QED
  BY <1>1, Invariance, PTL

\* An update that wrote and succeeded left the ACL with the configuration and
\* the rules it asked for, unless others wrote after it; and every one that
\* succeeded the tags it asked for, unless the goal changed after a failed
\* update had written tags (web_acl_update.go, update).
THEOREM UpdateIsApplied == Spec => []UpdateApplied
<1>1. IInv => UpdateApplied
  BY DEF IInv, AppliedOK, TagsOK, TypeOK, UpdateApplied
<1> QED
  BY <1>1, Invariance, PTL

LEMMA PairSize ==
  ASSUME NEW S, NEW t, NEW u, S \subseteq {t, u}
  PROVE  Cardinality(S) <= 2
<1>1. IsFiniteSet({t}) /\ Cardinality({t}) = 1
  BY FS_Singleton
<1>2. /\ IsFiniteSet({t} \union {u})
      /\ Cardinality({t} \union {u}) \in {1, 2}
  BY <1>1, FS_AddElement
<1>3. S \subseteq {t} \union {u}
  OBVIOUS
<1>4. /\ Cardinality(S) \in Nat
      /\ Cardinality(S) <= Cardinality({t} \union {u})
  BY <1>2, <1>3, FS_Subset, FS_CardinalityType
<1> QED
  BY <1>2, <1>4

\* An operation presents two tokens at most, and asks for another plan only
\* when a write landed after its refresh (web_acl_update.go:66,
\* web_acl_delete.go:67).
THEOREM RefreshesOnce == Spec => []PlanAgainMeansChanged
<1>1. IInv => PlanAgainMeansChanged
  <2> SUFFICES ASSUME TokensOK
               PROVE  PlanAgainMeansChanged
    BY DEF IInv
  <2>1. PICK t, u \in Tokens : sent \subseteq {t, u}
    BY DEF TokensOK
  <2>2. Cardinality(sent) <= 2
    BY <2>1, PairSize
  <2> QED
    BY <2>2 DEF TokensOK, PlanAgainMeansChanged
<1> QED
  BY <1>1, Invariance, PTL

\* A delete that reports success left no ACL (web_acl_delete.go, delete).
THEOREM DeletedIsGone == Spec => []DeletedMeansGone
<1>1. GoneOK => DeletedMeansGone
  BY DEF GoneOK, DeletedMeansGone
<1> QED
  BY <1>1, Invariance, PTL

\* A first attempt that is accepted leaves Shield's rules in place: rules and
\* token come from one read (web_acl_shield.go, prepareWebACLUpdateInput).
THEOREM ShieldIsKept == Spec => ShieldKeptAtFirst
<1> DEFINE Kept == Written /\ pc = "update" /\ desired.own = {} => acl'.shield = acl.shield
<1>1. IInv /\ [Next]_vars => [Kept]_vars
  <2> SUFFICES ASSUME IInv, [Next]_vars, Written, pc = "update", desired.own = {}
               PROVE  acl'.shield = acl.shield
    BY DEF Written
  <2>1. CASE Update
    <3>1. acl'.token # acl.token /\ acl.exists
      BY DEF Written
    <3>2. acl.token = input.token /\ acl' = ACL(desired.config, input.shield, acl.token + 1)
      BY <2>1, <3>1 DEF Update
    <3>3. acl.shield = input.shield
      BY <3>1, <3>2 DEF IInv, InputOK
    <3> QED
      BY <3>2, <3>3 DEF ACL
  <2>2. CASE CallFails \/ Associate \/ Disassociate \/ UNCHANGED vars
    BY <2>2 DEF CallFails, Associate, Disassociate, vars, Written
  <2>3. CASE ForeignWrite
    <3>1. foreign \in Nat
      BY WebACLAssumption DEF IInv, TypeOK
    <3> QED
      BY <2>3, <3>1 DEF ForeignWrite, Written
  <2>4. \/ Update \/ CallFails \/ Associate \/ Disassociate
        \/ ForeignWrite \/ UNCHANGED vars
    BY DEF Next, Call, Start, Plan, PlanMissing, NewGoal, Create, ReadCreated,
           Prepare, Refresh, SyncTags, Read, Delete, RefreshDelete
  <2> QED
    BY <2>1, <2>2, <2>3, <2>4
<1> QED
  BY <1>1, Invariance, PTL DEF Spec, ShieldKeptAtFirst
=============================================================================
