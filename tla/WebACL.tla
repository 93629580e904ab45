------------------------------- MODULE WebACL -------------------------------
(***************************************************************************)
(* internal/service/wafv2, the web ACL resource: one ACL under optimistic  *)
(* locking, written by this library, by Shield Advanced, which adds and    *)
(* removes its mitigation rules, and by others.                            *)
(*                                                                         *)
(* WAF is external.  Every accepted write changes the lock token, and a    *)
(* write that presents another token is refused with a lock conflict.  An  *)
(* answer may be lost after the write was made: the SDK then sends the     *)
(* same call again, or reports an error.  The runtime records inputs and   *)
(* outputs only when an operation succeeds, and applies again after a      *)
(* failure.                                                                *)
(***************************************************************************)
EXTENDS Naturals, FiniteSets

CONSTANTS
  Configs,      \* everything an update writes but the Shield rules
  TagSets,      \* tag maps (how Sync reconciles one is TagSync's subject)
  ShieldRules,  \* names of Shield mitigation rules
  MaxGoals,     \* bound on the configurations the user asks for
  MaxForeign,   \* bound on writes by others
  MaxFaults     \* bound on refused, failed and lost calls

ASSUME WebACLAssumption ==
  /\ MaxGoals \in Nat /\ MaxForeign \in Nat /\ MaxFaults \in Nat

VARIABLES
  acl,         \* the ACL in WAF; token 0 stands for none created yet
  tags,        \* its tags
  associated,  \* some resource is associated with it
  prior,       \* what the runtime recorded
  observed,    \* the token the latest plan's Read returned, 0 for no Read
  desired,     \* what the configuration asks for
  input,       \* the update or delete call being made
  pc,
  result,      \* how the latest operation ended
  goals, foreign, faults,
  sent,        \* history: tokens presented in this operation
  atRefresh,   \* history: the ACL's version when this operation refreshed
  disturbed,   \* history: others wrote since this operation's accepted write
  turned       \* history: the goal changed after a failed update wrote tags

env == <<associated, goals, foreign>>
vars == <<acl, tags, associated, prior, observed, desired, input, pc, result,
          goals, foreign, faults, sent, atRefresh, disturbed, turned>>

Tokens == Nat
Goals == [op : {"apply"}, config : Configs, own : SUBSET ShieldRules, tags : TagSets]
         \union {[op |-> "destroy"]}
Succeeded == {"created", "updated", "deleted", "nothing"}
Results == {"none", "failed", "plan_again"} \union Succeeded
Locations == {"idle", "create", "read_created", "prepare", "update", "refresh",
              "update_again", "tags", "read", "delete", "refresh_delete",
              "delete_again"}

Unrecorded == [known |-> FALSE]
NoACL(version) == [exists |-> FALSE, token |-> version]
ACL(config, shield, version) ==
  [exists |-> TRUE, config |-> config, shield |-> shield, token |-> version]

Init ==
  /\ acl = NoACL(0)
  /\ tags \in TagSets
  /\ associated = FALSE
  /\ prior = Unrecorded
  /\ observed = 0
  /\ desired \in {g \in Goals : g.op = "apply"}
  /\ input = [shield |-> {}, token |-> 0]
  /\ pc = "idle" /\ result = "none"
  /\ goals = 0 /\ foreign = 0 /\ faults = 0
  /\ sent = {} /\ atRefresh = 0 /\ disturbed = FALSE /\ turned = FALSE

Goto(l) == pc' = l /\ result' = "none" /\ UNCHANGED prior

Return(r) ==
  /\ pc' = "idle"
  /\ result' = r
  /\ prior' = CASE r \in {"created", "updated"} ->
                     [known |-> TRUE, config |-> desired.config,
                      own |-> desired.own, tags |-> desired.tags,
                      token |-> acl.token]
                [] r = "deleted" -> Unrecorded
                [] OTHER -> prior

Faulty == faults < MaxFaults /\ faults' = faults + 1

-----------------------------------------------------------------------------
\* The runtime starts the operation that the goal and its record call for.

configurationChanged == desired.config # prior.config \/ desired.own # prior.own

AfterConfig == IF desired.tags # prior.tags THEN "tags" ELSE "read"

\* webACLUpdatePriorOutput: the plan's token when there is one.
PriorToken == IF observed # 0 THEN observed ELSE prior.token

Start ==
  /\ pc = "idle"
  /\ result \notin Succeeded
  /\ sent' = {} /\ atRefresh' = 0 /\ disturbed' = FALSE
  /\ \/ /\ desired.op = "destroy"
        /\ IF prior.known
           THEN /\ Goto("delete")
                /\ input' = [shield |-> {}, token |-> prior.token]
           ELSE Return("nothing") /\ UNCHANGED input
     \/ /\ desired.op = "apply"
        /\ IF ~prior.known
           THEN Goto("create") /\ UNCHANGED input
           ELSE /\ input' = [shield |-> desired.own, token |-> PriorToken]
                /\ Goto(IF ~configurationChanged THEN AfterConfig
                        ELSE IF desired.own # {} THEN "update"
                        ELSE "prepare")
  /\ observed' = 0
  /\ UNCHANGED <<acl, tags, desired, faults, turned, env>>

\* The plan's Read, at any time before the apply.
Plan ==
  /\ pc = "idle" /\ prior.known /\ acl.exists
  /\ observed' = acl.token
  /\ UNCHANGED <<acl, tags, prior, desired, input, pc, result, faults, sent,
                 atRefresh, disturbed, turned, env>>

\* The plan's Read finds the recorded ACL gone: the runtime forgets it.
PlanMissing ==
  /\ pc = "idle" /\ prior.known /\ ~acl.exists
  /\ prior' = Unrecorded
  /\ UNCHANGED <<acl, tags, observed, desired, input, pc, result, faults, sent,
                 atRefresh, disturbed, turned, env>>

\* The user asks for something else.
NewGoal ==
  /\ pc = "idle" /\ goals < MaxGoals
  /\ desired' \in Goals
  /\ desired' # desired
  /\ goals' = goals + 1
  /\ result' = "none"
  /\ turned' = (turned \/ (prior.known /\ tags # prior.tags))
  /\ UNCHANGED <<acl, tags, associated, prior, observed, input, pc, foreign,
                 faults, sent, atRefresh, disturbed>>

-----------------------------------------------------------------------------
\* Any call may fail with an error the code does not retry, or be refused as
\* unavailable until the retries time out: the operation fails, and what its
\* earlier calls did stays done.  A refusal that a retry outlives changes
\* nothing here.
CallFails ==
  /\ pc # "idle"
  /\ Faulty
  /\ Return("failed")
  /\ UNCHANGED <<acl, tags, observed, desired, input, sent, atRefresh, disturbed, turned, env>>

\* CreateWebACL with its tags; a name that is taken is an error.
Create ==
  /\ pc = "create"
  /\ IF acl.exists THEN Return("failed") /\ UNCHANGED <<acl, tags, faults, disturbed, turned>>
     ELSE /\ acl' = ACL(desired.config, desired.own, acl.token + 1)
          /\ tags' = desired.tags
          /\ disturbed' = FALSE /\ turned' = FALSE
          /\ \/ Goto("read_created") /\ UNCHANGED faults
             \/ Faulty /\ Goto("create")
             \/ Faulty /\ Return("failed")
  /\ UNCHANGED <<observed, desired, input, sent, atRefresh, env>>

ReadCreated ==
  /\ pc = "read_created"
  /\ IF acl.exists THEN Return("created") ELSE Return("failed")
  /\ UNCHANGED <<acl, tags, observed, desired, input, faults, sent, atRefresh,
                 disturbed, turned, env>>

PreparedWithoutShieldRules == [shield |-> {}, token |-> acl.token]

PreparedWithEveryRule == [shield |-> acl.shield \union {acl.config}, token |-> acl.token]

\* prepareWebACLUpdateInput: the update carries the Shield rules found now,
\* under the token found with them.
Prepared == [shield |-> acl.shield, token |-> acl.token]

Prepare ==
  /\ pc = "prepare"
  /\ IF acl.exists THEN input' = Prepared /\ Goto("update")
     ELSE Return("failed") /\ UNCHANGED input
  /\ UNCHANGED <<acl, tags, observed, desired, faults, sent, atRefresh,
                 disturbed, turned, env>>

ConflictTakenForApplied == Goto(AfterConfig)

\* A lock conflict: refresh once, then give up.
Conflict ==
  IF pc = "update" THEN Goto("refresh") ELSE Return("plan_again")

\* UpdateWebACL, first or after the refresh.
Update ==
  /\ pc \in {"update", "update_again"}
  /\ sent' = sent \union {input.token}
  /\ IF ~acl.exists
     THEN Return("failed") /\ UNCHANGED <<acl, faults, disturbed>>
     ELSE IF acl.token # input.token
     THEN Conflict /\ UNCHANGED <<acl, faults, disturbed>>
     ELSE /\ acl' = ACL(desired.config, input.shield, acl.token + 1)
          /\ disturbed' = FALSE
          /\ \/ Goto(AfterConfig) /\ UNCHANGED faults
             \/ Faulty /\ Goto(pc)
             \/ Faulty /\ Return("failed")
  /\ UNCHANGED <<tags, observed, desired, input, atRefresh, turned, env>>

RefreshedWithOldToken(token) == input

\* The refresh after a conflict replaces the token and nothing else.
Refreshed(token) == [input EXCEPT !.token = token]

\* refreshWebACLUpdateLockToken.  A read that fails, or still shows the token
\* just refused, ends the update.
Refresh ==
  /\ pc = "refresh"
  /\ atRefresh' = acl.token
  /\ IF acl.exists /\ acl.token # input.token
     THEN input' = Refreshed(acl.token) /\ Goto("update_again")
     ELSE Return("failed") /\ UNCHANGED input
  /\ UNCHANGED <<acl, tags, observed, desired, faults, sent, disturbed, turned, env>>

\* syncTags: carried out, or failed before or after the tags were written.
SyncTags ==
  /\ pc = "tags"
  /\ IF ~acl.exists THEN Return("failed") /\ UNCHANGED <<tags, faults, turned>>
     ELSE /\ tags' = desired.tags /\ turned' = FALSE
          /\ \/ Goto("read") /\ UNCHANGED faults
             \/ Faulty /\ Return("failed")
  /\ UNCHANGED <<acl, observed, desired, input, sent, atRefresh, disturbed, env>>

Read ==
  /\ pc = "read"
  /\ IF acl.exists THEN Return("updated") ELSE Return("failed")
  /\ UNCHANGED <<acl, tags, observed, desired, input, faults, sent, atRefresh,
                 disturbed, turned, env>>

-----------------------------------------------------------------------------

AssociatedTakenForGone ==
  /\ pc \in {"delete", "delete_again"}
  /\ sent' = sent \union {input.token}
  /\ IF ~acl.exists \/ associated THEN Return("deleted") /\ UNCHANGED <<acl, faults>>
     ELSE IF acl.token # input.token
     THEN /\ IF pc = "delete" THEN Goto("refresh_delete") ELSE Return("plan_again")
          /\ UNCHANGED <<acl, faults>>
     ELSE /\ acl' = NoACL(acl.token)
          /\ \/ Return("deleted") /\ UNCHANGED faults
             \/ Faulty /\ Goto(pc)
             \/ Faulty /\ Return("failed")
  /\ UNCHANGED <<tags, observed, desired, input, atRefresh, disturbed, turned, env>>

\* DeleteWebACL, first or after the refresh.  An absent ACL is a success.
\* While the ACL is associated the call is retried, until it times out.
Delete ==
  /\ pc \in {"delete", "delete_again"}
  /\ sent' = sent \union {input.token}
  /\ IF ~acl.exists THEN Return("deleted") /\ UNCHANGED <<acl, faults>>
     ELSE IF acl.token # input.token
     THEN /\ IF pc = "delete" THEN Goto("refresh_delete") ELSE Return("plan_again")
          /\ UNCHANGED <<acl, faults>>
     ELSE IF associated
     THEN Return("failed") /\ UNCHANGED <<acl, faults>>
     ELSE /\ acl' = NoACL(acl.token)
          /\ \/ Return("deleted") /\ UNCHANGED faults
             \/ Faulty /\ Goto(pc)
             \/ Faulty /\ Return("failed")
  /\ UNCHANGED <<tags, observed, desired, input, atRefresh, disturbed, turned, env>>

\* The refresh of a delete, which a missing or unchanged token ends.
RefreshDelete ==
  /\ pc = "refresh_delete"
  /\ atRefresh' = acl.token
  /\ IF acl.exists /\ acl.token # input.token
     THEN input' = Refreshed(acl.token) /\ Goto("delete_again")
     ELSE Return("failed") /\ UNCHANGED input
  /\ UNCHANGED <<acl, tags, observed, desired, faults, sent, disturbed, turned, env>>

-----------------------------------------------------------------------------
\* The others.

ForeignWrite ==
  /\ acl.exists /\ foreign < MaxForeign
  /\ foreign' = foreign + 1
  /\ disturbed' = TRUE
  /\ \E c \in Configs, s \in SUBSET ShieldRules :
       /\ c # acl.config \/ s # acl.shield
       /\ acl' = ACL(c, s, acl.token + 1)
  /\ UNCHANGED <<tags, associated, prior, observed, desired, input, pc, result,
                 goals, faults, sent, atRefresh, turned>>

Associate ==
  /\ acl.exists /\ foreign < MaxForeign
  /\ foreign' = foreign + 1
  /\ associated' = TRUE
  /\ UNCHANGED <<acl, tags, prior, observed, desired, input, pc, result, goals,
                 faults, sent, atRefresh, disturbed, turned>>

Disassociate ==
  /\ associated
  /\ associated' = FALSE
  /\ UNCHANGED <<acl, tags, prior, observed, desired, input, pc, result, goals,
                 foreign, faults, sent, atRefresh, disturbed, turned>>

Call ==
  \/ Create \/ ReadCreated \/ Prepare \/ Update \/ Refresh \/ SyncTags \/ Read
  \/ Delete \/ RefreshDelete

Next ==
  \/ Start \/ Plan \/ PlanMissing \/ NewGoal \/ Call \/ CallFails
  \/ ForeignWrite \/ Associate \/ Disassociate

\* A started operation goes on; a failed one is planned, with its Read, and
\* applied again; and the resources associated with an ACL that is to go are
\* disassociated first.
Fairness ==
  /\ WF_vars(Call) /\ WF_vars(Start) /\ WF_vars(Disassociate)
  /\ SF_vars(PlanMissing)

Spec == Init /\ [][Next]_vars /\ Fairness
-----------------------------------------------------------------------------

TypeOK ==
  /\ acl \in [exists : {FALSE}, token : Tokens]
             \union [exists : {TRUE}, config : Configs,
                     shield : SUBSET ShieldRules, token : Tokens]
  /\ tags \in TagSets
  /\ associated \in BOOLEAN /\ disturbed \in BOOLEAN /\ turned \in BOOLEAN
  /\ prior \in [known : {FALSE}]
               \union [known : {TRUE}, config : Configs, own : SUBSET ShieldRules,
                       tags : TagSets, token : Tokens]
  /\ observed \in Tokens /\ atRefresh \in Tokens
  /\ desired \in Goals
  /\ input \in [shield : SUBSET ShieldRules, token : Tokens]
  /\ pc \in Locations
  /\ result \in Results
  /\ goals \in 0..MaxGoals /\ foreign \in 0..MaxForeign /\ faults \in 0..MaxFaults
  /\ sent \subseteq Tokens

Written == acl'.token # acl.token /\ foreign' = foreign /\ acl.exists /\ acl'.exists

\* An update accepted at the first attempt leaves in place every Shield rule
\* present at that moment: rules and token come from one read
\* (web_acl_shield.go, prepareWebACLUpdateInput).
ShieldKeptAtFirst ==
  [][Written /\ pc = "update" /\ desired.own = {} => acl'.shield = acl.shield]_vars

\* What TestWebACLUpdateConfigurationPreservesShieldRules says of every
\* update: writing the configuration keeps the Shield rules.
UpdatePreservesShieldRules ==
  [][Written /\ desired.own = {} => acl'.shield = acl.shield]_vars

\* An update that wrote and returned success left the ACL with the desired
\* configuration and its own Shield rules, unless others wrote after it: also
\* when the first attempts conflicted, or were made and their answers lost.
\* And every update that returned success left the tags desired, unless the
\* goal changed after a failed update had written others than the recorded
\* ones: tags are compared with those recorded (web_acl_update.go, update).
UpdateApplied ==
  pc = "idle" /\ result = "updated" =>
    /\ sent # {} /\ ~disturbed =>
         acl.config = desired.config /\ desired.own \subseteq acl.shield
    /\ tags = desired.tags \/ turned

\* One operation presents at most two tokens: it takes over from another
\* writer once and never fights it; and "resource changed again after refresh"
\* is only said when a write landed after the refresh, another's or its own
\* whose answer was lost (web_acl_update.go:66, web_acl_delete.go:67).
PlanAgainMeansChanged ==
  /\ Cardinality(sent) <= 2
  /\ result = "plan_again" => acl.token > atRefresh

\* A delete reports success only for an ACL that is gone, also when its first
\* answer was lost or the ACL is still associated (web_acl_delete.go, delete).
DeletedMeansGone == result = "deleted" => ~acl.exists

Orphaned == acl.exists /\ ~prior.known

\* Applying again ends in success once calls stop failing and others stop
\* writing: no failed update or delete leaves a state the next cannot finish
\* from.  A create whose answer or read was lost is the exception, since the
\* ACL it made is not recorded (web_acl_rsrc.go, create).
EventuallySucceeds == <>[](Orphaned \/ result \in Succeeded)
=============================================================================
