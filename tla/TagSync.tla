------------------------------- MODULE TagSync -------------------------------
(***************************************************************************)
(* internal/tagsync: Sync reads the live tags, diffs them against the      *)
(* desired ones, removes, then writes.  The two calls in between are the   *)
(* service's own; each may be refused with nothing done, or be carried out *)
(* and its answer lost.  A failed Sync fails the resource's update, and a  *)
(* later apply runs it again from the read.                                *)
(*                                                                         *)
(* A tag map is a total function on Keys, NoTag where a key is absent.     *)
(* Other writers -- AWS itself for reserved keys, another tool for the     *)
(* rest -- may change a tag at any moment.                                 *)
(***************************************************************************)
EXTENDS Integers, FiniteSets

CONSTANTS
  Keys,        \* tag keys
  Reserved,    \* the keys with the "aws:" prefix
  Values,      \* tag values
  NoTag,       \* absence
  Limit,       \* user tags the service lets a resource have (external)
  MaxFaults,   \* bound on failed calls
  MaxForeign   \* bound on changes by others

ASSUME TagAssumption ==
  /\ IsFiniteSet(Keys)
  /\ Reserved \subseteq Keys
  /\ NoTag \notin Values
  /\ Limit \in Nat /\ MaxFaults \in Nat /\ MaxForeign \in Nat

TagMaps == [Keys -> Values \union {NoTag}]

VARIABLES
  tags,      \* the tags on the resource
  desired,   \* the tags the configuration asks for
  pc,        \* "read", "remove", "put", "failed", "synced"
  current,   \* what read returned
  faults,    \* calls that failed so far
  foreign,   \* changes by others so far
  disturbed  \* history: others changed a user tag since this Sync read

vars == <<tags, desired, pc, current, faults, foreign, disturbed>>

User == Keys \ Reserved

Count(t) == Cardinality({k \in User : t[k] # NoTag})

UpsertMissingOnly(cur) ==
  {k \in User : desired[k] # NoTag /\ cur[k] = NoTag}

UpsertEverything(cur) == {k \in User : desired[k] # NoTag}

NoRemovals(cur) == {}

\* Diff: the keys to write, and the keys to remove.
Upsert(cur) == {k \in User : desired[k] # NoTag /\ cur[k] # desired[k]}

Removals(cur) == {k \in User : desired[k] = NoTag /\ cur[k] # NoTag}

\* The configuration fits the limit; it may name reserved keys, which Diff
\* skips.  The resource starts with any tags the service accepts.
Init ==
  /\ tags \in TagMaps /\ Count(tags) <= Limit
  /\ desired \in TagMaps /\ Count(desired) <= Limit
  /\ pc = "read"
  /\ current = tags
  /\ faults = 0 /\ foreign = 0
  /\ disturbed = FALSE

\* Where Sync goes after the read or after the removal: a call is made only
\* if it has something to do.
AfterRemove(cur) == IF Upsert(cur) = {} THEN "synced" ELSE "put"
WriteFirst(cur) == IF Upsert(cur) # {} THEN "put" ELSE "synced"
AfterRead(cur) == IF Removals(cur) = {} THEN AfterRemove(cur) ELSE "remove"

Read ==
  /\ pc = "read"
  /\ current' = tags
  /\ disturbed' = FALSE
  /\ pc' = AfterRead(tags)
  /\ UNCHANGED <<tags, desired, faults, foreign>>

EmptiedNotRemoved == [k \in Keys |-> IF k \in Removals(current) THEN "" ELSE tags[k]]

WithoutRemovals == [k \in Keys |-> IF k \in Removals(current) THEN NoTag ELSE tags[k]]

WithUpserts == [k \in Keys |-> IF k \in Upsert(current) THEN desired[k] ELSE tags[k]]

\* remove(ctx, removals)
Remove ==
  /\ pc = "remove"
  /\ tags' = WithoutRemovals
  /\ pc' = AfterRemove(current)
  /\ UNCHANGED <<desired, current, faults, foreign, disturbed>>

\* put(ctx, upsert): the service refuses a write that would exceed its limit.
Put ==
  /\ pc = "put"
  /\ Count(WithUpserts) <= Limit
  /\ tags' = WithUpserts
  /\ pc' = "synced"
  /\ UNCHANGED <<desired, current, faults, foreign, disturbed>>

PutRefused ==
  /\ pc = "put"
  /\ Count(WithUpserts) > Limit
  /\ pc' = "failed"
  /\ UNCHANGED <<tags, desired, current, faults, foreign, disturbed>>

\* A call that fails: not carried out, or carried out with its answer lost.
Fault ==
  /\ faults < MaxFaults
  /\ \/ pc = "read" /\ UNCHANGED tags
     \/ pc = "remove" /\ tags' \in {tags, WithoutRemovals}
     \/ pc = "put" /\ Count(WithUpserts) <= Limit /\ tags' \in {tags, WithUpserts}
  /\ pc' = "failed"
  /\ faults' = faults + 1
  /\ UNCHANGED <<desired, current, foreign, disturbed>>

\* The runtime applies the resource again after a failure.
Reapply ==
  /\ pc = "failed"
  /\ pc' = "read"
  /\ UNCHANGED <<tags, desired, current, faults, foreign, disturbed>>

Foreign ==
  /\ foreign < MaxForeign
  /\ \E k \in Keys, v \in Values \union {NoTag} :
       /\ v # tags[k]
       /\ tags' = [tags EXCEPT ![k] = v]
       /\ disturbed' = (disturbed \/ k \in User)
  /\ Count(tags') <= Limit
  /\ foreign' = foreign + 1
  /\ UNCHANGED <<desired, pc, current, faults>>

Step == Read \/ Remove \/ Put \/ PutRefused \/ Reapply

Next == Step \/ Fault \/ Foreign

Spec == Init /\ [][Next]_vars /\ WF_vars(Step)

-----------------------------------------------------------------------------

TypeOK ==
  /\ tags \in TagMaps /\ desired \in TagMaps /\ current \in TagMaps
  /\ pc \in {"read", "remove", "put", "failed", "synced"}
  /\ faults \in 0..MaxFaults /\ foreign \in 0..MaxForeign
  /\ disturbed \in BOOLEAN

\* A Sync that returns nil with no user tag changed by others since its read
\* leaves exactly the desired user tags, whatever earlier failed runs of it
\* did halfway (tagsync.go, Sync).
Converged ==
  pc = "synced" /\ ~disturbed => \A k \in User : tags[k] = desired[k]

\* Removing first frees the slots the write needs: a configuration within the
\* service's limit is never refused for the tags being replaced, not even
\* after a run that stopped between the two calls (tagsync.go, Sync comment).
NeverOverLimit == pc = "put" /\ ~disturbed => Count(WithUpserts) <= Limit

\* A tag that already had its desired value when Sync read is not written
\* again, so a later change of it by others is not reverted unseen; and a
\* reserved tag never is, even one the configuration names (tagsync.go, Diff).
RightTagsLeftAlone ==
  [][\A k \in Keys :
       (tags'[k] # tags[k] /\ foreign' = foreign) =>
         k \in User /\ current[k] # desired[k]]_vars

\* Once failures stop, applying again ends in a Sync that succeeds: no partial
\* run leaves the tags in a state from which the next one cannot finish
\* (tagsync.go, Sync).
EventuallySynced == <>(pc = "synced")
=============================================================================
