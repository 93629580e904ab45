--------------------------- MODULE TagSync_proofs ---------------------------
(***************************************************************************)
(* Theorems about TagSync, for any keys, values and limit, any number of   *)
(* faults and any interference.                                            *)
(***************************************************************************)
EXTENDS TagSync, TLAPS

LEMMA TypeInit == Init => TypeOK
<1> SUFFICES ASSUME Init
             PROVE  TypeOK
  OBVIOUS
<1>1. disturbed \in BOOLEAN
  BY DEF Init
<1>2. faults \in 0..MaxFaults /\ foreign \in 0..MaxForeign
  BY TagAssumption DEF Init
<1> QED
  BY <1>1, <1>2 DEF Init, TypeOK

LEMMA TypeNext == TypeOK /\ [Next]_vars => TypeOK'
<1> SUFFICES ASSUME TypeOK, [Next]_vars
             PROVE  TypeOK'
  OBVIOUS
<1> USE TagAssumption DEF TypeOK, TagMaps
<1>1. WithoutRemovals \in TagMaps /\ WithUpserts \in TagMaps
  BY DEF WithoutRemovals, WithUpserts
<1>2. CASE Read
  BY <1>2 DEF Read, AfterRead, AfterRemove
<1>3. CASE Remove
  BY <1>1, <1>3 DEF Remove, AfterRemove
<1>4. CASE Put \/ PutRefused \/ Reapply
  BY <1>1, <1>4 DEF Put, PutRefused, Reapply
<1>5. CASE Fault
  BY <1>1, <1>5 DEF Fault
<1>6. CASE Foreign
  BY <1>6 DEF Foreign
<1>7. CASE UNCHANGED vars
  BY <1>7 DEF vars
<1> QED
  BY <1>2, <1>3, <1>4, <1>5, <1>6, <1>7 DEF Next, Step

\* Type correctness of every state of Sync (tagsync.go).
THEOREM TypeCorrect == Spec => []TypeOK
  BY TypeInit, TypeNext, PTL DEF Spec

-----------------------------------------------------------------------------
\* While nobody else writes, the two calls do what Diff planned.

\* What the user tags are at each point of an undisturbed Sync: as they were
\* read, then without the removals, then as desired.
AsPlanned ==
  ~disturbed =>
    \A k \in User :
      /\ pc = "remove" => tags[k] = current[k]
      /\ pc = "put" => tags[k] = IF k \in Removals(current) THEN NoTag ELSE current[k]
      /\ pc = "synced" => tags[k] = desired[k]

IInv == TypeOK /\ Count(desired) <= Limit /\ AsPlanned

\* Diff is complete: a key in neither set already has its desired value.
LEMMA DiffComplete ==
  ASSUME NEW cur, NEW k \in User, k \notin Upsert(cur), k \notin Removals(cur)
  PROVE  cur[k] = desired[k]
  BY DEF Upsert, Removals

LEMMA PlanInit == Init => AsPlanned
  BY DEF Init, AsPlanned

LEMMA PlanNext == IInv /\ [Next]_vars => AsPlanned'
<1> SUFFICES ASSUME IInv, [Next]_vars, ~disturbed', NEW k \in User
             PROVE  /\ pc' = "remove" => tags'[k] = current'[k]
                    /\ pc' = "put" => tags'[k] = IF k \in Removals(current)'
                                                 THEN NoTag ELSE current'[k]
                    /\ pc' = "synced" => tags'[k] = desired'[k]
  BY DEF AsPlanned
<1> USE DEF IInv, AsPlanned, TypeOK
<1>a. k \in Keys
  BY DEF User
<1>1. CASE Read
  <2>1. pc' = "put" => Removals(tags) = {}
    BY <1>1 DEF Read, AfterRead
  <2>2. pc' = "synced" => Removals(tags) = {} /\ Upsert(tags) = {}
    BY <1>1 DEF Read, AfterRead, AfterRemove
  <2> QED
    BY <1>1, <2>1, <2>2, DiffComplete DEF Read, Removals
<1>2. CASE Remove
  <2>1. tags'[k] = IF k \in Removals(current) THEN NoTag ELSE current[k]
    BY <1>a, <1>2 DEF Remove, WithoutRemovals
  <2>2. pc' = "synced" => tags'[k] = desired[k]
    <3>1. pc' = "synced" => Upsert(current) = {}
      BY <1>2 DEF Remove, AfterRemove
    <3>2. k \in Removals(current) => desired[k] = NoTag
      BY DEF Removals
    <3> QED
      BY <2>1, <3>1, <3>2, DiffComplete
  <2>3. Removals(current)' = Removals(current)
    BY <1>2 DEF Remove, Removals, User
  <2> QED
    BY <1>2, <2>1, <2>2, <2>3 DEF Remove, AfterRemove
<1>3. CASE Put
  <2>1. tags'[k] = desired[k]
    <3>1. k \in Upsert(current) => WithUpserts[k] = desired[k]
      BY <1>a DEF WithUpserts
    <3>2. k \notin Upsert(current) => WithUpserts[k] = tags[k]
      BY <1>a DEF WithUpserts
    <3>3. k \in Removals(current) => desired[k] = NoTag
      BY DEF Removals
    <3> QED
      BY <1>3, <3>1, <3>2, <3>3, DiffComplete DEF Put
  <2> QED
    BY <1>3, <2>1 DEF Put
<1>4. CASE PutRefused \/ Reapply \/ Fault
  BY <1>4 DEF PutRefused, Reapply, Fault
<1>5. CASE Foreign
  <2>1. PICK j \in Keys, v \in Values \union {NoTag} :
          /\ tags' = [tags EXCEPT ![j] = v]
          /\ disturbed' = (disturbed \/ j \in User)
    BY <1>5 DEF Foreign
  <2>2. ~disturbed /\ j \notin User
    BY <2>1, Zenon
  <2>3. tags'[k] = tags[k]
    BY <2>1, <2>2, <1>a
  <2> QED
    BY <1>5, <2>2, <2>3 DEF Foreign, Removals
<1>6. CASE UNCHANGED vars
  BY <1>6 DEF vars, Removals
<1> QED
  BY <1>1, <1>2, <1>3, <1>4, <1>5, <1>6 DEF Next, Step

LEMMA PlanInvariant == Spec => []IInv
<1>1. Init => IInv
  BY TypeInit, PlanInit DEF IInv, Init
<1>2. IInv /\ [Next]_vars => IInv'
  <2>1. [Next]_vars => UNCHANGED desired
    BY DEF Next, Step, Read, Remove, Put, PutRefused, Reapply, Fault, Foreign, vars
  <2> QED
    BY <2>1, TypeNext, PlanNext DEF IInv, Count
<1> QED
  BY <1>1, <1>2, PTL DEF Spec

\* A Sync that succeeds undisturbed leaves exactly the desired user tags,
\* whatever failed runs before it did halfway (tagsync.go, Sync).
THEOREM SyncConverges == Spec => []Converged
<1>1. IInv => Converged
  BY DEF IInv, AsPlanned, Converged
<1> QED
  BY <1>1, PlanInvariant, PTL

\* Removing first means that a configuration within the service's limit is
\* never refused for the tags it replaces (tagsync.go, Sync).
THEOREM RemovingFirstFits == Spec => []NeverOverLimit
<1>1. IInv => NeverOverLimit
  <2> SUFFICES ASSUME IInv, pc = "put", ~disturbed
               PROVE  Count(WithUpserts) <= Limit
    BY DEF NeverOverLimit
  <2>1. ASSUME NEW k \in User
        PROVE  WithUpserts[k] = desired[k]
    <3>1. k \in Keys
      BY DEF User
    <3>2. tags[k] = IF k \in Removals(current) THEN NoTag ELSE current[k]
      BY DEF IInv, AsPlanned
    <3>3. k \in Removals(current) => desired[k] = NoTag
      BY DEF Removals
    <3>4. WithUpserts[k] = IF k \in Upsert(current) THEN desired[k] ELSE tags[k]
      BY <3>1 DEF WithUpserts
    <3> QED
      BY <3>2, <3>3, <3>4, DiffComplete
  <2>2. {k \in User : WithUpserts[k] # NoTag} = {k \in User : desired[k] # NoTag}
    BY <2>1
  <2> QED
    BY <2>2 DEF Count, IInv
<1> QED
  BY <1>1, PlanInvariant, PTL

-----------------------------------------------------------------------------
\* What Sync leaves alone.

LEMMA OnlyPlannedWrites ==
  ASSUME TypeOK, [Next]_vars, NEW k \in Keys, tags'[k] # tags[k], foreign' = foreign
  PROVE  k \in Upsert(current) \union Removals(current)
<1> USE DEF TypeOK
<1>1. WithoutRemovals[k] # tags[k] => k \in Removals(current)
  BY DEF WithoutRemovals
<1>2. WithUpserts[k] # tags[k] => k \in Upsert(current)
  BY DEF WithUpserts
<1>3. CASE Remove
  BY <1>1, <1>3 DEF Remove
<1>4. CASE Put
  BY <1>2, <1>4 DEF Put
<1>5. CASE Fault
  BY <1>1, <1>2, <1>5 DEF Fault
<1>6. CASE Foreign
  BY <1>6, TagAssumption DEF Foreign
<1>7. CASE Read \/ PutRefused \/ Reapply \/ UNCHANGED vars
  BY <1>7 DEF Read, PutRefused, Reapply, vars
<1> QED
  BY <1>3, <1>4, <1>5, <1>6, <1>7 DEF Next, Step

\* A tag that was right when Sync read is not written again, and a reserved one
\* never is (tagsync.go, Diff).
THEOREM RightTagsStay == Spec => RightTagsLeftAlone
<1>1. TypeOK /\ [Next]_vars =>
        [\A k \in Keys :
           (tags'[k] # tags[k] /\ foreign' = foreign) =>
             k \in User /\ current[k] # desired[k]]_vars
  <2> SUFFICES ASSUME TypeOK, [Next]_vars, NEW k \in Keys,
                      tags'[k] # tags[k], foreign' = foreign
               PROVE  k \in User /\ current[k] # desired[k]
    OBVIOUS
  <2> QED
    BY OnlyPlannedWrites DEF Upsert, Removals, User
<1> QED
  BY <1>1, TypeCorrect, PTL DEF Spec, RightTagsLeftAlone
=============================================================================
