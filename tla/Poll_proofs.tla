----------------------------- MODULE Poll_proofs -----------------------------
(***************************************************************************)
(* Theorems about Poll, for any timeout, interval, run length and delays:  *)
(* the run counter stands for the history, the clock bounds the calls, and *)
(* every step is one Await allows.                                         *)
(***************************************************************************)
EXTENDS Poll, TLAPS

LEMMA TypeInit == Init => TypeOK
  BY PollAssumption DEF Init, TypeOK, Observations, Results

LEMMA TypeNext == TypeOK /\ [Next]_vars => TypeOK'
<1> SUFFICES ASSUME TypeOK, [Next]_vars
             PROVE  TypeOK'
  OBVIOUS
<1> USE PollAssumption DEF TypeOK, Observations, Results, Return
<1>1. CASE Probe
  <2>1. PICK took \in 0..MaxProbe, o \in Observations :
          /\ now' = now + took
          /\ started' = now
          /\ seen' = Append(seen, o)
          /\ runs' = IF o = "error" THEN runs ELSE RunsAfter(o)
    BY <1>1 DEF Probe
  <2>2. runs' \in Nat
    BY <2>1 DEF RunsAfter
  <2>3. now' \in Nat /\ started' \in 0..now'
    BY <2>1
  <2>4. /\ pc' \in {"deadline", "returned"}
        /\ result' \in Results
        /\ pc' = "returned" <=> result' # "none"
    BY <1>1 DEF Probe
  <2> QED
    BY <1>1, <2>1, <2>2, <2>3, <2>4 DEF Probe
<1>2. CASE CheckDeadline
  BY <1>2 DEF CheckDeadline
<1>3. CASE Wake
  BY <1>3 DEF Wake, Sleep
<1>4. CASE Abandon
  BY <1>4 DEF Abandon
<1>5. CASE Cancel
  BY <1>5 DEF Cancel
<1>6. CASE UNCHANGED vars
  BY <1>6 DEF vars
<1> QED
  BY <1>1, <1>2, <1>3, <1>4, <1>5, <1>6 DEF Next, Step

\* Type correctness of every state of until (wait.go).
THEOREM TypeCorrect == Spec => []TypeOK
  BY TypeInit, TypeNext, PTL DEF Spec

-----------------------------------------------------------------------------
\* The run counter.

LEMMA RunsInit == Init => RunsCounted
  BY PollAssumption DEF Init, RunsCounted

LEMMA RunsNext == TypeOK /\ RunsCounted /\ [Next]_vars => RunsCounted'
<1> SUFFICES ASSUME TypeOK, RunsCounted, [Next]_vars, pc' # "returned"
             PROVE  /\ runs' < Consecutive
                    /\ runs' <= Len(seen')
                    /\ \A i \in (Len(seen') - runs' + 1)..Len(seen') : seen'[i] = "ready"
                    /\ runs' < Len(seen') => seen'[Len(seen') - runs'] # "ready"
  BY DEF RunsCounted
<1> USE PollAssumption DEF TypeOK, Observations
<1>1. CASE Probe
  <2>1. PICK o \in Observations :
          /\ seen' = Append(seen, o)
          /\ runs' = RunsAfter(o)
          /\ ~(o = "ready" /\ runs' >= Consecutive)
    BY <1>1 DEF Probe, Return
  <2>2. pc # "returned"
    BY <1>1 DEF Probe
  <2>3. /\ Len(seen') = Len(seen) + 1
        /\ seen'[Len(seen) + 1] = o
        /\ \A i \in 1..Len(seen) : seen'[i] = seen[i]
    BY <2>1
  <2>4. CASE o = "ready"
    <3>1. runs' = runs + 1 /\ runs' < Consecutive /\ runs <= Len(seen)
      BY <2>1, <2>2, <2>4 DEF RunsAfter, RunsCounted
    <3>2. ASSUME NEW i \in (Len(seen') - runs' + 1)..Len(seen')
          PROVE  seen'[i] = "ready"
      <4>1. CASE i = Len(seen) + 1
        BY <2>3, <2>4, <4>1
      <4>2. CASE i # Len(seen) + 1
        <5>1. i \in (Len(seen) - runs + 1)..Len(seen) /\ i \in 1..Len(seen)
          BY <2>3, <3>1, <4>2
        <5> QED
          BY <2>2, <2>3, <5>1 DEF RunsCounted
      <4> QED
        BY <4>1, <4>2
    <3>3. runs' < Len(seen') => seen'[Len(seen') - runs'] # "ready"
      <4> SUFFICES ASSUME runs' < Len(seen')
                   PROVE  seen'[Len(seen') - runs'] # "ready"
        OBVIOUS
      <4>1. Len(seen') - runs' = Len(seen) - runs /\ Len(seen) - runs \in 1..Len(seen)
        BY <2>3, <3>1
      <4> QED
        BY <2>2, <2>3, <4>1 DEF RunsCounted
    <3> QED
      BY <2>3, <3>1, <3>2, <3>3
  <2>5. CASE o # "ready"
    BY <2>1, <2>3, <2>5 DEF RunsAfter
  <2> QED
    BY <2>4, <2>5
<1>2. CASE CheckDeadline \/ Wake \/ Abandon \/ Cancel \/ UNCHANGED vars
  <2>1. pc # "returned" /\ UNCHANGED <<runs, seen>>
    BY <1>2 DEF CheckDeadline, Wake, Abandon, Cancel, vars
  <2> QED
    BY <2>1 DEF RunsCounted
<1> QED
  BY <1>1, <1>2 DEF Next, Step

LEMMA RunsInvariant == Spec => [](TypeOK /\ RunsCounted)
  BY TypeInit, TypeNext, RunsInit, RunsNext, PTL DEF Spec

\* The counter runs is the length of the run of ready observations the history
\* ends with (wait.go, until).
THEOREM RunsAreCounted == Spec => []RunsCounted
  BY RunsInvariant, PTL

-----------------------------------------------------------------------------
\* The clock.

Late == Timeout + Interval + Slack

\* Each probe but the first was preceded by a whole interval of sleep; a sleep
\* is only begun by the deadline; and an observation takes at most MaxProbe.
Paced ==
  /\ started <= Late
  /\ (Len(seen) - 1) * Interval <= started
  /\ pc = "probe" => now <= Late /\ Len(seen) * Interval <= now
  /\ pc = "deadline" => now <= started + MaxProbe
  /\ pc = "select" => now <= Timeout
  /\ result = "timeout" => started + MaxProbe > Timeout

LEMMA PacedInit == Init => Paced
  BY PollAssumption DEF Init, Paced, Late

LEMMA PacedNext == TypeOK /\ Paced /\ [Next]_vars => Paced'
<1> SUFFICES ASSUME TypeOK, Paced, [Next]_vars
             PROVE  Paced'
  OBVIOUS
<1> USE PollAssumption DEF TypeOK, Observations, Paced, Late
<1>1. CASE Probe
  <2>1. PICK took \in 0..MaxProbe, o \in Observations :
          /\ now' = now + took
          /\ started' = now
          /\ seen' = Append(seen, o)
    BY <1>1 DEF Probe
  <2>2. Len(seen') - 1 = Len(seen)
    BY <2>1
  <2>3. pc' \in {"deadline", "returned"} /\ result' # "timeout"
    BY <1>1 DEF Probe, Return
  <2>4. started' <= Late /\ Len(seen) * Interval <= started'
    BY <1>1, <2>1 DEF Probe
  <2>5. (Len(seen') - 1) * Interval <= started'
    BY <2>2, <2>4
  <2>6. now' <= started' + MaxProbe
    BY <2>1
  <2> QED
    BY <2>3, <2>4, <2>5, <2>6
<1>2. CASE CheckDeadline
  <2>1. CASE now > deadline
    BY <1>2, <2>1 DEF CheckDeadline, Expired, Return
  <2>2. CASE ~(now > deadline)
    BY <1>2, <2>2 DEF CheckDeadline, Expired, Return
  <2> QED
    BY <2>1, <2>2
<1>3. CASE Wake
  <2>1. PICK over \in 0..Slack : now' = now + Interval + over
    BY <1>3 DEF Wake, Sleep
  <2>2. now <= Timeout /\ started <= now /\ UNCHANGED <<started, seen, result>>
    BY <1>3 DEF Wake
  <2>3. now' <= Late /\ started + Interval <= now'
    BY <2>1, <2>2
  <2>4. Len(seen) * Interval = (Len(seen) - 1) * Interval + Interval
    OBVIOUS
  <2>5. Len(seen') * Interval <= now'
    <3> DEFINE before == (Len(seen) - 1) * Interval
    <3>1. before \in Int /\ before <= started
      OBVIOUS
    <3>2. Len(seen') * Interval = before + Interval
      BY <2>2, <2>4
    <3> HIDE DEF before
    <3> QED
      BY <2>3, <3>1, <3>2, <2>1
  <2> QED
    BY <1>3, <2>2, <2>3, <2>5 DEF Wake
<1>4. CASE Abandon
  BY <1>4 DEF Abandon, Return
<1>5. CASE Cancel \/ UNCHANGED vars
  BY <1>5 DEF Cancel, vars
<1> QED
  BY <1>1, <1>2, <1>3, <1>4, <1>5 DEF Next, Step

LEMMA PacedInvariant == Spec => []Paced
  BY PacedInit, PacedNext, TypeCorrect, PTL DEF Spec

\* Every wait makes a bounded number of calls, the last no later than one
\* interval after the deadline, and one that times out looked for the last time
\* around it (wait.go, until).
THEOREM DeadlineIsKept == Spec => []DeadlineKept
<1>1. Paced => DeadlineKept
  BY DEF Paced, Late, DeadlineKept
<1> QED
  BY <1>1, PacedInvariant, PTL

-----------------------------------------------------------------------------
\* The refinement.

\* A wait sleeps or gives up only after an observation.
Looked == pc \in {"deadline", "select"} => seen # <<>>

LEMMA LookedNext == TypeOK /\ Looked /\ [Next]_vars => Looked'
  BY DEF TypeOK, Observations, Looked, Next, Step, Probe, CheckDeadline, Wake,
         Abandon, Cancel, Return, vars

\* The probe's answer is Await's verdict on the history.
LEMMA ProbeObserves ==
  ASSUME TypeOK, RunsCounted, Probe
  PROVE  Promise!Observe
<1> USE PollAssumption DEF TypeOK, Observations
<1>1. PICK o \in Observations :
        /\ seen' = Append(seen, o)
        /\ runs' = IF o = "error" THEN runs ELSE RunsAfter(o)
        /\ \/ o = "error" /\ Return("probe_error")
           \/ o = "ready" /\ runs' >= Consecutive /\ Return("ready")
           \/ /\ o # "error" /\ ~(o = "ready" /\ runs' >= Consecutive)
              /\ pc' = "deadline" /\ UNCHANGED result
  BY DEF Probe
<1>2. result = "none" /\ pc # "returned"
  BY DEF Probe
<1>3. /\ Len(seen') = Len(seen) + 1
      /\ seen'[Len(seen) + 1] = o
      /\ \A i \in 1..Len(seen) : seen'[i] = seen[i]
  BY <1>1
<1>4. result' = Promise!Verdict(seen')
  <2>1. CASE o = "error"
    BY <1>1, <1>3, <2>1 DEF Promise!Verdict, Return
  <2>2. CASE o = "ready" /\ runs' >= Consecutive
    <3>1. runs' = runs + 1 /\ runs <= Len(seen)
      BY <1>1, <1>2, <2>2 DEF RunsAfter, RunsCounted
    <3>2. ASSUME NEW i \in 1..Consecutive
          PROVE  seen'[Len(seen') + 1 - i] = "ready"
      <4>1. CASE i = 1
        BY <1>3, <2>2, <4>1
      <4>2. CASE i # 1
        <5>1. /\ Len(seen') + 1 - i \in (Len(seen) - runs + 1)..Len(seen)
              /\ Len(seen') + 1 - i \in 1..Len(seen)
          BY <1>3, <2>2, <3>1, <4>2, <1>2 DEF RunsCounted
        <5> QED
          BY <1>2, <1>3, <5>1 DEF RunsCounted
      <4> QED
        BY <4>1, <4>2
    <3>3. Promise!EndsReady(seen', Consecutive)
      BY <1>2, <1>3, <2>2, <3>1, <3>2 DEF Promise!EndsReady, RunsCounted
    <3> QED
      BY <1>1, <1>3, <2>2, <3>3 DEF Promise!Verdict, Return
  <2>3. CASE o = "waiting"
    <3>1. ~Promise!EndsReady(seen', Consecutive)
      BY <1>3, <2>3 DEF Promise!EndsReady
    <3> QED
      BY <1>1, <1>2, <1>3, <2>3, <3>1 DEF Promise!Verdict
  <2>4. CASE o = "ready" /\ ~(runs' >= Consecutive)
    <3>1. runs' = runs + 1 /\ runs <= Len(seen) /\ runs' < Consecutive
      BY <1>1, <1>2, <2>4 DEF RunsAfter, RunsCounted
    <3>2. ~Promise!EndsReady(seen', Consecutive)
      <4>1. CASE runs = Len(seen)
        BY <1>3, <3>1, <4>1 DEF Promise!EndsReady
      <4>2. CASE runs < Len(seen)
        <5>1. seen'[Len(seen) - runs] # "ready"
          BY <1>2, <1>3, <4>2 DEF RunsCounted
        <5>2. runs + 2 \in 1..Consecutive
          BY <3>1
        <5>3. Len(seen') + 1 - (runs + 2) = Len(seen) - runs
          BY <1>3
        <5> QED
          BY <5>1, <5>2, <5>3 DEF Promise!EndsReady
      <4> QED
        BY <3>1, <4>1, <4>2
    <3> QED
      BY <1>1, <1>2, <1>3, <2>4, <3>2 DEF Promise!Verdict
  <2> QED
    BY <2>1, <2>2, <2>3, <2>4
<1> QED
  BY <1>1, <1>2, <1>4 DEF Promise!Observe, Promise!Observations

\* Every step of until is a step of Await or a stutter: success exactly at the
\* first window of ready observations, an error at once, and no giving up
\* before a first look (wait.go, until).
THEOREM PollImplementsAwait == Spec => KeepsPromise
<1>1. Init => Promise!Init
  BY DEF Init, Promise!Init
<1>2. TypeOK /\ RunsCounted /\ Looked /\ [Next]_vars
        => [Promise!Next]_<<seen, result>>
  <2> SUFFICES ASSUME TypeOK, RunsCounted, Looked, [Next]_vars
               PROVE  [Promise!Next]_<<seen, result>>
    OBVIOUS
  <2>1. CASE Probe
    BY <2>1, ProbeObserves DEF Promise!Next
  <2>2. CASE CheckDeadline \/ Abandon
    BY <2>2
    DEF CheckDeadline, Abandon, Return, TypeOK, Looked, Promise!Next,
        Promise!GiveUp, Promise!GaveUp
  <2>3. CASE Wake \/ Cancel \/ UNCHANGED vars
    BY <2>3 DEF Wake, Cancel, vars
  <2> QED
    BY <2>1, <2>2, <2>3 DEF Next, Step
<1>3. Init => Looked
  BY DEF Init, Looked
<1>4. Spec => []Looked
  BY <1>3, LookedNext, TypeCorrect, PTL DEF Spec
<1> QED
  BY <1>1, <1>2, <1>4, RunsInvariant, PTL DEF Spec, KeepsPromise, Promise!Spec
=============================================================================
