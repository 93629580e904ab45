---------------------------- MODULE Retry_proofs ----------------------------
(***************************************************************************)
(* Theorems about Retry, for any window, delays and sets of errors: the    *)
(* clock bounds the calls, the error reported is that of the last call,    *)
(* and every step is one Await allows of a wait for one success.           *)
(***************************************************************************)
EXTENDS Retry, TLAPS

LEMMA TypeInit == Init => TypeOK
  BY RetryAssumption DEF Init, TypeOK

(* onError goes on only after transient errors, and once it was called an   *)
(* error of its own is the latest.                                          *)
Pending ==
  /\ pc # "returned" => \A i \in 1..Len(answers) : answers[i] \in Transient
  /\ pc \in {"deadline", "select"} => answers # << >>
  /\ returned \in Answers => answers # << >> /\ returned = LastError

LEMMA CallAnswers ==
  ASSUME TypeOK, Call
  PROVE  \E took \in 0..MaxCall, err \in Answers :
           /\ now' = now + took /\ started' = now
           /\ answers' = Append(answers, err)
           /\ Len(answers') = Len(answers) + 1
           /\ answers'[Len(answers')] = err
           /\ \A i \in 1..Len(answers) : answers'[i] = answers[i]
           /\ \/ Stops(err) /\ Return(err)
              \/ err \in Transient /\ pc' = "deadline" /\ UNCHANGED returned
  BY DEF Call, TypeOK, Stops, retryable

LEMMA TypeNext == TypeOK /\ Pending /\ [Next]_vars => TypeOK'
<1> SUFFICES ASSUME TypeOK, Pending, [Next]_vars
             PROVE  TypeOK'
  OBVIOUS
<1> USE RetryAssumption DEF TypeOK, Answers
<1>1. CASE Call
  <2>1. PICK took \in 0..MaxCall, err \in Answers :
          /\ now' = now + took /\ started' = now
          /\ answers' = Append(answers, err)
          /\ \/ Stops(err) /\ Return(err)
             \/ err \in Transient /\ pc' = "deadline" /\ UNCHANGED returned
    BY <1>1, CallAnswers
  <2>2. now' \in Nat /\ started' \in 0..now'
    BY <2>1
  <2>3. err # "none" /\ answers' \in Seq(Answers)
    BY <2>1
  <2> QED
    BY <1>1, <2>1, <2>2, <2>3 DEF Call, Return
<1>2. CASE CheckDeadline
  <2>1. LastError \in Answers
    BY <1>2 DEF CheckDeadline, Pending, LastError
  <2>2. LastError # "none"
    BY <2>1
  <2> QED
    BY <1>2, <2>1, <2>2 DEF CheckDeadline, Return
<1>3. CASE Wake
  BY <1>3 DEF Wake
<1>4. CASE Abandon
  BY <1>4 DEF Abandon, Return
<1>5. CASE Cancel \/ UNCHANGED vars
  BY <1>5 DEF Cancel, vars
<1> QED
  BY <1>1, <1>2, <1>3, <1>4, <1>5 DEF Next, Step

LEMMA PendingNext == TypeOK /\ Pending /\ [Next]_vars => Pending'
<1> SUFFICES ASSUME TypeOK, Pending, [Next]_vars
             PROVE  Pending'
  OBVIOUS
<1> USE RetryAssumption DEF TypeOK, Answers, Pending, LastError
<1>1. CASE Call
  <2>1. PICK err \in Answers :
          /\ answers' = Append(answers, err)
          /\ Len(answers') = Len(answers) + 1
          /\ answers'[Len(answers')] = err
          /\ \A i \in 1..Len(answers) : answers'[i] = answers[i]
          /\ \/ Stops(err) /\ Return(err)
             \/ err \in Transient /\ pc' = "deadline" /\ UNCHANGED returned
    BY <1>1, CallAnswers
  <2>2. pc # "returned" /\ returned = "none"
    BY <1>1 DEF Call
  <2>3. answers' # << >>
    BY <2>1
  <2>4. ASSUME pc' # "returned", NEW i \in 1..Len(answers')
        PROVE  answers'[i] \in Transient
    <3>1. err \in Transient
      BY <2>1, <2>4 DEF Return
    <3>2. i = Len(answers') \/ i \in 1..Len(answers)
      BY <2>1
    <3> QED
      BY <2>1, <2>2, <3>1, <3>2
  <2>5. returned' \in Answers => returned' = answers'[Len(answers')]
    BY <2>1, <2>2 DEF Return
  <2> QED
    BY <2>3, <2>4, <2>5
<1>2. CASE CheckDeadline
  BY <1>2 DEF CheckDeadline, Return
<1>3. CASE Wake
  BY <1>3 DEF Wake
<1>4. CASE Abandon
  BY <1>4 DEF Abandon, Return
<1>5. CASE Cancel \/ UNCHANGED vars
  BY <1>5 DEF Cancel, vars
<1> QED
  BY <1>1, <1>2, <1>3, <1>4, <1>5 DEF Next, Step

LEMMA PendingInit == Init => Pending
  BY RetryAssumption DEF Init, Pending, Answers

LEMMA TypeInvariant == Spec => [](TypeOK /\ Pending)
  BY TypeInit, PendingInit, TypeNext, PendingNext, PTL DEF Spec

\* Type correctness of every state of onError (retry.go).
THEOREM TypeCorrect == Spec => []TypeOK
  BY TypeInvariant, PTL

-----------------------------------------------------------------------------
\* The clock, as in Poll_proofs.

Late == Timeout + Interval + Slack

\* Each call but the first was preceded by a whole interval of sleep, and a
\* sleep is only begun by the deadline.
Paced ==
  /\ started <= Late
  /\ (Len(answers) - 1) * Interval <= started
  /\ pc = "call" => now <= Late /\ Len(answers) * Interval <= now
  /\ pc = "select" => now <= Timeout

LEMMA PacedInit == Init => Paced
  BY RetryAssumption DEF Init, Paced, Late

LEMMA PacedNext == TypeOK /\ Paced /\ [Next]_vars => Paced'
<1> SUFFICES ASSUME TypeOK, Paced, [Next]_vars
             PROVE  Paced'
  OBVIOUS
<1> USE RetryAssumption DEF TypeOK, Paced, Late
<1>1. CASE Call
  <2>1. /\ started' = now /\ Len(answers') - 1 = Len(answers)
        /\ pc' \in {"deadline", "returned"}
    BY <1>1, CallAnswers DEF Return
  <2>2. started' <= Late /\ Len(answers) * Interval <= started'
    BY <1>1, <2>1 DEF Call
  <2> QED
    BY <2>1, <2>2
<1>2. CASE CheckDeadline
  <2>1. CASE now > deadline
    BY <1>2, <2>1 DEF CheckDeadline, Return
  <2>2. CASE ~(now > deadline)
    BY <1>2, <2>2 DEF CheckDeadline, Return
  <2> QED
    BY <2>1, <2>2
<1>3. CASE Wake
  <2>1. PICK over \in 0..Slack : now' = now + Interval + over
    BY <1>3 DEF Wake
  <2>2. now <= Timeout /\ started <= now /\ UNCHANGED <<started, answers>>
    BY <1>3 DEF Wake
  <2>3. now' <= Late /\ started + Interval <= now'
    BY <2>1, <2>2
  <2>4. Len(answers') * Interval <= now'
    <3> DEFINE before == (Len(answers) - 1) * Interval
    <3>1. before \in Int /\ before <= started
      OBVIOUS
    <3>2. Len(answers') * Interval = before + Interval
      BY <2>2
    <3> HIDE DEF before
    <3> QED
      BY <2>1, <2>3, <3>1, <3>2
  <2> QED
    BY <1>3, <2>2, <2>3, <2>4 DEF Wake
<1>4. CASE Abandon
  BY <1>4 DEF Abandon, Return
<1>5. CASE Cancel \/ UNCHANGED vars
  BY <1>5 DEF Cancel, vars
<1> QED
  BY <1>1, <1>2, <1>3, <1>4, <1>5 DEF Next, Step

\* The window closes in time and on the latest answer (retry.go, onError).
THEOREM WindowIsKept == Spec => []LatestInTime
<1>1. Paced /\ Pending => LatestInTime
  BY DEF Paced, Pending, Late, LatestInTime
<1> QED
  BY <1>1, PacedInit, PacedNext, TypeInvariant, PTL DEF Spec

-----------------------------------------------------------------------------
\* The refinement.

Seen == [i \in DOMAIN answers |-> AsObservation(answers[i])]

\* An answer of fn is an observation, and what onError makes of it is Await's
\* verdict.
LEMMA CallObserves ==
  ASSUME TypeOK, Pending, Call
  PROVE  Promise!Observe
<1> USE RetryAssumption DEF TypeOK, Answers
<1>1. PICK err \in Answers :
        /\ answers' = Append(answers, err)
        /\ Len(answers') = Len(answers) + 1
        /\ answers'[Len(answers')] = err
        /\ \A i \in 1..Len(answers) : answers'[i] = answers[i]
        /\ \/ Stops(err) /\ Return(err)
           \/ err \in Transient /\ pc' = "deadline" /\ UNCHANGED returned
  BY CallAnswers
<1>2. returned = "none" /\ AsResult = "none"
  BY DEF Call, AsResult
<1> DEFINE o == AsObservation(err)
<1>3. o \in {"ready", "waiting", "error"}
  BY DEF AsObservation
<1>4. Seen' = Append(Seen, o)
  <2>1. DOMAIN answers = 1..Len(answers) /\ DOMAIN answers' = 1..(Len(answers) + 1)
    BY <1>1
  <2>2. Seen' = [i \in 1..(Len(answers) + 1) |-> AsObservation(answers'[i])]
    BY <2>1 DEF Seen, AsObservation
  <2>3. Append(Seen, o) = [i \in 1..(Len(answers) + 1) |->
                             IF i = Len(answers) + 1 THEN o ELSE AsObservation(answers[i])]
    BY <2>1 DEF Seen
  <2> QED
    BY <1>1, <2>2, <2>3
<1>5. Len(Seen') = Len(answers') /\ Seen'[Len(Seen')] = o
  BY <1>1 DEF Seen, AsObservation
<1>6. AsResult' = Promise!Verdict(Seen')
  <2>1. CASE err = "nil"
    <3>1. o = "ready" /\ AsResult' = "ready"
      BY <1>1, <2>1 DEF AsObservation, AsResult, Return
    <3> QED
      BY <1>1, <1>5, <3>1 DEF Promise!Verdict, Promise!EndsReady
  <2>2. CASE err \in Fatal
    <3>1. o = "error" /\ AsResult' = "probe_error"
      BY <1>1, <2>2 DEF AsObservation, AsResult, Return
    <3> QED
      BY <1>5, <3>1 DEF Promise!Verdict
  <2>3. CASE err \in Transient
    <3>1. o = "waiting" /\ AsResult' = "none"
      BY <1>1, <1>2, <2>3 DEF AsObservation, AsResult, Stops, retryable
    <3> QED
      BY <1>1, <1>5, <3>1 DEF Promise!Verdict, Promise!EndsReady
  <2> QED
    BY <2>1, <2>2, <2>3
<1> QED
  BY <1>2, <1>3, <1>4, <1>6 DEF Promise!Observe, Promise!Observations, Seen

\* Every step of onError is a step of Await for one success, or a stutter: fn is
\* not called again after a success or a fatal error, and a transient error is
\* reported only in place of giving up (retry.go, onError).
THEOREM RetryImplementsAwait == Spec => KeepsPromise
<1>1. Init => Promise!Init
  BY RetryAssumption DEF Init, Promise!Init, AsResult
<1>2. TypeOK /\ Pending /\ [Next]_vars => [Promise!Next]_<<Seen, AsResult>>
  <2> SUFFICES ASSUME TypeOK, Pending, [Next]_vars
               PROVE  [Promise!Next]_<<Seen, AsResult>>
    OBVIOUS
  <2>1. CASE Call
    BY <2>1, CallObserves DEF Promise!Next
  <2>2. CASE CheckDeadline
    BY <2>2, RetryAssumption
    DEF CheckDeadline, Return, TypeOK, Answers, Pending, LastError, Seen, AsResult,
        Promise!Next, Promise!GiveUp, Promise!GaveUp
  <2>3. CASE Abandon
    BY <2>3, RetryAssumption
    DEF Abandon, Return, TypeOK, Answers, Pending, Seen, AsResult,
        Promise!Next, Promise!GiveUp, Promise!GaveUp
  <2>4. CASE Wake \/ Cancel \/ UNCHANGED vars
    BY <2>4 DEF Wake, Cancel, vars, Seen, AsResult
  <2> QED
    BY <2>1, <2>2, <2>3, <2>4 DEF Next, Step
<1> QED
  BY <1>1, <1>2, TypeInvariant, PTL DEF Spec, KeepsPromise, Promise!Spec, Seen
=============================================================================
