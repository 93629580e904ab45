-------------------------------- MODULE Retry --------------------------------
(***************************************************************************)
(* internal/retry: one call of onError.  Each attempt of fn succeeds, fails *)
(* with an error the predicate calls transient, or fails with another.     *)
(* Time is counted as in Poll.                                             *)
(***************************************************************************)
EXTENDS Integers, Sequences

CONSTANTS
  Timeout, Interval, MaxCall, Slack,   \* ticks, as in Poll
  Transient,                           \* errors retryable reports TRUE for
  Fatal                                \* the other errors

ASSUME RetryAssumption ==
  /\ Timeout \in Nat /\ MaxCall \in Nat /\ Slack \in Nat
  /\ Interval \in Nat \ {0}
  /\ Transient \cap Fatal = {}
  /\ {"nil", "none", "ctx_err"} \cap (Transient \union Fatal) = {}

VARIABLES
  now, deadline,
  pc,          \* "call", "deadline", "select", "returned"
  cancelled,   \* ctx is done
  started,     \* history: when the latest call of fn began
  answers,     \* history: what each call of fn returned
  returned     \* what onError returned, "none" while it runs

vars == <<now, deadline, pc, cancelled, started, answers, returned>>

Answers == {"nil"} \union Transient \union Fatal

retryable(err) == err \in Transient

Init ==
  /\ now = 0
  /\ deadline = now + Timeout
  /\ pc = "call"
  /\ cancelled \in BOOLEAN
  /\ started = 0
  /\ answers = <<>>
  /\ returned = "none"

ReturnNothing(r) == pc' = "returned" /\ UNCHANGED returned

Return(r) == pc' = "returned" /\ returned' = r

StopsOnSuccess(err) == err = "nil"

Stops(err) == err = "nil" \/ ~retryable(err)

\* err := fn(ctx)
Call ==
  /\ pc = "call"
  /\ \E took \in 0..MaxCall, err \in Answers :
       /\ now' = now + took
       /\ started' = now
       /\ answers' = Append(answers, err)
       /\ IF Stops(err) THEN Return(err)
          ELSE pc' = "deadline" /\ UNCHANGED returned
  /\ UNCHANGED <<deadline, cancelled>>

FirstError == answers[1]

LastError == answers[Len(answers)]

DeadlineWithoutReturn ==
  /\ pc = "deadline"
  /\ now <= deadline
  /\ pc' = "select"
  /\ UNCHANGED <<now, deadline, cancelled, started, answers, returned>>

\* On timeout the last error is the result.
CheckDeadline ==
  /\ pc = "deadline"
  /\ IF now > deadline THEN Return(LastError)
     ELSE pc' = "select" /\ UNCHANGED returned
  /\ UNCHANGED <<now, deadline, cancelled, started, answers>>

Wake ==
  /\ pc = "select"
  /\ \E over \in 0..Slack : now' = now + Interval + over
  /\ pc' = "call"
  /\ UNCHANGED <<deadline, cancelled, started, answers, returned>>

Abandon ==
  /\ pc = "select"
  /\ cancelled
  /\ \E nap \in 0..Interval : now' = now + nap
  /\ Return("ctx_err")
  /\ UNCHANGED <<deadline, cancelled, started, answers>>

Cancel ==
  /\ ~cancelled
  /\ pc # "returned"
  /\ cancelled' = TRUE
  /\ UNCHANGED <<now, deadline, pc, started, answers, returned>>

Step == Call \/ CheckDeadline \/ Wake \/ Abandon

Next == Step \/ Cancel

Spec == Init /\ [][Next]_vars /\ WF_vars(Step)

-----------------------------------------------------------------------------

TypeOK ==
  /\ now \in Nat /\ deadline = Timeout
  /\ pc \in {"call", "deadline", "select", "returned"}
  /\ cancelled \in BOOLEAN
  /\ started \in 0..now
  /\ answers \in Seq(Answers)
  /\ returned \in Answers \union {"none", "ctx_err"}
  /\ pc = "returned" <=> returned # "none"

\* A retried call is a wait for one success: a transient error is an
\* observation that settles nothing, another error ends it at once.
AsObservation(err) ==
  CASE err = "nil" -> "ready"
    [] err \in Transient -> "waiting"
    [] err \in Fatal -> "error"

AsResult ==
  CASE returned = "none" -> "none"
    [] returned = "nil" -> "ready"
    [] returned \in Fatal -> "probe_error"
    [] returned \in Transient -> "timeout"
    [] returned = "ctx_err" -> "cancelled"

Promise == INSTANCE Await WITH
  Consecutive <- 1,
  seen <- [i \in DOMAIN answers |-> AsObservation(answers[i])],
  result <- AsResult

\* retry.OnError keeps the promise of Await: fn is never called again once it
\* succeeded or failed for good, and a transient failure is only reported after
\* the window (retry.go, onError).
KeepsPromise == Promise!Spec

\* The window closes on time and on the latest answer: the calls made of AWS are
\* bounded, none starts later than one interval after the window, and no older
\* error hides the one the call ended with (retry.go, onError).
LatestInTime ==
  /\ started <= Timeout + Interval + Slack
  /\ (Len(answers) - 1) * Interval <= started
  /\ returned \in Answers => returned = LastError

\* The helper returns whatever fn answers (retry.go, onError).
Terminates == <>(returned # "none")
=============================================================================
