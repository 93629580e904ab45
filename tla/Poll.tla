-------------------------------- MODULE Poll --------------------------------
(***************************************************************************)
(* internal/wait: one call of until, the loop under wait.Until and         *)
(* wait.UntilStable.  Time is a counter of ticks: a probe takes up to      *)
(* MaxProbe of them, and a sleep may overrun its interval by up to Slack,  *)
(* the time the goroutine takes to run again.  The context may be          *)
(* cancelled at any moment; the select then has two ready cases once the   *)
(* timer has fired too, and takes either.                                  *)
(***************************************************************************)
EXTENDS Integers, Sequences

CONSTANTS
  Timeout,      \* cfg.timeout, in ticks
  Interval,     \* cfg.interval, in ticks
  Consecutive,  \* ready observations in a row that end the wait
  MaxProbe,     \* bound on the time one probe takes
  Slack         \* bound on how far a sleep overruns

ASSUME PollAssumption ==
  /\ Timeout \in Nat /\ MaxProbe \in Nat /\ Slack \in Nat
  /\ Interval \in Nat \ {0}
  /\ Consecutive \in Nat \ {0}

VARIABLES
  now,        \* time.Now
  deadline,   \* computed once, at entry
  runs,       \* ready observations in the current run
  pc,         \* the next statement: "probe", "deadline", "select", "returned"
  cancelled,  \* ctx is done
  started,    \* history: when the latest probe began
  seen,       \* history: the observations, in order
  result      \* what until returned, "none" while it runs

vars == <<now, deadline, runs, pc, cancelled, started, seen, result>>

Observations == {"ready", "waiting", "error"}
Results == {"none", "ready", "probe_error", "timeout", "cancelled"}

Init ==
  /\ now = 0
  /\ deadline = now + Timeout
  /\ runs = 0
  /\ pc = "probe"
  /\ cancelled \in BOOLEAN
  /\ started = 0
  /\ seen = <<>>
  /\ result = "none"

ReturnKeepsResult(r) == pc' = "returned" /\ UNCHANGED result

Return(r) == pc' = "returned" /\ result' = r

\* A ready observation extends the run, any other ends it.
NeverReset(o) == IF o = "ready" THEN runs + 1 ELSE runs

RunsAfter(o) == IF o = "ready" THEN runs + 1 ELSE 0

\* probe(ctx), and what its answer does at once.
Probe ==
  /\ pc = "probe"
  /\ \E took \in 0..MaxProbe, o \in Observations :
       /\ now' = now + took
       /\ started' = now
       /\ seen' = Append(seen, o)
       /\ runs' = IF o = "error" THEN runs ELSE RunsAfter(o)
       /\ \/ o = "error" /\ Return("probe_error")
          \/ o = "ready" /\ runs' >= Consecutive /\ Return("ready")
          \/ /\ o # "error" /\ ~(o = "ready" /\ runs' >= Consecutive)
             /\ pc' = "deadline" /\ UNCHANGED result
  /\ UNCHANGED <<deadline, cancelled>>

ExpiredFromTheStart == TRUE

Expired == now > deadline

DeadlineWithoutReturn ==
  /\ pc = "deadline"
  /\ ~Expired /\ pc' = "select" /\ UNCHANGED result
  /\ UNCHANGED <<now, deadline, runs, cancelled, started, seen>>

\* time.Now().After(deadline), looked at only after an observation.
CheckDeadline ==
  /\ pc = "deadline"
  /\ \/ Expired /\ Return("timeout")
     \/ ~Expired /\ pc' = "select" /\ UNCHANGED result
  /\ UNCHANGED <<now, deadline, runs, cancelled, started, seen>>

Sleep(nap) == now' = now + nap

\* case <-time.After(cfg.interval)
Wake ==
  /\ pc = "select"
  /\ \E over \in 0..Slack : Sleep(Interval + over)
  /\ pc' = "probe"
  /\ UNCHANGED <<deadline, runs, cancelled, started, seen, result>>

\* case <-ctx.Done(), at any time of the sleep
Abandon ==
  /\ pc = "select"
  /\ cancelled
  /\ \E nap \in 0..Interval : now' = now + nap
  /\ Return("cancelled")
  /\ UNCHANGED <<deadline, runs, cancelled, started, seen>>

\* The caller's context ends: the environment's move.
Cancel ==
  /\ ~cancelled
  /\ pc # "returned"
  /\ cancelled' = TRUE
  /\ UNCHANGED <<now, deadline, runs, pc, started, seen, result>>

Step == Probe \/ CheckDeadline \/ Wake \/ Abandon

Next == Step \/ Cancel

Spec == Init /\ [][Next]_vars /\ WF_vars(Step)

-----------------------------------------------------------------------------

TypeOK ==
  /\ now \in Nat /\ deadline = Timeout /\ runs \in Nat
  /\ pc \in {"probe", "deadline", "select", "returned"}
  /\ cancelled \in BOOLEAN
  /\ started \in 0..now
  /\ seen \in Seq(Observations)
  /\ result \in Results
  /\ pc = "returned" <=> result # "none"

\* The counter runs is the length of the run of ready observations that the
\* history ends with, and it is short of the goal while the wait goes on.
\* This is the inductive core: runs is the whole of what until remembers.
RunsCounted ==
  (pc # "returned") =>
    /\ runs < Consecutive
    /\ runs <= Len(seen)
    /\ \A i \in (Len(seen) - runs + 1)..Len(seen) : seen[i] = "ready"
    /\ runs < Len(seen) => seen[Len(seen) - runs] # "ready"

Promise == INSTANCE Await

\* wait.Until and wait.UntilStable keep the promise of Await: success exactly
\* at the first window of Consecutive ready observations, an error at once,
\* and no giving up before a first look (wait.go, until).
KeepsPromise == Promise!Spec

\* The deadline is kept from both sides, though it is only looked at between a
\* probe and a sleep that may cross it: no probe starts later than one whole
\* interval after it, nor earlier than that many sleeps allow, so the calls made
\* of AWS are bounded; and a wait that times out made its last look around it,
\* so that what was ready by then was seen (wait.go, until).
DeadlineKept ==
  /\ started <= Timeout + Interval + Slack
  /\ (Len(seen) - 1) * Interval <= started
  /\ result = "timeout" => started + MaxProbe > Timeout

\* Whatever the probe answers, the helper returns (wait.go, until).
Terminates == <>(result # "none")
=============================================================================
