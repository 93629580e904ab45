------------------------------- MODULE Await -------------------------------
(***************************************************************************)
(* What a caller of the polling helpers may rely on, with no clock in it.  *)
(* The helper makes observations one after another.  It reports success at *)
(* the first moment the last Consecutive observations are all ready, stops *)
(* at the first observation that is an error, and may give up only after   *)
(* at least one observation that settled nothing.  wait.Until is the case  *)
(* Consecutive = 1, wait.UntilStable any other, and retry.OnError the case *)
(* Consecutive = 1 with a transient error in the place of "waiting".       *)
(***************************************************************************)
EXTENDS Integers, Sequences

CONSTANT Consecutive    \* ready observations in a row that settle the wait, at least one

VARIABLES
  seen,     \* every observation made so far, in order
  result    \* what the helper returned, "none" while it runs

Observations == {"ready", "waiting", "error"}
GaveUp == {"timeout", "cancelled"}
Results == {"none", "ready", "probe_error"} \union GaveUp

\* The last n entries of s are all ready.
EndsReady(s, n) ==
  /\ n <= Len(s)
  /\ \A i \in 1..n : s[Len(s) + 1 - i] = "ready"

Verdict(s) ==
  IF s[Len(s)] = "error" THEN "probe_error"
  ELSE IF EndsReady(s, Consecutive) THEN "ready"
  ELSE "none"

Init == seen = <<>> /\ result = "none"

Observe ==
  /\ result = "none"
  /\ \E o \in Observations :
       /\ seen' = Append(seen, o)
       /\ result' = Verdict(seen')

GiveUp ==
  /\ result = "none"
  /\ seen # <<>>
  /\ result' \in GaveUp
  /\ UNCHANGED seen

Next == Observe \/ GiveUp

Spec == Init /\ [][Next]_<<seen, result>>
=============================================================================
