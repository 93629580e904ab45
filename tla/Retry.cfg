\* Two transient errors, so that the last one can differ from an earlier one.
CONSTANTS
  Timeout = 3
  Interval = 2
  MaxCall = 1
  Slack = 1
  Transient = {"conflict", "not_propagated"}
  Fatal = {"denied"}
SPECIFICATION Spec
INVARIANT LatestInTime
PROPERTIES KeepsPromise Terminates
CHECK_DEADLOCK FALSE
