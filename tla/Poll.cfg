\* UntilStable with two observations in a row: five intervals to the deadline.
CONSTANTS
  Timeout = 5
  Interval = 2
  Consecutive = 2
  MaxProbe = 1
  Slack = 1
SPECIFICATION Spec
INVARIANTS TypeOK DeadlineKept
PROPERTIES KeepsPromise Terminates
CHECK_DEADLOCK FALSE
