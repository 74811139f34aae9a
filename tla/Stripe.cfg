SPECIFICATION Spec
CONSTANTS
  r1 = r1
  r2 = r2
  p1 = p1
  None = None
  Runs <- TwoRuns
  Probes <- OneProbe
  MaxReplayAge = 1
  MaxDelay = 1
  Retention = 2
  MaxClock = 3
SYMMETRY Symmetry
CHECK_DEADLOCK FALSE
INVARIANTS
  SinglePayment
  CompletedIsPaid
  FailedIsUnpaid
