SPECIFICATION Spec
CONSTANTS
  Runs = {r1, r2}
  Sweepers = {s1, s2}
  Clients = {c1}
CHECK_DEADLOCK FALSE
INVARIANTS
  RowsAgree
  DeadlockTakesTwoSweeps
PROPERTIES
  WaitingEnds
  OverdueIsSettled
