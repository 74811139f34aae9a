SPECIFICATION Spec
CONSTANTS
  r1 = r1
  w1 = w1
  w2 = w2
  None = None
  RunIds = {r1}
  Requests <- MCRequests
  Policies = {"p1", "p2"}
  Principals <- MCPrincipals
  Owners <- TwoOwners
  LeaseSeconds = 2
  ApprovalTTL = 3
  BusyTimeout = 1
  AllowSelfApproval = FALSE
  MaxClock = 5
  MaxEvents = 6
  MaxDuplicates = 1
SYMMETRY OwnerSymmetry
CHECK_DEADLOCK FALSE
INVARIANTS
  TypeOK
  TrailDecidesStatus
  TrailIsLegal
  OneExecution
  ApprovalAgrees
  ExecutionIsAuthorised
  LeaseDiscipline
PROPERTIES
  TerminalIsFinal
  LiveLeaseIsExclusive
  ApprovalInTime
  UnknownNeedsAnOperator
