SPECIFICATION PgSpec
CONSTANTS
  r1 = r1
  w1 = w1
  w2 = w2
  s1 = s1
  s2 = s2
  None = None
  RunIds = {r1}
  Requests <- MCRequests
  Policies = {"p1"}
  Principals <- MCPrincipals
  Owners <- TwoWorkers
  Sessions <- TwoSessions
  LeaseSeconds = 1
  ApprovalTTL = 1
  BusyTimeout = 1
  AllowSelfApproval = FALSE
  MaxClock = 3
  MaxEvents = 2
  MaxDuplicates = 0
SYMMETRY Symmetry
CHECK_DEADLOCK FALSE
INVARIANT ExpiredNeverExecutes
