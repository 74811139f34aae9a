SPECIFICATION RefundSpec
CONSTANTS
  c1 = c1
  c2 = c2
  c3 = c3
  None = None
  NaN = NaN
  Malformed = Malformed
  RunIds <- ThreeCalls
  Owners <- ThreeCalls
  Bodies <- Sent
  Configs <- Files
  Requests <- Governing
  Policies <- PolicyNames
  Principals <- Staff
  Operators <- Reconcilers
  LeaseSeconds = 1
  ApprovalTTL = 1
  BusyTimeout = 0
  AllowSelfApproval = FALSE
  MaxClock = 1
  MaxEvents = 2
  MaxDuplicates = 1
SYMMETRY CallSymmetry
CONSTRAINT Followed
CHECK_DEADLOCK FALSE
INVARIANTS
  RefundIsAuthorised
  CompletedIsRefunded
  TenantsAreIsolated
PROPERTIES
  Lifecycle
  ReleaseIsSafe
