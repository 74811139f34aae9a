SPECIFICATION FairRuntimeSpec
CONSTANTS
  c1 = c1
  c2 = c2
  c3 = c3
  None = None
  RunIds <- TwoCalls
  Owners <- TwoCalls
  Requests <- OneRequest
  Policies = {"p1"}
  Principals <- Staff
  Operators <- Reconcilers
  LeaseSeconds = 1
  ApprovalTTL = 1
  BusyTimeout = 0
  AllowSelfApproval = FALSE
  MaxClock = 2
  MaxEvents = 2
  MaxDuplicates = 3
CHECK_DEADLOCK FALSE
PROPERTIES
  CallsReturn
  AbandonedIsRecovered
  PendingLapses
