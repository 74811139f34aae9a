SPECIFICATION RuntimeSpec
CONSTANTS
  c1 = c1
  c2 = c2
  c3 = c3
  None = None
  RunIds <- ThreeCalls
  Owners <- ThreeCalls
  Requests <- TwoRequests
  Policies = {"p1"}
  Principals <- Staff
  Operators <- Reconcilers
  LeaseSeconds = 1
  ApprovalTTL = 1
  BusyTimeout = 0
  AllowSelfApproval = FALSE
  MaxClock = 2
  MaxEvents = 2
  MaxDuplicates = 3
SYMMETRY CallSymmetry
CHECK_DEADLOCK FALSE
INVARIANTS
  UniqueIdentity
  RuntimeTypeOK
  EffectAtMostOnce
  EffectIsCleared
  CompletedMeansEffect
  AnswerIsDurable
