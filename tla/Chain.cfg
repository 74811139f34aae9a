SPECIFICATION Spec
CONSTANTS
  p1 = p1
  p2 = p2
  v1 = v1
  v2 = v2
  None = None
  Processes <- TwoProcesses
  Verifiers <- TwoVerifiers
  MaxEvents = 3
SYMMETRY Symmetry
CHECK_DEADLOCK FALSE
INVARIANTS
  ChainTellsHistory
  DamageIsReported
  QuietVerdictIsRight
  BundleIsGenuine
