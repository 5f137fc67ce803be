SPECIFICATION Spec
CONSTANTS
  k1 = k1
  k2 = k2
  NInstalls = 2
  Roots = {k1, k2}
  Callbacks = {c1, c2, c3}
  Managers = {m1, m2}
  ActiveLimit = 1
  QueueLimit = 1
  Scenarios <- MCScenarios
INVARIANTS
  ActiveHasCapability
PROPERTIES
  EvidenceKept
  RevokedCapturesNothing
CHECK_DEADLOCK FALSE
SYMMETRY MCSymmetry
