SPECIFICATION Spec
CONSTANTS
  None = None
  Threads = {t1, t2}
  Evaluators = {e1, e2}
  Licenses = {l1, l2}
  LeaseLife = 2
  Tolerance = 1
  MaxTime = 1
  MaxWork = 6
SYMMETRY Interchangeable
INVARIANTS TypeOK ExpiredIsRemembered DeletedStaysOut OneIdentity
PROPERTIES GuardNeverMovesBack
