SPECIFICATION FairSpec
CONSTANTS
  u1 = u1
  None = None
  Users = {u1}
  Projects = {p1, p2}
  Owner <- MCOwner
  Cars = {c1}
  Jobs = {1}
  Workers = {w1}
  Requests = {r1}
  Operations = {"cancel", "enqueue", "schedule", "delete", "block", "shutdown", "sleep"}
INVARIANTS TypeOK SucceededMeansComplete InterruptedRunsAreSettled
PROPERTIES SettledOutcomesPersist CancelledScanStops
