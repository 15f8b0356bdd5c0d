SPECIFICATION Spec
CONSTANTS
  u1 = u1
  None = None
  Users = {u1}
  Projects = {p1, p2}
  Owner <- MCOwner
  Cars = {}
  Jobs = {1, 2, 3}
  Workers = {}
  Requests = {r1, r2}
  Operations = {"enqueue", "schedule", "cancel", "delete"}
SYMMETRY Interchangeable
INVARIANT MergedRunIsCovered
