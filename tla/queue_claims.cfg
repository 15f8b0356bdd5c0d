SPECIFICATION Spec
CONSTANTS
  u1 = u1
  None = None
  Users = {u1}
  Projects = {p1, p2}
  Owner <- MCOwner
  Cars = {}
  Jobs = {1, 2}
  Workers = {w1, w2}
  Requests = {r1}
  Operations = {"enqueue", "schedule", "cancel"}
SYMMETRY Interchangeable
INVARIANTS SingleActive ExclusiveProcessing
