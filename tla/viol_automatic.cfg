SPECIFICATION Spec
CONSTANTS
  None = None
  Worker = worker
  Projects = {p1}
  Intervals = {1, 2}
  Longest = 2
  Shortest = 1
  Slots = {s1, s2}
  Clients = {t1}
  Campaigns = {{"save", "resume"}}
INVARIANT OneAutomaticRun
