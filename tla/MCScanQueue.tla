---------------------------- MODULE MCScanQueue ----------------------------
(* Instances of ScanQueue for TLC: one account that owns every project. *)
EXTENDS ScanQueue, TLC

CONSTANTS u1

MCOwner == [p \in Projects |-> u1]

\* Workers, request threads and projects are interchangeable.
Interchangeable ==
  Permutations(Workers) \cup Permutations(Requests) \cup Permutations(Projects)
=============================================================================
