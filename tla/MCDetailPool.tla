---------------------------- MODULE MCDetailPool ----------------------------
(* Instances of DetailPool for TLC. *)
EXTENDS DetailPool, TLC

MCTasks == <<1, 2, 3, 4>>

\* The threads of the pool are interchangeable.
Interchangeable == Permutations(Workers)
=============================================================================
