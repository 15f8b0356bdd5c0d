-------------------------- MODULE MCDesktopLicense --------------------------
(* Instances of DesktopLicense for TLC. *)
EXTENDS DesktopLicense, TLC

\* Evaluators and licences are interchangeable.  Threads are too: a key named
\* after one is a name only.
Interchangeable ==
  Permutations(Threads) \cup Permutations(Evaluators) \cup Permutations(Licenses)
=============================================================================
