--------------------------- MODULE MCObservation ---------------------------
(* An instance of Observation: two projects that follow the same two       *)
(* listings, one listing to a result page.                                 *)
EXTENDS Observation, TLC

\* A field of the first spec was not known; the second spec gives it.
NewlyKnown == {<<1, 2>>}

\* Both listings publish the same vehicle.
OneVehicle == [c \in Cars |-> 1]

EitherProject == Permutations(Projects)
============================================================================
