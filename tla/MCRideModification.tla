------------------------ MODULE MCRideModification ------------------------
(* Instance of RideModification for TLC: two destinations three kilometres  *)
(* apart, and two requests of the passenger at the same time.               *)
EXTENDS RideModification, TLC

Symmetry == Permutations(Handlers)
=============================================================================
