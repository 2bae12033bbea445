------------------------------ MODULE MCRides -------------------------------
(* Instance of Rides for TLC. *)
EXTENDS Rides, TLC

\* Rides, passengers, drivers and handlers are only compared for equality.
Symmetry == Permutations(Rides) \cup Permutations(Users)
            \cup Permutations(Drivers) \cup Permutations(Handlers)
=============================================================================
