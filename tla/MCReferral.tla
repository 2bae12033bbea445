----------------------------- MODULE MCReferral -----------------------------
(* Instance of Referral for TLC: a trip that is announced twice, and another *)
(* that is announced once.                                                   *)
EXTENDS Referral, TLC

CONSTANTS t1, t2, t3

MCTripOf == [t \in Refs |-> IF t = t3 THEN "another" ELSE "a trip"]

\* Accounts and the announcements of a trip are only compared for equality.
Symmetry == Permutations(Accounts) \cup Permutations({t1, t2})
=============================================================================
