------------------------------- MODULE MCAuth -------------------------------
(* Instance of Auth for TLC: one administrator, and limits small enough to  *)
(* be passed.                                                               *)
EXTENDS Auth, TLC

MCLimits == [k \in {"ip", "id", "rate"} |-> IF k = "rate" THEN 1 ELSE 2]
Symmetry == Permutations(Handlers)
=============================================================================
