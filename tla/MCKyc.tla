------------------------------- MODULE MCKyc -------------------------------
(* Instances of Kyc for TLC: a user of a first city and one or two of a     *)
(* second, a global administrator and the administrator of the first city.  *)
(* A slice of a campaign has two users, so that two calls run side by side  *)
(* and a third user is in a second slice.                                   *)
EXTENDS Kyc, TLC

CONSTANTS root, mayor, c1, c2, u1, u2, u3

MCUserCity == [u \in Users |-> IF u = u1 THEN c1 ELSE c2]
MCManaged == [a \in Admins |-> IF a = mayor THEN {c1} ELSE {}]
Symmetry == Permutations(Handlers) \cup Permutations(Users \ {u1})
=============================================================================
