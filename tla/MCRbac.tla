------------------------------- MODULE MCRbac -------------------------------
(* Instance of Rbac for TLC: the super_admin of the seed, and a role of a   *)
(* city that an administrator creates.                                      *)
EXTENDS Rbac, TLC

CONSTANTS super, moderator, s1

MCScope == [r \in Roles |-> IF r = super THEN "global" ELSE "city"]
MCSeeded == {<<super, s1>>}
Symmetry == Permutations(Handlers) \cup Permutations(Users)
=============================================================================
