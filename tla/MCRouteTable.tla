---------------------------- MODULE MCRouteTable ----------------------------
(* Small instances of RouteTable: two routes, one renamed to the other.    *)
EXTENDS RouteTable, TLC

Symmetry == Permutations(RouteIds) \cup Permutations(SecretValues)
=============================================================================
