---------------------------- MODULE MCRouteTable ----------------------------
(* Small instances of RouteTable for TLC: the decoders are alike. *)
EXTENDS RouteTable, TLC

Symmetry == Permutations(Decoders)
=============================================================================
