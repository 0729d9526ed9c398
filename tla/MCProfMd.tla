------------------------------ MODULE MCProfMd ------------------------------
(* Small instances of ProfMd for TLC: an hour of two profiles; the decoders
   are alike. *)
EXTENDS ProfMd, TLC

MCTimes == [hour : {0, 1}, minute : {0, 1}] \ {[hour |-> 0, minute |-> 0]}

Symmetry == Permutations(Decoders)
=============================================================================
