----------------------------- MODULE MCUdqueue -----------------------------
(* Small instances of Udqueue for TLC: threads of a kind are alike,
   and so are elements. *)
EXTENDS Udqueue, TLC

Symmetry == Permutations(Producers) \cup Permutations(Consumers)
              \cup Permutations(Elts)
=============================================================================
