-------------------------- MODULE MCRateController --------------------------
(* Instances of RateController for TLC. *)
EXTENDS RateController, TLC

Symmetry == Permutations(Threads)

=============================================================================
