--------------------------- MODULE MCCorrelation ---------------------------
(* Instances of Correlation for TLC. *)
EXTENDS Correlation, TLC

Symmetry == Permutations(Threads)

=============================================================================
