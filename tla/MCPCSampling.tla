--------------------------- MODULE MCPCSampling ---------------------------
(* Instances of PCSampling for TLC. *)
EXTENDS PCSampling, TLC

Symmetry == Permutations(Threads) \cup Permutations(Contexts)

=============================================================================
