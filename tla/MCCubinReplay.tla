--------------------------- MODULE MCCubinReplay ---------------------------
(* Instances of CubinReplay for TLC. *)
EXTENDS CubinReplay

(* Modules of one and the same cubin. *)
OneCubin == [m \in Modules |-> CHOOSE c \in Crcs : TRUE]

=============================================================================
