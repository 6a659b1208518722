------------------------- MODULE MCContextMetadata -------------------------
(* Instances of ContextMetadata for TLC. *)
EXTENDS ContextMetadata

(* All GPUs have two stall reasons. *)
TwoReasons == [c \in Contexts |-> 2]

=============================================================================
