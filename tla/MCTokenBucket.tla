--------------------------- MODULE MCTokenBucket ---------------------------
(* Instances of TokenBucket for TLC. *)
EXTENDS TokenBucket

(* 3 eager launches and 1.5 graph launches a second. *)
PerTickFast == [k \in Kinds |-> IF k = "eager" THEN 2 ELSE 1]

=============================================================================
