---------------------------- MODULE MCGraphTracker ---------------------------
(* Instances of GraphTracker for TLC. *)
EXTENDS GraphTracker
=============================================================================
