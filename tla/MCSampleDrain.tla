--------------------------- MODULE MCSampleDrain ---------------------------
(* Instances of SampleDrain for TLC. *)
EXTENDS SampleDrain

=============================================================================
