--------------------------- MODULE MCChangePropose ---------------------------
(* Instances of ChangePropose for TLC. *)
EXTENDS ChangePropose
=============================================================================
