----------------------------- MODULE MCLoginFlow -----------------------------
(* Instances of LoginFlow for TLC.  No symmetry: the runs check liveness. *)
EXTENDS LoginFlow
=============================================================================
