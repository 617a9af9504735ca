------------------------------ MODULE MCContexts ------------------------------
(* Instances of Contexts for TLC. *)
EXTENDS Contexts, TLC

Symmetry == Permutations(Proc) \cup Permutations(Server)
            \cup Permutations(Name \ {Default})
=============================================================================
