----------------------------- MODULE MCTokenStore -----------------------------
(* Instances of TokenStore for TLC. *)
EXTENDS TokenStore, TLC

Symmetry == Permutations(Proc) \cup Permutations(Server)

\* One call per process, or one process that makes another.
OneCall == [p \in Proc |-> 1]
OneMakesTwo == LET one == CHOOSE p \in Proc : TRUE
               IN [p \in Proc |-> IF p = one THEN 2 ELSE 1]
=============================================================================
