---------------------------- MODULE MCQueryThread ---------------------------
(* QueryThread on small instances, for TLC. *)
EXTENDS QueryThreadInvariant, TLC

\* MYSQL objects are only compared for equality.
Symmetry == Permutations(Conns)
=============================================================================
