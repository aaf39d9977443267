---------------------------- MODULE MCHandleTable ---------------------------
(* HandleTable on small instances, for TLC. *)
EXTENDS HandleTable

\* Parameters of connections are only compared for equality.
Symmetry == Permutations(Params)
=============================================================================
