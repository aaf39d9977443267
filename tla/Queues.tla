-------------------------------- MODULE Queues ------------------------------
(***************************************************************************)
(* What the modules say about queues of numbered queries.                  *)
(***************************************************************************)
EXTENDS Integers, Sequences, Functions

\* The numbers in a queue: Range(s), of Functions.

\* Each entry is younger than those in front of it.
Ascending(s) == \A i, j \in DOMAIN s : i < j => s[i] < s[j]
=============================================================================
