---------------------------- MODULE MCResultSet ----------------------------
EXTENDS ResultSet, TLC

\* Results are interchangeable: they are told apart only by equality.
Symmetry == Permutations(Results)
=============================================================================
