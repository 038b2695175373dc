------------------------------ MODULE MCReindex ------------------------------
\* Reindex for TLC: interchangeable documents and jobs.
EXTENDS Reindex, TLC

Symmetry == Permutations(Docs) \cup Permutations(Jobs)
=============================================================================
