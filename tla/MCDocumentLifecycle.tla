------------------------ MODULE MCDocumentLifecycle ------------------------
EXTENDS DocumentLifecycle, TLC

\* Ids, names and contents are interchangeable: no action tells them apart.
Symmetry == Permutations(Tasks) \cup Permutations(Admins) \cup Permutations(Docs)
              \cup Permutations(Files) \cup Permutations(Hashes)
=============================================================================
