------------------------------ MODULE MCKeyStore ------------------------------
\* KeyStore for TLC.
EXTENDS KeyStore, TLC

Symmetry == Permutations(Requests)
===============================================================================
