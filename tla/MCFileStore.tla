---------------------------- MODULE MCFileStore -----------------------------
EXTENDS FileStore, TLC

Symmetry == Permutations(Handlers) \cup Permutations(Versions)
=============================================================================
