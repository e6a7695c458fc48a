---------------------------- MODULE MCVaultSession ----------------------------
EXTENDS VaultSession, TLC

Symmetry == Permutations(Tasks) \cup Permutations(Sessions)
=============================================================================
