--------------------------- MODULE MCMembership ---------------------------
EXTENDS Membership, TLC

\* Calls are interchangeable, and so are the two seeded owners.
Symmetry == Permutations(Calls) \cup Permutations(Seeded)
=============================================================================
