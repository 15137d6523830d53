---------------------------- MODULE MCRoAfterInit ----------------------------
EXTENDS RoAfterInit, TLC

\* Readers are interchangeable.
Symmetry == Permutations(Readers)
=============================================================================
