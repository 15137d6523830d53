------------------------------ MODULE MCBoreTask ------------------------------
EXTENDS BoreTask, TLC

\* The writers of the sysctl are interchangeable.
Symmetry == Permutations(Writers)
=============================================================================
