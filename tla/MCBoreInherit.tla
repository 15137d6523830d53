---------------------------- MODULE MCBoreInherit ----------------------------
EXTENDS BoreInherit, TLC

\* A rested task in a long burst, and one at rest.
SomeBursts == {<<0, 3>>, <<1, 1>>}

\* ROOT and one child of it.
SomeLoads == <<<<0, 0>>, <<2, 2>>>>

\* The writers of the type are interchangeable.
Symmetry == Permutations(Writers)
=============================================================================
