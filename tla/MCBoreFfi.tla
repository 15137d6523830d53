------------------------------ MODULE MCBoreFfi ------------------------------
EXTENDS BoreFfi

\* A byte of a time stamp: none, one that is also a bool, one that is not.
SomeBytes == {0, 1, 2}
=============================================================================
