------------------------------ MODULE MCSoftEcc ------------------------------
EXTENDS SoftEccScrub

\* Two values that differ in every bit: with an even number of bits a change from
\* one to the other looks like a double flip.
ZeroOrAll == {{}, 0..(DATA_BITS - 1)}
=============================================================================
