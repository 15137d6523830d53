------------------------------ MODULE MCCodeword ------------------------------
EXTENDS Codeword

\* The patterns of the unit tests: zero, all ones, alternating bits, the first
\* and the last bit alone, alternating bytes and alternating half-words.
Patterns ==
  { {}, 0..(DATA_BITS - 1), {0}, {DATA_BITS - 1},
    {b \in 0..(DATA_BITS - 1) : b % 2 = 0},
    {b \in 0..(DATA_BITS - 1) : (b \div 8) % 2 = b % 2},
    {b \in 0..(DATA_BITS - 1) : (b \div 16) % 2 = 1} }
=============================================================================
