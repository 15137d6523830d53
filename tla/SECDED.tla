------------------------------- MODULE SECDED -------------------------------
(***************************************************************************)
(* The Hamming(72,64) code of rustlux_mm/src/soft_ecc.rs (mirrored by      *)
(* patches 0005 and 0009).  A word is the set of its one bits, a code the  *)
(* set of its one bits: 0..CODE_BITS-1 are the positional parity bits (bit *)
(* i sits at codeword position 2^i), CODE_BITS is the overall parity bit.  *)
(* A syndrome, the XOR of codeword positions, is likewise the set of its   *)
(* one bits; XOR is symmetric difference.                                  *)
(***************************************************************************)
EXTENDS Integers, FiniteSets

CONSTANTS DATA_BITS,   \* 64 in the code
          CODE_BITS    \* 7 in the code

ASSUME CodeAssumption ==
  /\ DATA_BITS \in Nat \ {0} /\ CODE_BITS \in Nat \ {0}
  /\ DATA_BITS + CODE_BITS < 2^CODE_BITS

POSITIONS == DATA_BITS + CODE_BITS

Word == SUBSET (0..(DATA_BITS - 1))
Code == SUBSET (0..CODE_BITS)

XOR(S, T) == (S \ T) \union (T \ S)
Odd(S) == Cardinality(S) % 2 = 1

\* The one bits of a codeword position.
bits == [pos \in 0..(2^CODE_BITS - 1) |-> {i \in 0..(CODE_BITS - 1) : (pos \div 2^i) % 2 = 1}]

\* pos & (pos - 1) == 0, for pos >= 1: a power of two.
is_parity_pos(pos) == \E i \in 0..CODE_BITS : pos = 2^i

DataPositions == {pos \in 1..POSITIONS : ~is_parity_pos(pos)}

\* The data bit at a codeword position: data bits fill the others in order.
data_bit_index == [err_pos \in DataPositions |-> Cardinality({pos \in DataPositions : pos < err_pos})]

data_syndrome(data) ==
  {i \in 0..(CODE_BITS - 1) :
     Odd({pos \in DataPositions : data_bit_index[pos] \in data /\ i \in bits[pos]})}

\* hweight(data) + hweight(code) is odd.
OddParity(data, code) == (Cardinality(data) + Cardinality(code)) % 2 = 1

encode(data) ==
  LET low == data_syndrome(data)
  IN  IF OddParity(data, low) THEN low \union {CODE_BITS} ELSE low

Clean(data) == [status |-> 0, data |-> data]
Corrected(data) == [status |-> 1, data |-> data]
Uncorrectable(data) == [status |-> -1, data |-> data]

\* The position a syndrome points at.
PositionOf(syn) == CHOOSE pos \in DOMAIN bits : bits[pos] = syn

\* Mutant: the position is taken for the index of the data bit.
FlipAtPosition(data, syn) ==
  IF syn = {} THEN Corrected(data)
  ELSE LET pos == PositionOf(syn)
       IN  IF pos > POSITIONS THEN Uncorrectable(data)
           ELSE IF is_parity_pos(pos) THEN Corrected(data)
           ELSE Corrected(XOR(data, {pos}))

\* What a syndrome says about a word whose overall parity is broken.
Repair(data, syn) ==
  IF syn = {} THEN Corrected(data)   \* the overall parity bit itself
  ELSE LET pos == PositionOf(syn)
       IN  IF pos > POSITIONS THEN Uncorrectable(data)
           ELSE IF is_parity_pos(pos) THEN Corrected(data)
           ELSE Corrected(XOR(data, {data_bit_index[pos]}))

\* Mutant: every non-zero syndrome is repaired.
VerifyWithoutParity(data, code) ==
  LET syn == XOR(data_syndrome(data), code \ {CODE_BITS})
  IN  IF syn = {} THEN Clean(data) ELSE Repair(data, syn)

verify(data, code) ==
  LET syn == XOR(data_syndrome(data), code \ {CODE_BITS})
  IN  IF OddParity(data, code) THEN Repair(data, syn)
      ELSE IF syn = {} THEN Clean(data) ELSE Uncorrectable(data)
=============================================================================
