----------------------------- MODULE SECDEDProofs -----------------------------
(***************************************************************************)
(* soft_ecc.rs corrects every single flip and detects every double flip of *)
(* every 64-bit word: the unit tests try eight words and four pairs.       *)
(*                                                                         *)
(* The argument: each of the 72 bits has a signature, what its flip adds   *)
(* to the syndrome (the position's one bits for a data bit, {j} for parity *)
(* bit j, {} for the overall parity bit).  Flipping a bit XORs the         *)
(* signature into the syndrome and breaks the overall parity, and the 72   *)
(* signatures are different.                                               *)
(***************************************************************************)
EXTENDS SECDED, FiniteSetTheorems, TLAPS

\* The parameters soft_ecc.rs is written for.
Hamming72_64 == DATA_BITS = 64 /\ CODE_BITS = 7

DataBits == 0..63
ParityBits == 0..6

-----------------------------------------------------------------------------
(* Sets and their parity *)

\* A number and the next one differ in parity.
LEMMA Successor == \A n \in Nat : (n + 1) % 2 = 1 <=> n % 2 # 1
BY SMT

\* Adding or removing one element changes the parity of a finite set.
LEMMA FlipParity ==
  ASSUME NEW S, IsFiniteSet(S), NEW x
  PROVE  /\ IsFiniteSet(XOR(S, {x}))
         /\ Cardinality(S) \in Nat /\ Cardinality(XOR(S, {x})) \in Nat
         /\ Cardinality(XOR(S, {x})) % 2 = 1 <=> Cardinality(S) % 2 # 1
<1>1. Cardinality(S) \in Nat
  BY FS_CardinalityType
<1>2. CASE x \in S
  <2>1. XOR(S, {x}) = S \ {x}
    BY <1>2 DEF XOR
  <2>2. IsFiniteSet(S \ {x}) /\ Cardinality(S \ {x}) = Cardinality(S) - 1
    BY <1>2, FS_RemoveElement
  <2>3. Cardinality(S \ {x}) \in Nat
    BY <2>2, FS_CardinalityType
  <2>4. Cardinality(S) = Cardinality(S \ {x}) + 1
    BY <1>1, <2>2, <2>3
  <2> QED BY <1>1, <2>1, <2>2, <2>3, <2>4, Successor
<1>3. CASE x \notin S
  <2>1. XOR(S, {x}) = S \cup {x}
    BY <1>3 DEF XOR
  <2>2. IsFiniteSet(S \cup {x}) /\ Cardinality(S \cup {x}) = Cardinality(S) + 1
    BY <1>3, FS_AddElement
  <2>3. Cardinality(S \cup {x}) \in Nat
    BY <1>1, <2>2
  <2> QED BY <1>1, <2>1, <2>2, <2>3, Successor
<1> QED BY <1>2, <1>3

\* Words and codes are finite sets of bits.
LEMMA WordsFinite == ASSUME Hamming72_64
                     PROVE  /\ \A w \in Word : IsFiniteSet(w)
                            /\ \A c \in Code : IsFiniteSet(c)
<1>1. IsFiniteSet(0..(DATA_BITS - 1)) /\ IsFiniteSet(0..CODE_BITS)
  <2>1. 0 \in Int /\ DATA_BITS - 1 \in Int /\ CODE_BITS \in Int
    BY DEF Hamming72_64
  <2> QED BY <2>1, FS_Interval
<1> QED BY <1>1, FS_Subset DEF Word, Code

-----------------------------------------------------------------------------
(* The layout of the codeword *)

Powers == {1, 2, 4, 8, 16, 32, 64}

\* 71 positions, of which the seven powers of two hold the parity bits.
LEMMA Layout ==
  ASSUME Hamming72_64
  PROVE  /\ POSITIONS = 71
         /\ \A pos \in 1..127 : is_parity_pos(pos) <=> pos \in Powers
         /\ DataPositions = (1..71) \ Powers
         /\ DOMAIN bits = 0..127
<1> USE DEF Hamming72_64
<1>1. /\ 2^0 = 1 /\ 2^1 = 2 /\ 2^2 = 4 /\ 2^3 = 8
      /\ 2^4 = 16 /\ 2^5 = 32 /\ 2^6 = 64 /\ 2^7 = 128
  BY SMT
<1>2. POSITIONS = 71
  BY DEF POSITIONS
<1>3. ASSUME NEW pos \in 1..127
      PROVE  is_parity_pos(pos) <=> pos \in Powers
  <2>1. \A i \in 0..7 : i \in {0, 1, 2, 3, 4, 5, 6, 7}
    OBVIOUS
  <2> QED BY <1>1, <2>1 DEF is_parity_pos, Powers
<1>4. DataPositions = (1..71) \ Powers
  BY <1>2, <1>3 DEF DataPositions
<1>5. DOMAIN bits = 0..127
  BY <1>1 DEF bits
<1> QED BY <1>2, <1>3, <1>4, <1>5

\* Different positions have different one bits; position 2^j has the one bit j.
LEMMA BitsInjective ==
  ASSUME Hamming72_64
  PROVE  /\ \A p, q \in 0..127 : bits[p] = bits[q] => p = q
         /\ \A p \in 0..127 : bits[p] \subseteq ParityBits
         /\ bits[0] = {}
         /\ \A j \in ParityBits : \E p \in Powers : bits[p] = {j}
<1> USE DEF Hamming72_64
<1>1. /\ 2^0 = 1 /\ 2^1 = 2 /\ 2^2 = 4 /\ 2^3 = 8
      /\ 2^4 = 16 /\ 2^5 = 32 /\ 2^6 = 64 /\ 2^7 = 128
  BY SMT
<1>2. \A p \in 0..127 : bits[p] = {i \in 0..6 : (p \div 2^i) % 2 = 1}
  BY <1>1 DEF bits
<1>3. ASSUME NEW p \in 0..127
      PROVE  /\ 0 \in bits[p] <=> p % 2 = 1
             /\ 1 \in bits[p] <=> (p \div 2) % 2 = 1
             /\ 2 \in bits[p] <=> (p \div 4) % 2 = 1
             /\ 3 \in bits[p] <=> (p \div 8) % 2 = 1
             /\ 4 \in bits[p] <=> (p \div 16) % 2 = 1
             /\ 5 \in bits[p] <=> (p \div 32) % 2 = 1
             /\ 6 \in bits[p] <=> (p \div 64) % 2 = 1
  <2> DEFINE T == {i \in 0..6 : (p \div 2^i) % 2 = 1}
  <2>1. /\ 0 \in T <=> (p \div 2^0) % 2 = 1
        /\ 1 \in T <=> (p \div 2^1) % 2 = 1
        /\ 2 \in T <=> (p \div 2^2) % 2 = 1
        /\ 3 \in T <=> (p \div 2^3) % 2 = 1
        /\ 4 \in T <=> (p \div 2^4) % 2 = 1
        /\ 5 \in T <=> (p \div 2^5) % 2 = 1
        /\ 6 \in T <=> (p \div 2^6) % 2 = 1
    OBVIOUS
  <2>2. bits[p] = T
    BY <1>2
  <2>3. p \div 1 = p
    OBVIOUS
  <2> HIDE DEF T
  <2> QED BY <1>1, <2>1, <2>2, <2>3
<1>4. \A p, q \in 0..127 :
        (/\ p % 2 = q % 2 /\ (p \div 2) % 2 = (q \div 2) % 2
         /\ (p \div 4) % 2 = (q \div 4) % 2 /\ (p \div 8) % 2 = (q \div 8) % 2
         /\ (p \div 16) % 2 = (q \div 16) % 2 /\ (p \div 32) % 2 = (q \div 32) % 2
         /\ (p \div 64) % 2 = (q \div 64) % 2) => p = q
  BY SMTT(60)
<1>5. ASSUME NEW p \in 0..127, NEW q \in 0..127, bits[p] = bits[q]
      PROVE  p = q
  <2>1. \A a, b \in Nat : (a % 2 = 1 <=> b % 2 = 1) => a % 2 = b % 2
    OBVIOUS
  <2>2. p % 2 = q % 2
    <3>1. p \in Nat /\ q \in Nat
      OBVIOUS
    <3>2. p % 2 = 1 <=> q % 2 = 1
      BY <1>3, <1>5
    <3> QED BY <2>1, <3>1, <3>2
  <2>3. (p \div 2) % 2 = (q \div 2) % 2
    <3>1. p \div 2 \in Nat /\ q \div 2 \in Nat
      OBVIOUS
    <3>2. (p \div 2) % 2 = 1 <=> (q \div 2) % 2 = 1
      BY <1>3, <1>5
    <3> QED BY <2>1, <3>1, <3>2
  <2>4. (p \div 4) % 2 = (q \div 4) % 2
    <3>1. p \div 4 \in Nat /\ q \div 4 \in Nat
      OBVIOUS
    <3>2. (p \div 4) % 2 = 1 <=> (q \div 4) % 2 = 1
      BY <1>3, <1>5
    <3> QED BY <2>1, <3>1, <3>2
  <2>5. (p \div 8) % 2 = (q \div 8) % 2
    <3>1. p \div 8 \in Nat /\ q \div 8 \in Nat
      OBVIOUS
    <3>2. (p \div 8) % 2 = 1 <=> (q \div 8) % 2 = 1
      BY <1>3, <1>5
    <3> QED BY <2>1, <3>1, <3>2
  <2>6. (p \div 16) % 2 = (q \div 16) % 2
    <3>1. p \div 16 \in Nat /\ q \div 16 \in Nat
      OBVIOUS
    <3>2. (p \div 16) % 2 = 1 <=> (q \div 16) % 2 = 1
      BY <1>3, <1>5
    <3> QED BY <2>1, <3>1, <3>2
  <2>7. (p \div 32) % 2 = (q \div 32) % 2
    <3>1. p \div 32 \in Nat /\ q \div 32 \in Nat
      OBVIOUS
    <3>2. (p \div 32) % 2 = 1 <=> (q \div 32) % 2 = 1
      BY <1>3, <1>5
    <3> QED BY <2>1, <3>1, <3>2
  <2>8. (p \div 64) % 2 = (q \div 64) % 2
    <3>1. p \div 64 \in Nat /\ q \div 64 \in Nat
      OBVIOUS
    <3>2. (p \div 64) % 2 = 1 <=> (q \div 64) % 2 = 1
      BY <1>3, <1>5
    <3> QED BY <2>1, <3>1, <3>2
  <2> QED BY <1>4, <2>2, <2>3, <2>4, <2>5, <2>6, <2>7, <2>8
<1>6. \A p \in 0..127 : bits[p] \subseteq ParityBits
  BY <1>2 DEF ParityBits
<1>7. \A p \in 0..127 : \A i \in bits[p] : i \in {0, 1, 2, 3, 4, 5, 6}
  BY <1>2
<1>8. bits[0] = {}
  BY <1>3, <1>7
<1>9. /\ bits[1] = {0} /\ bits[2] = {1} /\ bits[4] = {2} /\ bits[8] = {3}
      /\ bits[16] = {4} /\ bits[32] = {5} /\ bits[64] = {6}
  <2>1. bits[1] = {0}
    BY <1>3, <1>7
  <2>2. bits[2] = {1}
    BY <1>3, <1>7
  <2>3. bits[4] = {2}
    BY <1>3, <1>7
  <2>4. bits[8] = {3}
    BY <1>3, <1>7
  <2>5. bits[16] = {4}
    BY <1>3, <1>7
  <2>6. bits[32] = {5}
    BY <1>3, <1>7
  <2>7. bits[64] = {6}
    BY <1>3, <1>7
  <2> QED BY <2>1, <2>2, <2>3, <2>4, <2>5, <2>6, <2>7
<1>10. \A j \in ParityBits : \E p \in Powers : bits[p] = {j}
  <2>1. \A j \in ParityBits : j \in {0, 1, 2, 3, 4, 5, 6}
    BY DEF ParityBits
  <2> QED BY <1>9, <2>1 DEF Powers
<1> QED BY <1>5, <1>6, <1>8, <1>10

\* How many data positions lie below a position: the closed form of the loop of
\* data_bit_index().
Rank(pos) ==
  (pos - 1) - (IF 1 < pos THEN 1 ELSE 0) - (IF 2 < pos THEN 1 ELSE 0)
            - (IF 4 < pos THEN 1 ELSE 0) - (IF 8 < pos THEN 1 ELSE 0)
            - (IF 16 < pos THEN 1 ELSE 0) - (IF 32 < pos THEN 1 ELSE 0)
            - (IF 64 < pos THEN 1 ELSE 0)

\* The closed form counts the positions below pos that hold data.
LEMMA RankIsCount ==
  ASSUME NEW pos \in 1..71
  PROVE  Cardinality((1..(pos - 1)) \ Powers) = Rank(pos)
<1> DEFINE A0 == 1..(pos - 1)
           A1 == A0 \ {1}
           A2 == A1 \ {2}
           A3 == A2 \ {4}
           A4 == A3 \ {8}
           A5 == A4 \ {16}
           A6 == A5 \ {32}
           A7 == A6 \ {64}
<1>1. IsFiniteSet(A0) /\ Cardinality(A0) = pos - 1
  BY FS_Interval
<1>2. /\ 1 \in A0 <=> 1 < pos
      /\ 2 \in A1 <=> 2 < pos
      /\ 4 \in A2 <=> 4 < pos
      /\ 8 \in A3 <=> 8 < pos
      /\ 16 \in A4 <=> 16 < pos
      /\ 32 \in A5 <=> 32 < pos
      /\ 64 \in A6 <=> 64 < pos
  OBVIOUS
<1>3. A0 \ Powers = A7
  BY DEF Powers
<1> HIDE DEF A0
<1>4. IsFiniteSet(A1) /\ Cardinality(A1) = Cardinality(A0) - (IF 1 < pos THEN 1 ELSE 0)
  <2>1. Cardinality(A0) \in Int
    BY <1>1
  <2> QED BY <1>1, <1>2, <2>1, FS_RemoveElement
<1> HIDE DEF A1
<1>5. IsFiniteSet(A2) /\ Cardinality(A2) = Cardinality(A1) - (IF 2 < pos THEN 1 ELSE 0)
  <2>1. Cardinality(A1) \in Int
    BY <1>4, FS_CardinalityType
  <2> QED BY <1>4, <1>2, <2>1, FS_RemoveElement
<1> HIDE DEF A2
<1>6. IsFiniteSet(A3) /\ Cardinality(A3) = Cardinality(A2) - (IF 4 < pos THEN 1 ELSE 0)
  <2>1. Cardinality(A2) \in Int
    BY <1>5, FS_CardinalityType
  <2> QED BY <1>5, <1>2, <2>1, FS_RemoveElement
<1> HIDE DEF A3
<1>7. IsFiniteSet(A4) /\ Cardinality(A4) = Cardinality(A3) - (IF 8 < pos THEN 1 ELSE 0)
  <2>1. Cardinality(A3) \in Int
    BY <1>6, FS_CardinalityType
  <2> QED BY <1>6, <1>2, <2>1, FS_RemoveElement
<1> HIDE DEF A4
<1>8. IsFiniteSet(A5) /\ Cardinality(A5) = Cardinality(A4) - (IF 16 < pos THEN 1 ELSE 0)
  <2>1. Cardinality(A4) \in Int
    BY <1>7, FS_CardinalityType
  <2> QED BY <1>7, <1>2, <2>1, FS_RemoveElement
<1> HIDE DEF A5
<1>9. IsFiniteSet(A6) /\ Cardinality(A6) = Cardinality(A5) - (IF 32 < pos THEN 1 ELSE 0)
  <2>1. Cardinality(A5) \in Int
    BY <1>8, FS_CardinalityType
  <2> QED BY <1>8, <1>2, <2>1, FS_RemoveElement
<1> HIDE DEF A6
<1>10. IsFiniteSet(A7) /\ Cardinality(A7) = Cardinality(A6) - (IF 64 < pos THEN 1 ELSE 0)
  <2>1. Cardinality(A6) \in Int
    BY <1>9, FS_CardinalityType
  <2> QED BY <1>9, <1>2, <2>1, FS_RemoveElement
<1> HIDE DEF A7
<1>11. Cardinality(A7) = Rank(pos)
  BY <1>1, <1>4, <1>5, <1>6, <1>7, <1>8, <1>9, <1>10 DEF Rank
<1> QED BY <1>3, <1>11 DEF A0

\* data_bit_index() is a bijection between the data positions and the data bits,
\* so the loop of data_syndrome() gives each data bit one position of its own.
LEMMA DataBitIndex ==
  ASSUME Hamming72_64
  PROVE  /\ \A p \in DataPositions : data_bit_index[p] \in DataBits
         /\ \A p, q \in DataPositions : data_bit_index[p] = data_bit_index[q] => p = q
         /\ \A b \in DataBits : \E p \in DataPositions : data_bit_index[p] = b
<1>1. DataPositions = (1..71) \ Powers
  BY Layout
<1>2. ASSUME NEW p \in DataPositions
      PROVE  data_bit_index[p] = Rank(p)
  <2>1. p \in 1..71
    BY <1>1
  <2>2. {pos \in DataPositions : pos < p} = (1..(p - 1)) \ Powers
    BY <1>1
  <2>3. data_bit_index[p] = Cardinality({pos \in DataPositions : pos < p})
    BY DEF data_bit_index
  <2> QED BY <2>1, <2>2, <2>3, RankIsCount
<1>3. \A p \in (1..71) \ Powers : Rank(p) \in DataBits
  BY DEF Rank, Powers, DataBits
<1>4. \A p, q \in (1..71) \ Powers : Rank(p) = Rank(q) => p = q
  BY DEF Rank, Powers
<1>5. ASSUME NEW b \in DataBits
      PROVE  \E p \in (1..71) \ Powers : Rank(p) = b
  <2> DEFINE pos == b + (IF b < 1 THEN 3 ELSE IF b < 4 THEN 4 ELSE IF b < 11 THEN 5
                         ELSE IF b < 26 THEN 6 ELSE IF b < 57 THEN 7 ELSE 8)
  <2>1. pos \in (1..71) \ Powers
    BY DEF Powers, DataBits
  <2>2. Rank(pos) = b
    BY DEF Rank, DataBits
  <2> QED BY <2>1, <2>2
<1> QED BY <1>1, <1>2, <1>3, <1>4, <1>5

-----------------------------------------------------------------------------
(* Flips and the syndrome *)

\* A bit of a XOR is a bit of one of the two.
LEMMA XORMember == ASSUME NEW S, NEW T, NEW x
                   PROVE  x \in XOR(S, T) <=> ~(x \in S <=> x \in T)
BY DEF XOR

\* Flipping the data bit at position p XORs p into the syndrome.
LEMMA SyndromeFlip ==
  ASSUME Hamming72_64, NEW w \in Word, NEW p \in DataPositions
  PROVE  data_syndrome(XOR(w, {data_bit_index[p]})) = XOR(data_syndrome(w), bits[p])
<1> DEFINE b == data_bit_index[p]
           Ones(v, i) == {pos \in DataPositions : data_bit_index[pos] \in v /\ i \in bits[pos]}
<1>1. bits[p] \subseteq ParityBits
  <2>1. p \in 0..127
    BY Layout
  <2> QED BY <2>1, BitsInjective
<1>2. \A v : data_syndrome(v) = {i \in ParityBits : Odd(Ones(v, i))}
  BY DEF data_syndrome, ParityBits, Hamming72_64
<1>3. IsFiniteSet(DataPositions)
  <2>1. IsFiniteSet(1..71)
    BY FS_Interval, 1 \in Int, 71 \in Int
  <2> QED BY <2>1, Layout, FS_Subset
<1>4. ASSUME NEW v, NEW i
      PROVE  IsFiniteSet(Ones(v, i))
  BY <1>3, FS_Subset
<1>5. ASSUME NEW i \in ParityBits, i \in bits[p]
      PROVE  Odd(Ones(XOR(w, {b}), i)) <=> ~Odd(Ones(w, i))
  <2>1. Ones(XOR(w, {b}), i) = XOR(Ones(w, i), {p})
    BY <1>5, DataBitIndex, Zenon DEF XOR
  <2>2. IsFiniteSet(Ones(w, i))
    BY <1>4
  <2> HIDE DEF Ones
  <2> QED BY <2>1, <2>2, FlipParity DEF Odd
<1>6. ASSUME NEW i \in ParityBits, i \notin bits[p]
      PROVE  Ones(XOR(w, {b}), i) = Ones(w, i)
  BY <1>6, DataBitIndex, Zenon DEF XOR
<1> HIDE DEF Ones, b
<1>7. ASSUME NEW i
      PROVE  i \in data_syndrome(XOR(w, {b})) <=> i \in XOR(data_syndrome(w), bits[p])
  <2>1. \A v : i \in data_syndrome(v) <=> i \in ParityBits /\ Odd(Ones(v, i))
    BY <1>2
  <2>2. i \in data_syndrome(w) <=> i \in ParityBits /\ Odd(Ones(w, i))
    BY <2>1
  <2>3. i \in data_syndrome(XOR(w, {b})) <=> i \in ParityBits /\ Odd(Ones(XOR(w, {b}), i))
    BY <2>1
  <2>4. i \in XOR(data_syndrome(w), bits[p]) <=> ~(i \in data_syndrome(w) <=> i \in bits[p])
    BY XORMember
  <2>5. CASE i \notin ParityBits
    BY <2>2, <2>3, <2>4, <2>5, <1>1
  <2>6. CASE i \in ParityBits /\ i \in bits[p]
    BY <2>2, <2>3, <2>4, <2>6, <1>5
  <2>7. CASE i \in ParityBits /\ i \notin bits[p]
    BY <2>2, <2>3, <2>4, <2>7, <1>6
  <2> QED BY <2>5, <2>6, <2>7
<1>8. data_syndrome(XOR(w, {b})) = XOR(data_syndrome(w), bits[p])
  BY <1>7
<1> QED BY <1>8 DEF b

\* One flip, in the word or in the code, changes the overall parity.
LEMMA OverallParityFlip ==
  ASSUME NEW d, IsFiniteSet(d), NEW c, IsFiniteSet(c), NEW x
  PROVE  /\ OddParity(XOR(d, {x}), c) <=> ~OddParity(d, c)
         /\ OddParity(d, XOR(c, {x})) <=> ~OddParity(d, c)
<1>1. \A m, n \in Nat : (m + n) % 2 = 1 <=> ~(m % 2 = 1 <=> n % 2 = 1)
  BY SMT
<1>2. Cardinality(d) \in Nat /\ Cardinality(c) \in Nat
  BY FS_CardinalityType
<1>3. /\ Cardinality(XOR(d, {x})) \in Nat
      /\ Cardinality(XOR(d, {x})) % 2 = 1 <=> Cardinality(d) % 2 # 1
      /\ Cardinality(XOR(c, {x})) \in Nat
      /\ Cardinality(XOR(c, {x})) % 2 = 1 <=> Cardinality(c) % 2 # 1
  BY FlipParity
<1>4. OddParity(XOR(d, {x}), c) <=> ~OddParity(d, c)
  BY <1>1, <1>2, <1>3 DEF OddParity
<1>5. OddParity(d, XOR(c, {x})) <=> ~OddParity(d, c)
  BY <1>1, <1>2, <1>3 DEF OddParity
<1> QED BY <1>4, <1>5

\* What encode() makes of a word: the syndrome, completed to an even parity.
LEMMA Sealed ==
  ASSUME Hamming72_64, NEW w \in Word
  PROVE  /\ encode(w) \in Code
         /\ encode(w) \ {7} = data_syndrome(w)
         /\ data_syndrome(w) \subseteq ParityBits
         /\ ~OddParity(w, encode(w))
<1>1. data_syndrome(w) \subseteq ParityBits
  BY DEF data_syndrome, ParityBits, Hamming72_64
<1>2. data_syndrome(w) \in Code /\ 7 \notin data_syndrome(w)
  BY <1>1 DEF Code, ParityBits, Hamming72_64
<1>3. encode(w) = IF OddParity(w, data_syndrome(w)) THEN XOR(data_syndrome(w), {7})
                                                    ELSE data_syndrome(w)
  BY <1>2 DEF encode, XOR, Hamming72_64
<1>4. encode(w) \in Code /\ encode(w) \ {7} = data_syndrome(w)
  BY <1>2, <1>3 DEF XOR, Code, Hamming72_64
<1>5. ~OddParity(w, encode(w))
  <2>1. IsFiniteSet(w) /\ IsFiniteSet(data_syndrome(w))
    BY <1>2, WordsFinite
  <2> QED BY <1>3, <2>1, OverallParityFlip
<1> QED BY <1>1, <1>4, <1>5

-----------------------------------------------------------------------------
(* What verify() answers *)

\* With the overall parity broken, a syndrome is looked up as a position.
LEMMA RepairAtPosition ==
  ASSUME Hamming72_64, NEW d, NEW p \in 1..71
  PROVE  Repair(d, bits[p]) = IF p \in Powers THEN Corrected(d)
                              ELSE Corrected(XOR(d, {data_bit_index[p]}))
<1>1. DOMAIN bits = 0..127 /\ POSITIONS = 71 /\ (is_parity_pos(p) <=> p \in Powers)
  BY Layout
<1>2. bits[p] # {}
  <2>1. 0 \in 0..127 /\ p \in 0..127 /\ p # 0
    OBVIOUS
  <2> QED BY <2>1, BitsInjective
<1>3. PositionOf(bits[p]) = p
  <2>1. p \in 0..127
    OBVIOUS
  <2>2. \A q \in 0..127 : bits[q] = bits[p] <=> q = p
    BY <2>1, BitsInjective
  <2> QED BY <1>1, <2>1, <2>2 DEF PositionOf
<1> QED BY <1>1, <1>2, <1>3 DEF Repair

\* XOR with the same word cancels, wherever it stands.
LEMMA XORLeft == ASSUME NEW S, NEW T PROVE XOR(XOR(S, T), S) = T
BY DEF XOR

LEMMA XORRight == ASSUME NEW S, NEW T PROVE XOR(S, XOR(S, T)) = T
BY DEF XOR

LEMMA XORBack == ASSUME NEW S, NEW T PROVE XOR(XOR(S, T), T) = S
BY DEF XOR

LEMMA XORSelf == ASSUME NEW S PROVE XOR(S, S) = {}
BY DEF XOR

LEMMA XORTwice == ASSUME NEW S, NEW T, NEW U PROVE XOR(XOR(XOR(S, T), U), S) = XOR(T, U)
BY DEF XOR

LEMMA XORMerge == ASSUME NEW S, NEW T, NEW U PROVE XOR(XOR(S, T), XOR(S, U)) = XOR(T, U)
BY DEF XOR

LEMMA XORDiffers == ASSUME NEW S, NEW T, S # T PROVE XOR(S, T) # {}
BY DEF XOR

\* A flipped word is a word, and a flipped code a code.
LEMMA Closed ==
  ASSUME Hamming72_64
  PROVE  /\ \A w \in Word, b \in DataBits : XOR(w, {b}) \in Word
         /\ \A c \in Code, j \in 0..7 : XOR(c, {j}) \in Code
<1>1. Word = SUBSET DataBits /\ Code = SUBSET (0..7)
  BY DEF Word, Code, DataBits, Hamming72_64
<1>2. \A S, T, U : S \subseteq U /\ T \subseteq U => XOR(S, T) \subseteq U
  BY DEF XOR
<1>3. ASSUME NEW w \in Word, NEW b \in DataBits
      PROVE  XOR(w, {b}) \in Word
  <2>1. w \subseteq DataBits /\ {b} \subseteq DataBits
    BY <1>1
  <2> QED BY <1>1, <1>2, <2>1
<1>4. ASSUME NEW c \in Code, NEW j \in 0..7
      PROVE  XOR(c, {j}) \in Code
  <2> DEFINE J == 0..7
  <2>1. c \subseteq J /\ {j} \subseteq J
    BY <1>1
  <2>2. Code = SUBSET J
    BY <1>1
  <2> HIDE DEF J
  <2> QED BY <1>2, <2>1, <2>2
<1> QED BY <1>3, <1>4

\* An intact word and its own code are clean.
THEOREM IntactIsClean ==
  ASSUME Hamming72_64, NEW w \in Word
  PROVE  verify(w, encode(w)) = Clean(w)
<1>1. XOR(data_syndrome(w), encode(w) \ {CODE_BITS}) = {}
  BY Sealed, XORSelf DEF Hamming72_64
<1> QED BY <1>1, Sealed DEF verify

\* verify() of soft_ecc.rs restores the sealed word from any single flip of its 64
\* bits, for every word.
THEOREM CorrectsDataFlip ==
  ASSUME Hamming72_64, NEW w \in Word, NEW b \in DataBits
  PROVE  verify(XOR(w, {b}), encode(w)) = Corrected(w)
<1>1. PICK p \in DataPositions : data_bit_index[p] = b
  BY DataBitIndex
<1>2. p \in 1..71 /\ p \notin Powers
  BY Layout
<1>3. XOR(data_syndrome(XOR(w, {b})), encode(w) \ {CODE_BITS}) = bits[p]
  <2>1. data_syndrome(XOR(w, {b})) = XOR(data_syndrome(w), bits[p])
    BY <1>1, SyndromeFlip
  <2>2. encode(w) \ {CODE_BITS} = data_syndrome(w)
    BY Sealed DEF Hamming72_64
  <2> QED BY <2>1, <2>2, XORLeft
<1>4. OddParity(XOR(w, {b}), encode(w))
  BY Sealed, WordsFinite, OverallParityFlip
<1>5. Repair(XOR(w, {b}), bits[p]) = Corrected(XOR(XOR(w, {b}), {b}))
  BY <1>1, <1>2, RepairAtPosition
<1>6. XOR(XOR(w, {b}), {b}) = w
  BY XORBack
<1> QED BY <1>3, <1>4, <1>5, <1>6 DEF verify

\* A flip of any of the 8 bits of the shadow code never touches the word.
THEOREM CodeFlipLeavesData ==
  ASSUME Hamming72_64, NEW w \in Word, NEW j \in 0..7
  PROVE  verify(w, XOR(encode(w), {j})) = Corrected(w)
<1>1. OddParity(w, XOR(encode(w), {j}))
  BY Sealed, WordsFinite, OverallParityFlip
<1>2. CASE j = 7
  <2>1. XOR(encode(w), {j}) \ {CODE_BITS} = data_syndrome(w)
    BY <1>2, Sealed DEF XOR, Hamming72_64
  <2>2. XOR(data_syndrome(w), XOR(encode(w), {j}) \ {CODE_BITS}) = {}
    BY <2>1, XORSelf
  <2> QED BY <1>1, <2>2 DEF verify, Repair
<1>3. CASE j # 7
  <2>1. j \in ParityBits
    BY <1>3 DEF ParityBits
  <2>2. PICK p \in Powers : bits[p] = {j}
    BY <2>1, BitsInjective
  <2>3. XOR(encode(w), {j}) \ {CODE_BITS} = XOR(data_syndrome(w), {j})
    BY <1>3, Sealed DEF XOR, Hamming72_64
  <2>4. XOR(data_syndrome(w), XOR(encode(w), {j}) \ {CODE_BITS}) = bits[p]
    BY <2>2, <2>3, XORRight
  <2>5. Repair(w, bits[p]) = Corrected(w)
    <3>1. p \in 1..71
      BY DEF Powers
    <3> QED BY <3>1, RepairAtPosition
  <2> QED BY <1>1, <2>4, <2>5 DEF verify
<1> QED BY <1>2, <1>3

\* Even parity with a syndrome left over is reported and corrects nothing.
LEMMA EvenIsReported ==
  ASSUME NEW d, NEW c, ~OddParity(d, c), XOR(data_syndrome(d), c \ {CODE_BITS}) # {}
  PROVE  verify(d, c) = Uncorrectable(d)
BY DEF verify

\* Two flips in the word are reported.
THEOREM DetectsTwoDataFlips ==
  ASSUME Hamming72_64, NEW w \in Word, NEW a \in DataBits, NEW b \in DataBits, a # b
  PROVE  LET d == XOR(XOR(w, {a}), {b}) IN verify(d, encode(w)) = Uncorrectable(d)
<1> DEFINE d == XOR(XOR(w, {a}), {b})
<1>1. PICK p \in DataPositions : data_bit_index[p] = a
  BY DataBitIndex
<1>2. PICK q \in DataPositions : data_bit_index[q] = b
  BY DataBitIndex
<1>3. bits[p] # bits[q]
  <2>1. p \in 0..127 /\ q \in 0..127 /\ p # q
    BY <1>1, <1>2, Layout
  <2> QED BY <2>1, BitsInjective
<1>4. XOR(w, {a}) \in Word
  BY Closed
<1>5. data_syndrome(d) = XOR(XOR(data_syndrome(w), bits[p]), bits[q])
  BY <1>1, <1>2, <1>4, SyndromeFlip
<1>6. encode(w) \ {CODE_BITS} = data_syndrome(w)
  BY Sealed DEF Hamming72_64
<1>7. XOR(data_syndrome(d), encode(w) \ {CODE_BITS}) # {}
  <2>1. XOR(data_syndrome(d), encode(w) \ {CODE_BITS}) = XOR(bits[p], bits[q])
    BY <1>5, <1>6, XORTwice
  <2> QED BY <1>3, <2>1, XORDiffers
<1>8. ~OddParity(d, encode(w))
  BY <1>4, Sealed, WordsFinite, OverallParityFlip
<1> QED BY <1>7, <1>8, EvenIsReported

\* One flip in the word and one in its code are reported.
THEOREM DetectsDataAndCodeFlip ==
  ASSUME Hamming72_64, NEW w \in Word, NEW b \in DataBits, NEW j \in 0..7
  PROVE  LET d == XOR(w, {b})
         IN  verify(d, XOR(encode(w), {j})) = Uncorrectable(d)
<1> DEFINE d == XOR(w, {b})
           c == XOR(encode(w), {j})
<1>1. PICK p \in DataPositions : data_bit_index[p] = b
  BY DataBitIndex
<1>2. data_syndrome(d) = XOR(data_syndrome(w), bits[p])
  BY <1>1, SyndromeFlip
<1>3. p \in 0..127 /\ p # 0 /\ p \notin Powers
  BY Layout
<1>4. XOR(data_syndrome(d), c \ {CODE_BITS}) # {}
  <2>1. CASE j = 7
    <3>1. c \ {CODE_BITS} = data_syndrome(w)
      BY <2>1, Sealed DEF XOR, Hamming72_64
    <3>2. bits[p] # {}
      <4>1. 0 \in 0..127
        OBVIOUS
      <4> QED BY <4>1, <1>3, BitsInjective
    <3>3. XOR(data_syndrome(d), c \ {CODE_BITS}) = bits[p]
      BY <1>2, <3>1, XORLeft
    <3> QED BY <3>2, <3>3
  <2>2. CASE j # 7
    <3>1. c \ {CODE_BITS} = XOR(data_syndrome(w), {j})
      BY <2>2, Sealed DEF XOR, Hamming72_64
    <3>2. bits[p] # {j}
      <4>1. j \in ParityBits
        BY <2>2 DEF ParityBits
      <4>2. \A q \in Powers : q \in 0..127
        BY DEF Powers
      <4> QED BY <4>1, <4>2, <1>3, BitsInjective
    <3>3. XOR(data_syndrome(d), c \ {CODE_BITS}) = XOR(bits[p], {j})
      <4>1. XOR(XOR(data_syndrome(w), bits[p]), XOR(data_syndrome(w), {j})) = XOR(bits[p], {j})
        BY XORMerge
      <4> HIDE DEF c, d
      <4> QED BY <1>2, <3>1, <4>1
    <3> QED BY <3>2, <3>3, XORDiffers
  <2> QED BY <2>1, <2>2
<1>5. ~OddParity(d, c)
  <2>1. d \in Word
    BY Closed
  <2>2. OddParity(d, encode(w))
    BY Sealed, WordsFinite, OverallParityFlip
  <2> QED BY <2>1, <2>2, Sealed, WordsFinite, OverallParityFlip
<1> QED BY <1>4, <1>5, EvenIsReported

\* Two flips in the code are reported.
THEOREM DetectsTwoCodeFlips ==
  ASSUME Hamming72_64, NEW w \in Word, NEW i \in 0..7, NEW j \in 0..7, i # j
  PROVE  verify(w, XOR(XOR(encode(w), {i}), {j})) = Uncorrectable(w)
<1> DEFINE c == XOR(XOR(encode(w), {i}), {j})
<1>1. encode(w) \ {CODE_BITS} = data_syndrome(w) /\ CODE_BITS = 7
  BY Sealed DEF Hamming72_64
<1>2. PICK k \in {i, j} : k # 7
  OBVIOUS
<1>3. ~(k \in c \ {CODE_BITS} <=> k \in data_syndrome(w))
  BY <1>1, <1>2 DEF XOR
<1>4. XOR(data_syndrome(w), c \ {CODE_BITS}) # {}
  BY <1>3, XORMember
<1>5. ~OddParity(w, c)
  <2>1. XOR(encode(w), {i}) \in Code
    BY Sealed, Closed
  <2>2. OddParity(w, XOR(encode(w), {i}))
    BY Sealed, WordsFinite, OverallParityFlip
  <2> QED BY <2>1, <2>2, WordsFinite, OverallParityFlip
<1> QED BY <1>4, <1>5, EvenIsReported

-----------------------------------------------------------------------------
(* Any set of flipped bits *)

\* A set of n flips, for n at most two, names its members.
LEMMA SmallSet ==
  ASSUME NEW S, IsFiniteSet(S)
  PROVE  /\ Cardinality(S) \in Nat
         /\ Cardinality(S) = 0 => S = {}
         /\ Cardinality(S) = 1 => \E x \in S : S = {x}
         /\ Cardinality(S) = 2 => \E x, y \in S : x # y /\ S = {x, y}
<1>1. Cardinality(S) \in Nat /\ (Cardinality(S) = 0 => S = {})
  BY FS_CardinalityType, FS_EmptySet
<1>2. Cardinality(S) = 1 => \E x \in S : S = {x}
  BY FS_Singleton
<1>3. ASSUME Cardinality(S) = 2 PROVE \E x, y \in S : x # y /\ S = {x, y}
  <2>1. S # {}
    BY <1>3, FS_EmptySet
  <2>2. PICK x \in S : TRUE
    BY <2>1
  <2>3. IsFiniteSet(S \ {x}) /\ Cardinality(S \ {x}) = 1
    BY <1>3, FS_RemoveElement
  <2>4. PICK y : S \ {x} = {y}
    BY <2>3, FS_Singleton
  <2> QED BY <2>2, <2>4
<1> QED BY <1>1, <1>2, <1>3

\* No flip, no change.
LEMMA NoFlip == \A S : XOR(S, {}) = S
BY DEF XOR

\* What verify() of soft_ecc.rs answers when the bits df of a sealed word and the
\* bits cf of its code have flipped: nothing flipped, clean; one flip, the sealed
\* word; two flips, a report that hands back what was read.
THEOREM AtMostTwoFlips ==
  ASSUME Hamming72_64, NEW w \in Word, NEW df \in Word, NEW cf \in Code
  PROVE  LET n == Cardinality(df) + Cardinality(cf)
             res == verify(XOR(w, df), XOR(encode(w), cf))
         IN  /\ n = 0 => res = Clean(w)
             /\ n = 1 => res = Corrected(w)
             /\ n = 2 => res = Uncorrectable(XOR(w, df))
<1> DEFINE n == Cardinality(df) + Cardinality(cf)
           res == verify(XOR(w, df), XOR(encode(w), cf))
<1>1. /\ IsFiniteSet(df) /\ IsFiniteSet(cf)
      /\ Cardinality(df) \in Nat /\ Cardinality(cf) \in Nat
  BY WordsFinite, SmallSet
<1>2. df \subseteq DataBits /\ cf \subseteq 0..7
  BY DEF Word, Code, DataBits, Hamming72_64
<1>3. ASSUME n = 0 PROVE res = Clean(w)
  <2>1. df = {} /\ cf = {}
    BY <1>1, <1>3, SmallSet
  <2> QED BY <2>1, NoFlip, IntactIsClean
<1>4. ASSUME n = 1 PROVE res = Corrected(w)
  <2>1. CASE Cardinality(df) = 1 /\ Cardinality(cf) = 0
    <3>1. PICK b \in DataBits : df = {b}
      BY <1>1, <1>2, <2>1, SmallSet
    <3>2. cf = {}
      BY <1>1, <2>1, SmallSet
    <3> QED BY <3>1, <3>2, NoFlip, CorrectsDataFlip
  <2>2. CASE Cardinality(df) = 0 /\ Cardinality(cf) = 1
    <3>1. PICK j \in 0..7 : cf = {j}
      BY <1>1, <1>2, <2>2, SmallSet
    <3>2. df = {}
      BY <1>1, <2>2, SmallSet
    <3> QED BY <3>1, <3>2, NoFlip, CodeFlipLeavesData
  <2> QED BY <1>1, <1>4, <2>1, <2>2
<1>5. ASSUME n = 2 PROVE res = Uncorrectable(XOR(w, df))
  <2>1. CASE Cardinality(df) = 2 /\ Cardinality(cf) = 0
    <3>1. PICK a \in DataBits, b \in DataBits : a # b /\ df = {a, b}
      BY <1>1, <1>2, <2>1, SmallSet
    <3>2. cf = {}
      BY <1>1, <2>1, SmallSet
    <3>3. XOR(w, df) = XOR(XOR(w, {a}), {b})
      BY <3>1 DEF XOR
    <3> QED BY <3>1, <3>2, <3>3, NoFlip, DetectsTwoDataFlips
  <2>2. CASE Cardinality(df) = 1 /\ Cardinality(cf) = 1
    <3>1. PICK b \in DataBits : df = {b}
      BY <1>1, <1>2, <2>2, SmallSet
    <3>2. PICK j \in 0..7 : cf = {j}
      BY <1>1, <1>2, <2>2, SmallSet
    <3> QED BY <3>1, <3>2, DetectsDataAndCodeFlip
  <2>3. CASE Cardinality(df) = 0 /\ Cardinality(cf) = 2
    <3>1. PICK i \in 0..7, j \in 0..7 : i # j /\ cf = {i, j}
      BY <1>1, <1>2, <2>3, SmallSet
    <3>2. df = {}
      BY <1>1, <2>3, SmallSet
    <3>3. XOR(encode(w), cf) = XOR(XOR(encode(w), {i}), {j})
      BY <3>1 DEF XOR
    <3>4. XOR(w, df) = w
      BY <3>2, NoFlip
    <3>5. verify(w, XOR(XOR(encode(w), {i}), {j})) = Uncorrectable(w)
      BY <3>1, DetectsTwoCodeFlips
    <3> QED BY <3>3, <3>4, <3>5
  <2> QED BY <1>1, <1>5, <2>1, <2>2, <2>3
<1> QED BY <1>3, <1>4, <1>5
-----------------------------------------------------------------------------
(* Any word at all *)

\* How many numbers there are up to n.
LEMMA IntervalCount ==
  \A n \in Nat : \A m : m = n + 1 => IsFiniteSet(0..n) /\ Cardinality(0..n) = m
BY FS_Interval

\* Every syndrome is that of a position: there are 128 of each.
LEMMA BitsSurjective ==
  ASSUME Hamming72_64
  PROVE  \A syn \in SUBSET ParityBits : \E p \in 0..127 : bits[p] = syn
<1> DEFINE P == 0..127
           S == SUBSET ParityBits
<1>1. IsFiniteSet(S) /\ Cardinality(S) = 128
  <2>1. IsFiniteSet(ParityBits) /\ Cardinality(ParityBits) = 7
    <3>1. 6 \in Nat /\ 7 = 6 + 1
      OBVIOUS
    <3>2. IsFiniteSet(0..6) /\ Cardinality(0..6) = 7
      BY <3>1, IntervalCount, Zenon
    <3> QED BY <3>2 DEF ParityBits
  <2>2. 2^7 = 128
    BY SMT
  <2>3. IsFiniteSet(SUBSET ParityBits) /\ Cardinality(SUBSET ParityBits) = 2^Cardinality(ParityBits)
    BY <2>1, FS_SUBSET
  <2>4. Cardinality(SUBSET ParityBits) = 2^7
    BY <2>1, <2>3
  <2> QED BY <2>2, <2>3, <2>4
<1>2. Cardinality(P) = 128
  <2>1. 127 \in Nat /\ 128 = 127 + 1
    OBVIOUS
  <2> QED BY <2>1, IntervalCount, Zenon
<1>3. bits \in Injection(P, S)
  <2>1. \A p \in P : bits[p] \in S
    BY BitsInjective
  <2>2. bits \in [P -> S]
    <3>1. DOMAIN bits = P
      BY Layout
    <3>2. bits = [p \in DOMAIN bits |-> bits[p]]
      BY DEF bits
    <3> HIDE DEF P, S
    <3> QED BY <2>1, <3>1, <3>2
  <2>3. \A p, q \in P : bits[p] = bits[q] => p = q
    BY BitsInjective
  <2> HIDE DEF P, S
  <2> QED BY <2>2, <2>3 DEF Injection, IsInjective
<1> HIDE DEF P, S
<1>4. bits \in Surjection(P, S)
  BY <1>1, <1>2, <1>3, FS_Injection
<1> QED BY <1>4 DEF Surjection, P, S

\* verify() has three answers, and only a correction hands back another word than
\* the one it read.
LEMMA VerifyAnswers ==
  ASSUME NEW d, NEW c
  PROVE  /\ verify(d, c).status \in {-1, 0, 1}
         /\ verify(d, c).status # 1 => verify(d, c).data = d
<1> DEFINE syn == XOR(data_syndrome(d), c \ {CODE_BITS})
<1>1. \A v : /\ Corrected(v).status = 1 /\ Uncorrectable(v).status = -1 /\ Clean(v).status = 0
             /\ Uncorrectable(v).data = v /\ Clean(v).data = v
  BY DEF Corrected, Uncorrectable, Clean
<1>2. \/ \E v : Repair(d, syn) = Corrected(v)
      \/ Repair(d, syn) = Uncorrectable(d)
  BY Zenon DEF Repair
<1>3. verify(d, c) = IF OddParity(d, c) THEN Repair(d, syn)
                     ELSE IF syn = {} THEN Clean(d) ELSE Uncorrectable(d)
  BY DEF verify
<1> HIDE DEF syn
<1> QED BY <1>1, <1>2, <1>3

\* Whatever verify() reads, it hands back a 64-bit word.
LEMMA VerifyType ==
  ASSUME Hamming72_64, NEW d \in Word, NEW c \in Code
  PROVE  verify(d, c).data \in Word
<1> DEFINE syn == XOR(data_syndrome(d), c \ {CODE_BITS})
<1>1. syn \in SUBSET ParityBits
  <2>1. data_syndrome(d) \subseteq ParityBits
    BY DEF data_syndrome, ParityBits, Hamming72_64
  <2>2. c \ {CODE_BITS} \subseteq ParityBits
    BY DEF Code, ParityBits, Hamming72_64
  <2> QED BY <2>1, <2>2 DEF XOR
<1>2. Corrected(d).data = d /\ Uncorrectable(d).data = d /\ Clean(d).data = d
  BY DEF Corrected, Uncorrectable, Clean
<1>3. Repair(d, syn).data \in Word
  <2>1. CASE syn = {}
    BY <1>2, <2>1 DEF Repair
  <2>2. CASE syn # {}
    <3> DEFINE pos == PositionOf(syn)
    <3>1. pos \in 0..127 /\ bits[pos] = syn
      <4>1. \E p \in DOMAIN bits : bits[p] = syn
        <5>1. \E p \in 0..127 : bits[p] = syn
          BY <1>1, BitsSurjective, Zenon
        <5> QED BY <5>1, Layout, Zenon
      <4>2. pos \in DOMAIN bits /\ bits[pos] = syn
        BY <4>1 DEF PositionOf
      <4> QED BY <4>2, Layout
    <3>2. pos \in 1..127
      <4>1. pos # 0
        BY <2>2, <3>1, BitsInjective, Zenon
      <4> HIDE DEF pos
      <4> QED BY <3>1, <4>1
    <3> HIDE DEF pos, syn
    <3>3. CASE pos \in 1..71
      <4>1. Repair(d, syn) = IF pos \in Powers THEN Corrected(d)
                             ELSE Corrected(XOR(d, {data_bit_index[pos]}))
        BY <3>1, <3>3, RepairAtPosition
      <4>2. ASSUME pos \notin Powers PROVE XOR(d, {data_bit_index[pos]}) \in Word
        <5>1. data_bit_index[pos] \in DataBits
          BY <3>3, <4>2, Layout, DataBitIndex
        <5> QED BY <5>1, Closed
      <4>3. \A v : Corrected(v).data = v
        BY DEF Corrected
      <4> QED BY <4>1, <4>2, <4>3
    <3>4. CASE pos \in 72..127
      <4>1. pos > POSITIONS
        BY <3>4, Layout
      <4>2. Repair(d, syn) = Uncorrectable(d)
        BY <2>2, <4>1 DEF Repair, pos
      <4> QED BY <1>2, <4>2
    <3> QED BY <3>2, <3>3, <3>4
  <2> QED BY <2>1, <2>2
<1>4. verify(d, c) = IF OddParity(d, c) THEN Repair(d, syn)
                     ELSE IF syn = {} THEN Clean(d) ELSE Uncorrectable(d)
  BY DEF verify
<1> HIDE DEF syn
<1> QED BY <1>2, <1>3, <1>4

-----------------------------------------------------------------------------
(* How far words are from each other *)

\* How many bits differ.
Apart(S, T) == Cardinality(XOR(S, T))

\* One more flip takes a word, or a code, at most one bit further from any other.
LEMMA OneFlipFurther ==
  ASSUME NEW S, NEW T, IsFiniteSet(S), IsFiniteSet(T), NEW x
  PROVE  Apart(S, T) \in Nat /\ Apart(XOR(S, {x}), T) \in Nat
         /\ Apart(XOR(S, {x}), T) <= Apart(S, T) + 1
<1> DEFINE D == XOR(S, T)
<1>1. IsFiniteSet(D)
  <2>1. D \subseteq S \union T /\ IsFiniteSet(S \union T)
    BY FS_Union DEF XOR
  <2> QED BY <2>1, FS_Subset
<1>2. XOR(XOR(S, {x}), T) = XOR(D, {x})
  BY DEF XOR
<1> HIDE DEF D
<1>3. Cardinality(D) \in Nat
  BY <1>1, FS_CardinalityType
<1>4. IsFiniteSet(D \union {x}) /\ Cardinality(D \union {x}) <= Cardinality(D) + 1
  <2>1. Cardinality(D \union {x}) \in {Cardinality(D), Cardinality(D) + 1}
    BY <1>1, <1>3, FS_AddElement
  <2>2. IsFiniteSet(D \union {x})
    BY <1>1, FS_AddElement
  <2> QED BY <1>3, <2>1, <2>2
<1>5. XOR(D, {x}) \subseteq D \union {x}
  BY DEF XOR
<1>6. /\ Cardinality(XOR(D, {x})) \in Nat
      /\ Cardinality(XOR(D, {x})) <= Cardinality(D \union {x})
      /\ Cardinality(D \union {x}) \in Nat
  BY <1>4, <1>5, FS_Subset, FS_CardinalityType
<1> QED BY <1>2, <1>3, <1>4, <1>6 DEF Apart, D

\* A word is at no distance from itself, and only from itself.
LEMMA ApartItself ==
  ASSUME NEW S, NEW T, IsFiniteSet(S), IsFiniteSet(T)
  PROVE  Apart(S, T) \in Nat /\ (Apart(S, T) = 0 <=> S = T)
<1>1. XOR(S, T) \subseteq S \union T /\ IsFiniteSet(S \union T)
  BY FS_Union DEF XOR
<1>2. IsFiniteSet(XOR(S, T))
  BY <1>1, FS_Subset
<1>3. Cardinality(XOR(S, T)) \in Nat /\ (Cardinality(XOR(S, T)) = 0 <=> XOR(S, T) = {})
  BY <1>2, FS_CardinalityType, FS_EmptySet
<1>4. XOR(S, T) = {} <=> S = T
  BY DEF XOR
<1> QED BY <1>3, <1>4 DEF Apart

\* What verify() answers for a word and a code that are n <= 2 bits, in all, away
\* from a word and its code: AtMostTwoFlips, told by distance.
THEOREM WithinTwoBits ==
  ASSUME Hamming72_64, NEW base \in Word, NEW d \in Word, NEW c \in Code
  PROVE  LET n == Apart(d, base) + Apart(c, encode(base))
             res == verify(d, c)
         IN  /\ n = 0 => res = Clean(base) /\ d = base
             /\ n = 1 => res = Corrected(base)
             /\ n = 2 => res = Uncorrectable(d)
<1> DEFINE df == XOR(d, base)
           cf == XOR(c, encode(base))
<1>1. df \in Word /\ cf \in Code /\ encode(base) \in Code
  BY Sealed DEF XOR, Word, Code
<1>2. XOR(base, df) = d /\ XOR(encode(base), cf) = c
  BY DEF XOR
<1>3. Apart(d, base) \in Nat /\ Apart(c, encode(base)) \in Nat /\ (Apart(d, base) = 0 <=> d = base)
  BY <1>1, ApartItself, WordsFinite
<1> HIDE DEF df, cf
<1>4. /\ Cardinality(df) + Cardinality(cf) = 0 => verify(d, c) = Clean(base)
      /\ Cardinality(df) + Cardinality(cf) = 1 => verify(d, c) = Corrected(base)
      /\ Cardinality(df) + Cardinality(cf) = 2 => verify(d, c) = Uncorrectable(d)
  BY <1>1, <1>2, AtMostTwoFlips
<1>5. Apart(d, base) = Cardinality(df) /\ Apart(c, encode(base)) = Cardinality(cf)
  BY DEF Apart, df, cf
<1> QED BY <1>3, <1>4, <1>5
=============================================================================
