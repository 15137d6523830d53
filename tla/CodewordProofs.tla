---------------------------- MODULE CodewordProofs ----------------------------
(***************************************************************************)
(* The flip machine of Codeword: whatever bits of a sealed word and of its *)
(* code flip, and in whatever order, what is left is the sealed pair with  *)
(* a set of bits flipped, and AtMostTwoFlips says what verify() makes of   *)
(* it.                                                                     *)
(***************************************************************************)
EXTENDS Codeword, SECDEDProofs

\* What DRAM holds is what was sealed with the flipped bits flipped.
Consistent ==
  /\ word \in Word /\ dflips \in Word /\ cflips \in Code
  /\ data = XOR(word, dflips) /\ code = XOR(encode(word), cflips)

\* Every flip is noted in the set of flips of its half, and sealing empties both sets.
LEMMA ConsistentInvariant == ASSUME Hamming72_64 PROVE Spec => []Consistent
<1>1. Init => Consistent
  <2>1. {} \in Word /\ {} \in Code
    BY DEF Word, Code
  <2>2. \A S : XOR(S, {}) = S
    BY DEF XOR
  <2> QED BY <2>1, <2>2, SamplesAssumption DEF Init, Consistent
<1>2. Consistent /\ [Next]_cvars => Consistent'
  <2> SUFFICES ASSUME Consistent, [Next]_cvars PROVE Consistent'
    OBVIOUS
  <2>1. ASSUME NEW S, NEW T, NEW x, x \notin T
        PROVE  XOR(XOR(S, T), {x}) = XOR(S, T \union {x})
    BY <2>1 DEF XOR
  <2>2. ASSUME NEW b \in 0..(DATA_BITS - 1), FlipData(b) PROVE Consistent'
    <3>1. data' = XOR(word, dflips')
      BY <2>1, <2>2 DEF FlipData, Consistent
    <3>2. dflips' \in Word
      BY <2>2 DEF FlipData, Consistent, Word
    <3> QED BY <2>2, <3>1, <3>2 DEF FlipData, Consistent
  <2>3. ASSUME NEW b \in 0..CODE_BITS, FlipCode(b) PROVE Consistent'
    <3>1. code' = XOR(encode(word), cflips')
      BY <2>1, <2>3 DEF FlipCode, Consistent
    <3>2. cflips' \in Code
      BY <2>3 DEF FlipCode, Consistent, Code
    <3> QED BY <2>3, <3>1, <3>2 DEF FlipCode, Consistent
  <2>4. CASE UNCHANGED cvars
    BY <2>4 DEF cvars, Consistent
  <2> QED BY <2>2, <2>3, <2>4 DEF Next
<1> QED BY <1>1, <1>2, PTL DEF Spec

\* For every sealed 64-bit word: without a flip verify() of soft_ecc.rs answers
\* clean, and after any single flip, of the word or of its code, the sealed word.
THEOREM SingleFlips == ASSUME Hamming72_64 PROVE Spec => []SingleFlipCorrected
<1>1. Consistent => SingleFlipCorrected
  BY AtMostTwoFlips DEF Consistent, Flips, SingleFlipCorrected
<1> QED BY <1>1, ConsistentInvariant, PTL

\* For every sealed 64-bit word and every order in which two bits of the word and
\* of its code flip, verify() reports them and corrects nothing.
THEOREM DoubleFlips == ASSUME Hamming72_64 PROVE Spec => []DoubleFlipDetected
<1>1. Consistent => DoubleFlipDetected
  BY AtMostTwoFlips DEF Consistent, Flips, DoubleFlipDetected
<1> QED BY <1>1, ConsistentInvariant, PTL
=============================================================================
