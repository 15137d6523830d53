------------------------------- MODULE Codeword -------------------------------
(***************************************************************************)
(* One protected word and its shadow code in DRAM that flips bits of both: *)
(* what verify() answers after any sequence of flips.                      *)
(***************************************************************************)
EXTENDS SECDED

CONSTANTS Samples,     \* the words sealed at the start
          MAX_FLIPS    \* bound: bits that flip before the word is verified

ASSUME SamplesAssumption == Samples \subseteq Word /\ MAX_FLIPS \in Nat

VARIABLES word,          \* the word that was sealed
          data, code,    \* what DRAM holds now
          dflips, cflips \* history: the bits of each that have flipped

cvars == <<word, data, code, dflips, cflips>>

Init ==
  /\ word \in Samples
  /\ data = word /\ code = encode(word)
  /\ dflips = {} /\ cflips = {}

Flips == Cardinality(dflips) + Cardinality(cflips)

FlipData(b) ==
  /\ b \notin dflips /\ Flips < MAX_FLIPS
  /\ data' = XOR(data, {b}) /\ dflips' = dflips \union {b}
  /\ UNCHANGED <<word, code, cflips>>

FlipCode(b) ==
  /\ b \notin cflips /\ Flips < MAX_FLIPS
  /\ code' = XOR(code, {b}) /\ cflips' = cflips \union {b}
  /\ UNCHANGED <<word, data, dflips>>

Next ==
  \/ \E b \in 0..(DATA_BITS - 1) : FlipData(b)
  \/ \E b \in 0..CODE_BITS : FlipCode(b)

Spec == Init /\ [][Next]_cvars

\* verify() of soft_ecc.rs: whichever single bit of the word or of its code has
\* flipped, the answer carries the word that was sealed, and without a flip the
\* word is clean.
SingleFlipCorrected ==
  /\ Flips = 0 => verify(data, code) = Clean(word)
  /\ Flips = 1 => verify(data, code) = Corrected(word)

\* Any two flipped bits, both in the word, both in the code or one in each, are
\* reported and never "corrected" into a third word.
DoubleFlipDetected == Flips = 2 => verify(data, code) = Uncorrectable(data)
=============================================================================
