----------------------------- MODULE BorePenalty -----------------------------
(***************************************************************************)
(* The arithmetic of BORE: how the length of a burst becomes a penalty,    *)
(* how penalties are smoothed from burst to burst, and the priority that   *)
(* results.  patch 0002 (C) and bore.rs compute the same functions.        *)
(*                                                                         *)
(* Penalties are fixed-point numbers with FRAC steps per priority level.   *)
(* No intermediate result can leave its 32 bits: the largest product is    *)
(* below 65 * 256 * 4095.                                                  *)
(***************************************************************************)
EXTENDS Integers

CONSTANTS
  PRIOS,   \* priority levels of the fair class: 40
  FRAC,    \* 2^8, one priority level of penalty
  UNIT     \* 2^10, the scale that multiplies by one

ASSUME PenaltyAssumption == PRIOS \in Nat \ {0} /\ FRAC \in Nat \ {0} /\ UNIT \in Nat \ {0}

MaxPenalty == PRIOS * FRAC - 1
Penalty == 0..MaxPenalty
Prio == 0..(PRIOS - 1)

AtLeast(low, x) == IF x < low THEN low ELSE x
AtMost(high, x) == IF x > high THEN high ELSE x

\* The number of bits of v: 64 minus the leading zeros.
Exponent(v) == CHOOSE e \in 1..64 : 2^(e - 1) <= v /\ v < 2^e

\* 1 + log2(v), linear between powers of two.
log2p1(v) ==
  IF v = 0 THEN 0
  ELSE LET top == 2^(Exponent(v) - 1)
       IN  Exponent(v) * FRAC + ((v - top) * FRAC) \div top

\* Mutant: the clamp at the upper end is missing.
PenaltyUnbounded(burst, offset, scale) ==
  (AtLeast(0, log2p1(burst) - offset * FRAC) * scale) \div UNIT

calc_burst_penalty(burst, offset, scale) ==
  AtMost(MaxPenalty, (AtLeast(0, log2p1(burst) - offset * FRAC) * scale) \div UNIT)

\* Mutant: a share of the new value is added instead of a share of the rise.
SmoothPastNew(new, old, shift) ==
  IF new > old THEN old + (new + 2^shift - 1) \div 2^shift ELSE new

\* A rise is divided by 2^shift, rounding up; a fall is immediate.
binary_smooth(new, old, shift) ==
  IF new > old THEN old + (new - old + 2^shift - 1) \div 2^shift ELSE new

\* The upper byte of the penalty.
score(penalty) == penalty \div FRAC

effective_prio(nice, penalty, enabled) ==
  AtMost(PRIOS - 1, nice + (IF enabled THEN score(penalty) ELSE 0))
=============================================================================
