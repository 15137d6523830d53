---------------------------- MODULE BoreTaskProofs ----------------------------
(***************************************************************************)
(* The penalty, the burst, the weight and the switch of a task under BORE, *)
(* from its fork on, for every size of the fixed-point numbers, every set  *)
(* of tunables and any number of writers of the sysctl.                    *)
(*                                                                         *)
(* First the arithmetic, then the invariant.                               *)
(***************************************************************************)
EXTENDS BoreTask, FiniteSetTheorems, WellFoundedInduction, TLAPS

\* A fork or handler is of the fair class, and has accounted all that the task ran.
Settled ==
  /\ step # "unlocked" => class = "fair"
  /\ step # "unlocked" \/ class = "rt" => exec = 0

\* The first steps of a fork are those of no handler.
Phased == step \in {"copied", "eligible", "unlisted"} => op = "fork"

\* The run time since the last rest, of which the burst is a part.
Budget ==
  /\ burst_time + exec <= ran /\ ran <= MAX_RUN
  /\ ~lost => burst_time + exec = ran

\* The burst costs no more than its length costs now, unless tuning has lowered that.
Tuned == ~lowered => curr_penalty <= burst_penalty(burst_time)

\* Except between the two halves of an update, the penalty is the larger of the two.
Due ==
  step # "penalty" /\ ~exempted =>
    penalty >= Deserved /\ (~lowered => penalty = Deserved)

\* The update at the end of a burst cannot raise the penalty.
Resting ==
  step = "penalty" /\ op \in {"block", "rest"} =>
    curr_penalty = 0 /\ (exempted \/ penalty >= Capped(prev_penalty))

\* While no writer that flipped the key has yet to come by, the weight is the one that a
\* handler saw when it entered, and the one that it leaves behind.
Weighted ==
  /\ kind = "idle" => weight = IDLE_WEIGHT
  /\ kind \notin {"idle", "thread"} /\ class = "fair" /\ ~stale
     /\ (\A w \in Writers : writer[w] # "flipped")
     => /\ weight = PrioOf(nice, penalty)
        /\ step = "penalty" => prev_prio = PrioOf(nice, penalty)

\* A write that overlapped no other is alone until it is done.
Alone ==
  ~overlapped =>
    /\ \A v, w \in Writers : writer[v] # "idle" /\ writer[w] # "idle" => v = w
    /\ \A w \in Writers :
         /\ writer[w] = "tested" => enable[w] = sched_bore
         /\ writer[w] = "flipped" => sched_bore = sched_bore_key
    /\ (\A w \in Writers : writer[w] = "idle") => sched_bore = sched_bore_key

IInv ==
  TypeOK /\ Settled /\ Phased /\ Budget /\ Tuned /\ Due /\ Resting /\ Weighted /\ Alone

-----------------------------------------------------------------------------
\* A set of numbers has a least one: induction, for a predicate given as a set.
LEMMA LeastNat ==
  ASSUME NEW T, T \subseteq Nat, T # {}
  PROVE  \E x \in T : \A y \in T : x <= y
<1>1. IsWellFoundedOn(OpToRel(<,Nat), Nat)
  BY NatLessThanWellFounded
<1>2. PICK x \in T : \A y \in T : ~(<<y, x>> \in OpToRel(<,Nat))
  BY <1>1, WFMin, Zenon
<1>3. ASSUME NEW y \in T PROVE ~(y < x)
  <2>1. SUFFICES ASSUME y < x PROVE <<y, x>> \in OpToRel(<, Nat)
    BY <1>2, Zenon
  <2>2. <<y, x>> \in Nat \X Nat /\ <<y, x>>[1] = y /\ <<y, x>>[2] = x
    BY Zenon
  <2>. QED
    BY <2>1, <2>2, Zenon DEF OpToRel
<1>4. ASSUME NEW y \in T PROVE x <= y
  <2>1. ~(y < x)
    BY <1>3, Zenon
  <2>. QED
    BY <2>1
<1>. QED
  BY <1>4, Zenon

\* Division rounds down.
LEMMA DivDef ==
  ASSUME NEW a \in Nat, NEW u \in Nat \ {0}
  PROVE a \div u \in Nat /\ (a \div u) * u <= a /\ a < (a \div u + 1) * u
OBVIOUS

\* Below a multiple, the quotient is below the factor.
LEMMA DivLess ==
  ASSUME NEW a \in Nat, NEW u \in Nat \ {0}, NEW b \in Nat, a < b * u
  PROVE a \div u < b
<1>. DEFINE q == a \div u
<1>1. q \in Nat /\ q * u <= a
  BY DivDef
<1>. HIDE DEF q
<1>2. ~(q >= b)
  <2>. SUFFICES ASSUME q >= b PROVE FALSE
    OBVIOUS
  <2>1. PICK d \in Nat : q = b + d
    BY <1>1
  <2>2. q * u = b * u + d * u /\ d * u \in Nat
    BY <2>1
  <2>. QED
    BY <2>2, <1>1
<1>3. q < b
  BY <1>2, <1>1
<1>. QED
  BY <1>3 DEF q

\* Division keeps the order.
LEMMA DivMonotone ==
  ASSUME NEW a \in Nat, NEW b \in Nat, NEW u \in Nat \ {0}, a <= b
  PROVE a \div u <= b \div u
<1>1. b \div u \in Nat /\ b < (b \div u + 1) * u
  BY DivDef
<1>2. a < (b \div u + 1) * u
  BY <1>1
<1>3. a \div u < b \div u + 1
  BY <1>1, <1>2, DivLess
<1>4. a \div u \in Nat
  BY DivDef
<1>. QED
  BY <1>1, <1>3, <1>4

\* And so does multiplication.
LEMMA TimesMonotone ==
  ASSUME NEW a \in Nat, NEW b \in Nat, NEW u \in Nat, a <= b
  PROVE a * u <= b * u
<1>1. PICK d \in Nat : b = a + d
  OBVIOUS
<1>2. b * u = a * u + d * u /\ d * u \in Nat
  BY <1>1
<1>. QED
  BY <1>2

\* The provers know nothing of 2^n but that it counts the subsets of 1..n.
LEMMA PowerOfTwo ==
  ASSUME NEW n \in Nat
  PROVE  2^n \in Nat \ {0}
<1>1. IsFiniteSet(1..n) /\ Cardinality(1..n) = n
  BY FS_Interval
<1>2. IsFiniteSet(SUBSET (1..n)) /\ Cardinality(SUBSET (1..n)) = 2^Cardinality(1..n)
  BY <1>1, FS_SUBSET, Zenon
<1>3. Cardinality(SUBSET (1..n)) \in Nat
  BY <1>2, FS_CardinalityType, Zenon
<1>4. Cardinality(SUBSET (1..n)) # 0
  <2>1. SUBSET (1..n) # {}
    OBVIOUS
  <2>. QED
    BY <1>2, <2>1, FS_EmptySet, Zenon
<1>5. Cardinality(SUBSET (1..n)) = 2^n
  BY <1>1, <1>2, Zenon
<1>6. Cardinality(SUBSET (1..n)) \in Nat \ {0}
  BY <1>3, <1>4
<1>. QED
  BY <1>5, <1>6, Zenon

\* A larger power of two counts more subsets.
LEMMA PowerMonotone ==
  ASSUME NEW m \in Nat, NEW n \in Nat, m <= n
  PROVE  2^m <= 2^n
<1>1. /\ IsFiniteSet(1..m) /\ Cardinality(1..m) = m
      /\ IsFiniteSet(1..n) /\ Cardinality(1..n) = n
  BY FS_Interval
<1>2. /\ Cardinality(SUBSET (1..m)) = 2^m
      /\ IsFiniteSet(SUBSET (1..n)) /\ Cardinality(SUBSET (1..n)) = 2^n
  <2>1. Cardinality(SUBSET (1..m)) = 2^Cardinality(1..m)
    BY <1>1, FS_SUBSET, Zenon
  <2>2. IsFiniteSet(SUBSET (1..n)) /\ Cardinality(SUBSET (1..n)) = 2^Cardinality(1..n)
    BY <1>1, FS_SUBSET, Zenon
  <2>. QED
    BY <1>1, <2>1, <2>2, Zenon
<1>3. SUBSET (1..m) \subseteq SUBSET (1..n)
  OBVIOUS
<1>4. Cardinality(SUBSET (1..m)) <= Cardinality(SUBSET (1..n))
  BY <1>2, <1>3, FS_Subset, Zenon
<1>. QED
  BY <1>2, <1>4, Zenon

\* A subset of 1..(n + 1) is one of 1..n, or one with n + 1 added.
LEMMA PowerGrows ==
  ASSUME NEW n \in Nat
  PROVE  2^(n + 1) <= 2 * 2^n
<1>. DEFINE A == SUBSET (1..n)
           C == {s \union {n + 1} : s \in A}
           f == [s \in A |-> s \union {n + 1}]
<1>1. IsFiniteSet(A) /\ Cardinality(A) = 2^n
  <2>1. IsFiniteSet(1..n) /\ Cardinality(1..n) = n
    BY FS_Interval
  <2>. QED
    BY <2>1, FS_SUBSET, Zenon
<1>2. Cardinality(SUBSET (1..(n + 1))) = 2^(n + 1)
  <2>1. IsFiniteSet(1..(n+1)) /\ Cardinality(1..(n+1)) = n + 1
    BY FS_Interval
  <2>. QED
    BY <2>1, FS_SUBSET, Zenon
<1>3. f \in Surjection(A, C)
  <2>1. f \in [A -> C]
    BY Zenon
  <2>2. \A c \in C : \E s \in A : f[s] = c
    BY Zenon
  <2>. QED
    BY <2>1, <2>2, Zenon DEF Surjection
<1>4. SUBSET (1..(n + 1)) = A \union C
  <2>1. ASSUME NEW s \in SUBSET (1..(n + 1)) PROVE s \in A \union C
    <3>1. CASE n + 1 \in s
      <4>1. s \ {n + 1} \in A /\ s = (s \ {n+1}) \union {n + 1}
        BY <3>1
      <4>. QED
        BY <4>1
    <3>2. CASE n + 1 \notin s
      BY <3>2
    <3>. QED
      BY <3>1, <3>2
  <2>2. ASSUME NEW s \in A PROVE /\ s \in SUBSET (1..(n + 1))
                               /\ s \union {n + 1} \in SUBSET (1..(n + 1))
    OBVIOUS
  <2>3. A \union C \subseteq SUBSET (1..(n + 1))
    <3>1. C \subseteq SUBSET (1..(n + 1))
      BY <2>2, Zenon
    <3>2. A \subseteq SUBSET (1..(n + 1))
      BY <2>2, Zenon
    <3>. QED
      BY <3>1, <3>2, Zenon
  <2>. QED
    BY <2>1, <2>3, Zenon
<1>5. A \intersect C = {}
  <2>1. ASSUME NEW s \in A, NEW t \in A PROVE s # t \union {n + 1}
    <3>1. n + 1 \notin s
      OBVIOUS
    <3>. QED
      BY <3>1
  <2>. QED
    BY <2>1, Zenon
<1>. HIDE DEF A, C, f
<1>6. IsFiniteSet(C) /\ Cardinality(C) <= Cardinality(A)
  BY <1>1, <1>3, FS_Surjection
<1>7. Cardinality(A \union C) = Cardinality(A) + Cardinality(C) - Cardinality(A \intersect C)
  BY <1>1, <1>6, FS_Union, Zenon
<1>8. Cardinality(A \intersect C) = 0
  BY <1>5, FS_EmptySet, Zenon
<1>9. Cardinality(A) \in Nat /\ Cardinality(C) \in Nat
  BY <1>1, <1>6, FS_CardinalityType, Zenon
<1>10. Cardinality(A \union C) <= 2 * Cardinality(A)
  BY <1>6, <1>7, <1>8, <1>9
<1>. QED
  BY <1>1, <1>2, <1>4, <1>10, Zenon

\* Exponent chooses something: the bits of a 64-bit number can be counted.
LEMMA ExponentExists ==
  ASSUME NEW v \in Nat \ {0}, NEW b \in 0..64, v < 2^b
  PROVE  Exponent(v) \in 1..64 /\ 2^(Exponent(v) - 1) <= v /\ v < 2^Exponent(v)
<1>. DEFINE pw == [i \in 0..64 |-> 2^i]
           T == {i \in 0..64 : v < pw[i]}
<1>1. \A i \in 0..64 : pw[i] = 2^i
  BY Zenon
<1>2. \A i \in 0..64 : pw[i] \in Nat \ {0}
  <2>1. \A i \in 0..64 : i \in Nat
    OBVIOUS
  <2>. QED
    BY <1>1, <2>1, PowerOfTwo, Zenon
<1>3. pw[0] = 1
  <2>1. 2^0 = 1
    BY SMT
  <2>2. 0 \in 0..64
    OBVIOUS
  <2>. QED
    BY <1>1, <2>1, <2>2, Zenon
<1>4. v < pw[b]
  BY <1>1, Zenon
<1>. HIDE DEF pw
<1>5. T \subseteq Nat /\ T # {}
  BY <1>4
<1>6. PICK e \in T : \A j \in T : e <= j
  BY <1>5, LeastNat
<1>7. e \in 1..64 /\ e - 1 \in 0..64 /\ e - 1 \notin T
  BY <1>3, <1>6
<1>8. e \in 1..64 /\ e \in 0..64 /\ e - 1 \in 0..64 /\ pw[e-1] <= v /\ v < pw[e]
  BY <1>2, <1>7
<1>9. 2^(e-1) <= v /\ v < 2^e
  BY <1>1, <1>8, Zenon
<1>. QED
  BY <1>8, <1>9, Zenon DEF Exponent

\* log2p1 is linear between powers of two, and its fraction is below one.
LEMMA LogIsLinear ==
  ASSUME NEW v \in Nat \ {0}, NEW b \in 0..64, v < 2^b
  PROVE \E top \in Nat \ {0} : /\ top = 2^(Exponent(v) - 1)
           /\ top <= v /\ v - top < top
           /\ log2p1(v) = Exponent(v) * FRAC + ((v - top) * FRAC) \div top
<1>. DEFINE e == Exponent(v)
<1>1. e \in 1..64 /\ 2^(e - 1) <= v /\ v < 2^e
  BY ExponentExists
<1>. HIDE DEF e
<1>2. e - 1 \in Nat /\ (e - 1) + 1 = e
  BY <1>1
<1>3. 2^(e - 1) \in Nat \ {0}
  BY <1>2, PowerOfTwo, Zenon
<1>4. 2^e <= 2 * 2^(e - 1)
  <2>1. 2^((e - 1) + 1) <= 2 * 2^(e - 1)
    BY <1>2, PowerGrows, Zenon
  <2>. QED
    BY <1>2, <2>1, Zenon
<1>5. \A p, top \in Nat : top <= v /\ v < p /\ p <= 2 * top => v - top < top
  OBVIOUS
<1>6. 2^e \in Nat
  <2>1. e \in Nat
    BY <1>1
  <2>. QED
    BY <2>1, PowerOfTwo, Zenon
<1>7. v - 2^(e - 1) < 2^(e - 1)
  BY <1>1, <1>3, <1>4, <1>5, <1>6, Zenon
<1>8. v # 0
  OBVIOUS
<1>9. log2p1(v) = e * FRAC + ((v - 2^(e - 1)) * FRAC) \div 2^(e - 1)
  BY <1>8, Zenon DEF log2p1, e
<1>. QED
  BY <1>1, <1>3, <1>7, <1>9, Zenon DEF e

\* log2p1 never falls, across powers of two as between them.
LEMMA LogIsMonotone ==
  ASSUME NEW v \in Nat, NEW w \in Nat, v <= w, NEW b \in 0..64, w < 2^b
  PROVE  log2p1(v) \in Nat /\ log2p1(w) \in Nat /\ log2p1(v) <= log2p1(w)
<1>. FRAC \in Nat
  BY PenaltyAssumption
<1>0. 2^b \in Nat
  BY PowerOfTwo
<1>1. ASSUME NEW x \in Nat \ {0}, x <= w
      PROVE  /\ Exponent(x) \in 1..64 /\ log2p1(x) \in Nat
             /\ Exponent(x) * FRAC <= log2p1(x)
             /\ log2p1(x) < (Exponent(x) + 1) * FRAC
  <2>0. x < 2^b
    BY <1>1, <1>0
  <2>1. PICK top \in Nat \ {0} :
          /\ top <= x /\ x - top < top
          /\ log2p1(x) = Exponent(x) * FRAC + ((x - top) * FRAC) \div top
    BY <2>0, LogIsLinear
  <2>2. Exponent(x) \in 1..64
    BY <2>0, ExponentExists
  <2>3. (x - top) * FRAC < FRAC * top /\ (x - top) * FRAC \in Nat
    BY <2>1, PenaltyAssumption
  <2>4. /\ ((x - top) * FRAC) \div top < FRAC
        /\ ((x - top) * FRAC) \div top \in Nat
    BY <2>1, <2>3, DivLess, DivDef
  <2>5. /\ Exponent(x) * FRAC \in Nat
        /\ (Exponent(x) + 1) * FRAC = Exponent(x) * FRAC + FRAC
    BY <2>2
  <2>. QED
    BY <2>1, <2>2, <2>4, <2>5
<1>2. CASE v = 0
  <2>1. log2p1(v) = 0
    BY <1>2, Zenon DEF log2p1
  <2>2. CASE w = 0
    BY <1>2, <2>1, <2>2
  <2>3. CASE w # 0
    BY <1>1, <2>1, <2>3
  <2>. QED
    BY <2>2, <2>3
<1>3. CASE v # 0
  <2>. v \in Nat \ {0} /\ w \in Nat \ {0}
    BY <1>3
  <2>1. v < 2^b
    BY <1>0
  <2>2. /\ Exponent(v) \in 1..64 /\ 2^(Exponent(v) - 1) <= v
        /\ Exponent(w) \in 1..64 /\ w < 2^Exponent(w)
    BY <2>1, ExponentExists
  <2>3. Exponent(v) <= Exponent(w)
    <3>. DEFINE e == Exponent(v)
                f == Exponent(w)
    <3>. SUFFICES ASSUME ~(e <= f) PROVE FALSE
      OBVIOUS
    <3>1. f \in Nat /\ e - 1 \in Nat /\ f <= e - 1
      BY <2>2
    <3>2. 2^f <= 2^(e - 1)
      BY <3>1, PowerMonotone, Zenon
    <3>3. 2^f \in Nat /\ 2^(e - 1) \in Nat
      BY <3>1, PowerOfTwo, Zenon
    <3>4. \A p, q \in Nat : ~(p <= q /\ q <= v /\ w < p)
      OBVIOUS
    <3>. QED
      BY <2>2, <3>2, <3>3, <3>4, Zenon
  <2>4. CASE Exponent(v) = Exponent(w)
    <3>1. PICK top \in Nat \ {0} :
          /\ top = 2^(Exponent(v) - 1) /\ top <= v
          /\ log2p1(v) = Exponent(v) * FRAC + ((v - top) * FRAC) \div top
      BY <2>1, LogIsLinear
    <3>2. log2p1(w) = Exponent(v) * FRAC + ((w - top) * FRAC) \div top /\ top <= w
      BY <2>4, <3>1, LogIsLinear
    <3>3. /\ (v - top) * FRAC \in Nat /\ (w - top) * FRAC \in Nat
          /\ (v - top) * FRAC <= (w - top) * FRAC
      BY <3>1, <3>2, TimesMonotone
    <3>4. /\ ((v - top) * FRAC) \div top <= ((w - top) * FRAC) \div top
          /\ ((v - top) * FRAC) \div top \in Nat
          /\ ((w - top) * FRAC) \div top \in Nat
      BY <3>1, <3>3, DivMonotone, DivDef
    <3>5. Exponent(v) * FRAC \in Nat
      BY <2>2
    <3>. QED
      BY <1>1, <3>1, <3>2, <3>4, <3>5
  <2>5. CASE Exponent(v) < Exponent(w)
    <3>1. (Exponent(v) + 1) * FRAC <= Exponent(w) * FRAC
      BY <2>2, <2>5, TimesMonotone
    <3>2. (Exponent(v) + 1) * FRAC \in Nat /\ Exponent(w) * FRAC \in Nat
      BY <2>2
    <3>. QED
      BY <1>1, <3>1, <3>2
  <2>. QED
    BY <2>2, <2>3, <2>4, <2>5
<1>. QED
  BY <1>2, <1>3

\* A longer burst never costs less, whatever the offset and the scale, and what it costs is a
\* penalty (bore_ctx keeps it in 16 bits).
THEOREM PenaltyIsMonotone ==
  ASSUME NEW v \in Nat, NEW w \in Nat, v <= w, NEW b \in 0..64, w < 2^b,
         NEW off \in Nat, NEW sc \in Nat
  PROVE  /\ calc_burst_penalty(v, off, sc) \in Penalty
         /\ calc_burst_penalty(w, off, sc) \in Penalty
         /\ calc_burst_penalty(v, off, sc) <= calc_burst_penalty(w, off, sc)
<1>. DEFINE lv == AtLeast(0, log2p1(v) - off * FRAC)
            lw == AtLeast(0, log2p1(w) - off * FRAC)
<1>1. lv \in Nat /\ lw \in Nat /\ lv <= lw
  <2>1. log2p1(v) \in Nat /\ log2p1(w) \in Nat /\ log2p1(v) <= log2p1(w)
    BY LogIsMonotone
  <2>2. off * FRAC \in Nat
    BY PenaltyAssumption
  <2>. HIDE DEF Exponent, log2p1
  <2>. QED
    BY <2>1, <2>2 DEF AtLeast
<1>. HIDE DEF lv, lw
<1>2. lv * sc \in Nat /\ lw * sc \in Nat /\ lv * sc <= lw * sc
  BY <1>1, TimesMonotone
<1>3. /\ (lv * sc) \div UNIT \in Nat /\ (lw * sc) \div UNIT \in Nat
      /\ (lv * sc) \div UNIT <= (lw * sc) \div UNIT
  BY <1>2, DivMonotone, DivDef, PenaltyAssumption
<1>4. MaxPenalty \in Nat
  <2>1. PRIOS * FRAC \in Nat \ {0}
    BY PenaltyAssumption
  <2>. QED
    BY <2>1 DEF MaxPenalty
<1>5. /\ calc_burst_penalty(v, off, sc) = AtMost(MaxPenalty, (lv * sc) \div UNIT)
      /\ calc_burst_penalty(w, off, sc) = AtMost(MaxPenalty, (lw * sc) \div UNIT)
  BY Zenon DEF calc_burst_penalty, lv, lw
<1>. QED
  BY <1>3, <1>4, <1>5 DEF AtMost, Penalty

\* Smoothing never leaves the range of the two penalties, although a rise is rounded up.
LEMMA SmoothIsBetween ==
  ASSUME NEW new \in Penalty, NEW old \in Penalty, NEW shift \in 0..3
  PROVE  /\ binary_smooth(new, old, shift) \in Penalty
         /\ binary_smooth(new, old, shift) <= AtLeast(old, new)
<1>1. MaxPenalty \in Nat
  <2>1. PRIOS * FRAC \in Nat \ {0}
    BY PenaltyAssumption
  <2>. QED
    BY <2>1 DEF MaxPenalty
<1>. new \in Nat /\ old \in Nat /\ new <= MaxPenalty /\ old <= MaxPenalty
  BY <1>1 DEF Penalty
<1>2. CASE new <= old
  BY <1>2 DEF binary_smooth, AtLeast
<1>3. CASE new > old
  <2>1. PICK d \in Nat \ {0} : d = 2^shift
    BY PowerOfTwo
  <2>. DEFINE q == (new - old + d - 1) \div d
  <2>2. binary_smooth(new, old, shift) = old + q
    BY <1>3, <2>1 DEF binary_smooth
  <2>3. q \in Nat
    BY <1>3, <2>1, DivDef
  <2>4. new - old + d - 1 < (new - old + 1) * d
    <3>1. PICK n \in Nat : new - old = n
      BY <1>3
    <3>2. (n + 1) * d = n * d + d /\ n <= n * d
      BY <2>1
    <3>. QED
      BY <1>3, <2>1, <3>1, <3>2
  <2>5. q < new - old + 1
    BY <1>3, <2>1, <2>4, DivLess
  <2>. HIDE DEF q
  <2>. QED
    BY <1>3, <1>1, <2>2, <2>3, <2>5 DEF AtLeast, Penalty
<1>. QED
  BY <1>2, <1>3

\* The effective priority indexes the 40 weights.
LEMMA PrioIsPrio ==
  ASSUME NEW n \in Prio, NEW p \in Penalty, NEW enabled \in BOOLEAN
  PROVE  effective_prio(n, p, enabled) \in Prio
<1>1. PRIOS - 1 \in Nat
  BY PenaltyAssumption
<1>2. p \in Nat
  BY DEF Penalty
<1>3. score(p) \in Nat
  BY <1>2, DivDef, PenaltyAssumption DEF score
<1>. QED
  BY <1>1, <1>3 DEF effective_prio, AtMost, Prio

-----------------------------------------------------------------------------

\* The ranges are not empty, and what is configured lies in them.
LEMMA Bounds ==
  /\ MaxPenalty \in Nat /\ 0 \in Penalty /\ Penalty \subseteq Nat
  /\ PRIOS \in Nat \ {0} /\ Prio \subseteq Nat /\ 0 \in Prio
  /\ Nices \subseteq Prio /\ Inherited \subseteq Penalty
<1>1. PRIOS * FRAC \in Nat \ {0}
  BY PenaltyAssumption
<1>. QED
  BY <1>1, PenaltyAssumption, TaskAssumption DEF MaxPenalty, Penalty, Prio

\* What PenaltyIsMonotone says of the bursts and tunables of a run.
LEMMA PenaltyFits ==
  ASSUME NEW v \in Nat, NEW w \in Nat, v <= w, w <= MAX_RUN,
         NEW off \in Offsets, NEW sc \in Scales
  PROVE  /\ calc_burst_penalty(v, off, sc) \in Penalty
         /\ calc_burst_penalty(w, off, sc) \in Penalty
         /\ calc_burst_penalty(v, off, sc) <= calc_burst_penalty(w, off, sc)
<1>1. PICK b \in 0..64 : MAX_RUN < 2^b
  BY TaskAssumption, Zenon
<1>2. 2^b \in Nat
  BY PowerOfTwo
<1>3. w < 2^b
  BY <1>1, <1>2, TaskAssumption
<1>4. off \in Nat /\ sc \in Nat
  BY TaskAssumption
<1>. QED
  BY <1>3, <1>4, PenaltyIsMonotone

\* The same under the tunables in force.
LEMMA BurstPenalty ==
  ASSUME TypeOK, NEW v \in Nat, NEW w \in Nat, v <= w, w <= MAX_RUN
  PROVE  /\ burst_penalty(v) \in Penalty /\ burst_penalty(w) \in Penalty
         /\ burst_penalty(v) <= burst_penalty(w)
BY PenaltyFits DEF TypeOK, burst_penalty

\* What is set as a weight is one.
LEMMA PriosOf ==
  ASSUME TypeOK, NEW n \in Nices, NEW p \in Penalty
  PROVE  PrioOf(n, p) \in Prio /\ LoadWeight(n, p) \in Prio \union {IDLE_WEIGHT}
<1>1. n \in Prio /\ sched_bore_key \in BOOLEAN
  BY Bounds DEF TypeOK
<1>2. PrioOf(n, p) \in Prio
  BY <1>1, PrioIsPrio, Zenon DEF PrioOf
<1>. QED
  BY <1>2, Zenon DEF LoadWeight

\* What a burst has cost is a penalty, under any tunables.
LEMMA CostsFit ==
  ASSUME NEW b \in 0..MAX_RUN
  PROVE  Costs(b) \subseteq Penalty
<1>1. b \in Nat /\ b <= MAX_RUN
  BY TaskAssumption
<1>2. ASSUME NEW o \in Offsets, NEW sc \in Scales
      PROVE  calc_burst_penalty(b, o, sc) \in Penalty
  BY <1>1, PenaltyFits
<1>. QED
  BY <1>2, SMT DEF Costs

\* A creator's context has penalties, and satisfies what concerns them.
LEMMA CreatorFits ==
  ASSUME Creator, kind \in Kinds, offset \in Offsets, scale \in Scales
  PROVE  /\ {prev_penalty, curr_penalty, penalty} \subseteq Penalty
         /\ burst_time \in Nat /\ burst_time <= MAX_RUN
         /\ lowered \in BOOLEAN /\ exempted \in BOOLEAN
         /\ Tuned
         /\ ~exempted => penalty >= Deserved /\ (~lowered => penalty = Deserved)
<1>1. burst_time \in 0..MAX_RUN /\ burst_time \in Nat /\ burst_time <= MAX_RUN
  BY TaskAssumption DEF Creator
<1>2. prev_penalty \in Penalty /\ curr_penalty \in Penalty
  BY <1>1, CostsFit, Bounds DEF Creator
<1>3. Deserved \in Penalty
  BY <1>2, Bounds DEF Deserved, Capped, AtLeast
<1>4. penalty \in Penalty
  <2>1. CASE penalty = Deserved
    BY <1>3, <2>1
  <2>2. CASE penalty \in {Capped(p) : p \in UNION {Costs(b) : b \in 0..burst_time}}
    <3>1. PICK b \in 0..burst_time : \E p \in Costs(b) : penalty = Capped(p)
      BY <2>2
    <3>2. b \in 0..MAX_RUN
      BY <1>1, TaskAssumption
    <3>. QED
      BY <3>1, <3>2, CostsFit, Bounds DEF Capped
  <2>3. CASE penalty = 0
    BY <2>3, Bounds
  <2>. QED
    BY <2>1, <2>2, <2>3, Zenon DEF Creator
<1>5. lowered \in BOOLEAN /\ exempted \in BOOLEAN
  BY Zenon DEF Creator
<1>6. Tuned
  <2>1. burst_penalty(burst_time) \in Penalty
    BY <1>1, PenaltyFits DEF burst_penalty
  <2>2. burst_penalty(burst_time) < curr_penalty => lowered
    BY Zenon DEF Creator
  <2>3. ~(burst_penalty(burst_time) < curr_penalty) => curr_penalty <= burst_penalty(burst_time)
    <3>1. burst_penalty(burst_time) \in Nat /\ curr_penalty \in Nat
      BY <1>2, <2>1, Bounds, Zenon
    <3>2. \A x, y \in Nat : ~(x < y) => y <= x
      OBVIOUS
    <3>. QED
      BY <3>1, <3>2, Zenon
  <2>. QED
    BY <2>2, <2>3, Zenon DEF Tuned
<1>7. ~exempted => penalty >= Deserved /\ (~lowered => penalty = Deserved)
  <2>1. \A x, y \in Nat : (x = y => x >= y) /\ (x > y => x >= y)
    OBVIOUS
  <2>2. penalty \in Nat /\ Deserved \in Nat
    BY <1>3, <1>4, Bounds
  <2>. QED
    BY <2>1, <2>2, Zenon DEF Creator
<1>. QED
  BY <1>1, <1>2, <1>4, <1>5, <1>6, <1>7, Zenon

\* The copy of a creator satisfies the invariant.
LEMMA InitIInv == Init => IInv
<1>. SUFFICES ASSUME Init PROVE IInv
  OBVIOUS
<1>1. /\ {prev_penalty, curr_penalty, penalty} \subseteq Penalty
      /\ burst_time \in Nat /\ burst_time <= MAX_RUN
      /\ lowered \in BOOLEAN /\ exempted \in BOOLEAN
      /\ Tuned
      /\ ~exempted => penalty >= Deserved /\ (~lowered => penalty = Deserved)
  BY CreatorFits, Zenon DEF Init
<1>2. nice \in Prio /\ sched_bore_key \in BOOLEAN /\ penalty \in Penalty
  BY <1>1, Bounds DEF Init
<1>3. PrioOf(nice, penalty) \in Prio
  BY <1>2, PrioIsPrio, Zenon DEF PrioOf
<1>4. weight \in Prio \union {IDLE_WEIGHT} /\ stale \in BOOLEAN
  BY DEF Init
<1>5. TypeOK
  BY <1>1, <1>2, <1>4, Bounds DEF Init, TypeOK, Ops
<1>6. Settled /\ Phased /\ Resting /\ Alone
  BY DEF Init, Settled, Phased, Resting, Alone
<1>7. Budget
  BY <1>1, TaskAssumption DEF Init, Budget
<1>8. Weighted
  BY DEF Init, Weighted, LoadWeight
<1>9. Due
  BY <1>1, Zenon DEF Due
<1>. QED
  BY <1>1, <1>5, <1>6, <1>7, <1>8, <1>9 DEF IInv

\* What each part of the invariant depends on.
LEMMA Frames ==
  /\ Settled /\ UNCHANGED <<step, class, exec>> => Settled'
  /\ Phased /\ UNCHANGED <<step, op>> => Phased'
  /\ Budget /\ UNCHANGED <<burst_time, exec, ran, lost>> => Budget'
  /\ Tuned /\ UNCHANGED <<burst_time, curr_penalty, offset, scale, lowered>> => Tuned'
  /\ Due /\ UNCHANGED <<kind, ctx, step, lowered, exempted>> => Due'
  /\ Resting /\ UNCHANGED <<kind, ctx, step, op, exempted>> => Resting'
  /\ Weighted /\ UNCHANGED <<kind, nice, class, weight, step, prev_prio, penalty,
                             sched_bore_key, writer, stale>> => Weighted'
  /\ Alone /\ UNCHANGED switch => Alone'
<1>1. Settled /\ UNCHANGED <<step, class, exec>> => Settled'
  BY DEF Settled
<1>0. Phased /\ UNCHANGED <<step, op>> => Phased'
  BY DEF Phased
<1>2. Budget /\ UNCHANGED <<burst_time, exec, ran, lost>> => Budget'
  BY DEF Budget
<1>3. Tuned /\ UNCHANGED <<burst_time, curr_penalty, offset, scale, lowered>> => Tuned'
  BY DEF Tuned, burst_penalty
<1>4. Due /\ UNCHANGED <<kind, ctx, step, lowered, exempted>> => Due'
  BY DEF Due, Deserved, Capped, AtLeast, ctx
<1>5. Resting /\ UNCHANGED <<kind, ctx, step, op, exempted>> => Resting'
  BY DEF Resting, Capped, ctx
<1>6. Weighted /\ UNCHANGED <<kind, nice, class, weight, step, prev_prio, penalty,
                             sched_bore_key, writer, stale>> => Weighted'
  BY DEF Weighted, PrioOf
<1>7. Alone /\ UNCHANGED switch => Alone'
  BY DEF Alone, switch
<1>. QED
  BY <1>0, <1>1, <1>2, <1>3, <1>4, <1>5, <1>6, <1>7

\* The clock, the scheduler, and handlers that end without changing anything.
LEMMA PlainSteps ==
  ASSUME IInv,
         \/ Run \/ Pick \/ Wake \/ Ticked \/ Preempt \/ Block
         \/ \E s \in {"running", "ready", "asleep"} : MoveRT(s)
         \/ UNCHANGED vars
  PROVE  IInv'
<1>. USE DEF IInv
<1>. USE Frames
<1>1. CASE Run
  <2>1. TypeOK'
    BY <1>1 DEF Run, TypeOK, ctx, handler, tunables, switch
  <2>2. Budget'
    BY <1>1, TaskAssumption DEF Run, Budget, TypeOK, ctx
  <2>. QED
    BY <1>1, <2>1, <2>2 DEF Run, Unlocked, Settled, ctx, handler, tunables, switch
<1>2. CASE Pick \/ Wake \/ \E s \in {"running", "ready", "asleep"} : MoveRT(s)
  <2>1. TypeOK'
    BY <1>2 DEF Pick, Wake, MoveRT, TypeOK, ctx, handler, tunables, switch, history
  <2>. QED
    BY <1>2, <2>1 DEF Pick, Wake, MoveRT, ctx, handler, tunables, switch, history
<1>3. CASE Ticked \/ Preempt \/ Block
  <2>1. step = "done" /\ step' = "unlocked" /\ op' = "tick" /\ prev_prio' = 0
    BY <1>3 DEF Ticked, Preempt, Block, Leave
  <2>2. UNCHANGED <<kind, nice, class, weight, exec, ctx, tunables, switch, history>>
    BY <1>3 DEF Ticked, Preempt, Block, Leave, history
  <2>3. TypeOK'
    <3>1. state' \in {"running", "ready", "asleep"}
      BY <1>3 DEF TypeOK, Ticked, Preempt, Block, Leave
    <3>. QED
      BY <2>1, <2>2, <3>1, Bounds DEF TypeOK, ctx, tunables, switch, history, Ops
  <2>4. Settled' /\ Phased' /\ Resting'
    BY <2>1, <2>2 DEF Settled, Phased, Resting
  <2>5. Due'
    BY <2>1, <2>2 DEF Due, Deserved, Capped, AtLeast, ctx, history
  <2>6. Weighted'
    BY <2>1, <2>2 DEF Weighted, PrioOf, ctx, switch, history
  <2>. QED
    BY <2>2, <2>3, <2>4, <2>5, <2>6 DEF ctx, tunables, switch, history
<1>4. CASE UNCHANGED vars
  <2>1. TypeOK'
    BY <1>4 DEF TypeOK, vars, ctx, entity, handler, tunables, switch, history
  <2>. QED
    BY <1>4, <2>1 DEF vars, ctx, entity, handler, tunables, switch, history
<1>. QED
  BY <1>1, <1>2, <1>3, <1>4

\* The fork: a context of its own, or the creator's.
LEMMA ForkKeeps ==
  ASSUME IInv, ForkTest \/ Attach \/ \E inherited \in Inherited : ForkReset(inherited)
  PROVE  IInv'
<1>. USE DEF IInv
<1>. USE Frames
<1>1. CASE ForkTest \/ Attach
  <2>1. /\ UNCHANGED <<ctx, entity, tunables, switch, history>>
        /\ step \in {"copied", "done", "unlisted"} /\ step' \in {"eligible", "unlisted", "unlocked"}
        /\ op' \in {op, "tick"} /\ prev_prio' \in {prev_prio, 0}
        /\ step = "unlocked" => step' = "unlocked"
    BY <1>1 DEF ForkTest, Attach
  <2>2. TypeOK'
    BY <2>1, Bounds DEF TypeOK, Ops, ctx, entity, tunables, switch, history
  <2>3. Settled' /\ Phased'
    BY <1>1 DEF ForkTest, Attach, Settled, Phased, entity
  <2>4. Due' /\ Resting'
    BY <2>1 DEF Due, Resting, Deserved, Capped, AtLeast, ctx, entity, history
  <2>5. Weighted'
    BY <2>1 DEF Weighted, PrioOf, ctx, entity, switch, history
  <2>. QED
    BY <2>1, <2>2, <2>3, <2>4, <2>5 DEF ctx, entity, tunables, switch, history
<1>2. ASSUME NEW inherited \in Inherited, ForkReset(inherited) PROVE IInv'
  <2>1. /\ UNCHANGED <<penalty, entity, op, tunables, switch, exempted, stale>>
        /\ step = "eligible" /\ step' = "penalty"
        /\ prev_penalty' = AtLeast(inherited, prev_penalty)
        /\ curr_penalty' = 0 /\ burst_time' = 0
        /\ prev_prio' = PrioOf(nice, penalty)
        /\ ran' = 0 /\ lost' = FALSE /\ lowered' = FALSE
    BY <1>2 DEF ForkReset
  <2>2. prev_penalty' \in Penalty
    BY <2>1, Bounds DEF AtLeast, TypeOK
  <2>3. prev_prio' \in Prio
    BY <2>1, PriosOf DEF TypeOK
  <2>4. TypeOK'
    BY <2>1, <2>2, <2>3, Bounds DEF TypeOK, entity, tunables, switch
  <2>5. Settled' /\ Phased' /\ Budget' /\ Due' /\ Alone'
    BY <2>1, TaskAssumption DEF Settled, Phased, Budget, Due, entity
  <2>6. Tuned'
    <3>1. 0 \in Nat /\ 0 <= MAX_RUN
      BY TaskAssumption
    <3>2. burst_penalty(0) \in Penalty
      BY <3>1, BurstPenalty
    <3>3. burst_penalty(burst_time)' = burst_penalty(0)
      BY <2>1, Zenon DEF burst_penalty, tunables
    <3>. QED
      BY <2>1, <3>2, <3>3, Bounds DEF Tuned, Penalty
  <2>7. op = "fork"
    BY <2>1 DEF Phased
  <2>8. Resting'
    BY <2>1, <2>7 DEF Resting
  <2>9. Weighted'
    BY <2>1 DEF Weighted, PrioOf, entity, switch
  <2>. QED
    BY <2>4, <2>5, <2>6, <2>8, <2>9
<1>. QED
  BY <1>1, <1>2

\* update_curr, up to the first look at the key.
LEMMA EnterKeeps ==
  ASSUME IInv, NEW o \in Ops, Enter(o)
  PROVE  IInv'
<1>. USE DEF IInv
<1>. USE Frames
<1>1. CASE exec = 0 /\ step' = "done" /\ UNCHANGED <<ctx, exec, prev_prio>>
  <2>1. TypeOK'
    BY <1>1 DEF Enter, TypeOK, ctx, tunables, switch, history
  <2>2. Settled' /\ Phased' /\ Resting'
    BY <1>1 DEF Enter, Settled, Phased, Resting
  <2>3. Due'
    BY <1>1 DEF Enter, Unlocked, Due, Deserved, Capped, AtLeast, ctx, history
  <2>4. Weighted'
    BY <1>1 DEF Enter, Unlocked, Weighted, PrioOf, ctx, switch, history
  <2>. QED
    BY <1>1, <2>1, <2>2, <2>3, <2>4 DEF Enter, ctx, tunables, switch, history
<1>2. CASE exec > 0 /\ Account(o)
  <2>. DEFINE new == curr_penalty'
  <2>1. /\ burst_time' \in Nat /\ burst_time <= burst_time' /\ burst_time' <= MAX_RUN
        /\ burst_time' = burst_time + exec /\ exec' = 0
    BY <1>2, TaskAssumption DEF Account, TypeOK, Budget
  <2>2. new = burst_penalty(burst_time') /\ offset' = offset /\ scale' = scale
    BY <1>2 DEF Account, Enter, tunables
  <2>3. new \in Penalty /\ burst_penalty(burst_time) <= new /\ burst_penalty(burst_time) \in Penalty
    <3>1. burst_time \in Nat
      BY DEF TypeOK
    <3>. QED
      BY <2>1, <2>2, <3>1, BurstPenalty, Zenon
  <2>4. UNCHANGED <<kind, nice, class, state, weight, tunables, switch, history,
                    prev_penalty, penalty>>
    BY <1>2 DEF Enter, Account
  <2>5. /\ step = "unlocked" /\ class = "fair" /\ op' = o
        /\ step' = IF Grows(new) THEN "penalty" ELSE "done"
        /\ prev_prio' = IF Grows(new) THEN PrioOf(nice, penalty) ELSE prev_prio
    BY <1>2 DEF Enter, Account, Unlocked
  <2>6. prev_prio' \in Prio
    BY <2>5, PriosOf DEF TypeOK
  <2>7. TypeOK'
    BY <2>1, <2>3, <2>4, <2>5, <2>6 DEF TypeOK, tunables, switch, history
  <2>8. Settled' /\ Phased' /\ Resting'
    BY <2>1, <2>4, <2>5 DEF Settled, Phased, Resting, Ops
  <2>9. Budget'
    BY <2>1, <2>4 DEF Budget, TypeOK, history
  <2>10. Tuned'
    BY <2>2, <2>3, Bounds DEF Tuned, burst_penalty, Penalty
  <2>11. Due'
    <3>. SUFFICES ASSUME ~Grows(new) PROVE Due'
      BY <2>5 DEF Due
    <3>1. {prev_penalty, curr_penalty, penalty, new} \subseteq Nat /\ ~(new > prev_penalty)
      BY <2>3, Bounds DEF TypeOK, Grows
    <3>2. Due /\ step # "penalty"
      BY <2>5
    <3>3. ~lowered => curr_penalty <= new
      BY <2>3, <3>1, Bounds DEF Tuned, Penalty
    <3>. QED
      BY <2>4, <3>1, <3>2, <3>3 DEF Due, Deserved, Capped, AtLeast, history
  <2>12. Weighted'
    BY <2>4, <2>5 DEF Weighted, PrioOf, switch, history
  <2>. QED
    BY <2>4, <2>7, <2>8, <2>9, <2>10, <2>11, <2>12
<1>. QED
  BY <1>1, <1>2 DEF Enter

\* The second half of update_penalty.
LEMMA UpdateKeeps ==
  ASSUME IInv, UpdatePenalty
  PROVE  IInv'
<1>. USE DEF IInv
<1>. USE Frames
<1>. DEFINE max == Larger(curr_penalty, prev_penalty)
<1>1. max \in Penalty /\ penalty' \in Penalty
  BY Bounds DEF UpdatePenalty, TypeOK, Larger, AtLeast, Capped
<1>2. UNCHANGED <<burst_time, prev_penalty, curr_penalty, kind, nice, class, state, exec, op,
                  tunables, switch, ran, lost, lowered>>
  BY DEF UpdatePenalty
<1>3. step = "penalty" /\ step' = "done" /\ prev_prio' = 0 /\ exempted' = FALSE
  BY DEF UpdatePenalty
<1>4. PrioOf(nice, penalty') \in Prio
  BY <1>1, PriosOf, Zenon DEF TypeOK
<1>5. /\ weight' \in {weight, PrioOf(nice, penalty')}
      /\ kind = "idle" => weight' = weight
      /\ kind # "idle" /\ PrioOf(nice, penalty') # prev_prio =>
           weight' = PrioOf(nice, penalty') /\ stale' = FALSE
      /\ kind # "idle" /\ PrioOf(nice, penalty') = prev_prio =>
           weight' = weight /\ stale' = stale
      /\ stale' \in {stale, FALSE}
  BY DEF UpdatePenalty, Reweight
<1>6. TypeOK'
  BY <1>1, <1>2, <1>3, <1>4, <1>5, Bounds DEF TypeOK, tunables, switch
<1>7. Settled' /\ Phased' /\ Budget' /\ Tuned' /\ Resting' /\ Alone'
  BY <1>2, <1>3 DEF Settled, Phased, Resting, tunables
<1>8. Due'
  <2>1. penalty' = Deserved' /\ penalty' \in Nat
    BY <1>1, <1>2, Bounds DEF UpdatePenalty, Deserved, Larger, AtLeast, Capped
  <2>. QED
    BY <2>1 DEF Due
<1>9. Weighted'
  <2>1. PrioOf(nice, penalty)' = PrioOf(nice, penalty')
    BY <1>2 DEF PrioOf, switch
  <2>. QED
    BY <1>2, <1>3, <1>5, <2>1 DEF Weighted, switch
<1>. QED
  BY <1>6, <1>7, <1>8, <1>9

\* restart_burst_bore.
LEMMA RestartKeeps ==
  ASSUME IInv, Restart
  PROVE  IInv'
<1>. USE DEF IInv
<1>. USE Frames
<1>1. UNCHANGED <<penalty, entity, tunables, switch, exempted, stale>>
  BY DEF Restart
<1>2. /\ step = "done" /\ step' = "penalty" /\ op' \in {"block", "rest"}
      /\ curr_penalty' = 0 /\ burst_time' = 0
      /\ prev_prio' = PrioOf(nice, penalty)
      /\ ran' = 0 /\ lost' = FALSE /\ lowered' = FALSE
  BY DEF Restart
<1>3. /\ prev_penalty' \in Penalty
      /\ prev_penalty' <= AtLeast(prev_penalty, curr_penalty)
  <2>1. /\ curr_penalty \in Penalty /\ prev_penalty \in Penalty /\ smoothness \in 0..3
    BY TaskAssumption DEF TypeOK
  <2>. QED
    BY <2>1, SmoothIsBetween, Zenon DEF Restart
<1>4. prev_prio' \in Prio
  BY <1>2, PriosOf DEF TypeOK
<1>5. TypeOK'
  BY <1>1, <1>2, <1>3, <1>4, Bounds DEF TypeOK, entity, tunables, switch
<1>6. Settled' /\ Phased' /\ Budget' /\ Due' /\ Alone'
  BY <1>1, <1>2, TaskAssumption DEF Settled, Phased, Budget, Due, entity
<1>7. Tuned'
  <2>1. 0 \in Nat /\ 0 <= MAX_RUN
    BY TaskAssumption
  <2>2. burst_penalty(0) \in Penalty
    BY <2>1, BurstPenalty
  <2>3. burst_penalty(burst_time)' = burst_penalty(0)
    BY <1>1, <1>2, Zenon DEF burst_penalty, tunables
  <2>. QED
    BY <1>2, <2>2, <2>3, Bounds DEF Tuned, Penalty
<1>8. Resting'
  <2>1. {prev_penalty, curr_penalty, penalty, prev_penalty'} \subseteq Nat
    BY <1>3, Bounds DEF TypeOK
  <2>2. /\ exempted \/ penalty >= Deserved
        /\ kind' = kind /\ penalty' = penalty /\ exempted' = exempted
    BY <1>1, <1>2 DEF Due, entity
  <2>. QED
    BY <1>2, <1>3, <2>1, <2>2 DEF Resting, Deserved, Capped, AtLeast
<1>9. Weighted'
  BY <1>1, <1>2 DEF Weighted, PrioOf, entity, switch
<1>. QED
  BY <1>5, <1>6, <1>7, <1>8, <1>9

\* A new nice value, and leaving and entering the fair class.
LEMMA ClassKeeps ==
  ASSUME IInv, Renice \/ JoinRT \/ \E by \in {"setsched", "boost"} : JoinFair(by)
  PROVE  IInv'
<1>. USE DEF IInv
<1>. USE Frames
<1>1. CASE Renice \/ JoinRT
  <2>1. /\ step = "done" /\ step' = "unlocked" /\ op' = "tick" /\ prev_prio' = 0
        /\ UNCHANGED <<kind, exec, state, ctx, tunables, switch, ran, lost, lowered, exempted>>
    BY <1>1 DEF Renice, JoinRT, Leave
  <2>2. /\ nice' \in Nices /\ class' \in {"fair", "rt"} /\ stale' \in {stale, FALSE}
        /\ weight' \in {weight, LoadWeight(nice', penalty)}
        /\ class' = "fair" => weight' = LoadWeight(nice', penalty)
    BY <1>1 DEF Renice, JoinRT, Leave, TypeOK, Settled
  <2>3. LoadWeight(nice', penalty) \in Prio \union {IDLE_WEIGHT}
    BY <2>2, PriosOf DEF TypeOK
  <2>4. TypeOK'
    BY <2>1, <2>2, <2>3, Bounds DEF TypeOK, ctx, tunables, switch, Ops
  <2>5. Settled' /\ Phased' /\ Budget' /\ Tuned' /\ Resting' /\ Alone'
    BY <2>1 DEF Settled, Phased, Resting, ctx, tunables
  <2>6. Due'
    BY <2>1 DEF Due, Deserved, Capped, AtLeast, ctx
  <2>7. Weighted'
    BY <2>1, <2>2 DEF Weighted, LoadWeight, PrioOf, ctx, switch
  <2>. QED
    BY <2>4, <2>5, <2>6, <2>7
<1>2. ASSUME NEW by \in {"setsched", "boost"}, JoinFair(by) PROVE IInv'
  <2>1. /\ step = "unlocked" /\ class = "rt" /\ class' = "fair"
        /\ burst_time' = 0 /\ prev_penalty' = 0 /\ curr_penalty' = 0 /\ penalty' = 0
        /\ ran' = 0 /\ lost' = FALSE /\ lowered' = FALSE
        /\ exempted' = FALSE /\ stale' = TRUE
        /\ UNCHANGED <<kind, nice, state, exec, handler, tunables, switch>>
        /\ weight' \in {weight, LoadWeight(nice, penalty)}
    BY <1>2 DEF JoinFair, Unlocked
  <2>2. LoadWeight(nice, penalty) \in Prio \union {IDLE_WEIGHT}
    BY PriosOf DEF TypeOK
  <2>3. TypeOK'
    BY <2>1, <2>2, Bounds DEF TypeOK, handler, tunables, switch
  <2>4. Settled' /\ Phased' /\ Budget' /\ Resting' /\ Alone'
    BY <2>1, TaskAssumption DEF Settled, Phased, Budget, Resting, handler
  <2>5. Tuned'
    <3>1. 0 \in Nat /\ 0 <= MAX_RUN
      BY TaskAssumption
    <3>2. burst_penalty(0) \in Penalty
      BY <3>1, BurstPenalty
    <3>3. burst_penalty(burst_time)' = burst_penalty(0)
      BY <2>1, Zenon DEF burst_penalty, tunables
    <3>. QED
      BY <2>1, <3>2, <3>3, Bounds DEF Tuned, Penalty
  <2>6. Due'
    BY <2>1 DEF Due, Deserved, Capped, AtLeast
  <2>7. Weighted'
    BY <2>1 DEF Weighted, LoadWeight
  <2>. QED
    BY <2>3, <2>4, <2>5, <2>6, <2>7
<1>. QED
  BY <1>1, <1>2

\* Writing a tunable: lowered records that the present burst has become cheaper.
LEMMA TuneKeeps ==
  ASSUME IInv, TuneSmoothness \/ TuneOffset \/ TuneScale
  PROVE  IInv'
<1>. USE DEF IInv
<1>. USE Frames
<1>1. PICK sm \in Smoothnesses, off \in Offsets, sc \in Scales : Tune(sm, off, sc)
  BY DEF TuneSmoothness, TuneOffset, TuneScale, TypeOK
<1>2. UNCHANGED <<ctx, entity, handler, switch, ran, lost, exempted, stale>>
  BY <1>1 DEF Tune
<1>3. TypeOK'
  BY <1>1 DEF Tune, TypeOK, ctx, entity, handler, switch
<1>4. Settled' /\ Phased' /\ Budget' /\ Resting' /\ Weighted' /\ Alone'
  BY <1>2 DEF ctx, entity, handler, switch
<1>5. Tuned' /\ Due'
  <2>1. /\ lowered' = (lowered \/ calc_burst_penalty(burst_time, off, sc) < curr_penalty)
        /\ burst_penalty(burst_time)' = calc_burst_penalty(burst_time, off, sc)
        /\ curr_penalty' = curr_penalty
    BY <1>1 DEF Tune, burst_penalty, ctx
  <2>2. calc_burst_penalty(burst_time, off, sc) \in Nat /\ curr_penalty \in Nat
    <3>1. burst_time \in Nat /\ burst_time <= MAX_RUN
      BY TaskAssumption DEF TypeOK, Budget
    <3>2. calc_burst_penalty(burst_time, off, sc) \in Penalty
      BY <3>1, PenaltyFits
    <3>. QED
      BY <3>2, Bounds DEF TypeOK
  <2>3. Tuned'
    <3>. SUFFICES ASSUME ~lowered' PROVE curr_penalty' <= burst_penalty(burst_time)'
      BY DEF Tuned
    <3>. HIDE DEF Tuned, IInv
    <3>1. ~(calc_burst_penalty(burst_time, off, sc) < curr_penalty)
      BY <2>1
    <3>2. curr_penalty <= calc_burst_penalty(burst_time, off, sc)
      BY <2>2, <3>1
    <3>. QED
      BY <2>1, <3>2, Zenon
  <2>4. lowered' \in BOOLEAN /\ (lowered => lowered')
    BY <1>3, <2>1 DEF TypeOK
  <2>5. Due'
    BY <1>2, <2>4 DEF Due, Deserved, Capped, AtLeast, ctx, entity, handler
  <2>. QED
    BY <2>3, <2>5
<1>. QED
  BY <1>3, <1>4, <1>5

\* Storing, testing and patching: three steps of a writer, each beside any handler.
LEMMA WritersKeep ==
  ASSUME IInv, NEW w \in Writers,
         (\E value \in BOOLEAN : WriteBore(w, value)) \/ TestBore(w) \/ FlipKey(w)
  PROVE  IInv'
<1>. USE DEF IInv
<1>. USE Frames
<1>1. /\ UNCHANGED <<ctx, entity, handler, tunables, history>>
      /\ writer' = [writer EXCEPT ![w] = writer'[w]]
      /\ writer'[w] \in {"written", "tested", "flipped"}
  BY DEF WriteBore, TestBore, FlipKey, Proceed, TypeOK
<1>2. TypeOK'
  <2>1. /\ {sched_bore', sched_bore_key'} \subseteq BOOLEAN /\ overlapped' \in BOOLEAN
        /\ enable' \in [Writers -> BOOLEAN]
        /\ writer' \in [Writers -> {"idle", "written", "tested", "flipped"}]
    BY <1>1 DEF WriteBore, TestBore, FlipKey, TypeOK
  <2>. QED
    BY <1>1, <2>1 DEF TypeOK, ctx, entity, handler, tunables, history
<1>3. Settled' /\ Phased' /\ Budget' /\ Tuned' /\ Due' /\ Resting'
  BY <1>1 DEF ctx, entity, handler, tunables, history
<1>4. Weighted'
  <2>1. CASE FlipKey(w)
    <3>1. writer'[w] = "flipped"
      BY <2>1 DEF FlipKey, Proceed, TypeOK
    <3>. QED
      BY <1>1, <3>1 DEF Weighted, entity
  <2>2. CASE ~FlipKey(w)
    <3>1. sched_bore_key' = sched_bore_key /\ writer[w] # "flipped"
      BY <2>2 DEF WriteBore, TestBore, Proceed
    <3>2. (\A v \in Writers : writer'[v] # "flipped") => \A v \in Writers : writer[v] # "flipped"
      BY <1>1, <3>1 DEF TypeOK
    <3>. QED
      BY <1>1, <3>1, <3>2 DEF Weighted, PrioOf, ctx, entity, handler, history
  <2>. QED
    BY <2>1, <2>2
<1>5. Alone'
  <2>1. CASE \E value \in BOOLEAN : WriteBore(w, value)
    BY <2>1 DEF WriteBore, Proceed, Alone, TypeOK
  <2>2. CASE TestBore(w)
    BY <2>2 DEF TestBore, Proceed, Alone, TypeOK
  <2>3. CASE FlipKey(w)
    BY <2>3 DEF FlipKey, Proceed, Alone, TypeOK
  <2>. QED
    BY <2>1, <2>2, <2>3
<1>. QED
  BY <1>2, <1>3, <1>4, <1>5

\* The writer comes by, holding the runqueue lock, or has gone past.
LEMMA ReadjustKeeps ==
  ASSUME IInv, NEW w \in Writers, Readjust(w)
  PROVE  IInv'
<1>. USE DEF IInv
<1>. USE Frames
<1>1. /\ writer[w] = "flipped" /\ writer' = [writer EXCEPT ![w] = "idle"]
      /\ UNCHANGED <<kind, nice, class, state, ctx, handler, tunables, ran, lowered,
                     exempted, sched_bore, sched_bore_key, enable, overlapped>>
  BY DEF Readjust, Proceed
<1>2. \/ /\ step = "unlocked" /\ Visited /\ kind # "idle" /\ weight' = PrioOf(nice, penalty) /\ stale' = FALSE
         /\ exec' = 0 /\ lost' = (lost \/ exec > 0)
      \/ ~(Visited /\ kind # "idle") /\ UNCHANGED <<weight, stale, exec, lost>>
      \/ stale' = TRUE /\ UNCHANGED <<weight, exec, lost>>
  BY DEF Readjust, Revisit, Miss, Unlocked
<1>3. PrioOf(nice, penalty) \in Prio
  BY PriosOf DEF TypeOK
<1>4. /\ exec' \in {exec, 0} /\ lost' \in BOOLEAN
      /\ lost' = FALSE => lost = FALSE /\ exec' = exec
  <2>1. lost \in BOOLEAN /\ exec \in Nat
    BY DEF TypeOK
  <2>2. CASE exec' = 0 /\ lost' = (lost \/ exec > 0)
    <3>1. CASE exec > 0
      <4>1. lost' = TRUE
        BY <2>2, <3>1, Zenon
      <4>. QED
        BY <2>2, <4>1
    <3>2. CASE ~(exec > 0)
      <4>1. lost' = lost
        BY <2>1, <2>2, <3>2, Zenon
      <4>. QED
        BY <2>1, <2>2, <3>2, <4>1
    <3>. QED
      BY <3>1, <3>2
  <2>3. CASE UNCHANGED <<exec, lost>>
    BY <2>1, <2>3
  <2>. QED
    BY <1>2, <2>2, <2>3, Zenon
<1>5. TypeOK' /\ Settled' /\ Phased' /\ Budget'
  <2>1. TypeOK'
    <3>1. weight' \in {weight, PrioOf(nice, penalty)} /\ stale' \in {stale, TRUE, FALSE}
      BY <1>2
    <3>2. exec' \in Nat /\ weight' \in Prio \union {IDLE_WEIGHT}
      BY <1>3, <1>4, <3>1 DEF TypeOK
    <3>3. stale' \in BOOLEAN
      <4>1. stale \in BOOLEAN
        BY DEF TypeOK
      <4>. QED
        BY <3>1, <4>1
    <3>. QED
      BY <1>1, <1>4, <3>2, <3>3 DEF TypeOK, ctx, handler, tunables
  <2>2. Settled' /\ Phased'
    BY <1>1, <1>4 DEF Settled, Phased, ctx, handler
  <2>3. Budget'
    <3>1. {burst_time, exec, ran} \subseteq Nat /\ UNCHANGED <<burst_time, ran>>
      BY <1>1 DEF TypeOK, ctx
    <3>2. burst_time' + exec' <= ran' /\ ran' <= MAX_RUN
      BY <1>4, <3>1, TaskAssumption DEF Budget
    <3>3. ~lost' => burst_time' + exec' = ran'
      BY <1>4, <3>1 DEF Budget
    <3>. QED
      BY <3>2, <3>3 DEF Budget
  <2>. QED
    BY <2>1, <2>2, <2>3
<1>6. Tuned' /\ Due' /\ Resting'
  BY <1>1 DEF ctx, handler, tunables
<1>7. Weighted'
  BY <1>1, <1>2 DEF Weighted, Visited, PrioOf, ctx, handler
<1>8. Alone'
  BY <1>1 DEF Alone, TypeOK
<1>. QED
  BY <1>5, <1>6, <1>7, <1>8

\* Every step keeps the invariant.
LEMMA NextIInv == IInv /\ [Next]_vars => IInv'
<1>. SUFFICES ASSUME IInv, [Next]_vars PROVE IInv'
  OBVIOUS
<1>1. ASSUME NEW o \in Ops, Enter(o) PROVE IInv'
  BY <1>1, EnterKeeps
<1>2. ASSUME NEW w \in Writers, Readjust(w) PROVE IInv'
  BY <1>2, ReadjustKeeps
<1>3. ASSUME NEW w \in Writers,
             (\E value \in BOOLEAN : WriteBore(w, value)) \/ TestBore(w) \/ FlipKey(w)
      PROVE  IInv'
  BY <1>3, WritersKeep
<1>4. CASE Restart
  BY <1>4, RestartKeeps
<1>5. CASE UpdatePenalty
  BY <1>5, UpdateKeeps
<1>6. CASE Renice \/ JoinRT \/ \E by \in {"setsched", "boost"} : JoinFair(by)
  BY <1>6, ClassKeeps
<1>7. CASE TuneSmoothness \/ TuneOffset \/ TuneScale
  BY <1>7, TuneKeeps
<1>9. CASE ForkTest \/ Attach \/ \E inherited \in Inherited : ForkReset(inherited)
  BY <1>9, ForkKeeps
<1>8. CASE \/ Run \/ Pick \/ Wake \/ Ticked \/ Preempt \/ Block
           \/ \E s \in {"running", "ready", "asleep"} : MoveRT(s)
           \/ UNCHANGED vars
  BY <1>8, PlainSteps
<1>. QED
  BY <1>1, <1>2, <1>3, <1>4, <1>5, <1>6, <1>7, <1>8, <1>9, Zenon DEF Next

\* The invariant holds throughout.
THEOREM Invariant == Spec => []IInv
BY InitIInv, NextIInv, PTL DEF Spec

\* Every field has its range in every reachable state: penalties fit 16 bits, priorities index
\* the 40 weights.
THEOREM TypeCorrect == Spec => []TypeOK
<1>1. IInv => TypeOK
  BY DEF IInv
<1>. QED
  BY Invariant, <1>1, PTL

\* "max(prev, curr), 0 for kthreads" (bore.rs): between two handlers the penalty is the larger
\* of the two, and at most too large, never too small, after tuning; but for the processes of
\* kthreads.
THEOREM PenaltyLateNeverSmall == Spec => []PenaltyIsLarger
<1>1. IInv => PenaltyIsLarger
  BY DEF IInv, Due, PenaltyIsLarger, Unlocked
<1>. QED
  BY Invariant, <1>1, PTL

\* The burst is the run time since the task last slept or yielded, unless a write to the sysctl
\* dropped some of it; none is counted twice.
THEOREM NoRuntimeTwice == Spec => []BurstIsRuntime
<1>1. IInv => BurstIsRuntime
  BY DEF IInv, Budget, BurstIsRuntime
<1>. QED
  BY Invariant, <1>1, PTL

\* The load weight is the one of the effective priority, although no lock covers the key, from
\* the first time that a handler or writer sets it.
THEOREM WeightIsCurrent == Spec => []WeightFollowsPriority
<1>1. IInv => WeightFollowsPriority
  <2>. SUFFICES ASSUME Weighted, kind # "thread", class = "fair", ~stale,
                       \A w \in Writers : writer[w] # "flipped"
                PROVE  weight = LoadWeight(nice, penalty)
    BY DEF IInv, WeightFollowsPriority
  <2>. QED
    BY DEF Weighted, LoadWeight
<1>. QED
  BY Invariant, <1>1, PTL

\* A write of kernel.sched_bore that overlaps no other leaves the key as it was written.
THEOREM LoneWriteCounts == Spec => []LoneWriteTakesEffect
<1>1. IInv => LoneWriteTakesEffect
  BY DEF IInv, Alone, LoneWriteTakesEffect
<1>. QED
  BY Invariant, <1>1, PTL

\* No step that ends a burst raises the penalty.
THEOREM RestIsFree == Spec => RestNeverPunishes
<1>1. ASSUME IInv, [Next]_vars PROVE [penalty' > penalty => exempted \/ op \notin {"block", "rest"}]_vars
  <2>. SUFFICES ASSUME penalty' > penalty, ~exempted, op \in {"block", "rest"} PROVE FALSE
    OBVIOUS
  <2>1. {penalty, prev_penalty, curr_penalty} \subseteq Nat
    BY <1>1, Bounds DEF IInv, TypeOK
  <2>2. penalty' # penalty /\ ~(0 > penalty)
    BY <2>1
  <2>3. CASE UpdatePenalty
    <3>1. curr_penalty = 0 /\ penalty >= Capped(prev_penalty)
      BY <1>1, <2>3 DEF IInv, Resting, UpdatePenalty
    <3>2. penalty' = Capped(prev_penalty)
      BY <2>1, <2>3, <3>1 DEF UpdatePenalty, Larger, AtLeast, Capped
    <3>. QED
      BY <2>1, <3>1, <3>2 DEF Capped
  <2>4. CASE \E by \in {"setsched", "boost"} : JoinFair(by)
    BY <2>2, <2>4 DEF JoinFair
  <2>5. CASE ~UpdatePenalty /\ ~\E by \in {"setsched", "boost"} : JoinFair(by)
    BY <1>1, <2>2, <2>5
       DEF Next, ForkTest, ForkReset, Attach, Enter, Account, Restart, Readjust, Run, Pick, Wake, Ticked,
           Preempt, Block, Leave, Renice, JoinRT, MoveRT, TuneSmoothness, TuneOffset, TuneScale,
           Tune, WriteBore, TestBore, FlipKey, vars, ctx
  <2>. QED
    BY <2>3, <2>4, <2>5
<1>. QED
  BY Invariant, <1>1, PTL DEF Spec, RestNeverPunishes

=============================================================================
