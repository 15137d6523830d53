-------------------------- MODULE BoreInheritProofs --------------------------
(***************************************************************************)
(* What holds of the inheritance of penalties for any number of tasks,     *)
(* families of any shape, and any limits that satisfy InheritAssumption.   *)
(***************************************************************************)
EXTENDS BoreInherit, FiniteSetTheorems, WellFoundedInduction, TLAPS

-----------------------------------------------------------------------------
(* Numbers *)

\* A set of numbers has a least one: induction, for a predicate given as a set.
LEMMA LeastNat ==
  ASSUME NEW T, T \subseteq Nat, T # {}
  PROVE  \E x \in T : \A y \in T : x <= y
<1>1. IsWellFoundedOn(OpToRel(<,Nat), Nat)
  BY NatLessThanWellFounded
<1>2. PICK x \in T : \A y \in T : ~(<<y, x>> \in OpToRel(<,Nat))
  BY <1>1, WFMin, Zenon
<1>3. ASSUME NEW y \in T PROVE ~(y < x)
  <2>1. SUFFICES ASSUME y < x PROVE <<y, x>> \in OpToRel(<, Nat)
    BY <1>2, Zenon
  <2>2. <<y, x>> \in Nat \X Nat /\ <<y, x>>[1] = y /\ <<y, x>>[2] = x
    BY Zenon
  <2>. QED
    BY <2>1, <2>2, Zenon DEF OpToRel
<1>4. ASSUME NEW y \in T PROVE x <= y
  <2>1. ~(y < x)
    BY <1>3, Zenon
  <2>. QED
    BY <2>1
<1>. QED
  BY <1>4, Zenon

\* Division rounds down.
LEMMA DivDef ==
  ASSUME NEW a \in Nat, NEW u \in Nat \ {0}
  PROVE a \div u \in Nat /\ (a \div u) * u <= a /\ a < (a \div u + 1) * u
OBVIOUS

\* Below a multiple, the quotient is below the factor.
LEMMA DivLess ==
  ASSUME NEW a \in Nat, NEW u \in Nat \ {0}, NEW b \in Nat, a < b * u
  PROVE a \div u < b
<1>. DEFINE q == a \div u
<1>1. q \in Nat /\ q * u <= a
  BY DivDef
<1>. HIDE DEF q
<1>2. ~(q >= b)
  <2>. SUFFICES ASSUME q >= b PROVE FALSE
    OBVIOUS
  <2>1. PICK d \in Nat : q = b + d
    BY <1>1
  <2>2. q * u = b * u + d * u /\ d * u \in Nat
    BY <2>1
  <2>. QED
    BY <2>2, <1>1
<1>3. q < b
  BY <1>2, <1>1
<1>. QED
  BY <1>3 DEF q

\* And so does multiplication.
LEMMA TimesMonotone ==
  ASSUME NEW a \in Nat, NEW b \in Nat, NEW u \in Nat, a <= b
  PROVE a * u <= b * u
<1>1. PICK d \in Nat : b = a + d
  OBVIOUS
<1>2. b * u = a * u + d * u /\ d * u \in Nat
  BY <1>1
<1>. QED
  BY <1>2

\* The provers know nothing of 2^n but that it counts the subsets of 1..n.
LEMMA PowerOfTwo ==
  ASSUME NEW n \in Nat
  PROVE  2^n \in Nat \ {0}
<1>1. IsFiniteSet(1..n) /\ Cardinality(1..n) = n
  BY FS_Interval
<1>2. IsFiniteSet(SUBSET (1..n)) /\ Cardinality(SUBSET (1..n)) = 2^Cardinality(1..n)
  BY <1>1, FS_SUBSET, Zenon
<1>3. Cardinality(SUBSET (1..n)) \in Nat
  BY <1>2, FS_CardinalityType, Zenon
<1>4. Cardinality(SUBSET (1..n)) # 0
  <2>1. SUBSET (1..n) # {}
    OBVIOUS
  <2>. QED
    BY <1>2, <2>1, FS_EmptySet, Zenon
<1>5. Cardinality(SUBSET (1..n)) = 2^n
  BY <1>1, <1>2, Zenon
<1>6. Cardinality(SUBSET (1..n)) \in Nat \ {0}
  BY <1>3, <1>4
<1>. QED
  BY <1>5, <1>6, Zenon

\* A larger power of two counts more subsets.
LEMMA PowerMonotone ==
  ASSUME NEW m \in Nat, NEW n \in Nat, m <= n
  PROVE  2^m <= 2^n
<1>1. /\ IsFiniteSet(1..m) /\ Cardinality(1..m) = m
      /\ IsFiniteSet(1..n) /\ Cardinality(1..n) = n
  BY FS_Interval
<1>2. /\ Cardinality(SUBSET (1..m)) = 2^m
      /\ IsFiniteSet(SUBSET (1..n)) /\ Cardinality(SUBSET (1..n)) = 2^n
  <2>1. Cardinality(SUBSET (1..m)) = 2^Cardinality(1..m)
    BY <1>1, FS_SUBSET, Zenon
  <2>2. IsFiniteSet(SUBSET (1..n)) /\ Cardinality(SUBSET (1..n)) = 2^Cardinality(1..n)
    BY <1>1, FS_SUBSET, Zenon
  <2>. QED
    BY <1>1, <2>1, <2>2, Zenon
<1>3. SUBSET (1..m) \subseteq SUBSET (1..n)
  OBVIOUS
<1>4. Cardinality(SUBSET (1..m)) <= Cardinality(SUBSET (1..n))
  BY <1>2, <1>3, FS_Subset, Zenon
<1>. QED
  BY <1>2, <1>4, Zenon

\* f holds the values of the first N steps of a loop: it starts with x, and h is its body.
Computes(f, N, x, h) == f[0] = x /\ \A n \in 1..N : f[n] = h[<<n, f[n - 1]>>]

\* What a sampling loop or a walk computes exists.
LEMMA Steps ==
  ASSUME NEW V, NEW x \in V, NEW N \in Nat, NEW h \in [(1..N) \X V -> V]
  PROVE  \E f \in [0..N -> V] : Computes(f, N, x, h)
<1> USE DEF Computes
<1> DEFINE T == {m \in 0..N : ~\E f \in [0..m -> V] : Computes(f, m, x, h)}
<1>1. SUFFICES ASSUME T # {} PROVE FALSE
  <2>1. N \in 0..N
    OBVIOUS
  <2> QED BY <2>1
<1>2. PICK m \in T : \A k \in T : m <= k
  <2>1. T \subseteq Nat
    OBVIOUS
  <2> HIDE DEF T
  <2> QED BY <1>1, <2>1, LeastNat
<1>3. m \in 0..N /\ ~\E f \in [0..m -> V] : Computes(f, m, x, h)
  BY <1>2
<1>4. m # 0
  <2>1. ASSUME m = 0 PROVE FALSE
    <3> DEFINE f == [n \in 0..m |-> x]
    <3>1. f \in [0..m -> V] /\ Computes(f, m, x, h)
      BY <2>1
    <3> QED BY <1>3, <3>1
  <2> QED BY <2>1
<1>5. m - 1 \in 0..N /\ m - 1 \notin T
  BY <1>2, <1>3, <1>4
<1>6. PICK g \in [0..(m - 1) -> V] : Computes(g, m - 1, x, h)
  BY <1>5
<1> DEFINE f == [n \in 0..m |-> IF n = m THEN h[<<m, g[m - 1]>>] ELSE g[n]]
<1>7. h[<<m, g[m - 1]>>] \in V
  <2>1. m \in 1..N /\ g[m - 1] \in V
    BY <1>3, <1>4, <1>6
  <2>2. <<m, g[m - 1]>> \in (1..N) \X V
    BY <2>1
  <2> QED BY <2>2
<1>8. f \in [0..m -> V]
  BY <1>3, <1>6, <1>7
<1>9. Computes(f, m, x, h)
  <2>1. f[0] = x
    BY <1>3, <1>4, <1>6
  <2>2. ASSUME NEW n \in 1..m PROVE f[n] = h[<<n, f[n - 1]>>]
    <3>1. f[n - 1] = g[n - 1]
      BY <1>3
    <3>2. CASE n = m
      BY <3>1, <3>2
    <3>3. CASE n # m
      <4>1. n \in 1..(m - 1) /\ f[n] = g[n]
        BY <1>3, <3>3
      <4> QED BY <1>6, <3>1, <4>1
    <3> QED BY <3>2, <3>3
  <2> QED BY <2>1, <2>2
<1> QED BY <1>3, <1>8, <1>9

-----------------------------------------------------------------------------
(* The walks and the sampling loop *)

\* A walk stays where its steps stay.
LEMMA FollowIn ==
  ASSUME NEW B, NEW next \in [Tasks -> Tasks], \A b \in B : b \in Tasks /\ next[b] \in B,
         NEW a \in B
  PROVE  Follow(next, a) \in B
<1>1. TASKS \in Nat
  BY InheritAssumption
<1> DEFINE h == [p \in (1..TASKS) \X B |-> next[p[2]]]
           body(f) == [n \in 0..TASKS |-> IF n = 0 THEN a ELSE next[f[n - 1]]]
           at == CHOOSE f : f = body(f)
<1>2. h \in [(1..TASKS) \X B -> B]
  OBVIOUS
<1>3. PICK f \in [0..TASKS -> B] : Computes(f, TASKS, a, h)
  <2> HIDE DEF h
  <2> QED BY <1>1, <1>2, Steps, Zenon
<1>4. f = body(f)
  <2>1. ASSUME NEW n \in 0..TASKS PROVE f[n] = body(f)[n]
    <3>1. CASE n = 0
      BY <1>3, <3>1 DEF Computes
    <3>2. CASE n # 0
      <4>1. n \in 1..TASKS /\ f[n - 1] \in B
        BY <1>1, <1>3, <3>2
      <4>2. <<n, f[n - 1]>> \in (1..TASKS) \X B
        BY <4>1
      <4>3. h[<<n, f[n - 1]>>] = next[f[n - 1]]
        BY <4>2
      <4> QED BY <1>3, <3>2, <4>1, <4>3 DEF Computes
    <3> QED BY <3>1, <3>2
  <2> QED BY <1>3, <2>1
<1>5. at = body(at)
  <2> HIDE DEF body
  <2> QED BY <1>4
<1> DEFINE Off == {n \in 0..TASKS : at[n] \notin B}
<1>6. Off = {}
  <2> SUFFICES ASSUME Off # {} PROVE FALSE
    OBVIOUS
  <2>1. PICK n \in Off : \A m \in Off : n <= m
    <3>1. Off \subseteq Nat
      OBVIOUS
    <3> HIDE DEF Off
    <3> QED BY <3>1, LeastNat
  <2>2. at[n] = IF n = 0 THEN a ELSE next[at[n - 1]]
    <3>1. at[n] = body(at)[n]
      BY <1>5
    <3> HIDE DEF at
    <3> QED BY <2>1, <3>1
  <2> HIDE DEF at
  <2>3. n # 0
    BY <2>1, <2>2
  <2>4. at[n - 1] \in B
    BY <1>1, <2>1, <2>3
  <2> QED BY <2>1, <2>2, <2>3, <2>4
<1>7. Follow(next, a) = at[TASKS]
  BY DEF Follow
<1> HIDE DEF at
<1> QED BY <1>1, <1>6, <1>7

\* What a sample adds up to: no more tasks than the limit, none above the largest penalty.
LEMMA SampleBound ==
  ASSUME NEW p \in Nat, penalty \in [Tasks -> Nat], \A t \in Tasks : penalty[t] <= p,
         NEW list \in Seq(Tasks)
  PROVE  /\ Sample(list).count \in 0..SAMPLE_LIMIT /\ Sample(list).total \in Nat
         /\ Sample(list).total <= Sample(list).count * p
<1>1. SCAN_LIMIT \in Nat /\ SAMPLE_LIMIT \in Nat
  BY InheritAssumption
<1> DEFINE V == {s \in [count : 0..SAMPLE_LIMIT, total : Nat] : s.total <= s.count * p}
           Add(n, s) == IF n <= Len(list) /\ s.count < SAMPLE_LIMIT /\ Eligible(list[n])
                          THEN [count |-> s.count + 1, total |-> s.total + penalty[list[n]]]
                          ELSE s
           zero == [count |-> 0, total |-> 0]
           h == [q \in (1..SCAN_LIMIT) \X V |-> Add(q[1], q[2])]
           body(f) == [n \in 0..SCAN_LIMIT |-> IF n = 0 THEN zero ELSE Add(n, f[n - 1])]
           sample == CHOOSE f : f = body(f)
<1>2. zero \in V
  BY <1>1
<1>3. \A n \in 1..SCAN_LIMIT, s \in V : Add(n, s) \in V
  <2> SUFFICES ASSUME NEW n \in 1..SCAN_LIMIT, NEW s \in V,
                      n <= Len(list), s.count < SAMPLE_LIMIT
               PROVE  [count |-> s.count + 1, total |-> s.total + penalty[list[n]]] \in V
    OBVIOUS
  <2>1. /\ s.count \in Nat /\ s.count + 1 \in 0..SAMPLE_LIMIT /\ s.total \in Nat
        /\ s.total <= s.count * p
    BY <1>1
  <2>2. penalty[list[n]] \in Nat /\ penalty[list[n]] <= p
    <3>1. list[n] \in Tasks
      BY <1>1
    <3> QED BY <3>1
  <2>3. (s.count + 1) * p = s.count * p + p /\ s.count * p \in Nat
    <3>1. \A k \in Nat : (k + 1) * p = k * p + p /\ k * p \in Nat
      OBVIOUS
    <3> QED BY <2>1, <3>1
  <2>4. s.total + penalty[list[n]] \in Nat /\ s.total + penalty[list[n]] <= (s.count + 1) * p
    BY <2>1, <2>2, <2>3
  <2> QED BY <2>1, <2>4
<1>4. h \in [(1..SCAN_LIMIT) \X V -> V]
  <2> HIDE DEF V, Add
  <2> QED BY <1>3
<1>5. PICK f \in [0..SCAN_LIMIT -> V] : Computes(f, SCAN_LIMIT, zero, h)
  <2> HIDE DEF h, V, zero
  <2> QED BY <1>1, <1>2, <1>4, Steps, Zenon
<1>6. f = body(f)
  <2> HIDE DEF V, Add, zero
  <2>1. ASSUME NEW n \in 0..SCAN_LIMIT PROVE f[n] = body(f)[n]
    <3>1. CASE n = 0
      BY <1>5, <3>1 DEF Computes
    <3>2. CASE n # 0
      <4>1. n \in 1..SCAN_LIMIT /\ f[n - 1] \in V
        BY <1>1, <1>5, <3>2
      <4>2. <<n, f[n - 1]>> \in (1..SCAN_LIMIT) \X V
        BY <4>1
      <4>3. h[<<n, f[n - 1]>>] = Add(n, f[n - 1])
        BY <4>2
      <4> QED BY <1>5, <3>2, <4>1, <4>3 DEF Computes
    <3> QED BY <3>1, <3>2
  <2> QED BY <1>5, <2>1
<1>7. sample = body(sample)
  <2> HIDE DEF body
  <2> QED BY <1>6
<1> DEFINE Off == {n \in 0..SCAN_LIMIT : sample[n] \notin V}
<1>8. Off = {}
  <2> SUFFICES ASSUME Off # {} PROVE FALSE
    OBVIOUS
  <2>1. PICK n \in Off : \A m \in Off : n <= m
    <3>1. Off \subseteq Nat
      OBVIOUS
    <3> HIDE DEF Off
    <3> QED BY <3>1, LeastNat
  <2> HIDE DEF V, Add, zero
  <2>2. sample[n] = IF n = 0 THEN zero ELSE Add(n, sample[n - 1])
    <3>1. sample[n] = body(sample)[n]
      BY <1>7
    <3> HIDE DEF sample
    <3> QED BY <2>1, <3>1
  <2> HIDE DEF sample
  <2>3. n # 0
    BY <1>2, <2>1, <2>2
  <2>4. sample[n - 1] \in V /\ n \in 1..SCAN_LIMIT
    BY <1>1, <2>1, <2>3
  <2> QED BY <1>3, <2>1, <2>2, <2>3, <2>4
<1>9. Sample(list) = sample[SCAN_LIMIT]
  BY DEF Sample
<1>10. Sample(list) \in V
  <2> HIDE DEF sample, V
  <2> QED BY <1>1, <1>8, <1>9
<1> HIDE DEF sample
<1> QED BY <1>10

-----------------------------------------------------------------------------
(* The average *)

\* The quotient is the only number whose multiples enclose the dividend.
LEMMA DivUnique ==
  ASSUME NEW a \in Nat, NEW u \in Nat \ {0}, NEW k \in Nat, k * u <= a, a < (k + 1) * u
  PROVE  a \div u = k
<1> DEFINE q == a \div u
<1>1. q \in Nat /\ q * u <= a /\ a < (q + 1) * u
  BY DivDef
<1> HIDE DEF q
<1>2. ~(q > k)
  <2>1. ASSUME q > k PROVE (k + 1) * u <= q * u
    BY <1>1, <2>1, TimesMonotone
  <2>2. (k + 1) * u \in Nat /\ q * u \in Nat
    BY <1>1
  <2> QED BY <1>1, <2>1, <2>2
<1>3. ~(q < k)
  <2>1. ASSUME q < k PROVE (q + 1) * u <= k * u
    BY <1>1, <2>1, TimesMonotone
  <2>2. (q + 1) * u \in Nat /\ k * u \in Nat
    BY <1>1
  <2> QED BY <1>1, <2>1, <2>2
<1>4. q = k
  BY <1>1, <1>2, <1>3
<1> QED BY <1>4 DEF q

\* To multiply by L / n, rounded up, and divide by L is to divide by n, as long as the
\* rounding error n - 1 does not add up to L.
LEMMA Reciprocal ==
  ASSUME NEW L \in Nat, NEW n \in Nat, NEW total \in Nat,
         L >= 2, n >= 2, total * (n - 1) < L
  PROVE  /\ (L - 1 + n) \div n \in Nat /\ (L - 1 + n) \div n < L
         /\ (total * ((L - 1 + n) \div n)) \div L = total \div n
<1> DEFINE q == (L - 1 + n) \div n
           k == total \div n
<1>1. /\ q \in Nat /\ q * n <= L - 1 + n /\ L - 1 + n < (q + 1) * n
      /\ k \in Nat /\ k * n <= total /\ total < (k + 1) * n
  <2>1. L - 1 + n \in Nat /\ n \in Nat \ {0}
    OBVIOUS
  <2> QED BY <2>1, DivDef
<1>2. q < L
  <2>1. L - 1 + n < L * n
    <3>1. PICK x \in Nat, y \in Nat : L = x + 2 /\ n = y + 2
      <4>1. L = (L - 2) + 2 /\ n = (n - 2) + 2 /\ L - 2 \in Nat /\ n - 2 \in Nat
        OBVIOUS
      <4> QED BY <4>1
    <3>2. L * n = x * y + 2 * x + 2 * y + 4 /\ x * y \in Nat
      BY <3>1
    <3> QED BY <3>1, <3>2
  <2>2. L - 1 + n \in Nat /\ n \in Nat \ {0}
    OBVIOUS
  <2> QED BY <2>1, <2>2, DivLess
<1> HIDE DEF q, k
<1>3. L <= q * n /\ q * n \in Nat
  <2>1. (q + 1) * n = q * n + n /\ q * n \in Nat
    BY <1>1
  <2> QED BY <1>1, <2>1
<1>4. k * L <= total * q
  <2>1. L * k <= (q * n) * k
    BY <1>1, <1>3, TimesMonotone
  <2>2. (k * n) * q <= total * q
    <3>1. k * n \in Nat
      BY <1>1
    <3> QED BY <1>1, <3>1, TimesMonotone
  <2>3. (q * n) * k = (k * n) * q /\ (k * n) * q \in Nat /\ total * q \in Nat
        /\ L * k = k * L /\ k * L \in Nat
    BY <1>1
  <2> QED BY <2>1, <2>2, <2>3
<1>5. total * q < (k + 1) * L
  <2> SUFFICES ASSUME (k + 1) * L <= total * q PROVE FALSE
    BY <1>1
  <2>1. ((k + 1) * L) * n <= (total * q) * n
    <3>1. (k + 1) * L \in Nat /\ total * q \in Nat
      BY <1>1
    <3> QED BY <3>1, TimesMonotone
  <2>2. (q * n) * total <= (L - 1 + n) * total
    <3>1. q * n \in Nat /\ L - 1 + n \in Nat
      BY <1>1
    <3> QED BY <1>1, <3>1, TimesMonotone
  <2>3. (total + 1) * L <= ((k + 1) * n) * L
    <3>1. total + 1 <= (k + 1) * n /\ (k + 1) * n \in Nat
      BY <1>1
    <3> QED BY <1>1, <3>1, TimesMonotone
  <2>4. /\ (total * q) * n = (q * n) * total
        /\ ((k + 1) * L) * n = ((k + 1) * n) * L
        /\ {(total * q) * n, ((k + 1) * n) * L, total * L} \subseteq Nat
    BY <1>1
  <2>5. (L - 1 + n) * total = total * L + total * (n - 1) /\ (total + 1) * L = total * L + L
    OBVIOUS
  <2>6. total * (n - 1) \in Nat
    OBVIOUS
  <2> QED BY <2>1, <2>2, <2>3, <2>4, <2>5, <2>6
<1>6. (total * q) \div L = k
  BY <1>1, <1>4, <1>5, DivUnique
<1> QED BY <1>1, <1>2, <1>6 DEF q, k

\* The table gives the average, rounded down, of every sample.
LEMMA AverageExact ==
  ASSUME NEW n \in 0..SAMPLE_LIMIT, NEW total \in Nat, total <= n * MAX_PENALTY
  PROVE  average_penalty(total, n) = IF n = 0 THEN 0 ELSE total \div n
<1>1. SAMPLE_LIMIT \in Nat /\ MAX_PENALTY \in Nat /\ LUT_BITS \in Nat /\ LUT_BITS >= 1 /\ n \in Nat
  BY InheritAssumption
<1> DEFINE L == 2^LUT_BITS
<1>2. L \in Nat /\ L >= 2
  <2>1. 2^1 <= 2^LUT_BITS
    BY <1>1, PowerMonotone
  <2>2. 2^1 = 2
    OBVIOUS
  <2>3. 2^LUT_BITS \in Nat
    BY <1>1, PowerOfTwo
  <2> QED BY <2>1, <2>2, <2>3
<1>3. SAMPLE_LIMIT * MAX_PENALTY * (SAMPLE_LIMIT - 1) < L
  BY InheritAssumption
<1> HIDE DEF L
<1>4. CASE n = 0
  BY <1>4 DEF average_penalty
<1>5. CASE n = 1
  BY <1>5 DEF average_penalty
<1>6. CASE n >= 2
  <2>1. total * (n - 1) < L
    <3>1. total * (n - 1) <= (n * MAX_PENALTY) * (n - 1)
      <4>1. n * MAX_PENALTY \in Nat /\ n - 1 \in Nat
        BY <1>1, <1>6
      <4> QED BY <4>1, TimesMonotone
    <3>2. n * (MAX_PENALTY * (n - 1)) <= SAMPLE_LIMIT * (MAX_PENALTY * (n - 1))
      <4>1. MAX_PENALTY * (n - 1) \in Nat
        BY <1>1, <1>6
      <4> QED BY <1>1, <4>1, TimesMonotone
    <3>3. (n - 1) * (SAMPLE_LIMIT * MAX_PENALTY)
             <= (SAMPLE_LIMIT - 1) * (SAMPLE_LIMIT * MAX_PENALTY)
      <4>1. SAMPLE_LIMIT * MAX_PENALTY \in Nat /\ n - 1 \in Nat /\ SAMPLE_LIMIT - 1 \in Nat
            /\ n - 1 <= SAMPLE_LIMIT - 1
        BY <1>1, <1>6
      <4> QED BY <4>1, TimesMonotone
    <3>4. /\ (n * MAX_PENALTY) * (n - 1) = n * (MAX_PENALTY * (n - 1))
          /\ SAMPLE_LIMIT * (MAX_PENALTY * (n - 1)) = (n - 1) * (SAMPLE_LIMIT * MAX_PENALTY)
          /\ (SAMPLE_LIMIT - 1) * (SAMPLE_LIMIT * MAX_PENALTY)
               = SAMPLE_LIMIT * MAX_PENALTY * (SAMPLE_LIMIT - 1)
      BY <1>1, <1>6
    <3>5. {total * (n - 1), (n * MAX_PENALTY) * (n - 1), (n - 1) * (SAMPLE_LIMIT * MAX_PENALTY),
           SAMPLE_LIMIT * MAX_PENALTY * (SAMPLE_LIMIT - 1)} \subseteq Int
      BY <1>1, <1>6
    <3> QED BY <1>2, <1>3, <3>1, <3>2, <3>3, <3>4, <3>5
  <2> DEFINE q == (L - 1 + n) \div n
  <2>2. q \in Nat /\ q < L /\ (total * q) \div L = total \div n
    BY <1>1, <1>2, <1>6, <2>1, Reciprocal
  <2>3. lut[n] = q % L
    BY <1>1, <1>6 DEF lut, L
  <2> HIDE DEF q
  <2>4. q % L = q
    BY <1>2, <2>2
  <2> QED BY <1>6, <2>2, <2>3, <2>4 DEF average_penalty, L
<1> QED BY <1>1, <1>4, <1>5, <1>6

-----------------------------------------------------------------------------
(* The inductive invariant *)

ForkRecord ==
  [step : {"none", "start", "look", "write", "inherit", "attach"}, by : Tasks, kind : Kinds,
   now : 0..MAX_TIME, method : {"none", "parent", "hub", "group"}, owner : Tasks,
   count : 0..SAMPLE_LIMIT, total : Nat, raced : BOOLEAN, settled : BOOLEAN, type : 0..2]

TreeTyped ==
  /\ status \in [Tasks -> {"unborn", "forking", "live", "zombie", "gone"}]
  /\ real_parent \in [Tasks -> Tasks] /\ leader \in [Tasks -> Tasks]
  /\ children \in [Tasks -> Seq(Tasks)] /\ threads \in [Tasks -> Seq(Tasks)]

CtxTyped ==
  /\ prev_penalty \in [Tasks -> Penalty] /\ penalty \in [Tasks -> Penalty]
  /\ subtree \in [Tasks -> Cache] /\ group \in [Tasks -> Cache]

ForkTyped == fork \in [Tasks -> ForkRecord]

RestTyped ==
  /\ clock \in BOOT..MAX_TIME /\ rt \in [Tasks -> BOOLEAN]
  /\ inherit_type \in TYPES \union {2} /\ inherit_key \in BOOLEAN /\ ancestor_key \in BOOLEAN
  /\ writer \in [Writers -> {"idle", "written", "chosen", "half"}]
  /\ chosen \in [Writers -> 0..2] /\ overlapped \in BOOLEAN
  /\ used \in 0..MAX_WORK /\ peak \in Penalty

\* TypeOK, with the types of all the fields of the forks.
Typed == TreeTyped /\ CtxTyped /\ ForkTyped /\ RestTyped

\* Nothing that waits to become a penalty is above the peak: not a cache, not the average
\* of a sample that is about to be cached.
Bounded ==
  /\ NoInventedPenalty
  /\ \A t \in Tasks : subtree[t].penalty <= peak /\ group[t].penalty <= peak
  /\ \A c \in Tasks : fork[c].total <= fork[c].count * peak

\* Parents, leaders, creators and those who hold a cache for a fork are tasks that have
\* been attached.
Born == {t \in Tasks : status[t] \notin {"unborn", "forking"}}
Rooted ==
  /\ ROOT \in Born
  /\ \A t \in Tasks : real_parent[t] \in Born /\ (leader[t] \in Born \/ leader[t] = t)
  /\ \A c \in Tasks : fork[c].by \in Born /\ fork[c].owner \in Born

\* No cache claims to be younger than it is, no fork started later than now; and the caches
\* that forks are about to read back are fresh.
Fresh ==
  /\ \A t \in Tasks : timestamp(subtree[t]) <= subtree[t].made /\ timestamp(group[t]) <= group[t].made
  /\ \A c \in Tasks : fork[c].now <= clock
  /\ FreshUnlessRaced

\* A write that overlapped no other is alone until it is done, and how the keys then stand to
\* the type at each of its steps.
Keyed ==
  ~overlapped =>
    /\ \A v, w \in Writers : writer[v] # "idle" /\ writer[w] # "idle" => v = w
    /\ \A w \in Writers :
         /\ writer[w] = "chosen" => chosen[w] = inherit_type
         /\ writer[w] = "half" => chosen[w] = inherit_type /\ inherit_type # 0 /\ inherit_key
    /\ (\A w \in Writers : writer[w] = "idle") =>
         /\ inherit_key <=> inherit_type # 0
         /\ inherit_key => (ancestor_key <=> inherit_type = 2)

\* What a fork has seen.
Chosen ==
  /\ Keyed
  /\ \A c \in Tasks : LET f == fork[c] IN
       /\ f.step = "look" /\ f.settled /\ f.kind # "thread" => f.type # 0
       /\ f.step = "start" => f.method = "none"
  /\ MethodMatchesType

IInv == Typed /\ Bounded /\ Rooted /\ Fresh /\ Chosen

\* The constants, one by one.
LEMMA Constants ==
  /\ TASKS \in Nat \ {0} /\ GRAIN \in Nat \ {0}
  /\ SAMPLE_LIMIT \in Nat \ {0} /\ MAX_PENALTY \in Nat
  /\ LIFETIME \in Nat /\ BOOT \in Nat /\ MAX_TIME \in Nat /\ BOOT <= MAX_TIME /\ MAX_WORK \in Nat
  /\ LOADS \in Seq(Burst) /\ Len(LOADS) \in 2..TASKS /\ BURSTS \subseteq Burst /\ TYPES \subseteq 0..2
  /\ ROOT \in Tasks /\ CHILDREN \in Nat /\ CHILDREN \in Tasks
BY InheritAssumption DEF Tasks, ROOT, CHILDREN

\* Which steps change which variables: the parts of the invariant are shown one by one,
\* each for the steps that could disturb it.
LEMMA Changes ==
  ASSUME [Next]_vars
  PROVE  /\ \/ UNCHANGED tree
            \/ \E t, c \in Tasks, kind \in Kinds : Dup(t, c, kind)
            \/ \E c \in Tasks : Attach(c)
            \/ \E t \in Tasks : Exit(t) \/ Release(t)
         /\ \/ UNCHANGED ctx
            \/ \E t, c \in Tasks, kind \in Kinds : Dup(t, c, kind)
            \/ \E c \in Tasks : Update(c) \/ Inherit(c)
            \/ \E t \in Tasks, b \in BURSTS : Work(t, b[1], b[2])
            \/ \E t \in Tasks : JoinFair(t)
         /\ \/ UNCHANGED fork
            \/ \E t, c \in Tasks, kind \in Kinds : Dup(t, c, kind)
            \/ \E c \in Tasks : Start(c) \/ Look(c) \/ Update(c) \/ Inherit(c) \/ Attach(c)
         /\ \/ UNCHANGED keys
            \/ \E w \in Writers, v \in TYPES : WriteType(w, v)
            \/ \E w \in Writers : ReadType(w) \/ SwitchInherit(w) \/ SwitchAncestor(w)
         /\ UNCHANGED peak \/ \E t \in Tasks, b \in BURSTS : Work(t, b[1], b[2])
         /\ UNCHANGED clock \/ Tick
<1>1. CASE UNCHANGED vars
  BY <1>1 DEF vars
<1>2. CASE \E t, c \in Tasks, kind \in Kinds : Dup(t, c, kind)
  BY <1>2 DEF Dup
<1>3. CASE \E c \in Tasks : Start(c)
  BY <1>3 DEF Start
<1>4. CASE \E c \in Tasks : Look(c)
  BY <1>4, Zenon DEF Look
<1>5. CASE \E c \in Tasks : Update(c)
  BY <1>5, Zenon DEF Update
<1>6. CASE \E c \in Tasks : Inherit(c)
  BY <1>6, Zenon DEF Inherit
<1>7. CASE \E c \in Tasks : Attach(c)
  BY <1>7, Zenon DEF Attach
<1>8. CASE \E t \in Tasks, b \in BURSTS : Work(t, b[1], b[2])
  BY <1>8, Zenon DEF Work
<1>9. CASE \E t \in Tasks : JoinRT(t)
  BY <1>9, Zenon DEF JoinRT
<1>10. CASE \E t \in Tasks : JoinFair(t)
  BY <1>10, Zenon DEF JoinFair
<1>11. CASE \E t \in Tasks : Exit(t)
  BY <1>11, Zenon DEF Exit
<1>12. CASE \E t \in Tasks : Release(t)
  BY <1>12, Zenon DEF Release
<1>13. CASE Tick
  BY <1>13 DEF Tick
<1>14. CASE \E w \in Writers, v \in TYPES : WriteType(w, v)
  BY <1>14, Zenon DEF WriteType
<1>15. CASE \E w \in Writers : ReadType(w) \/ SwitchInherit(w)
  BY <1>15, Zenon DEF ReadType, SwitchInherit
<1>16. CASE \E w \in Writers : SwitchAncestor(w)
  BY <1>16, Zenon DEF SwitchAncestor
<1> QED
  BY <1>1, <1>2, <1>3, <1>4, <1>5, <1>6, <1>7, <1>8, <1>9, <1>10, <1>11, <1>12, <1>13, <1>14,
     <1>15, <1>16, Zenon DEF Next, Fork

-----------------------------------------------------------------------------
(* Types *)

\* A list without one of its members is a list.
LEMMA UnlinkTyped ==
  ASSUME NEW list \in Seq(Tasks), NEW t
  PROVE  Unlink(list, t) \in Seq(Tasks)
<1>1. CASE t \notin Range(list)
  BY <1>1 DEF Unlink
<1>2. CASE t \in Range(list)
  <2> DEFINE i == CHOOSE i \in DOMAIN list : list[i] = t
  <2>1. i \in DOMAIN list
    BY <1>2 DEF Range
  <2> HIDE DEF i
  <2>2. SubSeq(list, 1, i - 1) \in Seq(Tasks) /\ SubSeq(list, i + 1, Len(list)) \in Seq(Tasks)
    BY <2>1
  <2>3. Unlink(list, t) = SubSeq(list, 1, i - 1) \o SubSeq(list, i + 1, Len(list))
    BY <1>2 DEF Unlink, i
  <2> QED BY <2>2, <2>3
<1> QED BY <1>1, <1>2

\* The tree of tasks keeps its types.
LEMMA TreeStep ==
  ASSUME Typed, [Next]_vars
  PROVE  TreeTyped'
<1> USE DEF TreeTyped
<1>0. TreeTyped /\ \A c \in Tasks : fork[c].by \in Tasks
  BY DEF Typed, ForkTyped, ForkRecord
<1>1. CASE UNCHANGED tree
  BY <1>0, <1>1 DEF tree
<1>2. ASSUME NEW t \in Tasks, NEW c \in Tasks, NEW kind \in Kinds, Dup(t, c, kind)
      PROVE  TreeTyped'
  BY <1>0, <1>2 DEF Dup
<1>3. ASSUME NEW c \in Tasks, Attach(c) PROVE TreeTyped'
  <2> DEFINE f == fork[c]
             parent == IF f.kind = "process" THEN f.by ELSE real_parent[f.by]
  <2>1. parent \in Tasks /\ leader[c] \in Tasks
    BY <1>0
  <2>2. /\ real_parent' = [real_parent EXCEPT ![c] = parent]
        /\ children' = IF f.kind = "thread" THEN children
                       ELSE [children EXCEPT ![parent] = Append(@, c)]
        /\ threads' = [threads EXCEPT ![leader[c]] = Append(@, c)]
        /\ status' = [status EXCEPT ![c] = "live"] /\ leader' = leader
    BY <1>3, Zenon DEF Attach
  <2> HIDE DEF parent, f
  <2>3. Append(children[parent], c) \in Seq(Tasks) /\ Append(threads[leader[c]], c) \in Seq(Tasks)
    BY <1>0, <2>1
  <2> QED BY <1>0, <2>1, <2>2, <2>3
<1>4. ASSUME NEW t \in Tasks, Exit(t) PROVE TreeTyped'
  <2> DEFINE reaper == IF Others(t) = {} THEN ROOT ELSE CHOOSE u \in Others(t) : TRUE
  <2>1. reaper \in Tasks
    BY Constants DEF Others
  <2>2. /\ status' = [status EXCEPT ![t] = "zombie"]
        /\ real_parent' =
             [u \in Tasks |-> IF u # t /\ real_parent[u] = t THEN reaper ELSE real_parent[u]]
        /\ children' = [children EXCEPT ![reaper] = @ \o children[t], ![t] = <<>>]
        /\ leader' = leader /\ threads' = threads
    BY <1>4, Zenon DEF Exit
  <2> HIDE DEF reaper
  <2>3. children[reaper] \o children[t] \in Seq(Tasks) /\ <<>> \in Seq(Tasks)
    BY <1>0, <2>1
  <2> QED BY <1>0, <2>1, <2>2, <2>3
<1>5. ASSUME NEW t \in Tasks, Release(t) PROVE TreeTyped'
  <2>1. /\ status' = [status EXCEPT ![t] = "gone"]
        /\ threads' = [threads EXCEPT ![leader[t]] = Unlink(@, t)]
        /\ children' = [children EXCEPT ![real_parent[t]] = Unlink(@, t)]
        /\ leader' = leader /\ real_parent' = real_parent
    BY <1>5, Zenon DEF Release
  <2>2. Unlink(threads[leader[t]], t) \in Seq(Tasks) /\ Unlink(children[real_parent[t]], t) \in Seq(Tasks)
    BY <1>0, UnlinkTyped
  <2> QED BY <1>0, <2>1, <2>2
<1> QED
  BY <1>1, <1>2, <1>3, <1>4, <1>5, Changes, Zenon

\* The table yields no average above the largest penalty of the sample.
LEMMA AverageBound ==
  ASSUME NEW n \in 0..SAMPLE_LIMIT, NEW total \in Nat, NEW p \in Penalty, total <= n * p
  PROVE  average_penalty(total, n) \in Nat /\ average_penalty(total, n) <= p
<1>1. n \in Nat /\ p \in Nat /\ MAX_PENALTY \in Nat /\ p <= MAX_PENALTY
  BY Constants DEF Penalty
<1>2. average_penalty(total, n) = IF n = 0 THEN 0 ELSE total \div n
  <2>1. total <= n * MAX_PENALTY
    <3>1. p * n <= MAX_PENALTY * n
      BY <1>1, TimesMonotone
    <3>2. p * n = n * p /\ MAX_PENALTY * n = n * MAX_PENALTY /\ n * p \in Nat
          /\ n * MAX_PENALTY \in Nat
      BY <1>1
    <3> QED BY <3>1, <3>2
  <2> QED BY <2>1, AverageExact
<1>3. CASE n = 0
  BY <1>1, <1>2, <1>3
<1>4. CASE n # 0
  <2>1. total \div n \in Nat
    BY <1>1, <1>4, DivDef
  <2>2. total < (p + 1) * n
    <3>1. (p + 1) * n = n * p + n /\ n * p \in Nat
      BY <1>1
    <3> QED BY <1>1, <1>4, <3>1
  <2>3. total \div n < p + 1
    BY <1>1, <1>4, <2>2, DivLess
  <2> QED BY <1>1, <1>2, <1>4, <2>1, <2>3
<1> QED BY <1>3, <1>4

\* What update_burst_cache writes is not above the peak, and not younger than its time stamp.
LEMMA UpdateWrites ==
  ASSUME Typed, Bounded, NEW c \in Tasks, Update(c)
  PROVE  LET f == fork[c]
             q == Larger(average_penalty(f.total, f.count), penalty[f.owner])
             new_bc == [time |-> f.now \div GRAIN, penalty |-> q, made |-> f.now]
         IN  /\ f.step = "write" /\ q \in Nat /\ q <= peak /\ new_bc \in Cache
             /\ timestamp(new_bc) <= f.now
             /\ IF f.method = "group"
                THEN group' = [group EXCEPT ![f.owner] = new_bc] /\ subtree' = subtree
                ELSE subtree' = [subtree EXCEPT ![f.owner] = new_bc] /\ group' = group
             /\ fork' = [d \in Tasks |->
                  IF d = c THEN [f EXCEPT !.step = "inherit"]
                  ELSE [fork[d] EXCEPT !.raced =
                          @ \/ (fork[d].step \in {"write", "inherit"} /\ SameCache(f, fork[d]))]]
<1> DEFINE f == fork[c]
           avg == average_penalty(f.total, f.count)
           q == Larger(avg, penalty[f.owner])
           new_bc == [time |-> f.now \div GRAIN, penalty |-> q, made |-> f.now]
<1>1. /\ f.owner \in Tasks /\ f.now \in 0..MAX_TIME /\ f.count \in 0..SAMPLE_LIMIT /\ f.total \in Nat
      /\ f.total <= f.count * peak /\ peak \in Penalty
  BY DEF Typed, ForkTyped, ForkRecord, RestTyped, Bounded
<1>2. avg \in Nat /\ avg <= peak
  BY <1>1, AverageBound
<1>3. penalty[f.owner] \in Nat /\ penalty[f.owner] <= peak
  BY <1>1 DEF Typed, CtxTyped, Bounded, NoInventedPenalty, Penalty
<1>4. new_bc = Stamp(pack(f.now, q), f.now)
  BY DEF Stamp, pack
<1>5. /\ f.step = "write"
      /\ IF f.method = "group"
         THEN group' = [group EXCEPT ![f.owner] = new_bc] /\ subtree' = subtree
         ELSE subtree' = [subtree EXCEPT ![f.owner] = new_bc] /\ group' = group
      /\ fork' = [d \in Tasks |->
              IF d = c THEN [f EXCEPT !.step = "inherit"]
              ELSE [fork[d] EXCEPT !.raced =
                      @ \/ (fork[d].step \in {"write", "inherit"} /\ SameCache(f, fork[d]))]]
  BY <1>4, Zenon DEF Update, At
<1> HIDE DEF avg
<1>6. q \in Nat /\ q <= peak
  BY <1>2, <1>3 DEF Larger
<1>7. f.now \div GRAIN \in 0..MAX_TIME /\ (f.now \div GRAIN) * GRAIN <= f.now
  <2>1. f.now \in Nat /\ GRAIN \in Nat \ {0}
    BY <1>1, Constants
  <2>2. f.now \div GRAIN \in Nat /\ (f.now \div GRAIN) * GRAIN <= f.now
    BY <2>1, DivDef
  <2>3. f.now \div GRAIN <= (f.now \div GRAIN) * GRAIN
    <3>1. \A x \in Nat : x <= x * GRAIN
      <4>1. TAKE x \in Nat
      <4>2. 1 * x <= GRAIN * x
        BY Constants, TimesMonotone
      <4> QED BY <4>2, Constants
    <3> QED BY <2>2, <3>1
  <2> HIDE DEF f
  <2>4. (f.now \div GRAIN) * GRAIN \in Nat
    BY <2>1, <2>2
  <2> QED BY <1>1, <2>1, <2>2, <2>3, <2>4, Constants
<1> HIDE DEF q
<1>8. new_bc \in Cache /\ timestamp(new_bc) <= f.now
  <2>1. q \in Penalty
    BY <1>1, <1>6, Constants DEF Penalty
  <2> HIDE DEF f
  <2> QED BY <1>1, <1>7, <2>1 DEF Cache, timestamp
<1> QED BY <1>5, <1>6, <1>8 DEF q, avg

\* Contexts keep their types; penalties their range, because averages do.
LEMMA CtxStep ==
  ASSUME Typed, Bounded, [Next]_vars
  PROVE  CtxTyped'
<1> USE DEF CtxTyped
<1>0. CtxTyped /\ clock \in 0..MAX_TIME /\ MAX_PENALTY \in Nat /\ MAX_TIME \in Nat
  BY Constants DEF Typed, RestTyped
<1>1. CASE UNCHANGED ctx
  BY <1>0, <1>1 DEF ctx
<1>2. ASSUME NEW t \in Tasks, NEW c \in Tasks, NEW kind \in Kinds, Dup(t, c, kind)
      PROVE  CtxTyped'
  BY <1>0, <1>2 DEF Dup
<1>3. ASSUME NEW c \in Tasks, Update(c) PROVE CtxTyped'
  <2> DEFINE f == fork[c]
             q == Larger(average_penalty(f.total, f.count), penalty[f.owner])
             new_bc == [time |-> f.now \div GRAIN, penalty |-> q, made |-> f.now]
  <2>1. /\ new_bc \in Cache
        /\ IF f.method = "group"
           THEN group' = [group EXCEPT ![f.owner] = new_bc] /\ subtree' = subtree
           ELSE subtree' = [subtree EXCEPT ![f.owner] = new_bc] /\ group' = group
    BY <1>3, UpdateWrites
  <2>2. prev_penalty' = prev_penalty /\ penalty' = penalty
    BY <1>3, Zenon DEF Update
  <2> HIDE DEF new_bc, f
  <2> QED BY <1>0, <2>1, <2>2
<1>4. ASSUME NEW c \in Tasks, Inherit(c) PROVE CtxTyped'
  <2> DEFINE f == fork[c]
             inherited == IF f.method = "none" THEN 0 ELSE CacheOf(f).penalty
             prev == Larger(prev_penalty[c], inherited)
  <2>1. f.owner \in Tasks
    BY DEF Typed, ForkTyped, ForkRecord
  <2>2. inherited \in Penalty
    BY <1>0, <2>1 DEF CacheOf, Cache, Penalty
  <2>3. /\ prev_penalty' = [prev_penalty EXCEPT ![c] = prev]
        /\ penalty' = [penalty EXCEPT ![c] = prev]
        /\ subtree' = subtree /\ group' = group
    BY <1>4, Zenon DEF Inherit
  <2> HIDE DEF inherited
  <2>4. prev \in Penalty
    BY <1>0, <2>2 DEF Larger, Penalty
  <2> HIDE DEF prev
  <2> QED BY <1>0, <2>3, <2>4
<1>5. ASSUME NEW t \in Tasks, NEW b \in BURSTS, Work(t, b[1], b[2]) PROVE CtxTyped'
  <2>1. b[1] \in Penalty /\ b[2] \in Penalty
    BY Constants DEF Burst
  <2> QED BY <1>0, <1>5, <2>1 DEF Work
<1>6. ASSUME NEW t \in Tasks, JoinFair(t) PROVE CtxTyped'
  <2>1. EmptyCache(clock) \in Cache /\ 0 \in Penalty
    BY <1>0 DEF EmptyCache, Stamp, Cache, Penalty
  <2> QED BY <1>0, <1>6, <2>1 DEF JoinFair
<1> QED
  BY <1>1, <1>2, <1>3, <1>4, <1>5, <1>6, Changes, Zenon

\* The task whose cache holds for a fork is one of those that parents and the creator's
\* leader lead to.
LEMMA OwnerIn ==
  ASSUME Typed, NEW c \in Tasks, NEW method \in {"parent", "hub", "group"},
         NEW B \in SUBSET Tasks, \A b \in B : real_parent[b] \in B,
         fork[c].by \in B, leader[fork[c].by] \in B
  PROVE  Owner(fork[c], method) \in B
<1> DEFINE f == fork[c]
           above == f.kind = "sibling"
           origin == IF above THEN real_parent[f.by] ELSE f.by
           sole == IF above THEN 1 ELSE 0
           next == [a \in Tasks |-> IF GoesUp(a, 1) THEN real_parent[a] ELSE a]
<1>1. origin \in B
  OBVIOUS
<1> HIDE DEF origin
<1>2. Hub(origin, sole) \in B
  <2>1. next \in [Tasks -> Tasks] /\ \A b \in B : b \in Tasks /\ next[b] \in B
    <3>1. real_parent \in [Tasks -> Tasks]
      BY DEF Typed, TreeTyped
    <3> QED BY <3>1
  <2> HIDE DEF next
  <2>2. Follow(next, real_parent[origin]) \in B
    <3>1. real_parent[origin] \in B
      BY <1>1
    <3> QED BY <2>1, <3>1, FollowIn
  <2> QED BY <1>1, <2>2 DEF Hub, next
<1>3. CASE method = "group"
  BY <1>3 DEF Owner
<1>4. CASE method = "parent"
  BY <1>1, <1>4 DEF Owner, origin
<1>5. CASE method = "hub"
  BY <1>2, <1>5 DEF Owner, origin
<1> QED BY <1>3, <1>4, <1>5

\* A family is a list of tasks.
LEMMA FamilyTyped ==
  ASSUME Typed, NEW method \in {"parent", "hub", "group"}, NEW a \in Tasks
  PROVE  Family(method, a) \in Seq(Tasks)
<1>1. children \in [Tasks -> Seq(Tasks)] /\ threads \in [Tasks -> Seq(Tasks)]
  BY DEF Typed, TreeTyped
<1>2. CASE method = "group"
  BY <1>1, <1>2 DEF Family
<1>3. CASE method = "parent"
  BY <1>1, <1>3 DEF Family
<1>4. CASE method = "hub"
  <2> DEFINE next == [d \in Tasks |-> IF Len(children[d]) = 1 THEN Head(children[d]) ELSE d]
             direct == children[a]
  <2>1. next \in [Tasks -> Tasks]
    <3>1. ASSUME NEW d \in Tasks, Len(children[d]) = 1 PROVE Head(children[d]) \in Tasks
      <4>1. \A s \in Seq(Tasks) : Len(s) = 1 => Head(s) \in Tasks
        OBVIOUS
      <4>2. children[d] \in Seq(Tasks)
        BY <1>1
      <4> QED BY <3>1, <4>1, <4>2
    <3> QED BY <3>1
  <2> HIDE DEF next
  <2>2. \A t \in Tasks : Follow(next, t) \in Tasks
    <3>1. \A t \in Tasks : t \in Tasks /\ next[t] \in Tasks
      BY <2>1
    <3> QED BY <2>1, <3>1, FollowIn
  <2>3. \A t \in Tasks : Leaf(t) \in Tasks
    BY <2>2 DEF Leaf, next
  <2>4. direct \in Seq(Tasks)
    BY <1>1
  <2>5. Family(method, a) = [i \in DOMAIN direct |-> Leaf(direct[i])]
    BY <1>4 DEF Family
  <2> HIDE DEF direct
  <2>6. \A i \in DOMAIN direct : Leaf(direct[i]) \in Tasks
    BY <2>3, <2>4
  <2> QED BY <2>4, <2>5, <2>6
<1> QED BY <1>2, <1>3, <1>4

\* What a fork finds when it looks: the cache to read, or a sample for it.
LEMMA LookFinds ==
  ASSUME Typed, Bounded, NEW c \in Tasks, Look(c)
  PROVE  \E r \in ForkRecord :
           /\ fork' = [fork EXCEPT ![c] = r]
           /\ fork[c].step = "look" /\ r.step \in {"write", "inherit"}
           /\ r.by = fork[c].by /\ r.now = fork[c].now
           /\ r.kind = fork[c].kind /\ r.type = fork[c].type
           /\ r.method = IF r.kind = "thread" THEN "group" ELSE IF ancestor_key THEN "hub" ELSE "parent"
           /\ r.owner = Owner(fork[c], r.method)
           /\ r.settled => fork[c].settled /\ Settled /\ r.type = inherit_type
           /\ r.total <= r.count * peak
           /\ r.step = "inherit" => ~is_expired(CacheOf(r), r.now)
<1> DEFINE f == fork[c]
           method == IF f.kind = "thread" THEN "group" ELSE IF ancestor_key THEN "hub" ELSE "parent"
           settled == f.settled /\ Settled /\ f.type = inherit_type
           found == [f EXCEPT !.method = method, !.owner = Owner(f, method), !.settled = settled]
           sample == Sample(Family(method, found.owner))
           r == IF is_expired(CacheOf(found), f.now)
                THEN [found EXCEPT !.step = "write", !.count = sample.count, !.total = sample.total]
                ELSE [found EXCEPT !.step = "inherit"]
<1>1. f \in ForkRecord /\ f.total <= f.count * peak
  BY DEF Typed, ForkTyped, Bounded
<1>2. method \in {"parent", "hub", "group"}
      /\ method = IF f.kind = "thread" THEN "group" ELSE IF ancestor_key THEN "hub" ELSE "parent"
  OBVIOUS
<1>3. f.step = "look" /\ fork' = [fork EXCEPT ![c] = r]
  BY Zenon DEF Look, At
<1>4. settled \in BOOLEAN
  BY Zenon DEF Settled
<1> HIDE DEF method, settled
<1>5. Owner(f, method) \in Tasks
  <2>1. \A b \in Tasks : real_parent[b] \in Tasks
    BY DEF Typed, TreeTyped
  <2>2. f.by \in Tasks /\ leader[f.by] \in Tasks
    BY <1>1 DEF Typed, TreeTyped, ForkRecord
  <2> QED BY <1>2, <2>1, <2>2, OwnerIn
<1>6. /\ found \in ForkRecord
      /\ found.method = method /\ found.owner = Owner(f, method) /\ found.settled = settled
      /\ found.by = f.by /\ found.now = f.now /\ found.kind = f.kind /\ found.type = f.type
      /\ found.count = f.count /\ found.total = f.total
  BY <1>1, <1>2, <1>4, <1>5 DEF ForkRecord
<1> HIDE DEF found, f
<1>7. /\ sample.count \in 0..SAMPLE_LIMIT /\ sample.total \in Nat
      /\ sample.total <= sample.count * peak
  <2>1. Family(method, found.owner) \in Seq(Tasks)
    BY <1>2, <1>5, <1>6, FamilyTyped
  <2>2. /\ peak \in Nat /\ penalty \in [Tasks -> Nat]
        /\ \A t \in Tasks : penalty[t] <= peak
    BY DEF Typed, CtxTyped, RestTyped, Penalty, Bounded, NoInventedPenalty
  <2> QED BY <2>1, <2>2, SampleBound
<1> HIDE DEF sample
<1>8. CASE is_expired(CacheOf(found), f.now)
  <2> DEFINE w == [found EXCEPT !.step = "write", !.count = sample.count, !.total = sample.total]
  <2>1. /\ w \in ForkRecord /\ w.step = "write" /\ w.by = found.by /\ w.now = found.now
        /\ w.kind = found.kind /\ w.type = found.type /\ w.method = found.method
        /\ w.owner = found.owner /\ w.settled = found.settled
        /\ w.total = sample.total /\ w.count = sample.count
    BY <1>6, <1>7 DEF ForkRecord
  <2>2. r = w
    BY <1>8, Zenon
  <2> HIDE DEF w, r
  <2>3. w.total <= w.count * peak /\ w.step # "inherit" /\ w.step \in {"write", "inherit"}
    BY <1>7, <2>1
  <2>4. w.settled => f.settled /\ Settled /\ w.type = inherit_type
    BY <1>6, <2>1, Zenon DEF settled
  <2>5. w.method = IF w.kind = "thread" THEN "group" ELSE IF ancestor_key THEN "hub" ELSE "parent"
    BY <1>2, <1>6, <2>1, Zenon
  <2>6. w.owner = Owner(f, w.method)
    BY <1>6, <2>1, Zenon
  <2> QED BY <1>3, <1>6, <2>1, <2>2, <2>3, <2>4, <2>5, <2>6, Zenon DEF f
<1>9. CASE ~is_expired(CacheOf(found), f.now)
  <2> DEFINE w == [found EXCEPT !.step = "inherit"]
  <2>1. /\ w \in ForkRecord /\ w.step = "inherit" /\ w.by = found.by /\ w.now = found.now
        /\ w.kind = found.kind /\ w.type = found.type /\ w.method = found.method
        /\ w.owner = found.owner /\ w.settled = found.settled
        /\ w.total = found.total /\ w.count = found.count
    BY <1>6 DEF ForkRecord
  <2>2. r = w
    BY <1>9, Zenon
  <2> HIDE DEF w, r
  <2>3. w.total <= w.count * peak /\ w.step \in {"write", "inherit"}
    BY <1>1, <1>6, <2>1
  <2>4. w.settled => f.settled /\ Settled /\ w.type = inherit_type
    BY <1>6, <2>1, Zenon DEF settled
  <2>5. w.method = IF w.kind = "thread" THEN "group" ELSE IF ancestor_key THEN "hub" ELSE "parent"
    BY <1>2, <1>6, <2>1, Zenon
  <2>6. w.owner = Owner(f, w.method)
    BY <1>6, <2>1, Zenon
  <2>7. ~is_expired(CacheOf(w), w.now)
    <3>1. CacheOf(w) = CacheOf(found)
      BY <2>1, Zenon DEF CacheOf
    <3> QED BY <1>6, <1>9, <2>1, <3>1, Zenon
  <2> QED BY <1>3, <1>6, <2>1, <2>2, <2>3, <2>4, <2>5, <2>6, <2>7, Zenon DEF f
<1> QED BY <1>8, <1>9

\* Forks keep their types.
LEMMA ForkStep ==
  ASSUME Typed, Bounded, [Next]_vars
  PROVE  ForkTyped'
<1> USE DEF ForkTyped
<1>0. ForkTyped /\ clock \in 0..MAX_TIME /\ inherit_type \in 0..2 /\ 0 \in 0..MAX_TIME
      /\ 0 \in 0..SAMPLE_LIMIT /\ ROOT \in Tasks
  BY Constants DEF Typed, RestTyped
<1>1. CASE UNCHANGED fork
  BY <1>0, <1>1
<1>2. Idle \in ForkRecord
  BY <1>0 DEF Idle, ForkRecord, Kinds
<1>3. ASSUME NEW t \in Tasks, NEW c \in Tasks, NEW kind \in Kinds, Dup(t, c, kind)
      PROVE  ForkTyped'
  <2> DEFINE r == [Idle EXCEPT !.step = IF rt[t] THEN "attach" ELSE "start", !.by = t, !.kind = kind]
  <2>1. r \in ForkRecord
    BY <1>2 DEF ForkRecord
  <2>2. fork' = [fork EXCEPT ![c] = r]
    BY <1>3, Zenon DEF Dup
  <2> HIDE DEF r
  <2> QED BY <1>0, <2>1, <2>2
<1>4. ASSUME NEW c \in Tasks, Start(c) PROVE ForkTyped'
  <2> DEFINE f == fork[c]
             sees == Settled
             r == [f EXCEPT !.now = clock, !.settled = sees, !.type = inherit_type,
                            !.step = IF f.kind = "thread" \/ inherit_key THEN "look" ELSE "inherit"]
  <2>1. f \in ForkRecord /\ sees \in BOOLEAN
    BY <1>0, Zenon DEF Settled
  <2>2. fork' = [fork EXCEPT ![c] = r]
    BY <1>4, Zenon DEF Start
  <2> HIDE DEF sees, f
  <2>3. r \in ForkRecord
    BY <1>0, <2>1 DEF ForkRecord
  <2> HIDE DEF r
  <2> QED BY <1>0, <2>2, <2>3
<1>5. ASSUME NEW c \in Tasks, Look(c) PROVE ForkTyped'
  <2>1. PICK r \in ForkRecord : fork' = [fork EXCEPT ![c] = r]
    BY <1>5, LookFinds
  <2> QED BY <1>0, <2>1
<1>6. ASSUME NEW c \in Tasks, Update(c) PROVE ForkTyped'
  <2> DEFINE f == fork[c]
             races(d) == fork[d].raced
                           \/ (fork[d].step \in {"write", "inherit"} /\ SameCache(f, fork[d]))
             next(d) == IF d = c THEN [f EXCEPT !.step = "inherit"]
                                 ELSE [fork[d] EXCEPT !.raced = races(d)]
  <2>1. fork' = [d \in Tasks |-> next(d)]
    BY <1>6, Zenon DEF Update
  <2>2. ASSUME NEW d \in Tasks PROVE next(d) \in ForkRecord
    <3>1. races(d) \in BOOLEAN
      <4>1. fork[d].raced \in BOOLEAN
        BY <1>0 DEF ForkRecord
      <4> QED BY <4>1, Zenon
    <3> HIDE DEF races
    <3>2. fork[d] \in ForkRecord /\ f \in ForkRecord
      BY <1>0
    <3> HIDE DEF f
    <3> QED BY <3>1, <3>2 DEF ForkRecord
  <2> HIDE DEF next
  <2> QED BY <2>1, <2>2
<1>7. ASSUME NEW c \in Tasks, Inherit(c) PROVE ForkTyped'
  <2>1. fork' = [fork EXCEPT ![c] = [fork[c] EXCEPT !.step = "attach"]]
    BY <1>0, <1>7 DEF Inherit, Step
  <2>2. [fork[c] EXCEPT !.step = "attach"] \in ForkRecord
    BY <1>0 DEF ForkRecord
  <2> QED BY <1>0, <2>1, <2>2
<1>8. ASSUME NEW c \in Tasks, Attach(c) PROVE ForkTyped'
  <2>1. fork' = [fork EXCEPT ![c] = Idle]
    BY <1>8, Zenon DEF Attach
  <2> QED BY <1>0, <1>2, <2>1
<1> QED
  BY <1>1, <1>3, <1>4, <1>5, <1>6, <1>7, <1>8, Changes, Zenon

\* And so do the clock, the keys and what bounds the runs.
LEMMA RestStep ==
  ASSUME Typed, [Next]_vars
  PROVE  RestTyped'
<1> USE DEF RestTyped
<1>0. RestTyped /\ BOOT \in Nat /\ MAX_TIME \in Nat /\ MAX_WORK \in Nat /\ MAX_PENALTY \in Nat
  BY Constants DEF Typed
<1>1. CASE UNCHANGED vars
  BY <1>0, <1>1 DEF vars, keys
<1>2. ASSUME NEW t \in Tasks, NEW c \in Tasks, NEW kind \in Kinds, Dup(t, c, kind)
      PROVE  RestTyped'
  <2>1. UNCHANGED <<clock, keys, peak>> /\ rt' = [rt EXCEPT ![c] = rt[t]] /\ Effort
    BY <1>2, Zenon DEF Dup
  <2> QED BY <1>0, <2>1 DEF Effort, keys
<1>3. ASSUME NEW c \in Tasks, Start(c) \/ Look(c) \/ Update(c) \/ Inherit(c) \/ Attach(c)
      PROVE  RestTyped'
  <2>1. UNCHANGED <<clock, rt, keys, used, peak>>
    BY <1>3, Zenon DEF Start, Look, Update, Inherit, Attach
  <2> QED BY <1>0, <2>1 DEF keys
<1>4. ASSUME NEW t \in Tasks, NEW b \in BURSTS, Work(t, b[1], b[2]) PROVE RestTyped'
  <2>1. b[2] \in Penalty
    BY Constants DEF Burst
  <2> QED BY <1>0, <1>4, <2>1 DEF Work, Effort, Larger, keys, Penalty
<1>5. ASSUME NEW t \in Tasks, JoinRT(t) PROVE RestTyped'
  BY <1>0, <1>5 DEF JoinRT, Effort, keys
<1>6. ASSUME NEW t \in Tasks, JoinFair(t) PROVE RestTyped'
  BY <1>0, <1>6 DEF JoinFair, keys
<1>7. ASSUME NEW t \in Tasks, Exit(t) PROVE RestTyped'
  <2>1. UNCHANGED <<clock, rt, keys, peak>> /\ Effort
    BY <1>7, Zenon DEF Exit
  <2> QED BY <1>0, <2>1 DEF Effort, keys
<1>8. ASSUME NEW t \in Tasks, Release(t) PROVE RestTyped'
  <2>1. UNCHANGED <<clock, rt, keys, used, peak>>
    BY <1>8, Zenon DEF Release
  <2> QED BY <1>0, <2>1 DEF keys
<1>9. CASE Tick
  BY <1>0, <1>9 DEF Tick, keys
<1>10. ASSUME NEW w \in Writers, NEW v \in TYPES, WriteType(w, v) PROVE RestTyped'
  <2>1. (\E u \in Writers : writer[u] # "idle") \in BOOLEAN
    OBVIOUS
  <2> QED BY <1>0, <1>10, <2>1 DEF WriteType, Proceed, Effort
<1>11. ASSUME NEW w \in Writers, ReadType(w) \/ SwitchInherit(w) PROVE RestTyped'
  <2>1. inherit_type \in 0..2
    BY <1>0, Constants
  <2> QED BY <1>0, <1>11, <2>1 DEF ReadType, SwitchInherit, Proceed
<1>12. ASSUME NEW w \in Writers, SwitchAncestor(w) PROVE RestTyped'
  BY <1>0, <1>12 DEF SwitchAncestor, Proceed
<1> QED
  BY <1>1, <1>2, <1>3, <1>4, <1>5, <1>6, <1>7, <1>8, <1>9, <1>10, <1>11, <1>12, Zenon DEF Next, Fork

-----------------------------------------------------------------------------
(* No penalty is invented *)

\* What a fork has found stays with it, until it attaches its task.
LEMMA ForkKeeps ==
  ASSUME Typed, NEW c \in Tasks, Start(c) \/ Update(c) \/ Inherit(c)
  PROVE  \A d \in Tasks :
           /\ fork'[d].by = fork[d].by /\ fork'[d].kind = fork[d].kind
           /\ fork'[d].owner = fork[d].owner /\ fork'[d].method = fork[d].method
           /\ fork'[d].count = fork[d].count /\ fork'[d].total = fork[d].total
           /\ ~Start(c) => fork'[d].now = fork[d].now /\ fork'[d].type = fork[d].type
                             /\ (fork'[d].settled <=> fork[d].settled)
           /\ d # c => fork'[d].step = fork[d].step /\ fork'[d].now = fork[d].now
                         /\ fork'[d].type = fork[d].type /\ (fork'[d].settled <=> fork[d].settled)
<1>0. fork \in [Tasks -> ForkRecord]
  BY DEF Typed, ForkTyped
<1>1. CASE Start(c)
  <2>1. \E x \in {"look", "inherit"}, s \in BOOLEAN :
          fork' = [fork EXCEPT ![c] = [fork[c] EXCEPT !.now = clock, !.settled = s,
                                                     !.type = inherit_type, !.step = x]]
    <3>1. Settled \in BOOLEAN
      BY DEF Settled
    <3>2. fork' = [fork EXCEPT ![c] =
            [fork[c] EXCEPT !.now = clock, !.settled = Settled, !.type = inherit_type,
               !.step = IF fork[c].kind = "thread" \/ inherit_key THEN "look" ELSE "inherit"]]
      BY <1>1, Zenon DEF Start
    <3>3. (IF fork[c].kind = "thread" \/ inherit_key THEN "look" ELSE "inherit") \in {"look", "inherit"}
      OBVIOUS
    <3> QED BY <3>1, <3>2, <3>3, Zenon
  <2> QED BY <1>0, <1>1, <2>1 DEF ForkRecord
<1>2. CASE Update(c) /\ ~Start(c)
  <2> DEFINE races(d) == fork[d].raced
               \/ (fork[d].step \in {"write", "inherit"} /\ SameCache(fork[c], fork[d]))
  <2>1. fork' = [d \in Tasks |-> IF d = c THEN [fork[c] EXCEPT !.step = "inherit"]
                                         ELSE [fork[d] EXCEPT !.raced = races(d)]]
    BY <1>2, Zenon DEF Update
  <2> HIDE DEF races
  <2> QED BY <1>0, <1>2, <2>1 DEF ForkRecord
<1>3. CASE Inherit(c) /\ ~Start(c)
  <2>1. fork' = [fork EXCEPT ![c] = [fork[c] EXCEPT !.step = "attach"]]
    BY <1>0, <1>3 DEF Inherit, Step
  <2> QED BY <1>0, <1>3, <2>1 DEF ForkRecord
<1> QED BY <1>1, <1>2, <1>3, Zenon

\* No penalty, no cache and no average of a sample exceeds the peak.
LEMMA BoundedStep ==
  ASSUME Typed, Bounded, [Next]_vars
  PROVE  Bounded'
<1> DEFINE Penalties == \A t \in Tasks :
             /\ penalty[t] <= peak /\ prev_penalty[t] <= peak
             /\ subtree[t].penalty <= peak /\ group[t].penalty <= peak
           Samples == \A c \in Tasks : fork[c].total <= fork[c].count * peak
<1>0. /\ Penalties /\ Samples /\ peak \in Nat
      /\ penalty \in [Tasks -> Nat] /\ prev_penalty \in [Tasks -> Nat]
      /\ subtree \in [Tasks -> Cache] /\ group \in [Tasks -> Cache]
      /\ fork \in [Tasks -> ForkRecord]
      /\ peak' \in Nat /\ peak <= peak'
  <2>1. peak \in Nat /\ peak' \in Nat
    BY RestStep DEF Typed, RestTyped, Penalty
  <2>2. peak <= peak'
    <3>1. CASE UNCHANGED peak
      BY <2>1, <3>1
    <3>2. ASSUME NEW t \in Tasks, NEW b \in BURSTS, Work(t, b[1], b[2]) PROVE peak <= peak'
      <4>1. peak' = Larger(peak, b[2]) /\ b[2] \in Penalty
        BY <3>2, Constants DEF Work, Burst
      <4> QED BY <2>1, <4>1 DEF Larger, Penalty
    <3> QED BY <3>1, <3>2, Changes, Zenon
  <2> QED BY <2>1, <2>2 DEF Typed, CtxTyped, ForkTyped, Penalty, Bounded, NoInventedPenalty
<1>1. Penalties'
  <2>1. CASE UNCHANGED ctx
    BY <1>0, <2>1 DEF ctx, Cache, Penalty
  <2>2. ASSUME NEW t \in Tasks, NEW c \in Tasks, NEW kind \in Kinds, Dup(t, c, kind)
        PROVE  Penalties'
    BY <1>0, <2>2 DEF Dup
  <2>3. ASSUME NEW c \in Tasks, Update(c) PROVE Penalties'
    <3> DEFINE f == fork[c]
               q == Larger(average_penalty(f.total, f.count), penalty[f.owner])
               new_bc == [time |-> f.now \div GRAIN, penalty |-> q, made |-> f.now]
    <3>1. /\ q <= peak
          /\ IF f.method = "group"
             THEN group' = [group EXCEPT ![f.owner] = new_bc] /\ subtree' = subtree
             ELSE subtree' = [subtree EXCEPT ![f.owner] = new_bc] /\ group' = group
      BY <2>3, UpdateWrites
    <3>2. prev_penalty' = prev_penalty /\ penalty' = penalty /\ peak' = peak
      BY <2>3, Zenon DEF Update
    <3> HIDE DEF q, f
    <3>3. new_bc.penalty = q
      OBVIOUS
    <3> HIDE DEF new_bc
    <3> QED BY <1>0, <3>1, <3>2, <3>3
  <2>4. ASSUME NEW c \in Tasks, Inherit(c) PROVE Penalties'
    <3> DEFINE f == fork[c]
               inherited == IF f.method = "none" THEN 0 ELSE CacheOf(f).penalty
               prev == Larger(prev_penalty[c], inherited)
    <3>1. f.owner \in Tasks
      BY <1>0 DEF ForkRecord
    <3>2. inherited \in Nat /\ inherited <= peak
      BY <1>0, <3>1 DEF CacheOf, Cache, Penalty
    <3>3. /\ prev_penalty' = [prev_penalty EXCEPT ![c] = prev]
          /\ penalty' = [penalty EXCEPT ![c] = prev]
          /\ subtree' = subtree /\ group' = group /\ peak' = peak
      BY <2>4, Zenon DEF Inherit
    <3> HIDE DEF inherited
    <3>4. prev \in Nat /\ prev <= peak
      BY <1>0, <3>2 DEF Larger
    <3> HIDE DEF prev
    <3> QED BY <1>0, <3>3, <3>4
  <2>5. ASSUME NEW t \in Tasks, NEW b \in BURSTS, Work(t, b[1], b[2]) PROVE Penalties'
    <3>1. b[1] \in Nat /\ b[2] \in Nat /\ b[1] <= b[2]
      BY Constants DEF Burst, Penalty
    <3>2. b[2] <= peak' /\ b[1] <= peak'
      BY <1>0, <2>5, <3>1 DEF Work, Larger
    <3>3. /\ prev_penalty' = [prev_penalty EXCEPT ![t] = b[1]]
          /\ penalty' = [penalty EXCEPT ![t] = b[2]]
          /\ subtree' = subtree /\ group' = group
      BY <2>5, Zenon DEF Work
    <3>4. \A u \in Tasks : subtree[u].penalty \in Nat /\ group[u].penalty \in Nat
      BY <1>0 DEF Cache, Penalty
    <3> QED BY <1>0, <3>2, <3>3, <3>4
  <2>6. ASSUME NEW t \in Tasks, JoinFair(t) PROVE Penalties'
    <3>1. EmptyCache(clock).penalty = 0
      BY DEF EmptyCache, Stamp
    <3> QED BY <1>0, <2>6, <3>1 DEF JoinFair
  <2> QED BY <2>1, <2>2, <2>3, <2>4, <2>5, <2>6, Changes, Zenon
<1>2. Samples'
  <2>1. \A c \in Tasks : /\ fork[c].count \in Nat /\ fork[c].total \in Nat
                         /\ fork[c].total <= fork[c].count * peak'
    <3>1. ASSUME NEW c \in Tasks
          PROVE /\ fork[c].count \in Nat /\ fork[c].total \in Nat
                /\ fork[c].total <= fork[c].count * peak'
      <4>1. fork[c].count \in Nat /\ fork[c].total \in Nat /\ fork[c].total <= fork[c].count * peak
        BY <1>0, Constants DEF ForkRecord
      <4>2. peak * fork[c].count <= peak' * fork[c].count
        BY <1>0, <4>1, TimesMonotone
      <4> HIDE DEF Samples
      <4>3. \A m, n \in Nat : m * n = n * m /\ m * n \in Nat
        OBVIOUS
      <4>4. /\ fork[c].count * peak = peak * fork[c].count /\ fork[c].count * peak \in Nat
            /\ fork[c].count * peak' = peak' * fork[c].count /\ fork[c].count * peak' \in Nat
        BY <1>0, <4>1, <4>3
      <4> QED BY <4>1, <4>2, <4>4
    <3> QED BY <3>1
  <2>2. CASE UNCHANGED fork
    BY <2>1, <2>2
  <2>3. Idle.total <= Idle.count * peak' /\ Idle.total = 0 /\ Idle.count = 0
    <3>1. \A m \in Nat : 0 <= 0 * m
      OBVIOUS
    <3> QED BY <1>0, <3>1 DEF Idle
  <2>4. ASSUME NEW t \in Tasks, NEW c \in Tasks, NEW kind \in Kinds, Dup(t, c, kind)
        PROVE  Samples'
    <3> DEFINE r == [Idle EXCEPT !.step = IF rt[t] THEN "attach" ELSE "start", !.by = t, !.kind = kind]
    <3>1. r.total = Idle.total /\ r.count = Idle.count
      BY DEF Idle
    <3>2. fork' = [fork EXCEPT ![c] = r]
      BY <2>4, Zenon DEF Dup
    <3> HIDE DEF r
    <3> QED BY <1>0, <2>1, <2>3, <3>1, <3>2
  <2>5. ASSUME NEW c \in Tasks, Start(c) PROVE Samples'
    <3>1. /\ \A d \in Tasks : fork'[d].count = fork[d].count /\ fork'[d].total = fork[d].total
      BY <2>5, ForkKeeps
    <3> QED BY <2>1, <3>1
  <2>6. ASSUME NEW c \in Tasks, Look(c) PROVE Samples'
    <3>1. PICK r \in ForkRecord : fork' = [fork EXCEPT ![c] = r] /\ r.total <= r.count * peak
      BY <2>6, LookFinds
    <3>2. peak' = peak
      BY <2>6, Zenon DEF Look
    <3> QED BY <1>0, <3>1, <3>2
  <2>7. ASSUME NEW c \in Tasks, Update(c) PROVE Samples'
    <3>1. \A d \in Tasks : fork'[d].count = fork[d].count /\ fork'[d].total = fork[d].total
      BY <2>7, ForkKeeps
    <3> QED BY <2>1, <3>1
  <2>8. ASSUME NEW c \in Tasks, Inherit(c) PROVE Samples'
    <3>1. \A d \in Tasks : fork'[d].count = fork[d].count /\ fork'[d].total = fork[d].total
      BY <2>8, ForkKeeps
    <3> QED BY <2>1, <3>1
  <2>9. ASSUME NEW c \in Tasks, Attach(c) PROVE Samples'
    <3>1. fork' = [fork EXCEPT ![c] = Idle]
      BY <2>9, Zenon DEF Attach
    <3> QED BY <1>0, <2>1, <2>3, <3>1
  <2> QED BY <2>2, <2>4, <2>5, <2>6, <2>7, <2>8, <2>9, Changes, Zenon
<1> QED BY <1>1, <1>2 DEF Bounded, NoInventedPenalty

-----------------------------------------------------------------------------
(* Forks hang on tasks that are there *)

\* No task is born twice, and nothing refers to one that is not born.
LEMMA RootedStep ==
  ASSUME Typed, Bounded, Rooted, [Next]_vars
  PROVE  Rooted'
<1> DEFINE Parents == \A t \in Tasks : real_parent[t] \in Born /\ (leader[t] \in Born \/ leader[t] = t)
           Forks == \A c \in Tasks : fork[c].by \in Born /\ fork[c].owner \in Born
<1>0. /\ ROOT \in Born /\ Parents /\ Forks /\ ROOT \in Tasks
      /\ status \in [Tasks -> {"unborn", "forking", "live", "zombie", "gone"}]
      /\ real_parent \in [Tasks -> Tasks] /\ leader \in [Tasks -> Tasks]
      /\ fork \in [Tasks -> ForkRecord]
  BY Constants DEF Typed, TreeTyped, ForkTyped, ForkRecord, Rooted
<1>1. Born \subseteq Born' /\ Born \subseteq Tasks
  <2> USE DEF Born
  <2>1. CASE UNCHANGED tree
    BY <2>1 DEF tree
  <2>2. ASSUME NEW t \in Tasks, NEW c \in Tasks, NEW kind \in Kinds, Dup(t, c, kind)
        PROVE  Born \subseteq Born' /\ Born \subseteq Tasks
    BY <1>0, <2>2 DEF Dup
  <2>3. ASSUME NEW c \in Tasks, Attach(c) PROVE Born \subseteq Born' /\ Born \subseteq Tasks
    <3>1. status' = [status EXCEPT ![c] = "live"]
      BY <2>3, Zenon DEF Attach
    <3> QED BY <1>0, <3>1
  <2>4. ASSUME NEW t \in Tasks, Exit(t) \/ Release(t) PROVE Born \subseteq Born' /\ Born \subseteq Tasks
    <3>1. \E s \in {"zombie", "gone"} : status' = [status EXCEPT ![t] = s]
      BY <2>4, Zenon DEF Exit, Release
    <3> QED BY <1>0, <3>1
  <2> QED BY <2>1, <2>2, <2>3, <2>4, Changes, Zenon
<1>2. \A t, c \in Tasks, kind \in Kinds : Dup(t, c, kind) => t \in Born
  BY DEF Dup, Live, Born
<1>3. Parents'
  <2>1. CASE UNCHANGED tree
    BY <1>0, <1>1, <2>1 DEF tree
  <2>2. ASSUME NEW t \in Tasks, NEW c \in Tasks, NEW kind \in Kinds, Dup(t, c, kind)
        PROVE  Parents'
    <3>1. /\ leader' = [leader EXCEPT ![c] = IF kind = "thread" THEN leader[t] ELSE c]
          /\ real_parent' = real_parent
      BY <2>2, Zenon DEF Dup
    <3>2. leader[t] \in Born'
      BY <1>0, <1>1, <1>2, <2>2
    <3> QED BY <1>0, <1>1, <3>1, <3>2
  <2>3. ASSUME NEW c \in Tasks, Attach(c) PROVE Parents'
    <3> DEFINE f == fork[c]
               parent == IF f.kind = "process" THEN f.by ELSE real_parent[f.by]
    <3>1. parent \in Born'
      BY <1>0, <1>1
    <3>2. real_parent' = [real_parent EXCEPT ![c] = parent] /\ leader' = leader
      BY <2>3, Zenon DEF Attach
    <3> HIDE DEF parent
    <3> QED BY <1>0, <1>1, <3>1, <3>2
  <2>4. ASSUME NEW t \in Tasks, Exit(t) PROVE Parents'
    <3> DEFINE reaper == IF Others(t) = {} THEN ROOT ELSE CHOOSE u \in Others(t) : TRUE
    <3>1. reaper \in Born
      BY <1>0 DEF Others, Live, Born
    <3>2. /\ real_parent' =
               [u \in Tasks |-> IF u # t /\ real_parent[u] = t THEN reaper ELSE real_parent[u]]
          /\ leader' = leader
      BY <2>4, Zenon DEF Exit
    <3> HIDE DEF reaper
    <3> QED BY <1>0, <1>1, <3>1, <3>2
  <2>5. ASSUME NEW t \in Tasks, Release(t) PROVE Parents'
    <3>1. real_parent' = real_parent /\ leader' = leader
      BY <2>5, Zenon DEF Release
    <3> QED BY <1>0, <1>1, <3>1
  <2> QED BY <2>1, <2>2, <2>3, <2>4, <2>5, Changes, Zenon
<1>4. Forks'
  <2>1. CASE UNCHANGED fork
    BY <1>0, <1>1, <2>1
  <2>2. ASSUME NEW t \in Tasks, NEW c \in Tasks, NEW kind \in Kinds, Dup(t, c, kind)
        PROVE  Forks'
    <3> DEFINE r == [Idle EXCEPT !.step = IF rt[t] THEN "attach" ELSE "start", !.by = t, !.kind = kind]
    <3>1. r.by = t /\ r.owner = ROOT
      BY DEF Idle
    <3>2. fork' = [fork EXCEPT ![c] = r]
      BY <2>2, Zenon DEF Dup
    <3> HIDE DEF r
    <3> QED BY <1>0, <1>1, <1>2, <2>2, <3>1, <3>2
  <2>3. ASSUME NEW c \in Tasks, Start(c) \/ Update(c) \/ Inherit(c) PROVE Forks'
    <3>1. \A d \in Tasks : fork'[d].by = fork[d].by /\ fork'[d].owner = fork[d].owner
      BY <2>3, ForkKeeps
    <3> QED BY <1>0, <1>1, <3>1
  <2>4. ASSUME NEW c \in Tasks, Look(c) PROVE Forks'
    <3>1. PICK r \in ForkRecord :
            /\ fork' = [fork EXCEPT ![c] = r] /\ r.by = fork[c].by
            /\ r.method \in {"parent", "hub", "group"} /\ r.owner = Owner(fork[c], r.method)
      BY <2>4, LookFinds
    <3>2. /\ \A b \in Born : real_parent[b] \in Born
          /\ fork[c].by \in Born /\ leader[fork[c].by] \in Born
          /\ Born \in SUBSET Tasks
      BY <1>0, <1>1
    <3>3. r.owner \in Born
      BY <3>1, <3>2, OwnerIn
    <3> QED BY <1>0, <1>1, <3>1, <3>3
  <2>5. ASSUME NEW c \in Tasks, Attach(c) PROVE Forks'
    <3>1. fork' = [fork EXCEPT ![c] = Idle] /\ Idle.by = ROOT /\ Idle.owner = ROOT
      BY <2>5, Zenon DEF Attach, Idle
    <3> QED BY <1>0, <1>1, <3>1
  <2> QED BY <2>1, <2>2, <2>3, <2>4, <2>5, Changes, Zenon
<1>5. ROOT \in Born'
  BY <1>0, <1>1
<1> QED
  BY <1>3, <1>4, <1>5 DEF Rooted

-----------------------------------------------------------------------------
(* What forks inherit is fresh *)

\* The cache that a fork is about to read back has not expired since it looked, unless
\* another fork replaced it: a new task takes no cache of a task that anyone refers to,
\* and a context that is reset holds caches of now.
LEMMA FreshStep ==
  ASSUME Typed, Bounded, Rooted, Fresh, Chosen, [Next]_vars
  PROVE  Fresh'
<1> DEFINE Stamps == \A t \in Tasks : /\ timestamp(subtree[t]) <= subtree[t].made
                                      /\ timestamp(group[t]) <= group[t].made
           Times == \A c \in Tasks : fork[c].now <= clock
           FreshIn(f) == f.step = "inherit" /\ f.method # "none" /\ ~f.raced =>
                           f.now - CacheOf(f).made <= LIFETIME
<1>0. /\ Stamps /\ Times /\ \A c \in Tasks : FreshIn(fork[c])
      /\ subtree \in [Tasks -> Cache] /\ group \in [Tasks -> Cache]
      /\ fork \in [Tasks -> ForkRecord] /\ clock \in Nat /\ LIFETIME \in Nat
      /\ \A c \in Tasks : fork[c].owner \in Tasks /\ fork[c].now \in Nat
  BY Constants DEF Typed, CtxTyped, ForkTyped, ForkRecord, RestTyped, Fresh, FreshUnlessRaced
<1>1. clock' \in Nat /\ clock <= clock'
  BY <1>0, Changes DEF Tick
<1>2. Stamps'
  <2> USE DEF timestamp
  <2>1. CASE UNCHANGED ctx
    BY <1>0, <2>1 DEF ctx
  <2>2. ASSUME NEW t \in Tasks, NEW c \in Tasks, NEW kind \in Kinds, Dup(t, c, kind)
        PROVE  Stamps'
    <3>1. /\ subtree' = [subtree EXCEPT ![c] = subtree[t]]
          /\ group' = [group EXCEPT ![c] = group[t]]
      BY <2>2, Zenon DEF Dup
    <3> QED BY <1>0, <3>1
  <2>3. ASSUME NEW c \in Tasks, Update(c) PROVE Stamps'
    <3> DEFINE f == fork[c]
               q == Larger(average_penalty(f.total, f.count), penalty[f.owner])
               new_bc == [time |-> f.now \div GRAIN, penalty |-> q, made |-> f.now]
    <3>1. /\ timestamp(new_bc) <= f.now
          /\ IF f.method = "group"
             THEN group' = [group EXCEPT ![f.owner] = new_bc] /\ subtree' = subtree
             ELSE subtree' = [subtree EXCEPT ![f.owner] = new_bc] /\ group' = group
      BY <2>3, UpdateWrites
    <3>2. new_bc.made = f.now
      OBVIOUS
    <3> HIDE DEF new_bc, f
    <3> QED BY <1>0, <3>1, <3>2
  <2>4. ASSUME NEW c \in Tasks, Inherit(c) PROVE Stamps'
    <3>1. subtree' = subtree /\ group' = group
      BY <2>4, Zenon DEF Inherit
    <3> QED BY <1>0, <3>1
  <2>5. ASSUME NEW t \in Tasks, NEW b \in BURSTS, Work(t, b[1], b[2]) PROVE Stamps'
    <3>1. subtree' = subtree /\ group' = group
      BY <2>5, Zenon DEF Work
    <3> QED BY <1>0, <3>1
  <2>6. ASSUME NEW t \in Tasks, JoinFair(t) PROVE Stamps'
    <3>1. /\ subtree' = [subtree EXCEPT ![t] = EmptyCache(clock)]
          /\ group' = [group EXCEPT ![t] = EmptyCache(clock)]
      BY <2>6, Zenon DEF JoinFair
    <3>2. EmptyCache(clock).time * GRAIN = 0 /\ EmptyCache(clock).made = clock
      BY Constants DEF EmptyCache, Stamp
    <3> QED BY <1>0, <3>1, <3>2
  <2> QED BY <2>1, <2>2, <2>3, <2>4, <2>5, <2>6, Changes, Zenon
<1>3. Times'
  <2>1. CASE UNCHANGED fork
    BY <1>0, <1>1, <2>1
  <2>2. ASSUME NEW t \in Tasks, NEW c \in Tasks, NEW kind \in Kinds, Dup(t, c, kind)
        PROVE  Times'
    <3> DEFINE r == [Idle EXCEPT !.step = IF rt[t] THEN "attach" ELSE "start", !.by = t, !.kind = kind]
    <3>1. r.now = 0
      BY DEF Idle
    <3>2. fork' = [fork EXCEPT ![c] = r]
      BY <2>2, Zenon DEF Dup
    <3> HIDE DEF r
    <3> QED BY <1>0, <1>1, <3>1, <3>2
  <2>3. ASSUME NEW c \in Tasks, Start(c) PROVE Times'
    <3>1. /\ fork'[c].now = clock
          /\ \A d \in Tasks : d # c => fork'[d].now = fork[d].now
      <4>1. fork'[c].now = clock
        BY <1>0, <2>3 DEF Start, ForkRecord
      <4> QED BY <2>3, <4>1, ForkKeeps
    <3> QED BY <1>0, <1>1, <3>1
  <2>4. ASSUME NEW c \in Tasks, Look(c) PROVE Times'
    <3>1. PICK r \in ForkRecord : fork' = [fork EXCEPT ![c] = r] /\ r.now = fork[c].now
      BY <2>4, LookFinds
    <3> QED BY <1>0, <1>1, <3>1
  <2>5. ASSUME NEW c \in Tasks, Update(c) \/ Inherit(c) PROVE Times'
    <3>1. ~Start(c)
      BY <2>5, Zenon DEF Start, Update, Inherit, At
    <3>2. \A d \in Tasks : fork'[d].now = fork[d].now
      BY <2>5, <3>1, ForkKeeps
    <3> QED BY <1>0, <1>1, <3>2
  <2>6. ASSUME NEW c \in Tasks, Attach(c) PROVE Times'
    <3>1. fork' = [fork EXCEPT ![c] = Idle] /\ Idle.now = 0
      BY <2>6, Zenon DEF Attach, Idle
    <3> QED BY <1>0, <1>1, <3>1
  <2> QED BY <2>1, <2>2, <2>3, <2>4, <2>5, <2>6, Changes, Zenon
<1>4. ASSUME NEW d \in Tasks PROVE FreshIn(fork[d])'
  <2> DEFINE g == fork[d]
             Reads(bc) == g.step = "inherit" /\ g.method # "none" /\ ~g.raced =>
                            g.now - bc.made <= LIFETIME
             Goal == (fork'[d].step = "inherit" /\ fork'[d].method # "none" /\ ~fork'[d].raced =>
                        fork'[d].now - (IF fork'[d].method = "group" THEN group'[fork'[d].owner]
                                        ELSE subtree'[fork'[d].owner]).made <= LIFETIME)
  <2> SUFFICES Goal
    BY DEF CacheOf
  <2>0. /\ Reads(IF g.method = "group" THEN group[g.owner] ELSE subtree[g.owner])
        /\ g.owner \in Tasks /\ g.owner \in Born /\ g.now \in Nat /\ g.now <= clock
    BY <1>0 DEF CacheOf, Rooted
  <2>1. CASE fork'[d] = fork[d] /\ UNCHANGED <<subtree, group>>
    BY <2>0, <2>1
  <2>2. ASSUME NEW t \in Tasks, NEW c \in Tasks, NEW kind \in Kinds, Dup(t, c, kind)
        PROVE  Goal
    <3> DEFINE r == [Idle EXCEPT !.step = IF rt[t] THEN "attach" ELSE "start", !.by = t, !.kind = kind]
    <3>1. /\ fork' = [fork EXCEPT ![c] = r] /\ status[c] = "unborn"
          /\ subtree' = [subtree EXCEPT ![c] = subtree[t]]
          /\ group' = [group EXCEPT ![c] = group[t]]
      BY <2>2, Zenon DEF Dup
    <3>2. r.step # "inherit"
      BY DEF Idle
    <3>3. g.owner # c
      BY <2>0, <3>1 DEF Born
    <3> HIDE DEF r
    <3> QED BY <1>0, <2>0, <3>1, <3>2, <3>3
  <2>3. ASSUME NEW c \in Tasks, Start(c) PROVE Goal
    <3>1. UNCHANGED <<subtree, group>> /\ fork[c].step = "start" /\ fork[c].method = "none"
      BY <2>3, Zenon DEF Start, At, ctx, Chosen
    <3>2. CASE d = c
      <4>1. fork'[d].method = "none"
        BY <2>3, <3>1, <3>2, ForkKeeps
      <4> QED BY <4>1
    <3>3. CASE d # c
      <4>1. fork'[d] = fork[d]
        BY <1>0, <2>3, <3>3 DEF Start
      <4> QED BY <2>1, <3>1, <4>1
    <3> QED BY <3>2, <3>3
  <2>4. ASSUME NEW c \in Tasks, Look(c) PROVE Goal
    <3>1. PICK r \in ForkRecord :
            /\ fork' = [fork EXCEPT ![c] = r] /\ r.now = fork[c].now
            /\ r.step = "inherit" => ~is_expired(CacheOf(r), r.now)
      BY <2>4, LookFinds
    <3>2. UNCHANGED <<subtree, group>>
      BY <2>4, Zenon DEF Look, ctx
    <3>3. CASE d # c
      BY <1>0, <2>1, <3>1, <3>2, <3>3
    <3>4. CASE d = c
      <4> DEFINE bc == IF r.method = "group" THEN group[r.owner] ELSE subtree[r.owner]
      <4>1. r.owner \in Tasks /\ r.now \in Nat
        BY DEF ForkRecord
      <4>2. bc \in Cache /\ timestamp(bc) <= bc.made
        BY <1>0, <4>1
      <4>3. timestamp(bc) \in Nat /\ bc.made \in Nat
        BY <4>2, Constants DEF Cache, timestamp
      <4>4. fork'[d] = r
        BY <1>0, <3>1, <3>4
      <4>5. r.step = "inherit" => ~is_expired(bc, r.now)
        BY <3>1 DEF CacheOf
      <4> HIDE DEF bc
      <4>6. r.step = "inherit" => r.now - bc.made <= LIFETIME
        BY <1>0, <4>1, <4>2, <4>3, <4>5 DEF is_expired
      <4> QED BY <3>2, <4>4, <4>6 DEF bc
    <3> QED BY <3>3, <3>4
  <2>5. ASSUME NEW c \in Tasks, Update(c) PROVE Goal
    <3> DEFINE f == fork[c]
               q == Larger(average_penalty(f.total, f.count), penalty[f.owner])
               new_bc == [time |-> f.now \div GRAIN, penalty |-> q, made |-> f.now]
               races == g.raced \/ (g.step \in {"write", "inherit"} /\ SameCache(f, g))
    <3>1. /\ IF f.method = "group"
             THEN group' = [group EXCEPT ![f.owner] = new_bc] /\ subtree' = subtree
             ELSE subtree' = [subtree EXCEPT ![f.owner] = new_bc] /\ group' = group
          /\ fork'[d] = IF d = c THEN [f EXCEPT !.step = "inherit"] ELSE [g EXCEPT !.raced = races]
      BY <2>5, UpdateWrites
    <3>2. new_bc.made = f.now
      OBVIOUS
    <3> HIDE DEF new_bc
    <3>3. CASE d = c
      <4>1. fork'[d] = [g EXCEPT !.step = "inherit"] /\ g = f
        BY <3>1, <3>3
      <4>2. fork'[d].now = g.now /\ fork'[d].method = g.method /\ fork'[d].owner = g.owner
        BY <1>0, <4>1 DEF ForkRecord
      <4>3. (IF g.method = "group" THEN group'[g.owner] ELSE subtree'[g.owner]) = new_bc
        BY <1>0, <2>0, <3>1, <4>1
      <4> HIDE DEF f, g
      <4>4. fork'[d].now - new_bc.made = 0
        BY <2>0, <3>2, <4>1, <4>2
      <4> QED BY <1>0, <4>2, <4>3, <4>4
    <3>4. CASE d # c
      <4>1. fork'[d] = [g EXCEPT !.raced = races]
        BY <3>1, <3>4
      <4>2. /\ fork'[d].now = g.now /\ fork'[d].method = g.method /\ fork'[d].owner = g.owner
            /\ fork'[d].step = g.step
        BY <1>0, <4>1 DEF ForkRecord
      <4>3. fork'[d].raced <=> races
        <5>1. DOMAIN g = {"step", "by", "kind", "now", "method", "owner", "count", "total",
                          "raced", "settled", "type"}
          BY <1>0 DEF ForkRecord
        <5>2. fork'[d].raced = races
          BY <4>1, <5>1, Zenon
        <5> QED BY <5>2
      <4>4. ASSUME g.step = "inherit", ~races
            PROVE  (IF g.method = "group" THEN group'[g.owner] ELSE subtree'[g.owner])
                     = (IF g.method = "group" THEN group[g.owner] ELSE subtree[g.owner])
        <5>1. f.owner # g.owner \/ ~(f.method = "group" <=> g.method = "group")
          BY <4>4, Zenon DEF SameCache
        <5> HIDE DEF f, g
        <5>2. CASE f.method = "group"
          BY <1>0, <2>0, <3>1, <5>1, <5>2
        <5>3. CASE f.method # "group"
          BY <1>0, <2>0, <3>1, <5>1, <5>3
        <5> QED BY <5>2, <5>3
      <4> QED BY <2>0, <4>2, <4>3, <4>4
    <3> QED BY <3>3, <3>4
  <2>6. ASSUME NEW c \in Tasks, Inherit(c) PROVE Goal
    <3>1. fork' = [fork EXCEPT ![c] = [fork[c] EXCEPT !.step = "attach"]] /\ UNCHANGED <<subtree, group>>
      BY <2>6, Zenon DEF Inherit, Step
    <3>2. CASE d # c
      BY <1>0, <2>1, <3>1, <3>2
    <3>3. CASE d = c
      <4>1. fork'[d].step = "attach"
        BY <1>0, <3>1, <3>3 DEF ForkRecord
      <4> QED BY <4>1
    <3> QED BY <3>2, <3>3
  <2>7. ASSUME NEW c \in Tasks, Attach(c) PROVE Goal
    <3>1. fork' = [fork EXCEPT ![c] = Idle] /\ Idle.step = "none" /\ UNCHANGED <<subtree, group>>
      BY <2>7, Zenon DEF Attach, Idle, ctx
    <3>2. CASE d # c
      BY <1>0, <2>1, <3>1, <3>2
    <3>3. CASE d = c
      BY <1>0, <3>1, <3>3
    <3> QED BY <3>2, <3>3
  <2>8. ASSUME NEW t \in Tasks, JoinFair(t) PROVE Goal
    <3>1. /\ subtree' = [subtree EXCEPT ![t] = EmptyCache(clock)]
          /\ group' = [group EXCEPT ![t] = EmptyCache(clock)] /\ fork' = fork
      BY <2>8, Zenon DEF JoinFair
    <3>2. EmptyCache(clock).made = clock
      BY DEF EmptyCache, Stamp
    <3>3. CASE g.owner # t
      BY <1>0, <2>0, <3>1, <3>3
    <3>4. CASE g.owner = t
      <4>1. (IF g.method = "group" THEN group'[g.owner] ELSE subtree'[g.owner]).made = clock
        BY <1>0, <2>0, <3>1, <3>2, <3>4
      <4> HIDE DEF g
      <4>2. g.now - clock <= LIFETIME
        BY <1>0, <2>0
      <4> QED BY <3>1, <4>1, <4>2 DEF g
    <3> QED BY <3>3, <3>4
  <2>9. ASSUME NEW t \in Tasks, NEW b \in BURSTS, Work(t, b[1], b[2]) PROVE Goal
    <3>1. UNCHANGED <<subtree, group, fork>>
      BY <2>9, Zenon DEF Work
    <3> QED BY <2>1, <3>1
  <2>10. CASE UNCHANGED <<fork, ctx>>
    BY <2>1, <2>10 DEF ctx
  <2> HIDE DEF Goal
  <2> QED
    BY <2>2, <2>3, <2>4, <2>5, <2>6, <2>7, <2>8, <2>9, <2>10, Changes, Zenon
<1> HIDE DEF FreshIn
<1> QED
  BY <1>2, <1>3, <1>4 DEF Fresh, FreshUnlessRaced, FreshIn

-----------------------------------------------------------------------------
(* Forks look where the type says *)

\* The two keys say what the type says unless a write is under way or overlapped another: the
\* steps of the writers.
LEMMA KeyedStep ==
  ASSUME Typed, Keyed, [Next]_vars
  PROVE  Keyed'
<1>0. /\ inherit_type \in 0..2 /\ inherit_key \in BOOLEAN /\ ancestor_key \in BOOLEAN
      /\ writer \in [Writers -> {"idle", "written", "chosen", "half"}]
      /\ chosen \in [Writers -> 0..2] /\ overlapped \in BOOLEAN
  BY Constants DEF Typed, RestTyped
<1>1. CASE UNCHANGED keys
  BY <1>1 DEF keys, Keyed
<1>2. ASSUME NEW w \in Writers, NEW v \in TYPES, WriteType(w, v) PROVE Keyed'
  <2>1. SUFFICES ASSUME ~overlapped' PROVE Keyed'
    BY DEF Keyed
  <2>2. /\ \A u \in Writers : writer[u] = "idle"
        /\ writer' = [writer EXCEPT ![w] = "written"]
    BY <1>2, <2>1 DEF WriteType, Proceed
  <2>3. \A u \in Writers : writer'[u] = IF u = w THEN "written" ELSE "idle"
    BY <1>0, <2>2
  <2> QED BY <2>3 DEF Keyed
<1>3. ASSUME NEW w \in Writers, ReadType(w) \/ SwitchInherit(w) \/ SwitchAncestor(w)
      PROVE  Keyed'
  <2>1. SUFFICES ASSUME ~overlapped' PROVE Keyed'
    BY DEF Keyed
  <2>2. /\ ~overlapped /\ writer[w] # "idle" /\ inherit_type' = inherit_type
        /\ writer' = [writer EXCEPT ![w] = writer'[w]]
    BY <1>0, <1>3, <2>1 DEF ReadType, SwitchInherit, SwitchAncestor, Proceed
  <2>3. \A u \in Writers : u # w => writer[u] = "idle" /\ writer'[u] = "idle"
    BY <1>0, <2>2 DEF Keyed
  <2>4. CASE ReadType(w)
    <3>1. writer'[w] = "chosen" /\ chosen'[w] = inherit_type
      BY <1>0, <2>4 DEF ReadType, Proceed
    <3> QED BY <2>2, <2>3, <3>1 DEF Keyed
  <2>5. CASE SwitchInherit(w)
    <3>1. /\ chosen[w] = inherit_type /\ chosen' = chosen /\ ancestor_key' = ancestor_key
          /\ writer'[w] = IF inherit_type = 0 THEN "idle" ELSE "half"
          /\ inherit_key' = (inherit_type # 0)
      BY <1>0, <2>2, <2>5 DEF SwitchInherit, Proceed, Keyed
    <3> QED BY <1>0, <2>2, <2>3, <3>1 DEF Keyed
  <2>6. CASE SwitchAncestor(w)
    <3>1. /\ chosen[w] = inherit_type /\ inherit_type # 0 /\ inherit_key
          /\ writer'[w] = "idle" /\ inherit_key' = inherit_key
          /\ ancestor_key' = (inherit_type = 2)
      BY <1>0, <2>2, <2>6 DEF SwitchAncestor, Proceed, Keyed
    <3> QED BY <1>0, <2>2, <2>3, <3>1 DEF Keyed
  <2> QED BY <1>3, <2>4, <2>5, <2>6
<1> QED BY <1>1, <1>2, <1>3, Changes, Zenon

\* A fork that finds them settled twice, and the type the same, has read both keys as it says.
LEMMA ChosenStep ==
  ASSUME Typed, Bounded, Chosen, [Next]_vars
  PROVE  Chosen'
<1> DEFINE Seen(f) == /\ f.step = "look" /\ f.settled /\ f.kind # "thread" => f.type # 0
                      /\ f.step = "start" => f.method = "none"
           Matches(f) ==
             f.step \in {"write", "inherit"} /\ f.settled =>
               f.method = IF f.kind = "thread" THEN "group"
                          ELSE [n \in 0..2 |-> <<"none", "parent", "hub">>[n + 1]][f.type]
<1>0. /\ Keyed /\ \A c \in Tasks : Seen(fork[c]) /\ Matches(fork[c])
      /\ fork \in [Tasks -> ForkRecord]
      /\ inherit_type \in 0..2 /\ inherit_key \in BOOLEAN /\ ancestor_key \in BOOLEAN
  BY Constants DEF Typed, RestTyped, ForkTyped, Chosen, MethodMatchesType
<1>1. Keyed'
  BY <1>0, KeyedStep
<1>2. ASSUME NEW f, f.type \in 0..2
      PROVE  Matches(f) <=>
               (f.step \in {"write", "inherit"} /\ f.settled =>
                  \/ f.kind = "thread" /\ f.method = "group"
                  \/ f.kind # "thread" /\ \/ f.type = 0 /\ f.method = "none"
                                          \/ f.type = 1 /\ f.method = "parent"
                                          \/ f.type = 2 /\ f.method = "hub")
  <2>1. CASE f.type = 0
    BY <2>1
  <2>2. CASE f.type = 1
    BY <2>2
  <2>3. CASE f.type = 2
    BY <2>3
  <2> QED BY <1>2, <2>1, <2>2, <2>3
<1>3. ASSUME NEW d \in Tasks PROVE Seen(fork'[d]) /\ Matches(fork'[d])
  <2>1. CASE UNCHANGED fork
    BY <1>0, <2>1
  <2>2. ASSUME NEW t \in Tasks, NEW c \in Tasks, NEW kind \in Kinds, Dup(t, c, kind)
        PROVE  Seen(fork'[d]) /\ Matches(fork'[d])
    <3> DEFINE r == [Idle EXCEPT !.step = IF rt[t] THEN "attach" ELSE "start", !.by = t, !.kind = kind]
    <3>1. r.step \in {"attach", "start"} /\ r.method = "none"
      BY DEF Idle
    <3>2. fork' = [fork EXCEPT ![c] = r]
      BY <2>2, Zenon DEF Dup
    <3> HIDE DEF r
    <3>3. Seen(r) /\ Matches(r)
      BY <3>1
    <3> HIDE DEF Seen, Matches
    <3> QED BY <1>0, <3>2, <3>3
  <2>3. ASSUME NEW c \in Tasks, Start(c) PROVE Seen(fork'[d]) /\ Matches(fork'[d])
    <3>1. CASE d # c
      <4>1. fork'[d] = fork[d]
        BY <1>0, <2>3, <3>1 DEF Start
      <4> QED BY <1>0, <4>1
    <3>2. CASE d = c
      <4> DEFINE f == fork[c]
                 sees == Settled
                 to == IF f.kind = "thread" \/ inherit_key THEN "look" ELSE "inherit"
                 r == [f EXCEPT !.now = clock, !.settled = sees, !.type = inherit_type, !.step = to]
      <4>1. fork' = [fork EXCEPT ![c] = r] /\ f.step = "start"
        BY <2>3, Zenon DEF Start, At
      <4>2. f \in ForkRecord /\ f.method = "none"
        BY <1>0, <4>1
      <4>3. to = "inherit" => f.kind # "thread" /\ ~inherit_key
        OBVIOUS
      <4>4. to = "look" => f.kind = "thread" \/ inherit_key
        OBVIOUS
      <4> HIDE DEF f, sees, to
      <4>5. /\ r.step = to /\ r.settled = sees /\ r.type = inherit_type
            /\ r.kind = f.kind /\ r.method = f.method
        BY <4>2 DEF ForkRecord
      <4>6. fork'[d] = r
        BY <1>0, <3>2, <4>1
      <4> HIDE DEF r
      <4>7. r.settled => (inherit_key <=> inherit_type # 0)
        BY <1>0, <4>5 DEF sees, Settled, Keyed
      <4>8. to \in {"look", "inherit"}
        BY DEF to
      <4>9. Seen(r)
        BY <4>3, <4>4, <4>5, <4>7, <4>8
      <4>10. Matches(r)
        BY <1>0, <1>2, <4>2, <4>3, <4>5, <4>7, <4>8
      <4> HIDE DEF Seen, Matches
      <4> QED BY <4>6, <4>9, <4>10
    <3> QED BY <3>1, <3>2
  <2>4. ASSUME NEW c \in Tasks, Look(c) PROVE Seen(fork'[d]) /\ Matches(fork'[d])
    <3>1. PICK r \in ForkRecord :
            /\ fork' = [fork EXCEPT ![c] = r]
            /\ fork[c].step = "look" /\ r.step \in {"write", "inherit"}
            /\ r.kind = fork[c].kind /\ r.type = fork[c].type
            /\ r.method = IF r.kind = "thread" THEN "group" ELSE IF ancestor_key THEN "hub" ELSE "parent"
            /\ r.settled => fork[c].settled /\ Settled /\ r.type = inherit_type
      BY <2>4, LookFinds
    <3>2. Seen(r) /\ r.type \in 0..2
      BY <3>1 DEF ForkRecord
    <3>3. ASSUME r.settled, r.kind # "thread"
          PROVE  /\ r.type # 0 /\ r.type = inherit_type /\ (ancestor_key <=> inherit_type = 2)
      <4>1. Seen(fork[c]) /\ fork[c].step = "look" /\ fork[c].settled /\ fork[c].kind # "thread"
        BY <1>0, <3>1, <3>3
      <4>2. fork[c].type # 0 /\ Settled /\ r.type = inherit_type /\ r.type = fork[c].type
        BY <3>1, <3>3, <4>1
      <4> QED BY <1>0, <4>2 DEF Settled, Keyed
    <3>4. Matches(r)
      <4>1. CASE r.kind = "thread"
        BY <1>2, <3>1, <3>2, <4>1
      <4>2. CASE r.kind # "thread"
        <5>1. CASE ~r.settled
          BY <5>1
        <5>2. CASE r.settled /\ ancestor_key
          <6>1. r.type = 2 /\ r.method = "hub"
            BY <3>1, <3>3, <4>2, <5>2
          <6> QED BY <1>2, <3>2, <4>2, <6>1
        <5>3. CASE r.settled /\ ~ancestor_key
          <6>1. r.type = 1 /\ r.method = "parent"
            BY <1>0, <3>1, <3>3, <4>2, <5>3
          <6> QED BY <1>2, <3>2, <4>2, <6>1
        <5> QED BY <5>1, <5>2, <5>3, Zenon
      <4> QED BY <4>1, <4>2
    <3> HIDE DEF Seen, Matches
    <3> QED BY <1>0, <3>1, <3>2, <3>4
  <2>5. ASSUME NEW c \in Tasks, Update(c) \/ Inherit(c) PROVE Seen(fork'[d]) /\ Matches(fork'[d])
    <3>1. ~Start(c) /\ fork[c].step \in {"write", "inherit"}
      BY <2>5, Zenon DEF Start, Update, Inherit, At
    <3>2. /\ fork'[d].kind = fork[d].kind /\ fork'[d].method = fork[d].method
          /\ fork'[d].type = fork[d].type /\ (fork'[d].settled <=> fork[d].settled)
          /\ d # c => fork'[d].step = fork[d].step
      BY <2>5, <3>1, ForkKeeps
    <3>3. fork'[c].step \in {"inherit", "attach"}
      <4>1. CASE Update(c)
        BY <1>0, <4>1 DEF Update, ForkRecord
      <4>2. CASE Inherit(c)
        BY <1>0, <4>2 DEF Inherit, Step, ForkRecord
      <4> QED BY <2>5, <4>1, <4>2
    <3>4. Seen(fork[d]) /\ Matches(fork[d])
      BY <1>0
    <3>5. Seen(fork'[d])
      BY <3>1, <3>2, <3>3, <3>4
    <3>6. Matches(fork'[d])
      <4>1. fork'[d].step \in {"write", "inherit"} => fork[d].step \in {"write", "inherit"}
        BY <3>1, <3>2
      <4>2. fork[d].type \in 0..2
        BY <1>0 DEF ForkRecord
      <4> QED BY <1>2, <3>2, <3>4, <4>1, <4>2
    <3> QED BY <3>5, <3>6
  <2>6. ASSUME NEW c \in Tasks, Attach(c) PROVE Seen(fork'[d]) /\ Matches(fork'[d])
    <3>1. fork' = [fork EXCEPT ![c] = Idle] /\ Idle.step = "none"
      BY <2>6, Zenon DEF Attach, Idle
    <3>2. Seen(Idle) /\ Matches(Idle)
      BY <3>1
    <3> HIDE DEF Seen, Matches
    <3> QED BY <1>0, <3>1, <3>2
  <2> HIDE DEF Seen, Matches
  <2> QED BY <2>1, <2>2, <2>3, <2>4, <2>5, <2>6, Changes, Zenon
<1> QED
  BY <1>1, <1>3 DEF Chosen, MethodMatchesType

-----------------------------------------------------------------------------
(* The theorems *)

\* A set of numbers with an upper bound has a largest one.
LEMMA MaxNat ==
  ASSUME NEW S, NEW n \in Nat, S \subseteq 0..n, S # {}
  PROVE  Max(S) \in S /\ \A x \in S : x <= Max(S)
<1> DEFINE Below == {y \in 0..n : n - y \in S}
<1>1. Below \subseteq Nat /\ Below # {}
  <2>1. PICK x \in S : TRUE
    OBVIOUS
  <2>2. n - x \in 0..n /\ n - (n - x) = x
    OBVIOUS
  <2>3. n - x \in Below
    BY <2>1, <2>2
  <2>4. Below \subseteq Nat
    OBVIOUS
  <2> HIDE DEF Below
  <2> QED BY <2>3, <2>4
<1>2. PICK y \in Below : \A z \in Below : y <= z
  <2> HIDE DEF Below
  <2> QED BY <1>1, LeastNat
<1>3. n - y \in S /\ \A x \in S : n - y >= x
  <2>1. ASSUME NEW x \in S PROVE n - y >= x
    <3>1. x \in 0..n
      OBVIOUS
    <3>2. n - x \in 0..n /\ n - (n - x) = x
      BY <3>1
    <3>3. n - x \in Below
      BY <3>2
    <3>4. y <= n - x /\ y \in 0..n
      BY <1>2, <3>3
    <3> QED BY <3>1, <3>4
  <2> QED BY <2>1
<1>4. Max(S) \in S /\ \A x \in S : Max(S) >= x
  BY <1>3, Zenon DEF Max
<1>5. \A x \in S : x \in Int
  OBVIOUS
<1> QED BY <1>4, <1>5

\* ROOT and its children begin with a burst each, nothing cached and no fork.
LEMMA InitIInv == Init => IInv
<1> SUFFICES ASSUME Init PROVE IInv
  OBVIOUS
<1> USE DEF Init
<1>0. /\ TASKS \in Nat \ {0} /\ MAX_PENALTY \in Nat /\ MAX_TIME \in Nat /\ BOOT \in Nat
      /\ BOOT <= MAX_TIME /\ SAMPLE_LIMIT \in Nat /\ MAX_WORK \in Nat /\ LIFETIME \in Nat
      /\ ROOT \in Tasks /\ CHILDREN \in Nat /\ CHILDREN \in Tasks
  BY Constants
<1>1. \A t \in Tasks : t <= CHILDREN => LOADS[t + 1] \in Burst /\ LOADS[t + 1] \in Range(LOADS)
  <2>1. ASSUME NEW t \in Tasks, t <= CHILDREN PROVE t + 1 \in DOMAIN LOADS
    BY <2>1, Constants DEF Tasks, CHILDREN
  <2>2. \A i \in DOMAIN LOADS : LOADS[i] \in Burst /\ LOADS[i] \in Range(LOADS)
    BY Constants DEF Range
  <2> QED BY <2>1, <2>2
<1>2. peak \in Penalty /\ \A b \in Range(LOADS) : b[2] <= peak
  <2> DEFINE S == {b[2] : b \in Range(LOADS)}
  <2>1. \A b \in Range(LOADS) : b \in Burst
    BY Constants DEF Range
  <2>2. S \subseteq 0..MAX_PENALTY
    BY <2>1 DEF Burst, Penalty
  <2>3. S # {}
    <3>1. LOADS[ROOT + 1] \in Range(LOADS)
      BY <1>0, <1>1 DEF ROOT
    <3> QED BY <3>1
  <2>4. peak = Max(S)
    OBVIOUS
  <2>5. \A b \in Range(LOADS) : b[2] \in S
    OBVIOUS
  <2> HIDE DEF S
  <2> QED BY <1>0, <2>2, <2>3, <2>4, <2>5, MaxNat DEF Penalty
<1>3. \A t \in Tasks : t <= CHILDREN =>
        /\ LOADS[t + 1][1] \in Penalty /\ LOADS[t + 1][2] \in Penalty
        /\ LOADS[t + 1][1] <= peak /\ LOADS[t + 1][2] <= peak
  <2>1. ASSUME NEW t \in Tasks, t <= CHILDREN
        PROVE  /\ LOADS[t + 1][1] \in Penalty /\ LOADS[t + 1][2] \in Penalty
               /\ LOADS[t + 1][1] <= peak /\ LOADS[t + 1][2] <= peak
    <3>1. LOADS[t + 1] \in Penalty \X Penalty /\ LOADS[t + 1][1] <= LOADS[t + 1][2]
      BY <1>1, <2>1 DEF Burst
    <3>2. LOADS[t + 1][2] <= peak
      BY <1>1, <1>2, <2>1
    <3> QED BY <1>0, <1>2, <3>1, <3>2 DEF Penalty
  <2> QED BY <2>1
<1>4. EmptyCache(0) \in Cache /\ EmptyCache(0).penalty = 0 /\ EmptyCache(0).made = 0
      /\ EmptyCache(0).time = 0 /\ 0 \in Penalty
  BY <1>0 DEF EmptyCache, Stamp, Cache, Penalty
<1>5. Idle \in ForkRecord /\ Idle.step = "none" /\ Idle.total = 0 /\ Idle.count = 0
      /\ Idle.now = 0 /\ Idle.by = ROOT /\ Idle.owner = ROOT
  BY <1>0 DEF Idle, ForkRecord, Kinds
<1> HIDE DEF Idle, EmptyCache
<1>6. TreeTyped
  <2>1. /\ [i \in 1..CHILDREN |-> i] \in Seq(Tasks) /\ <<>> \in Seq(Tasks)
        /\ \A t \in Tasks : <<t>> \in Seq(Tasks)
    <3>1. \A i \in 1..CHILDREN : i \in Tasks
      BY <1>0 DEF Tasks
    <3> QED BY <1>0, <3>1
  <2> QED BY <1>0, <2>1 DEF TreeTyped
<1>7. CtxTyped
  BY <1>3, <1>4 DEF CtxTyped
<1>8. ForkTyped
  BY <1>5 DEF ForkTyped
<1>9. RestTyped
  <2>1. /\ writer \in [Writers -> {"idle", "written", "chosen", "half"}]
        /\ chosen \in [Writers -> 0..2] /\ rt \in [Tasks -> BOOLEAN]
    OBVIOUS
  <2>2. /\ inherit_type \in TYPES \union {2} /\ inherit_key \in BOOLEAN
        /\ ancestor_key \in BOOLEAN /\ overlapped \in BOOLEAN
    OBVIOUS
  <2>3. clock \in BOOT..MAX_TIME /\ used \in 0..MAX_WORK
    BY <1>0
  <2> HIDE DEF Init
  <2> QED BY <1>2, <2>1, <2>2, <2>3 DEF RestTyped
<1>10. Bounded
  <2>1. peak \in Nat /\ 0 <= peak /\ 0 * peak = 0
    BY <1>0, <1>2 DEF Penalty
  <2> HIDE DEF Init
  <2>2. NoInventedPenalty
    BY <1>3, <2>1 DEF NoInventedPenalty, Init
  <2>3. \A t \in Tasks : subtree[t].penalty <= peak /\ group[t].penalty <= peak
    BY <1>4, <2>1 DEF Init
  <2>4. \A c \in Tasks : fork[c].total <= fork[c].count * peak
    <3>1. \A c \in Tasks : fork[c] = Idle
      BY DEF Init
    <3> QED BY <1>5, <2>1, <3>1
  <2> QED BY <2>2, <2>3, <2>4 DEF Bounded
<1>11. Rooted
  <2>1. ROOT \in Born
    BY <1>0 DEF Born, ROOT
  <2> QED BY <1>5, <2>1 DEF Rooted
<1>12. Fresh
  <2>1. \A t \in Tasks : timestamp(subtree[t]) <= subtree[t].made /\ timestamp(group[t]) <= group[t].made
    BY <1>4, Constants DEF timestamp
  <2>2. \A c \in Tasks : fork[c].now <= clock /\ fork[c].step = "none"
    BY <1>0, <1>5
  <2> QED BY <2>1, <2>2 DEF Fresh, FreshUnlessRaced
<1>13. Chosen
  <2>1. Keyed
    BY DEF Keyed
  <2>2. \A c \in Tasks : fork[c].step = "none"
    BY <1>5
  <2> HIDE DEF Init
  <2> QED BY <2>1, <2>2 DEF Chosen, MethodMatchesType
<1> QED
  BY <1>6, <1>7, <1>8, <1>9, <1>10, <1>11, <1>12, <1>13 DEF IInv, Typed

\* Every step keeps every part.
LEMMA NextIInv == IInv /\ [Next]_vars => IInv'
BY TreeStep, CtxStep, ForkStep, RestStep, BoundedStep, RootedStep, FreshStep, ChosenStep
   DEF IInv, Typed

\* All of it holds of every behaviour.
THEOREM Invariant == Spec => []IInv
BY InitIInv, NextIInv, PTL DEF Spec

\* Types hold however many tasks are forked: an average is a penalty again.
THEOREM TypesHold == Spec => []TypeOK
<1>1. IInv => TypeOK
  <2> SUFFICES ASSUME IInv PROVE TypeOK
    OBVIOUS
  <2>1. \A c \in Tasks : fork[c] \in ForkRecord
    BY DEF IInv, Typed, ForkTyped
  <2> QED
    BY <2>1 DEF IInv, Typed, TreeTyped, CtxTyped, RestTyped, ForkRecord, TypeOK
<1> QED
  BY Invariant, <1>1, PTL

\* However families fork, exit and race for their caches, no task is given a penalty above
\* the largest that running has produced.
THEOREM NothingInvented == Spec => []NoInventedPenalty
<1>1. IInv => NoInventedPenalty
  BY DEF IInv, Bounded
<1> QED
  BY Invariant, <1>1, PTL

\* A fork that finds no write of the type under way, the last one alone, looks where the
\* type says, however many contexts write it: what a write does to the keys is described,
\* step by step, by Keyed.
THEOREM LooksWhereTold == Spec => []MethodMatchesType
<1>1. IInv => MethodMatchesType
  BY DEF IInv, Chosen
<1> QED
  BY Invariant, <1>1, PTL

\* What a fork inherits was sampled at most a lifetime before, unless another fork replaced
\* the cache after this one looked.
THEOREM InheritsFresh == Spec => []FreshUnlessRaced
<1>1. IInv => FreshUnlessRaced
  BY DEF IInv, Fresh
<1> QED
  BY Invariant, <1>1, PTL

\* The reciprocal table gives the exact average of every sample that is ever cached.
THEOREM CachesTheAverage == Spec => CacheIsAverage
<1> DEFINE Exact(c) == LET f == fork[c] IN
             f.step = "write" /\ fork'[c].step = "inherit" =>
               (IF f.method = "group" THEN group' ELSE subtree')[f.owner].penalty =
                 Larger(penalty[f.owner], IF f.count = 0 THEN 0 ELSE f.total \div f.count)
<1>1. ASSUME IInv, [Next]_vars PROVE [\A c \in Tasks : Exact(c)]_vars
  <2> SUFFICES ASSUME NEW c \in Tasks, fork[c].step = "write", fork'[c].step = "inherit"
               PROVE  Exact(c)
    OBVIOUS
  <2>0. Typed /\ Bounded
    BY <1>1 DEF IInv
  <2>1. Update(c)
    <3>0. fork \in [Tasks -> ForkRecord]
      BY <2>0 DEF Typed, ForkTyped
    <3>1. CASE UNCHANGED fork
      BY <3>1
    <3>2. ASSUME NEW t \in Tasks, NEW d \in Tasks, NEW kind \in Kinds, Dup(t, d, kind) PROVE FALSE
      <4> DEFINE r == [Idle EXCEPT !.step = IF rt[t] THEN "attach" ELSE "start", !.by = t, !.kind = kind]
      <4>1. r.step \in {"attach", "start"}
        BY DEF Idle
      <4>2. fork' = [fork EXCEPT ![d] = r]
        BY <3>2, Zenon DEF Dup
      <4> HIDE DEF r
      <4> QED BY <3>0, <4>1, <4>2
    <3>3. ASSUME NEW d \in Tasks, Start(d) \/ Update(d) \/ Inherit(d) PROVE Update(c)
      <4>1. d = c
        BY <2>0, <3>3, ForkKeeps
      <4>2. ~Start(c) /\ ~Inherit(c)
        BY Zenon DEF Start, Inherit, At
      <4> QED BY <3>3, <4>1, <4>2
    <3>4. ASSUME NEW d \in Tasks, Look(d) PROVE FALSE
      <4>1. fork[d].step = "look" /\ \E r \in ForkRecord : fork' = [fork EXCEPT ![d] = r]
        BY <2>0, <3>4, LookFinds
      <4> QED BY <3>0, <4>1
    <3>5. ASSUME NEW d \in Tasks, Attach(d) PROVE FALSE
      <4>1. fork' = [fork EXCEPT ![d] = Idle] /\ Idle.step = "none"
        BY <3>5, Zenon DEF Attach, Idle
      <4> QED BY <3>0, <4>1
    <3> QED BY <1>1, <3>1, <3>2, <3>3, <3>4, <3>5, Changes, Zenon
  <2> DEFINE f == fork[c]
             q == Larger(average_penalty(f.total, f.count), penalty[f.owner])
             new_bc == [time |-> f.now \div GRAIN, penalty |-> q, made |-> f.now]
  <2>2. IF f.method = "group"
        THEN group' = [group EXCEPT ![f.owner] = new_bc] /\ subtree' = subtree
        ELSE subtree' = [subtree EXCEPT ![f.owner] = new_bc] /\ group' = group
    BY <2>0, <2>1, UpdateWrites
  <2>3. /\ f.owner \in Tasks /\ f.count \in 0..SAMPLE_LIMIT /\ f.total \in Nat
        /\ f.total <= f.count * MAX_PENALTY
        /\ subtree \in [Tasks -> Cache] /\ group \in [Tasks -> Cache]
        /\ penalty[f.owner] \in Nat
    <3>1. /\ f.owner \in Tasks /\ f.count \in 0..SAMPLE_LIMIT /\ f.total \in Nat
          /\ f.total <= f.count * peak /\ peak \in Penalty
          /\ subtree \in [Tasks -> Cache] /\ group \in [Tasks -> Cache]
          /\ penalty \in [Tasks -> Penalty]
      BY <2>0 DEF Typed, CtxTyped, ForkTyped, ForkRecord, RestTyped, Bounded
    <3>2. f.count \in Nat /\ peak \in Nat /\ peak <= MAX_PENALTY /\ MAX_PENALTY \in Nat
      BY <3>1, Constants DEF Penalty
    <3>3. peak * f.count <= MAX_PENALTY * f.count
      BY <3>2, TimesMonotone
    <3>4. \A m, n \in Nat : m * n = n * m /\ m * n \in Nat
      OBVIOUS
    <3> HIDE DEF f
    <3>5. /\ f.count * peak = peak * f.count /\ f.count * peak \in Nat
          /\ f.count * MAX_PENALTY = MAX_PENALTY * f.count /\ f.count * MAX_PENALTY \in Nat
      BY <3>2, <3>4
    <3> QED BY <3>1, <3>2, <3>3, <3>5 DEF Penalty
  <2>4. average_penalty(f.total, f.count) = IF f.count = 0 THEN 0 ELSE f.total \div f.count
    BY <2>3, AverageExact
  <2>5. q = Larger(penalty[f.owner], IF f.count = 0 THEN 0 ELSE f.total \div f.count)
    <3> DEFINE avg == IF f.count = 0 THEN 0 ELSE f.total \div f.count
    <3>1. avg \in Nat
      BY <2>3, DivDef
    <3>2. q = Larger(avg, penalty[f.owner])
      BY <2>4
    <3> HIDE DEF avg, q, f
    <3>3. q = Larger(penalty[f.owner], avg)
      BY <2>3, <3>1, <3>2 DEF Larger
    <3> QED BY <3>3 DEF avg
  <2> HIDE DEF new_bc
  <2>6. (IF f.method = "group" THEN group' ELSE subtree')[f.owner] = new_bc
    BY <2>2, <2>3
  <2>7. new_bc.penalty = q
    BY DEF new_bc
  <2> HIDE DEF q
  <2> QED BY <2>5, <2>6, <2>7
<1>2. CacheIsAverage <=> [][\A c \in Tasks : Exact(c)]_vars
  BY DEF CacheIsAverage
<1> QED
  BY Invariant, <1>1, PTL DEF Spec, CacheIsAverage
=============================================================================
