--------------------------- MODULE RoAfterInitProofs ---------------------------
(***************************************************************************)
(* A sealed RoAfterInit never changes and is only ever seen whole, for any *)
(* number of readers and whatever the value consists of.                   *)
(***************************************************************************)
EXTENDS RoAfterInit, TLAPS

RTypeOK ==
  /\ {debug, sealed, sealing} \subseteq BOOLEAN
  /\ given \in Values \union {uninit} /\ stores \subseteq Parts
  /\ value \in [Parts -> Values \union {uninit}]
  /\ reader \in [Readers -> {"out", "holds", "stopped"}]
  /\ after \in [Readers -> BOOLEAN]
  /\ seen \in [Readers -> SUBSET (Values \union {uninit})]

\* A part whose store is not on its way holds what was given last.
Landed == \A p \in Parts \ stores : value[p] = given

\* The Release store is the last one to land.
Released == sealed => stores = {}

\* A reader that may rely on what it sees holds its reference under the seal.
Checked == \A r \in Readers : reader[r] = "holds" /\ (debug \/ after[r]) => sealed

\* Nothing is seen without a reference.
Fresh == \A r \in Readers : reader[r] = "out" => seen[r] = {}

IInv == RTypeOK /\ Fresh /\ Landed /\ Released /\ Checked /\ ReadersSeeFinal

\* Nothing has been read, and the value is whole.
LEMMA InitIInv == Init => IInv
BY DEF Init, IInv, RTypeOK, Fresh, Landed, Released, Checked, ReadersSeeFinal, uninit

\* Every action of the boot CPU, the memory and the readers keeps the invariant.
LEMMA NextIInv == IInv /\ [Next]_vars => IInv'
<1>. SUFFICES ASSUME IInv, [Next]_vars PROVE IInv'
  OBVIOUS
<1>. USE DEF IInv
<1>1. CASE \E v \in Values : init(v)
  <2>1. PICK v \in Values : init(v)
    BY <1>1
  <2>2. ~sealed /\ given' = v /\ stores' = Parts
    BY <2>1 DEF init
  <2>. QED
    BY <2>1, <2>2 DEF init, RTypeOK, Fresh, Landed, Released, Checked, ReadersSeeFinal
<1>2. CASE seal
  BY <1>2 DEF seal, RTypeOK, Fresh, Landed, Released, Checked, ReadersSeeFinal
<1>3. CASE SealLands
  BY <1>3 DEF SealLands, RTypeOK, Fresh, Landed, Released, Checked, ReadersSeeFinal
<1>4. ASSUME NEW p \in Parts, StoreLands(p) PROVE IInv'
  BY <1>4 DEF StoreLands, RTypeOK, Fresh, Landed, Released, Checked, ReadersSeeFinal
<1>5. ASSUME NEW r \in Readers, read(r) PROVE IInv'
  <2>1. RTypeOK' /\ Fresh' /\ Landed' /\ Released'
    BY <1>5 DEF read, Asserted, RTypeOK, Fresh, Landed, Released
  <2>2. Checked'
    BY <1>5 DEF read, Asserted, RTypeOK, Checked
  <2>3. ReadersSeeFinal'
    BY <1>5 DEF read, Asserted, RTypeOK, Fresh, Checked, ReadersSeeFinal
  <2>. QED
    BY <2>1, <2>2, <2>3
<1>6. ASSUME NEW r \in Readers, Done(r) PROVE IInv'
  BY <1>6 DEF Done, RTypeOK, Fresh, Landed, Released, Checked, ReadersSeeFinal
<1>7. ASSUME NEW r \in Readers, NEW p \in Parts, Look(r, p) PROVE IInv'
  <2>1. RTypeOK' /\ Fresh' /\ Landed' /\ Released' /\ Checked'
    BY <1>7 DEF Look, RTypeOK, Fresh, Landed, Released, Checked
  <2>2. debug \/ after[r] => value[p] = given
    BY <1>7 DEF Look, Landed, Released, Checked
  <2>3. ReadersSeeFinal'
    BY <1>7, <2>2 DEF Look, RTypeOK, ReadersSeeFinal
  <2>. QED
    BY <2>1, <2>3
<1>8. CASE UNCHANGED vars
  BY <1>8 DEF vars, RTypeOK, Fresh, Landed, Released, Checked, ReadersSeeFinal
<1>. QED
  BY <1>1, <1>2, <1>3, <1>4, <1>5, <1>6, <1>7, <1>8 DEF Next

\* Release and Acquire do what ro_after_init.rs relies on: whoever reads in time reads
\* the whole, last value.
THEOREM NobodySeesTorn == Spec => []ReadersSeeFinal
<1>1. IInv => ReadersSeeFinal
  BY DEF IInv
<1>. QED
  BY InitIInv, NextIInv, <1>1, PTL DEF Spec

\* "after seal(), no write path exists": the memory of a sealed value never changes.
THEOREM SealedNeverChanges == Spec => SealedIsFinal
<1>1. IInv /\ [Next]_vars => [sealed => value' = value]_vars
  BY DEF IInv, Released, Next, vars, init, seal, SealLands, StoreLands, read, Done, Look
<1>. QED
  BY InitIInv, NextIInv, <1>1, PTL DEF Spec, SealedIsFinal
=============================================================================
