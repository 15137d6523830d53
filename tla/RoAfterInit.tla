------------------------------ MODULE RoAfterInit ------------------------------
(***************************************************************************)
(* RoAfterInit<T> of rustlux_mm: a static that boot code fills with init() *)
(* and then seal()s, and that every CPU read()s.                           *)
(*                                                                         *)
(* init() is called under its contract, by one boot CPU and before seal(). *)
(* Its plain stores become visible to other CPUs one part of the value at  *)
(* a time and in any order; seal() is a Release store, visible after them. *)
(* read() is a safe function, so other CPUs call it whenever they like, and *)
(* look at the parts of the value later.  Loads happen in program order.   *)
(***************************************************************************)
CONSTANTS
  Parts,      \* of the value: what one store writes
  Values,     \* that init() is given
  Readers,
  GARBAGE     \* what uninitialised memory holds

ASSUME RoAssumption == GARBAGE \notin Values

VARIABLES
  debug,      \* debug assertions are compiled in
  value,      \* the memory of the UnsafeCell, part by part
  sealed,     \* the memory of the AtomicBool
  stores,     \* the boot CPU's stores to the value that are not visible yet
  sealing,    \* and its store to the flag
  given,      \* history: the value that was given last
  reader,     \* each reader: "out", "holds" a reference, "stopped" by the assertion
  after,      \* history: the reader's call began after the seal was visible
  seen        \* what it has seen through its reference

vars == <<debug, value, sealed, stores, sealing, given, reader, after, seen>>

uninit == GARBAGE

Init ==
  /\ debug \in BOOLEAN
  /\ given \in Values \union {uninit}      \* new(given), or uninit()
  /\ value = [p \in Parts |-> given]
  /\ sealed = FALSE /\ sealing = FALSE /\ stores = {}
  /\ reader = [r \in Readers |-> "out"] /\ after = [r \in Readers |-> FALSE]
  /\ seen = [r \in Readers |-> {}]

\* init(): a later store to a part that still waits replaces it.  The assertion holds.
init(v) ==
  /\ ~sealing /\ ~sealed
  /\ given' = v /\ stores' = Parts
  /\ UNCHANGED <<debug, value, sealed, sealing, reader, after, seen>>

\* seal(), any number of times.
seal ==
  /\ sealing' = TRUE
  /\ UNCHANGED <<debug, value, sealed, stores, given, reader, after, seen>>

StoreLands(p) ==
  /\ p \in stores /\ stores' = stores \ {p}
  /\ value' = [value EXCEPT ![p] = given]
  /\ UNCHANGED <<debug, sealed, sealing, given, reader, after, seen>>

\* Mutant: the store of the flag is Relaxed.
SealOvertakes ==
  /\ sealing /\ sealed' = TRUE /\ sealing' = FALSE
  /\ UNCHANGED <<debug, value, stores, given, reader, after, seen>>

\* Ordering::Release.
SealLands ==
  /\ sealing /\ stores = {} /\ sealed' = TRUE /\ sealing' = FALSE
  /\ UNCHANGED <<debug, value, stores, given, reader, after, seen>>

\* Mutant: nothing is asserted.
ReadsOn(r) == "holds"

\* Where the debug_assert of read() leaves its caller.
Asserted(r) == IF debug /\ ~sealed THEN "stopped" ELSE "holds"

read(r) ==
  /\ reader[r] = "out"
  /\ reader' = [reader EXCEPT ![r] = Asserted(r)]
  /\ after' = [after EXCEPT ![r] = sealed]
  /\ UNCHANGED <<debug, value, sealed, stores, sealing, given, seen>>

Look(r, p) ==
  /\ reader[r] = "holds"
  /\ seen' = [seen EXCEPT ![r] = @ \union {value[p]}]
  /\ UNCHANGED <<debug, value, sealed, stores, sealing, given, reader, after>>

\* The reference is dropped.
Done(r) ==
  /\ reader[r] = "holds"
  /\ reader' = [reader EXCEPT ![r] = "out"]
  /\ after' = [after EXCEPT ![r] = FALSE] /\ seen' = [seen EXCEPT ![r] = {}]
  /\ UNCHANGED <<debug, value, sealed, stores, sealing, given>>

Next ==
  \/ \E v \in Values : init(v)
  \/ seal \/ SealLands
  \/ \E p \in Parts : StoreLands(p)
  \/ \E r \in Readers : read(r) \/ Done(r) \/ \E p \in Parts : Look(r, p)

Spec == Init /\ [][Next]_vars
-----------------------------------------------------------------------------
(* Correctness. *)

\* "after seal(), no write path exists" (ro_after_init.rs): once a CPU can see the seal, no
\* store to the value is still on its way, so the memory never changes again.
SealedIsFinal == [][sealed => value' = value]_vars

\* Nobody sees a value half written, an earlier one, or memory that init() was still to
\* fill: in a debug build any reader that got past the assertion, in a release build,
\* where nothing holds up a read() that comes too early, any that came after the seal.
ReadersSeeFinal ==
  \A r \in Readers :
    reader[r] = "holds" /\ (debug \/ after[r]) => seen[r] \subseteq {given}
=============================================================================
