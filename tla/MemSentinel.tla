----------------------------- MODULE MemSentinel -----------------------------
(***************************************************************************)
(* The DRAM instability detector: the path of a machine-check record from  *)
(* mce_log() through rustlux_memsentinel_record() (patch 0008) into the    *)
(* lock-free core MemSentinel::on_error (rustlux_mm) and back.             *)
(*                                                                         *)
(* A context is one flow of control that may be inside the handler: a CPU, *)
(* or an exception that interrupted the handler on the same CPU.  One      *)
(* action is one access to shared memory.  The code is built for x86 only, *)
(* where a locked compare_exchange or fetch_add drains the store buffer    *)
(* and loads are not reordered, so an interleaving of these accesses is    *)
(* all that the Relaxed orderings allow: the plain store of 0 becomes      *)
(* visible somewhere between the compare_exchange that allowed it and the  *)
(* same context's fetch_add, and that is what Clear does.                  *)
(***************************************************************************)
EXTENDS Integers, FiniteSets

CONSTANTS
  Contexts,     \* the flows of control that may run the handler
  Pages,        \* page frames an uncorrected error may name
  WINDOW_MS,    \* length of a window
  Thresholds,   \* the values an administrator writes into the sysctl
  DefaultThreshold,
  MaxTime,      \* bound: the last instant of the boot-time clock
  MaxLatency,   \* bound: how long one handler invocation may take
  TimeMod,      \* 2^64: width of the millisecond clock
  CountMod      \* 2^32: width of window_count

ASSUME SentinelAssumption ==
  /\ WINDOW_MS \in Nat \ {0} /\ MaxLatency \in Nat
  /\ MaxTime \in Nat /\ TimeMod \in Nat /\ MaxTime + WINDOW_MS < TimeMod
  /\ CountMod \in Nat \ {0}
  /\ Thresholds \subseteq Nat \ {0}
  /\ DefaultThreshold \in Thresholds

VARIABLES
  window_start_ms, window_count,   \* the two atomics of MemSentinel
  threshold, enabled,              \* the two sysctls
  clock,                           \* ktime_get_boottime_ns() / NSEC_PER_MSEC
  pc, now, start, limit, fatal,    \* the locals of each context
  tainted, poisoned,               \* TAINT_MACHINE_CHECK, memory_failure_queue
  warned    \* history: thresholds a Warn was decided for since the last Clear

shared == <<window_start_ms, window_count>>
sysctls == <<threshold, enabled>>
effects == <<tainted, poisoned>>
vars == <<shared, sysctls, clock, pc, now, start, limit, fatal, effects, warned>>

Steps == {"idle", "threshold", "load", "cas", "clear", "add", "warn", "offline"}

Goto(c, step) == pc' = [pc EXCEPT ![c] = step]
At(c, step) == pc[c] = step

Init ==
  /\ window_start_ms = 0 /\ window_count = 0
  /\ threshold = DefaultThreshold /\ enabled = TRUE
  /\ clock = 0
  /\ pc = [c \in Contexts |-> "idle"]
  /\ now = [c \in Contexts |-> 0] /\ start = [c \in Contexts |-> 0]
  /\ limit = [c \in Contexts |-> DefaultThreshold]
  /\ fatal = [c \in Contexts |-> FALSE]
  /\ tainted = FALSE /\ poisoned = {} /\ warned = {}

\* A valid memory error is logged while the sentinel is enabled; every other
\* record returns before it changes anything.  Reads the clock.
Record(c) ==
  /\ At(c, "idle") /\ enabled
  /\ now' = [now EXCEPT ![c] = clock]
  /\ \E uncorrected \in BOOLEAN : fatal' = [fatal EXCEPT ![c] = uncorrected]
  /\ Goto(c, "threshold")
  /\ UNCHANGED <<shared, sysctls, clock, start, limit, effects, warned>>

\* Mutant: the off-by-one of a threshold counted from zero.
CountFromZero(t) == t - 1

AtLeastOne(t) == IF t < 1 THEN 1 ELSE t

\* READ_ONCE of the threshold and the call into the core, which returns at
\* once for an uncorrected error.
ReadThreshold(c) ==
  /\ At(c, "threshold")
  /\ limit' = [limit EXCEPT ![c] = AtLeastOne(threshold)]
  /\ Goto(c, IF fatal[c] THEN "offline" ELSE "load")
  /\ UNCHANGED <<shared, sysctls, clock, now, start, fatal, effects, warned>>

\* Mutants: a window is never over, or one instant too early.
NeverExpired(n, s) == FALSE
ExpiredAtLimit(n, s) == (n - s) % TimeMod >= WINDOW_MS

\* now_ms.wrapping_sub(start) > WINDOW_MS
Expired(n, s) == (n - s) % TimeMod > WINDOW_MS

Load(c) ==
  /\ At(c, "load")
  /\ start' = [start EXCEPT ![c] = window_start_ms]
  /\ Goto(c, IF Expired(now[c], window_start_ms) THEN "cas" ELSE "add")
  /\ UNCHANGED <<shared, sysctls, clock, now, limit, fatal, effects, warned>>

\* Mutant: the compare_exchange stores the time since the start, not the time.
StoreElapsed(c) ==
  /\ At(c, "cas") /\ window_start_ms = start[c]
  /\ window_start_ms' = (now[c] - start[c]) % TimeMod
  /\ Goto(c, "clear")
  /\ UNCHANGED <<window_count, sysctls, clock, now, start, limit, fatal, effects, warned>>

WinReset(c) ==
  /\ At(c, "cas") /\ window_start_ms = start[c]
  /\ window_start_ms' = now[c]
  /\ Goto(c, "clear")
  /\ UNCHANGED <<window_count, sysctls, clock, now, start, limit, fatal, effects, warned>>

LoseReset(c) ==
  /\ At(c, "cas") /\ window_start_ms # start[c]
  /\ Goto(c, "add")
  /\ UNCHANGED <<shared, sysctls, clock, now, start, limit, fatal, effects, warned>>

\* Mutant: the winner forgets to set the count to zero.
KeepCount(c) ==
  /\ At(c, "clear")
  /\ warned' = {}
  /\ Goto(c, "add")
  /\ UNCHANGED <<shared, sysctls, clock, now, start, limit, fatal, effects>>

Clear(c) ==
  /\ At(c, "clear")
  /\ window_count' = 0
  /\ warned' = {}
  /\ Goto(c, "add")
  /\ UNCHANGED <<window_start_ms, sysctls, clock, now, start, limit, fatal, effects>>

\* Mutants: the storm is still warned about past the threshold, or one error late.
ReachesOrPasses(count, t) == count >= t
ReachesLate(count, t) == count > t

\* The value fetch_add returned, plus one, against the caller's threshold.
Reaches(count, t) == count = t

\* Bound: fewer than CountMod errors between two Clears (2^32 in the code).
FetchAdd(c) ==
  /\ At(c, "add") /\ window_count + 1 < CountMod
  /\ window_count' = (window_count + 1) % CountMod
  /\ LET warn == Reaches(window_count', limit[c])
     IN  /\ warned' = IF warn THEN warned \union {limit[c]} ELSE warned
         /\ Goto(c, IF warn THEN "warn" ELSE "idle")
  /\ UNCHANGED <<window_start_ms, sysctls, clock, now, start, limit, fatal, effects>>

\* Mutant: the sysctl is looked at again before add_taint.
TaintIfEnabled(c) ==
  /\ At(c, "warn")
  /\ tainted' = (tainted \/ enabled)
  /\ Goto(c, "idle")
  /\ UNCHANGED <<shared, sysctls, clock, now, start, limit, fatal, poisoned, warned>>

\* RUSTLUX_MS_ACTION_WARN: pr_crit and add_taint.
ActWarn(c) ==
  /\ At(c, "warn")
  /\ tainted' = TRUE
  /\ Goto(c, "idle")
  /\ UNCHANGED <<shared, sysctls, clock, now, start, limit, fatal, poisoned, warned>>

\* RUSTLUX_MS_ACTION_OFFLINE: a record with MCI_STATUS_ADDRV names a page to
\* queue, one without names none.
ActOffline(c) ==
  /\ At(c, "offline")
  /\ \E named \in {{}} \union {{p} : p \in Pages} : poisoned' = poisoned \union named
  /\ Goto(c, "idle")
  /\ UNCHANGED <<shared, sysctls, clock, now, start, limit, fatal, tainted, warned>>

Handler(c) ==
  \/ Record(c) \/ ReadThreshold(c) \/ Load(c) \/ WinReset(c) \/ LoseReset(c)
  \/ Clear(c) \/ FetchAdd(c) \/ ActWarn(c) \/ ActOffline(c)

WriteThreshold ==
  /\ threshold' \in Thresholds
  /\ UNCHANGED <<shared, enabled, clock, pc, now, start, limit, fatal, effects, warned>>

WriteEnabled ==
  /\ enabled' \in BOOLEAN
  /\ UNCHANGED <<shared, threshold, clock, pc, now, start, limit, fatal, effects, warned>>

\* Time passes, but never so much that a handler takes more than MaxLatency.
Tick ==
  /\ clock < MaxTime
  /\ \A c \in Contexts : ~At(c, "idle") => clock - now[c] < MaxLatency
  /\ clock' = clock + 1
  /\ UNCHANGED <<shared, sysctls, pc, now, start, limit, fatal, effects, warned>>

Next == (\E c \in Contexts : Handler(c)) \/ WriteThreshold \/ WriteEnabled \/ Tick

Spec == Init /\ [][Next]_vars

(***************************************************************************)
(* Properties                                                              *)
(***************************************************************************)
TypeOK ==
  /\ window_start_ms \in 0..MaxTime /\ window_count \in 0..(CountMod - 1)
  /\ threshold \in Thresholds /\ enabled \in BOOLEAN
  /\ clock \in 0..MaxTime
  /\ pc \in [Contexts -> Steps]
  /\ now \in [Contexts -> 0..MaxTime] /\ start \in [Contexts -> 0..MaxTime]
  /\ limit \in [Contexts -> Thresholds] /\ fatal \in [Contexts -> BOOLEAN]
  /\ tainted \in BOOLEAN /\ poisoned \subseteq Pages /\ warned \subseteq Thresholds

\* However the contexts interleave and whatever the administrator does to the
\* threshold, on_error never decides a second Warn for a threshold it already
\* warned about since the count was last set to zero: fetch_add hands out each
\* value of the count once.
NeverWarnTwice ==
  [][\A c \in Contexts : FetchAdd(c) /\ pc'[c] = "warn" => limit[c] \notin warned]_vars

\* A handler whose clock reading is older than the start of the window takes the
\* wrapped difference for an expired window and moves the start back to its own
\* reading, but never by more than the time a handler may take.
StartGoesBackAtMostLatency ==
  [][window_start_ms' >= window_start_ms - MaxLatency]_vars

\* With one context nothing of the handler's intermediate steps can be seen: the
\* sentinel is the atomic one.  A window whose start is written and whose count
\* is not yet zero counts as opened already.
Promise ==
  INSTANCE WindowSentinel WITH
    Threshold <- DefaultThreshold,
    start <- window_start_ms,
    count <- IF \E c \in Contexts : At(c, "clear") THEN 0 ELSE window_count,
    alarm <- warned # {} /\ \A c \in Contexts : ~At(c, "clear")

\* A sentinel used by one context at a time implements WindowSentinel.
RefinesWindowSentinel == Promise!Spec

\* A Warn that was decided taints the kernel, also when the administrator turns the
\* sentinel off before the handler that decided it gets to add_taint.
WarnTaints == (warned # {}) ~> tainted
=============================================================================
