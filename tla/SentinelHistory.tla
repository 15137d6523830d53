--------------------------- MODULE SentinelHistory ---------------------------
(***************************************************************************)
(* MemSentinel with the history of what on_error counted and answered, in  *)
(* the order of the fetch_adds, so that what its comments promise about a  *)
(* window can be stated.  The history never influences a step.             *)
(***************************************************************************)
EXTENDS MemSentinel, Sequences

CONSTANT MaxErrors   \* bound: machine-check records of one behaviour

VARIABLES
  log,      \* one entry per corrected error
  opened,   \* windows opened so far: successful compare_exchanges
  cleared   \* Clears so far

hvars == <<vars, log, opened, cleared>>

\* Contexts with a record that is not yet counted.
Busy == {c \in Contexts : pc[c] \notin {"idle", "warn", "offline"}}

Entry(c) ==
  [at |-> now[c], window |-> opened, epoch |-> cleared,
   limit |-> limit[c], warn |-> pc'[c] = "warn"]

HInit == Init /\ log = <<>> /\ opened = 0 /\ cleared = 0

Observe ==
  /\ opened' = IF \E c \in Contexts : WinReset(c) THEN opened + 1 ELSE opened
  /\ cleared' = IF \E c \in Contexts : Clear(c) THEN cleared + 1 ELSE cleared
  /\ IF \E c \in Contexts : FetchAdd(c)
       THEN \E c \in Contexts : FetchAdd(c) /\ log' = Append(log, Entry(c))
       ELSE log' = log

WithinBudget == Len(log) + Cardinality(Busy') <= MaxErrors

HNext == Next /\ Observe /\ WithinBudget

HSpec == HInit /\ [][HNext]_hvars

\* A handler that has started runs on: MCE and CMCI handlers are not preempted,
\* and one that interrupts another returns.
HFairSpec == HSpec /\ \A c \in Contexts : WF_vars(Handler(c) /\ ~At(c, "idle"))

(***************************************************************************)
(* Properties                                                              *)
(***************************************************************************)
Hits(w) == {i \in DOMAIN log : log[i].window = w}
Warns(w) == {i \in Hits(w) : log[i].warn}

\* "corrected errors escalate to Warn exactly once per window, when the count
\* reaches `threshold`" (mem_sentinel.rs:56), a window being what one winning
\* compare_exchange opens.
ExactlyOncePerWindow ==
  \A w \in 0..opened :
    Cardinality(Warns(w)) = IF Cardinality(Hits(w)) >= threshold THEN 1 ELSE 0

\* The window is called both "sliding" (mem_sentinel.rs:22) and "fixed"
\* (mem_sentinel.rs:39); it is fixed, so a storm of threshold errors that straddles
\* two windows goes unreported.  What it does guarantee: of 2 * threshold - 1 errors
\* within WINDOW_MS, threshold share a window, and that window warns.
DoubleStormWarns ==
  \A i, j \in DOMAIN log :
    (j - i + 1 = 2 * threshold - 1 /\ log[j].at - log[i].at <= WINDOW_MS) =>
      \E k \in 1..j : log[k].warn /\ log[k].window \in {log[i].window, log[j].window}

\* "%u corrected memory errors within %llus" (patch 0008:200): the errors a
\* warning counted are that close together.
WarnSpansOneWindow ==
  \A i \in DOMAIN log : log[i].warn =>
    \A j, k \in {m \in 1..i : log[m].epoch = log[i].epoch} :
      log[j].at - log[k].at <= WINDOW_MS

\* A warning that counted threshold errors counted each of them once: no error
\* handled before the count was set to zero is part of a later warning.
WarnCountsOwnEpoch ==
  \A i \in DOMAIN log : log[i].warn =>
    Cardinality({j \in 1..i : log[j].epoch = log[i].epoch}) = log[i].limit

\* The races between the contexts cannot multiply warnings: however they split a
\* window, and whatever is written to the threshold meanwhile, no threshold is warned
\* about more often than windows were opened since boot (the first one is open from
\* the start).
WarnsBoundedByWindows ==
  \A t \in Thresholds :
    Cardinality({i \in DOMAIN log : log[i].warn /\ log[i].limit = t}) <= opened + 1

\* No interleaving steps over the equality test of the count: of the errors counted
\* between two Clears with one threshold in use, one is warned about if they reach it,
\* and else none.
WarnedIffReached ==
  \A e \in 0..cleared, t \in Thresholds :
    LET errors == {i \in DOMAIN log : log[i].epoch = e}
    IN  (\A i \in errors : log[i].limit = t) =>
          ((\E i \in errors : log[i].warn) <=> Cardinality(errors) >= t)
=============================================================================
