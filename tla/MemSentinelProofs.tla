-------------------------- MODULE MemSentinelProofs --------------------------
(***************************************************************************)
(* What holds of the sentinel for every number of contexts, every set of   *)
(* thresholds and every window length.                                     *)
(***************************************************************************)
EXTENDS SentinelHistory, FiniteSetTheorems, TLAPS

\* Below the bound the addition of fetch_add does not wrap.
LEMMA NoWrap == ASSUME NEW n \in Nat, n + 1 < CountMod
                PROVE  (n + 1) % CountMod = n + 1
BY SentinelAssumption, SMT

\* Every variable stays within the range its C or Rust type and the bounds give
\* it, whatever the contexts and the administrator do.
THEOREM TypeCorrect == Spec => []TypeOK
<1>1. Init => TypeOK
  <2> SUFFICES ASSUME Init PROVE TypeOK
    OBVIOUS
  <2>1. 0 \in 0..MaxTime /\ 0 \in 0..(CountMod - 1)
    BY SentinelAssumption
  <2>2. fatal \in [Contexts -> BOOLEAN] /\ enabled \in BOOLEAN /\ tainted \in BOOLEAN
    BY Zenon DEF Init
  <2> QED BY <2>1, <2>2, SentinelAssumption DEF Init, TypeOK, Steps
<1>2. TypeOK /\ [Next]_vars => TypeOK'
  <2> SUFFICES ASSUME TypeOK, [Next]_vars PROVE TypeOK'
    OBVIOUS
  <2> USE SentinelAssumption DEF TypeOK, Steps, Goto, At, shared, sysctls, effects
  <2>1. ASSUME NEW c \in Contexts, Record(c) PROVE TypeOK'
    BY <2>1 DEF Record
  <2>2. ASSUME NEW c \in Contexts, ReadThreshold(c) PROVE TypeOK'
    <3>1. AtLeastOne(threshold) = threshold
      BY DEF AtLeastOne
    <3> QED BY <2>2, <3>1 DEF ReadThreshold
  <2>3. ASSUME NEW c \in Contexts, Load(c) PROVE TypeOK'
    BY <2>3 DEF Load
  <2>4. ASSUME NEW c \in Contexts, WinReset(c) PROVE TypeOK'
    BY <2>4 DEF WinReset
  <2>5. ASSUME NEW c \in Contexts, LoseReset(c) PROVE TypeOK'
    BY <2>5 DEF LoseReset
  <2>6. ASSUME NEW c \in Contexts, Clear(c) PROVE TypeOK'
    BY <2>6 DEF Clear
  <2>7. ASSUME NEW c \in Contexts, FetchAdd(c) PROVE TypeOK'
    <3>1. window_count' = window_count + 1
      BY <2>7, NoWrap DEF FetchAdd
    <3>2. warned' \subseteq Thresholds
      BY <2>7 DEF FetchAdd
    <3>3. pc' \in [Contexts -> Steps]
      BY <2>7 DEF FetchAdd
    <3> QED BY <2>7, <3>1, <3>2, <3>3 DEF FetchAdd
  <2>8. ASSUME NEW c \in Contexts, ActWarn(c) PROVE TypeOK'
    BY <2>8 DEF ActWarn
  <2>9. ASSUME NEW c \in Contexts, ActOffline(c) PROVE TypeOK'
    BY <2>9 DEF ActOffline
  <2>10. CASE WriteThreshold
    BY <2>10 DEF WriteThreshold
  <2>11. CASE WriteEnabled
    BY <2>11 DEF WriteEnabled
  <2>12. CASE Tick
    BY <2>12 DEF Tick
  <2>13. CASE UNCHANGED vars
    BY <2>13 DEF vars
  <2> QED
    BY <2>1, <2>2, <2>3, <2>4, <2>5, <2>6, <2>7, <2>8, <2>9, <2>10, <2>11, <2>12, <2>13
       DEF Next, Handler
<1> QED BY <1>1, <1>2, PTL DEF Spec

-----------------------------------------------------------------------------
\* The inductive core of NeverWarnTwice: a threshold that was warned about lies
\* at or below the count, and fetch_add only hands out the value above it.
Counted == \A t \in warned : t <= window_count

\* What fetch_add warns about is the count it has just written.
LEMMA CountedInvariant == Spec => []Counted
<1>1. Init => Counted
  BY DEF Init, Counted
<1>2. TypeOK /\ TypeOK' /\ Counted /\ [Next]_vars => Counted'
  <2> SUFFICES ASSUME TypeOK, TypeOK', Counted, [Next]_vars PROVE Counted'
    OBVIOUS
  <2>1. ASSUME NEW c \in Contexts, Clear(c) PROVE Counted'
    BY <2>1 DEF Clear, Counted
  <2>2. ASSUME NEW c \in Contexts, FetchAdd(c) PROVE Counted'
    <3>1. window_count' = window_count + 1 /\ window_count \in Nat
      BY <2>2, NoWrap, SentinelAssumption DEF FetchAdd, TypeOK
    <3>2. warned \subseteq Nat
      BY SentinelAssumption DEF TypeOK
    <3>3. \A t \in warned' : t \in warned \/ t = window_count'
      BY <2>2 DEF FetchAdd, Reaches
    <3>4. ASSUME NEW t \in warned' PROVE t <= window_count'
      <4>1. CASE t \in warned
        <5>1. t \in Nat /\ t <= window_count
          BY <3>2, <4>1 DEF Counted
        <5> QED BY <3>1, <5>1
      <4>2. CASE t = window_count'
        BY <3>1, <4>2
      <4> QED BY <3>3, <4>1, <4>2
    <3> QED BY <3>4 DEF Counted
  <2>3. ASSUME NEW c \in Contexts,
               Record(c) \/ ReadThreshold(c) \/ Load(c) \/ WinReset(c) \/ LoseReset(c)
                 \/ ActWarn(c) \/ ActOffline(c)
        PROVE  UNCHANGED <<window_count, warned>>
    BY <2>3 DEF Record, ReadThreshold, Load, WinReset, LoseReset, ActWarn, ActOffline,
                shared
  <2>4. (WriteThreshold \/ WriteEnabled \/ Tick \/ UNCHANGED vars)
          => UNCHANGED <<window_count, warned>>
    BY DEF WriteThreshold, WriteEnabled, Tick, vars, shared
  <2> QED
    BY <2>1, <2>2, <2>3, <2>4 DEF Next, Handler, Counted
<1> QED BY <1>1, <1>2, TypeCorrect, PTL DEF Spec

\* No interleaving of any number of contexts, and no schedule of writes to the
\* threshold, makes on_error warn twice for one threshold between two Clears.
THEOREM OneWarnPerThreshold == Spec => NeverWarnTwice
<1>1. TypeOK /\ Counted /\ [Next]_vars
        => [\A c \in Contexts : FetchAdd(c) /\ pc'[c] = "warn" => limit[c] \notin warned]_vars
  <2> SUFFICES ASSUME TypeOK, Counted, NEW c \in Contexts, FetchAdd(c), pc'[c] = "warn"
               PROVE  limit[c] \notin warned
    OBVIOUS
  <2>1. window_count' = window_count + 1 /\ window_count \in Nat
    BY NoWrap, SentinelAssumption DEF FetchAdd, TypeOK
  <2>2. window_count' = limit[c]
    BY DEF FetchAdd, Reaches, Goto, TypeOK
  <2> QED BY <2>1, <2>2 DEF Counted
<1> QED BY <1>1, TypeCorrect, CountedInvariant, PTL DEF Spec, NeverWarnTwice

-----------------------------------------------------------------------------
\* A running handler read the clock at most MaxLatency ago, and every start the
\* handlers ever write is such a reading.
Timely ==
  /\ window_start_ms <= clock
  /\ \A c \in Contexts : now[c] <= clock /\ (pc[c] # "idle" => clock - now[c] <= MaxLatency)

\* Time waits for a handler that has run for MaxLatency.
LEMMA TimelyInvariant == Spec => []Timely
<1>1. Init => Timely
  BY SentinelAssumption DEF Init, Timely
<1>2. TypeOK /\ Timely /\ [Next]_vars => Timely'
  <2> SUFFICES ASSUME TypeOK, Timely, [Next]_vars PROVE Timely'
    OBVIOUS
  <2> USE SentinelAssumption DEF TypeOK, Timely, Goto, At, shared, sysctls, effects
  <2>1. ASSUME NEW c \in Contexts, Record(c) PROVE Timely'
    BY <2>1 DEF Record
  <2>2. ASSUME NEW c \in Contexts, WinReset(c) PROVE Timely'
    BY <2>2 DEF WinReset
  <2>3. ASSUME NEW c \in Contexts,
               ReadThreshold(c) \/ Load(c) \/ LoseReset(c) \/ Clear(c) \/ FetchAdd(c)
                 \/ ActWarn(c) \/ ActOffline(c)
        PROVE  /\ UNCHANGED <<window_start_ms, clock, now>>
               /\ \A d \in Contexts : pc'[d] # "idle" => pc[d] # "idle"
    BY <2>3 DEF ReadThreshold, Load, LoseReset, Clear, FetchAdd, ActWarn, ActOffline
  <2>4. CASE WriteThreshold \/ WriteEnabled \/ UNCHANGED vars
    BY <2>4 DEF WriteThreshold, WriteEnabled, vars
  <2>5. CASE Tick
    BY <2>5 DEF Tick
  <2> QED
    BY <2>1, <2>2, <2>3, <2>4, <2>5 DEF Next, Handler
<1> QED BY <1>1, <1>2, TypeCorrect, PTL DEF Spec

\* The wrapped difference of a late handler can pull the start of the window
\* back, but by no more than the handler was late, for any number of contexts.
THEOREM BoundedStepBack == Spec => StartGoesBackAtMostLatency
<1>1. TypeOK /\ Timely /\ [Next]_vars
        => [window_start_ms' >= window_start_ms - MaxLatency]_vars
  <2> SUFFICES ASSUME TypeOK, Timely, Next
               PROVE  window_start_ms' >= window_start_ms - MaxLatency
    OBVIOUS
  <2>1. ASSUME NEW c \in Contexts, WinReset(c)
        PROVE  window_start_ms' >= window_start_ms - MaxLatency
    BY <2>1, SentinelAssumption DEF WinReset, Timely, TypeOK, At
  <2>2. (\E c \in Contexts : WinReset(c)) \/ window_start_ms' = window_start_ms
    BY DEF Next, Handler, Record, ReadThreshold, Load, LoseReset, Clear, FetchAdd,
           ActWarn, ActOffline, WriteThreshold, WriteEnabled, Tick, shared
  <2>3. window_start_ms \in Int /\ MaxLatency \in Nat
    BY SentinelAssumption DEF TypeOK
  <2> QED BY <2>1, <2>2, <2>3
<1> QED BY <1>1, TypeCorrect, TimelyInvariant, PTL DEF Spec, StartGoesBackAtMostLatency

-----------------------------------------------------------------------------
OneThreshold == Thresholds = {DefaultThreshold}

\* The history and the count, and nothing else, decide whether a warning was
\* given: the count cannot pass the threshold without the equality test hitting.
Faithful == warned = IF window_count >= DefaultThreshold THEN {DefaultThreshold} ELSE {}

\* fetch_add alone adds to the history, and Clear empties it with the count.
LEMMA FaithfulInvariant == ASSUME OneThreshold PROVE Spec => []Faithful
<1> USE OneThreshold DEF OneThreshold
<1>1. Init => Faithful
  BY SentinelAssumption DEF Init, Faithful
<1>2. TypeOK /\ Faithful /\ [Next]_vars => Faithful'
  <2> SUFFICES ASSUME TypeOK, Faithful, [Next]_vars PROVE Faithful'
    OBVIOUS
  <2>1. ASSUME NEW c \in Contexts, Clear(c) PROVE Faithful'
    BY <2>1, SentinelAssumption DEF Clear, Faithful
  <2>2. ASSUME NEW c \in Contexts, FetchAdd(c) PROVE Faithful'
    <3>1. window_count' = window_count + 1 /\ window_count \in Nat
      BY <2>2, NoWrap, SentinelAssumption DEF FetchAdd, TypeOK
    <3>2. limit[c] = DefaultThreshold /\ DefaultThreshold \in Nat
      BY SentinelAssumption DEF TypeOK
    <3>3. warned' = IF window_count' = DefaultThreshold
                      THEN warned \union {DefaultThreshold} ELSE warned
      BY <2>2, <3>2 DEF FetchAdd, Reaches
    <3>4. CASE window_count' < DefaultThreshold
      BY <3>1, <3>2, <3>3, <3>4 DEF Faithful
    <3>5. CASE window_count' = DefaultThreshold
      BY <3>1, <3>2, <3>3, <3>5 DEF Faithful
    <3>6. CASE window_count' > DefaultThreshold
      BY <3>1, <3>2, <3>3, <3>6 DEF Faithful
    <3> QED BY <3>1, <3>2, <3>4, <3>5, <3>6
  <2>3. ASSUME NEW c \in Contexts,
               Record(c) \/ ReadThreshold(c) \/ Load(c) \/ WinReset(c) \/ LoseReset(c)
                 \/ ActWarn(c) \/ ActOffline(c)
        PROVE  UNCHANGED <<window_count, warned>>
    BY <2>3 DEF Record, ReadThreshold, Load, WinReset, LoseReset, ActWarn, ActOffline,
                shared
  <2>4. (WriteThreshold \/ WriteEnabled \/ Tick \/ UNCHANGED vars)
          => UNCHANGED <<window_count, warned>>
    BY DEF WriteThreshold, WriteEnabled, Tick, vars, shared
  <2> QED
    BY <2>1, <2>2, <2>3, <2>4 DEF Next, Handler, Faithful
<1> QED BY <1>1, <1>2, TypeCorrect, PTL DEF Spec

-----------------------------------------------------------------------------
\* One context: its clock reading is never older than the start it compares it
\* with, so the wrapped difference is the real one and the compare_exchange wins.
Solo(c) ==
  /\ window_start_ms <= clock
  /\ pc[c] \in {"threshold", "load", "cas"} =>
       window_start_ms <= now[c] /\ now[c] <= clock
  /\ pc[c] = "cas" => start[c] = window_start_ms /\ now[c] - start[c] > WINDOW_MS

\* Without a borrow the wrapped difference is the difference.
LEMMA NoBorrow == ASSUME NEW n \in 0..MaxTime, NEW s \in 0..MaxTime, s <= n, Expired(n, s)
                  PROVE  n - s > WINDOW_MS
<1>1. n - s \in Nat /\ n - s < TimeMod
  BY SentinelAssumption
<1>2. (n - s) % TimeMod = n - s
  BY <1>1, SentinelAssumption
<1> QED BY <1>2 DEF Expired

\* Nothing changes the start between the load and the compare_exchange of one context.
LEMMA SoloInvariant == ASSUME NEW c, Contexts = {c} PROVE Spec => []Solo(c)
<1>1. Init => Solo(c)
  BY SentinelAssumption DEF Init, Solo
<1>2. TypeOK /\ Solo(c) /\ [Next]_vars => Solo(c)'
  <2> SUFFICES ASSUME TypeOK, Solo(c), [Next]_vars PROVE Solo(c)'
    OBVIOUS
  <2> USE SentinelAssumption, Contexts = {c}
      DEF TypeOK, Solo, Goto, At, shared, sysctls, effects
  <2>1. CASE Record(c)
    BY <2>1 DEF Record
  <2>2. CASE ReadThreshold(c)
    BY <2>2 DEF ReadThreshold
  <2>3. CASE Load(c)
    <3>1. Expired(now[c], window_start_ms) => now[c] - window_start_ms > WINDOW_MS
      BY <2>3, NoBorrow DEF Load
    <3> QED BY <2>3, <3>1 DEF Load
  <2>4. CASE WinReset(c)
    BY <2>4 DEF WinReset
  <2>5. CASE LoseReset(c)
    BY <2>5 DEF LoseReset
  <2>6. CASE Clear(c) \/ FetchAdd(c)
    BY <2>6 DEF Clear, FetchAdd
  <2>7. CASE ActWarn(c) \/ ActOffline(c)
    BY <2>7 DEF ActWarn, ActOffline
  <2>8. CASE WriteThreshold \/ WriteEnabled \/ UNCHANGED vars
    BY <2>8 DEF WriteThreshold, WriteEnabled, vars
  <2>9. CASE Tick
    BY <2>9 DEF Tick
  <2> QED
    BY <2>1, <2>2, <2>3, <2>4, <2>5, <2>6, <2>7, <2>8, <2>9 DEF Next, Handler
<1> QED BY <1>1, <1>2, TypeCorrect, PTL DEF Spec

\* A sentinel that one context at a time uses is the atomic one: windows follow
\* one another at more than WINDOW_MS, start from zero and alarm once.
THEOREM SoloRefines == ASSUME NEW c, Contexts = {c}, OneThreshold
                       PROVE  Spec => RefinesWindowSentinel
<1> USE Contexts = {c}
<1>1. Init => Promise!Init
  BY DEF Init, Promise!Init, At
<1>2. TypeOK /\ Solo(c) /\ Faithful /\ [Next]_vars => [Promise!Next]_Promise!vars
  <2> SUFFICES ASSUME TypeOK, Solo(c), Faithful, [Next]_vars
               PROVE  [Promise!Next]_Promise!vars
    OBVIOUS
  <2> USE DEF At, Promise!vars
  <2>1. CASE WinReset(c)
    <3>1. Promise!Open
      BY <2>1, SentinelAssumption DEF WinReset, Promise!Open, Solo, TypeOK, Goto
    <3> QED BY <3>1 DEF Promise!Next
  <2>2. CASE Clear(c)
    BY <2>2 DEF Clear, TypeOK, Goto
  <2>3. CASE FetchAdd(c)
    <3>1. window_count' = window_count + 1 /\ window_count \in Nat
      BY <2>3, NoWrap, SentinelAssumption DEF FetchAdd, TypeOK
    <3>2. limit[c] = DefaultThreshold /\ DefaultThreshold \in Nat
      BY OneThreshold, SentinelAssumption DEF TypeOK, OneThreshold
    <3>3. pc'[c] # "clear" /\ pc[c] = "add"
      BY <2>3 DEF FetchAdd, Goto, TypeOK
    <3>4. warned' # {} <=> (warned # {} \/ window_count + 1 = DefaultThreshold)
      BY <2>3, <3>1, <3>2 DEF FetchAdd, Reaches
    <3>5. Promise!Hit
      BY <2>3, <3>1, <3>3, <3>4 DEF FetchAdd, Promise!Hit
    <3> QED BY <3>5 DEF Promise!Next
  <2>4. CASE Record(c) \/ ReadThreshold(c) \/ Load(c) \/ LoseReset(c)
               \/ ActWarn(c) \/ ActOffline(c)
    <3>1. pc[c] # "clear" /\ pc'[c] # "clear"
      BY <2>4 DEF Record, ReadThreshold, Load, LoseReset, ActWarn, ActOffline, Goto, TypeOK
    <3>2. UNCHANGED <<window_start_ms, window_count, warned>>
      BY <2>4 DEF Record, ReadThreshold, Load, LoseReset, ActWarn, ActOffline, shared
    <3> QED BY <3>1, <3>2
  <2>5. CASE WriteThreshold \/ WriteEnabled \/ Tick \/ UNCHANGED vars
    BY <2>5 DEF WriteThreshold, WriteEnabled, Tick, vars, shared
  <2> QED
    BY <2>1, <2>2, <2>3, <2>4, <2>5 DEF Next, Handler
<1> QED
  BY <1>1, <1>2, TypeCorrect, SoloInvariant, FaithfulInvariant, PTL
     DEF Spec, RefinesWindowSentinel, Promise!Spec
-----------------------------------------------------------------------------
(***************************************************************************)
(* The history, of any number of contexts and any thresholds               *)
(***************************************************************************)

\* A step that the history takes no notice of.
Unseen ==
  \/ \E c \in Contexts : \/ Record(c) \/ ReadThreshold(c) \/ Load(c) \/ LoseReset(c)
                         \/ ActWarn(c) \/ ActOffline(c)
  \/ WriteThreshold \/ WriteEnabled \/ Tick \/ UNCHANGED vars

\* A fetch_add and what the history makes of it.
Counts(c) == FetchAdd(c) /\ log' = Append(log, Entry(c)) /\ UNCHANGED <<opened, cleared>>

\* A context is where the step it takes leaves it, and the others stay where they are.
LEMMA Moves ==
  ASSUME TypeOK
  PROVE  /\ \A c \in Contexts : WinReset(c) => pc[c] = "cas" /\ pc' = [pc EXCEPT ![c] = "clear"]
         /\ \A c \in Contexts : Clear(c) => pc[c] = "clear" /\ pc' = [pc EXCEPT ![c] = "add"]
         /\ \A c \in Contexts : FetchAdd(c) =>
              /\ pc[c] = "add"
              /\ pc' = [pc EXCEPT ![c] = IF window_count' = limit[c] THEN "warn" ELSE "idle"]
         /\ Unseen => \A c \in Contexts : /\ pc[c] = "add" => pc'[c] = "add"
                                          /\ pc[c] = "clear" <=> pc'[c] = "clear"
<1> USE DEF TypeOK, Goto, At
<1>1. ASSUME NEW c \in Contexts, WinReset(c)
      PROVE  pc[c] = "cas" /\ pc' = [pc EXCEPT ![c] = "clear"]
  BY <1>1 DEF WinReset
<1>2. ASSUME NEW c \in Contexts, Clear(c)
      PROVE  pc[c] = "clear" /\ pc' = [pc EXCEPT ![c] = "add"]
  BY <1>2 DEF Clear
<1>3. ASSUME NEW c \in Contexts, FetchAdd(c)
      PROVE  /\ pc[c] = "add"
             /\ pc' = [pc EXCEPT ![c] = IF window_count' = limit[c] THEN "warn" ELSE "idle"]
  BY <1>3, Zenon DEF FetchAdd, Reaches
<1>4. ASSUME Unseen, NEW c \in Contexts
      PROVE  (pc[c] = "add" => pc'[c] = "add") /\ (pc[c] = "clear" <=> pc'[c] = "clear")
  <2>1. ASSUME NEW d \in Contexts, Record(d)
        PROVE  pc[d] = "idle" /\ pc' = [pc EXCEPT ![d] = "threshold"]
    BY <2>1 DEF Record
  <2>2. ASSUME NEW d \in Contexts, ReadThreshold(d)
        PROVE  pc[d] = "threshold" /\ (\E s \in {"offline", "load"} : pc' = [pc EXCEPT ![d] = s])
    BY <2>2 DEF ReadThreshold
  <2>3. ASSUME NEW d \in Contexts, Load(d)
        PROVE  pc[d] = "load" /\ (\E s \in {"cas", "add"} : pc' = [pc EXCEPT ![d] = s])
    BY <2>3 DEF Load
  <2>4. ASSUME NEW d \in Contexts, LoseReset(d)
        PROVE  pc[d] = "cas" /\ pc' = [pc EXCEPT ![d] = "add"]
    BY <2>4 DEF LoseReset
  <2>5. ASSUME NEW d \in Contexts, ActWarn(d) \/ ActOffline(d)
        PROVE  pc[d] \in {"warn", "offline"} /\ pc' = [pc EXCEPT ![d] = "idle"]
    BY <2>5 DEF ActWarn, ActOffline
  <2>6. CASE WriteThreshold \/ WriteEnabled \/ Tick \/ UNCHANGED vars
    BY <2>6 DEF WriteThreshold, WriteEnabled, Tick, vars
  <2> QED BY <1>4, <2>1, <2>2, <2>3, <2>4, <2>5, <2>6 DEF Unseen
<1> QED BY <1>1, <1>2, <1>3, <1>4

\* What a step adds to the history: an entry of its own for a fetch_add, a window for a
\* compare_exchange that wins, an epoch for a Clear, and nothing else.
LEMMA Writes ==
  ASSUME TypeOK, [HNext]_hvars
  PROVE  \/ \E c \in Contexts : Counts(c)
         \/ \E c \in Contexts : WinReset(c) /\ opened' = opened + 1 /\ UNCHANGED <<log, cleared>>
         \/ \E c \in Contexts : Clear(c) /\ cleared' = cleared + 1 /\ UNCHANGED <<log, opened>>
         \/ Unseen /\ UNCHANGED <<log, opened, cleared>>
<1>0. pc \in [Contexts -> Steps]
  BY DEF TypeOK
<1> HIDE DEF TypeOK
<1>1. CASE UNCHANGED hvars
  BY <1>1 DEF hvars, Unseen
<1>2. ASSUME HNext, NEW c \in Contexts, FetchAdd(c) PROVE Counts(c)
  <2>1. \A d \in Contexts : d # c => ~FetchAdd(d)
    BY <1>0, <1>2, Moves
  <2>2. \A d \in Contexts : ~WinReset(d) /\ ~Clear(d)
    BY <1>0, <1>2, Moves
  <2> QED BY <1>2, <2>1, <2>2, Zenon DEF HNext, Observe, Counts
<1>3. ASSUME HNext, NEW c \in Contexts, WinReset(c)
      PROVE  opened' = opened + 1 /\ UNCHANGED <<log, cleared>>
  <2>1. \A d \in Contexts : ~FetchAdd(d) /\ ~Clear(d)
    BY <1>0, <1>3, Moves
  <2> QED BY <1>3, <2>1, Zenon DEF HNext, Observe
<1>4. ASSUME HNext, NEW c \in Contexts, Clear(c)
      PROVE  cleared' = cleared + 1 /\ UNCHANGED <<log, opened>>
  <2>1. \A d \in Contexts : ~FetchAdd(d) /\ ~WinReset(d)
    BY <1>0, <1>4, Moves
  <2> QED BY <1>4, <2>1, Zenon DEF HNext, Observe
<1>5. ASSUME HNext, Unseen
      PROVE  UNCHANGED <<log, opened, cleared>>
  <2>1. \A d \in Contexts : ~FetchAdd(d) /\ ~WinReset(d) /\ ~Clear(d)
    BY <1>0, <1>5, Moves
  <2> QED BY <1>5, <2>1, Zenon DEF HNext, Observe
<1>6. HNext => Unseen \/ \E c \in Contexts : FetchAdd(c) \/ WinReset(c) \/ Clear(c)
  BY Zenon DEF HNext, Next, Handler, Unseen
<1> QED BY <1>1, <1>2, <1>3, <1>4, <1>5, <1>6

LogEntry == [at : 0..MaxTime, window : Nat, epoch : Nat, limit : Thresholds, warn : BOOLEAN]

HTypeOK == log \in Seq(LogEntry) /\ opened \in Nat /\ cleared \in Nat

\* What a fetch_add appends.
LEMMA Appended ==
  ASSUME TypeOK, HTypeOK, NEW c \in Contexts, Counts(c)
  PROVE  /\ log' \in Seq(LogEntry) /\ Len(log) \in Nat /\ Len(log') = Len(log) + 1
         /\ \A i \in 1..Len(log) : log'[i] = log[i]
         /\ window_count \in Nat /\ window_count' = window_count + 1
         /\ limit[c] \in Thresholds
         /\ log'[Len(log')].at = now[c] /\ log'[Len(log')].window = opened
         /\ log'[Len(log')].epoch = cleared /\ log'[Len(log')].limit = limit[c]
         /\ log'[Len(log')].warn <=> window_count' = limit[c]
<1> USE DEF Counts
<1>1. window_count' = window_count + 1 /\ window_count \in Nat
  BY NoWrap, SentinelAssumption DEF FetchAdd, TypeOK
<1>2. pc'[c] = "warn" <=> window_count' = limit[c]
  BY Moves DEF TypeOK
<1>3. /\ Entry(c).at = now[c] /\ Entry(c).window = opened /\ Entry(c).epoch = cleared
      /\ Entry(c).limit = limit[c] /\ (Entry(c).warn <=> pc'[c] = "warn")
  BY DEF Entry
<1>4. now[c] \in 0..MaxTime /\ limit[c] \in Thresholds
  BY DEF TypeOK
<1>5. Entry(c) \in LogEntry
  BY <1>4 DEF HTypeOK, LogEntry, Entry
<1>6. /\ log' \in Seq(LogEntry) /\ Len(log) \in Nat /\ Len(log') = Len(log) + 1
      /\ \A i \in 1..Len(log) : log'[i] = log[i]
      /\ log'[Len(log')] = Entry(c)
  BY <1>5 DEF HTypeOK
<1> QED BY <1>1, <1>2, <1>3, <1>4, <1>6

\* The history never influences a step: what holds of the sentinel holds with it.
LEMMA HistoryObserves == HSpec => Spec
<1>1. HInit => Init
  BY DEF HInit
<1>2. [HNext]_hvars => [Next]_vars
  BY DEF HNext, hvars
<1> QED BY <1>1, <1>2, PTL DEF HSpec, Spec

\* The history is a sequence of such entries, each with the reading of a clock and a
\* threshold in its range.
LEMMA HTypedInvariant == HSpec => []HTypeOK
<1>1. HInit => HTypeOK
  BY DEF HInit, HTypeOK
<1>2. TypeOK /\ HTypeOK /\ [HNext]_hvars => HTypeOK'
  <2> SUFFICES ASSUME TypeOK, HTypeOK, [HNext]_hvars PROVE HTypeOK'
    OBVIOUS
  <2>1. ASSUME NEW c \in Contexts, Counts(c) PROVE HTypeOK'
    <3>1. log' \in Seq(LogEntry)
      BY <2>1, Appended
    <3> QED BY <2>1, <3>1 DEF HTypeOK, Counts
  <2> QED BY <2>1, Writes DEF HTypeOK
<1> QED BY <1>1, <1>2, HistoryObserves, TypeCorrect, PTL DEF HSpec

\* Of the first n entries, those that were counted between two Clears.
InEpoch(n, e) == {j \in 1..n : log[j].epoch = e}

\* They are finitely many.
LEMMA EpochsFinite == \A n \in Nat : \A e : IsFiniteSet(InEpoch(n, e))
<1> SUFFICES ASSUME NEW n \in Nat, NEW e PROVE IsFiniteSet(InEpoch(n, e))
  OBVIOUS
<1>1. IsFiniteSet(1..n)
  BY FS_Interval
<1> QED BY <1>1, FS_Subset DEF InEpoch

\* A fetch_add joins the epoch of the last Clear and leaves what was counted before.
LEMMA AppendedEpochs ==
  ASSUME TypeOK, HTypeOK, NEW c \in Contexts, Counts(c)
  PROVE  /\ \A n \in 0..Len(log) : \A e : InEpoch(n, e)' = InEpoch(n, e)
         /\ \A e : InEpoch(Len(log), e)' =
                     IF e = cleared THEN InEpoch(Len(log), e) \union {Len(log')}
                     ELSE InEpoch(Len(log), e)
         /\ \A e : Len(log') \notin InEpoch(Len(log), e)
<1>1. /\ Len(log) \in Nat /\ Len(log') = Len(log) + 1
      /\ \A i \in 1..Len(log) : log'[i] = log[i]
      /\ log'[Len(log')].epoch = cleared
  BY Appended
<1>2. \A n \in 0..Len(log) : \A e : {j \in 1..n : log'[j].epoch = e} = InEpoch(n, e)
  BY <1>1 DEF InEpoch
<1>3. ASSUME NEW e
      PROVE  {j \in 1..Len(log') : log'[j].epoch = e} =
               IF e = cleared THEN InEpoch(Len(log), e) \union {Len(log')}
               ELSE InEpoch(Len(log), e)
  BY <1>1 DEF InEpoch
<1>4. \A e : Len(log') \notin InEpoch(Len(log), e)
  BY <1>1 DEF InEpoch
<1> QED BY <1>2, <1>3, <1>4 DEF InEpoch

\* The count is the number of errors since the last Clear, and a warning counted its own.
Ledger ==
  /\ \A i \in 1..Len(log) : log[i].epoch <= cleared
  /\ window_count = Cardinality(InEpoch(Len(log), cleared))
  /\ WarnCountsOwnEpoch

\* Clear sets the count to zero and starts an epoch; fetch_add moves both by one.
LEMMA LedgerInvariant == HSpec => []Ledger
<1>1. HInit => Ledger
  <2> SUFFICES ASSUME HInit PROVE Ledger
    OBVIOUS
  <2>1. InEpoch(Len(log), cleared) = {} /\ 1..Len(log) = {}
    BY DEF HInit, InEpoch
  <2>2. DOMAIN log = {} /\ window_count = 0
    BY DEF HInit, Init
  <2> QED BY <2>1, <2>2, FS_EmptySet DEF Ledger, WarnCountsOwnEpoch
<1>2. TypeOK /\ HTypeOK /\ HTypeOK' /\ Ledger /\ [HNext]_hvars => Ledger'
  <2> SUFFICES ASSUME TypeOK, HTypeOK, HTypeOK', Ledger, [HNext]_hvars PROVE Ledger'
    OBVIOUS
  <2>0. Len(log) \in Nat /\ DOMAIN log = 1..Len(log) /\ DOMAIN log' = 1..Len(log')
    BY DEF HTypeOK
  <2>1. ASSUME NEW c \in Contexts, Counts(c) PROVE Ledger'
    <3>0. /\ Len(log') = Len(log) + 1 /\ cleared' = cleared /\ cleared \in Nat
          /\ \A i \in 1..Len(log) : log'[i] = log[i]
          /\ log'[Len(log')].epoch = cleared /\ log'[Len(log')].limit = limit[c]
          /\ log'[Len(log')].warn <=> window_count' = limit[c]
      BY <2>1, Appended DEF Counts, HTypeOK
    <3>1. \A i \in 1..Len(log') : log'[i].epoch <= cleared'
      BY <2>0, <3>0 DEF Ledger
    <3>2. window_count' = Cardinality(InEpoch(Len(log), cleared)')
      <4>1. InEpoch(Len(log), cleared)' = InEpoch(Len(log), cleared) \union {Len(log')}
        BY <2>1, AppendedEpochs DEF Counts
      <4>2. /\ Len(log') \notin InEpoch(Len(log), cleared)
            /\ IsFiniteSet(InEpoch(Len(log), cleared))
        BY <2>0, <2>1, AppendedEpochs, EpochsFinite
      <4>3. Cardinality(InEpoch(Len(log), cleared)') = Cardinality(InEpoch(Len(log), cleared)) + 1
        BY <4>1, <4>2, FS_AddElement
      <4>4. window_count' = window_count + 1
        BY <2>1, Appended
      <4> QED BY <4>3, <4>4 DEF Ledger
    <3>3. ASSUME NEW i \in 1..Len(log'), log'[i].warn
          PROVE  Cardinality({j \in 1..i : log'[j].epoch = log'[i].epoch}) = log'[i].limit
      <4>1. CASE i \in 1..Len(log)
        <5>1. log'[i] = log[i]
          BY <2>1, <4>1, Appended
        <5>2. {j \in 1..i : log'[j].epoch = log[i].epoch} =
                {j \in 1..i : log[j].epoch = log[i].epoch}
          <6>1. \A j \in 1..i : log'[j] = log[j]
            BY <2>0, <3>0, <4>1
          <6> QED BY <6>1
        <5> QED BY <2>0, <3>3, <4>1, <5>1, <5>2 DEF Ledger, WarnCountsOwnEpoch
      <4>2. CASE i = Len(log')
        <5>1. log'[i].epoch = cleared' /\ log'[i].limit = window_count'
          BY <3>0, <3>3, <4>2
        <5>2. {j \in 1..i : log'[j].epoch = log'[i].epoch} = InEpoch(Len(log), cleared)'
          BY <4>2, <5>1 DEF InEpoch
        <5> QED BY <3>2, <5>1, <5>2
      <4>3. i \in 1..Len(log) \/ i = Len(log')
        BY <2>0, <3>0
      <4> QED BY <4>1, <4>2, <4>3
    <3> QED BY <2>0, <3>1, <3>2, <3>3 DEF Ledger, WarnCountsOwnEpoch
  <2>2. ASSUME NEW c \in Contexts, Clear(c), cleared' = cleared + 1, log' = log PROVE Ledger'
    <3>1. window_count' = 0
      BY <2>2 DEF Clear
    <3>2. \A i \in 1..Len(log) : log[i].epoch \in Nat /\ log[i].epoch <= cleared
      <4>1. \A i \in 1..Len(log) : log[i] \in LogEntry
        BY DEF HTypeOK
      <4> QED BY <4>1 DEF LogEntry, Ledger
    <3>3. InEpoch(Len(log), cleared)' = {}
      BY <2>2, <3>2 DEF InEpoch, HTypeOK
    <3>4. \A i \in 1..Len(log) : log[i].epoch <= cleared'
      BY <2>2, <3>2 DEF HTypeOK
    <3> QED BY <2>2, <3>1, <3>3, <3>4, FS_EmptySet DEF Ledger, WarnCountsOwnEpoch
  <2>3. ASSUME window_count' = window_count, cleared' = cleared, log' = log PROVE Ledger'
    BY <2>3 DEF Ledger, InEpoch, WarnCountsOwnEpoch
  <2>4. Unseen \/ (\E c \in Contexts : WinReset(c)) => window_count' = window_count
    BY DEF Unseen, Record, ReadThreshold, Load, LoseReset, ActWarn, ActOffline, WinReset,
           WriteThreshold, WriteEnabled, Tick, vars, shared
  <2> QED BY <2>1, <2>2, <2>3, <2>4, Writes
<1> QED BY <1>1, <1>2, HistoryObserves, TypeCorrect, HTypedInvariant, PTL DEF HSpec

\* Whatever the contexts and the administrator do, the errors a warning reports are as
\* many as the threshold it compared with, and none was counted for an earlier one.
THEOREM EachErrorCountsOnce == HSpec => []WarnCountsOwnEpoch
<1>1. Ledger => WarnCountsOwnEpoch
  BY DEF Ledger
<1> QED BY <1>1, LedgerInvariant, PTL

-----------------------------------------------------------------------------
(***************************************************************************)
(* How often the count warns, for any number of contexts                   *)
(***************************************************************************)

\* Of the steps that leave the log alone, a Clear alone touches the count.
LEMMA CountMoves ==
  (\E c \in Contexts : WinReset(c)) \/ Unseen => window_count' = window_count
BY DEF Unseen, Record, ReadThreshold, Load, LoseReset, ActWarn, ActOffline, WinReset,
       WriteThreshold, WriteEnabled, Tick, vars, shared

Clearing == {c \in Contexts : pc[c] = "clear"}

Warnings(t) == {i \in 1..Len(log) : log[i].warn /\ log[i].limit = t}

\* Every window that was opened has been cleared or is being cleared, and each Clear
\* allows one more warning about each threshold.
Paired ==
  /\ IsFiniteSet(Clearing) /\ opened = cleared + Cardinality(Clearing)
  /\ \A t \in Thresholds :
       Cardinality(Warnings(t)) <= cleared + IF window_count >= t THEN 1 ELSE 0

\* The log has finitely many warnings.
LEMMA WarningsFinite == ASSUME HTypeOK, NEW t
                        PROVE  IsFiniteSet(Warnings(t)) /\ Cardinality(Warnings(t)) \in Nat
<1>1. IsFiniteSet(1..Len(log))
  BY FS_Interval DEF HTypeOK
<1>2. IsFiniteSet(Warnings(t))
  BY <1>1, FS_Subset DEF Warnings
<1> QED BY <1>2, FS_CardinalityType

\* The count reaches each threshold once before it is set to zero again.
LEMMA PairedInvariant == HSpec => []Paired
<1>1. HInit => Paired
  <2> SUFFICES ASSUME HInit PROVE Paired
    OBVIOUS
  <2>1. Clearing = {} /\ \A t : Warnings(t) = {}
    BY DEF HInit, Init, Clearing, Warnings
  <2>2. opened = 0 /\ cleared = 0 /\ window_count = 0
    BY DEF HInit, Init
  <2> QED BY <2>1, <2>2, FS_EmptySet, SentinelAssumption DEF Paired
<1>2. TypeOK /\ HTypeOK /\ Paired /\ [HNext]_hvars => Paired'
  <2> SUFFICES ASSUME TypeOK, HTypeOK, Paired, [HNext]_hvars PROVE Paired'
    OBVIOUS
  <2>0. /\ opened \in Nat /\ cleared \in Nat /\ window_count \in Nat
        /\ Thresholds \subseteq Nat \ {0} /\ pc \in [Contexts -> Steps]
        /\ \A t : Cardinality(Warnings(t)) \in Nat
        /\ Cardinality(Clearing) \in Nat
    BY WarningsFinite, FS_CardinalityType, SentinelAssumption DEF TypeOK, HTypeOK, Paired
  <2>1. ASSUME NEW c \in Contexts, Counts(c) PROVE Paired'
    <3>1. Clearing' = Clearing /\ UNCHANGED <<opened, cleared>>
      BY <2>0, <2>1, Moves DEF Clearing, Counts
    <3>2. /\ Len(log) \in Nat /\ Len(log') = Len(log) + 1
          /\ \A i \in 1..Len(log) : log'[i] = log[i]
          /\ window_count' = window_count + 1 /\ log'[Len(log')].limit = limit[c]
          /\ log'[Len(log')].warn <=> window_count' = limit[c]
      BY <2>1, Appended
    <3>3. ASSUME NEW t \in Thresholds
          PROVE  Cardinality(Warnings(t))' <= cleared' + IF window_count' >= t THEN 1 ELSE 0
      <4>1. t \in Nat /\ Cardinality(Warnings(t)) \in Nat
            /\ Cardinality(Warnings(t)) <= cleared + IF window_count >= t THEN 1 ELSE 0
        BY <2>0 DEF Paired
      <4>2. Len(log') \notin Warnings(t)
        BY <3>2 DEF Warnings
      <4>3. CASE window_count' = t /\ limit[c] = t
        <5>1. Warnings(t)' = Warnings(t) \union {Len(log')}
          BY <3>2, <4>3 DEF Warnings
        <5>2. Cardinality(Warnings(t)') = Cardinality(Warnings(t)) + 1
          BY <4>2, <5>1, WarningsFinite, FS_AddElement
        <5> QED BY <2>0, <3>1, <3>2, <4>1, <4>3, <5>2
      <4>4. CASE ~(window_count' = t /\ limit[c] = t)
        <5>1. Warnings(t)' = Warnings(t)
          BY <3>2, <4>4 DEF Warnings
        <5> QED BY <2>0, <3>1, <3>2, <4>1, <5>1
      <4> QED BY <4>3, <4>4
    <3> QED BY <3>1, <3>3 DEF Paired
  <2>2. ASSUME NEW c \in Contexts, WinReset(c), opened' = opened + 1, UNCHANGED <<log, cleared>>
        PROVE  Paired'
    <3>1. c \notin Clearing /\ Clearing' = Clearing \union {c}
      BY <2>0, <2>2, Moves DEF Clearing
    <3>2. IsFiniteSet(Clearing') /\ Cardinality(Clearing') = Cardinality(Clearing) + 1
      BY <3>1, FS_AddElement DEF Paired
    <3>3. (\A t : Warnings(t)' = Warnings(t)) /\ window_count' = window_count
      BY <2>2, CountMoves DEF Warnings
    <3> QED BY <2>0, <2>2, <3>2, <3>3 DEF Paired
  <2>3. ASSUME NEW c \in Contexts, Clear(c), cleared' = cleared + 1, UNCHANGED <<log, opened>>
        PROVE  Paired'
    <3>1. c \in Clearing /\ Clearing' = Clearing \ {c}
      BY <2>0, <2>3, Moves DEF Clearing
    <3>2. IsFiniteSet(Clearing') /\ Cardinality(Clearing') = Cardinality(Clearing) - 1
      BY <3>1, FS_RemoveElement DEF Paired
    <3>3. (\A t : Warnings(t)' = Warnings(t)) /\ window_count' = 0
      BY <2>3 DEF Warnings, Clear
    <3> QED BY <2>0, <2>3, <3>2, <3>3 DEF Paired
  <2>4. ASSUME Unseen, UNCHANGED <<log, opened, cleared>> PROVE Paired'
    <3>1. Clearing' = Clearing
      BY <2>4, Moves DEF Clearing
    <3>2. (\A t : Warnings(t)' = Warnings(t)) /\ window_count' = window_count
      BY <2>4, CountMoves DEF Warnings
    <3> QED BY <2>4, <3>1, <3>2 DEF Paired
  <2> QED BY <2>1, <2>2, <2>3, <2>4, Writes
<1> QED BY <1>1, <1>2, HistoryObserves, TypeCorrect, HTypedInvariant, PTL DEF HSpec

\* For any number of contexts, and whatever is written to the threshold, the windows
\* opened since boot bound the warnings about each threshold.
THEOREM WindowsBoundWarnings == HSpec => []WarnsBoundedByWindows
<1>1. HTypeOK /\ Paired => WarnsBoundedByWindows
  <2> SUFFICES ASSUME HTypeOK, Paired, NEW t \in Thresholds
               PROVE  Cardinality({i \in DOMAIN log : log[i].warn /\ log[i].limit = t})
                        <= opened + 1
    BY DEF WarnsBoundedByWindows
  <2>0. {i \in DOMAIN log : log[i].warn /\ log[i].limit = t} = Warnings(t)
    BY DEF Warnings, HTypeOK
  <2>1. Cardinality(Warnings(t)) \in Nat /\ Cardinality(Clearing) \in Nat
    BY WarningsFinite, FS_CardinalityType DEF Paired
  <2>2. Cardinality(Warnings(t)) <= opened + 1
    BY <2>1 DEF Paired, HTypeOK
  <2> QED BY <2>0, <2>2
<1> QED BY <1>1, PairedInvariant, HTypedInvariant, PTL

\* However many contexts race, an epoch whose errors used one threshold and are as many
\* has warned.
Alarms ==
  \A n \in 0..Len(log) : \A e : \A t \in Thresholds :
    (\A i \in InEpoch(n, e) : log[i].limit = t) /\ Cardinality(InEpoch(n, e)) >= t =>
      \E k \in 1..n : log[k].warn /\ log[k].epoch = e

\* The count of an epoch grows by one, so it cannot step over the threshold.
LEMMA AlarmsInvariant == HSpec => []Alarms
<1>1. HInit => Alarms
  <2>1. HInit => 0..Len(log) = {0}
    BY DEF HInit
  <2>2. \A e : InEpoch(0, e) = {}
    BY DEF InEpoch
  <2>3. Cardinality({}) = 0 /\ \A t \in Thresholds : ~(0 >= t)
    BY FS_EmptySet, SentinelAssumption
  <2> QED BY <2>1, <2>2, <2>3 DEF Alarms
<1>2. TypeOK /\ HTypeOK /\ Ledger /\ Alarms /\ [HNext]_hvars => Alarms'
  <2> SUFFICES ASSUME TypeOK, HTypeOK, Ledger, Alarms, [HNext]_hvars PROVE Alarms'
    OBVIOUS
  <2>1. ASSUME NEW c \in Contexts, Counts(c) PROVE Alarms'
    <3>1. /\ Len(log) \in Nat /\ Len(log') = Len(log) + 1
          /\ \A i \in 1..Len(log) : log'[i] = log[i]
          /\ window_count \in Nat /\ window_count' = window_count + 1
          /\ Thresholds \subseteq Nat \ {0}
          /\ log'[Len(log')].epoch = cleared /\ log'[Len(log')].limit = limit[c]
          /\ log'[Len(log')].warn <=> window_count' = limit[c]
      BY <2>1, Appended, SentinelAssumption
    <3>2. ASSUME NEW n \in 0..Len(log), NEW e, NEW t \in Thresholds,
                 \A i \in InEpoch(n, e)' : log'[i].limit = t,
                 Cardinality(InEpoch(n, e)') >= t
          PROVE  \E k \in 1..n : log'[k].warn /\ log'[k].epoch = e
      <4>1. InEpoch(n, e)' = InEpoch(n, e)
        BY <2>1, AppendedEpochs
      <4>2. \A i \in InEpoch(n, e) : log[i].limit = t
        BY <3>1, <3>2, <4>1 DEF InEpoch
      <4>3. PICK k \in 1..n : log[k].warn /\ log[k].epoch = e
        BY <3>2, <4>1, <4>2 DEF Alarms
      <4> QED BY <3>1, <4>3
    <3>3. ASSUME NEW e, NEW t \in Thresholds,
                 \A i \in InEpoch(Len(log), e)' : log'[i].limit = t,
                 Cardinality(InEpoch(Len(log), e)') >= t
          PROVE  \E k \in 1..Len(log') : log'[k].warn /\ log'[k].epoch = e
      <4>0. \A i \in InEpoch(Len(log), e) : log[i].limit = t
        <5>1. InEpoch(Len(log), e) \subseteq InEpoch(Len(log), e)'
          BY <2>1, AppendedEpochs
        <5>2. \A i \in InEpoch(Len(log), e) : log'[i] = log[i]
          BY <3>1 DEF InEpoch
        <5> QED BY <3>3, <5>1, <5>2
      <4>1. CASE Cardinality(InEpoch(Len(log), e)) >= t
        <5>1. PICK k \in 1..Len(log) : log[k].warn /\ log[k].epoch = e
          BY <3>1, <4>0, <4>1 DEF Alarms
        <5> QED BY <3>1, <5>1
      <4>2. CASE ~(Cardinality(InEpoch(Len(log), e)) >= t)
        <5>1. e = cleared /\ InEpoch(Len(log), e)' = InEpoch(Len(log), e) \union {Len(log')}
          BY <2>1, <3>3, <4>2, AppendedEpochs
        <5>2. /\ IsFiniteSet(InEpoch(Len(log), e))
              /\ Len(log') \notin InEpoch(Len(log), e)
          BY <2>1, <3>1, EpochsFinite, AppendedEpochs
        <5>3. Cardinality(InEpoch(Len(log), e)') = window_count + 1
          BY <5>1, <5>2, FS_AddElement DEF Ledger
        <5>4. window_count' = t
          BY <3>1, <3>3, <4>2, <5>1, <5>3 DEF Ledger
        <5>5. limit[c] = t
          BY <3>1, <3>3, <5>1
        <5> QED BY <3>1, <5>1, <5>4, <5>5
      <4> QED BY <4>1, <4>2
    <3>4. \A n \in 0..Len(log') : n \in 0..Len(log) \/ n = Len(log')
      BY <3>1
    <3> QED BY <3>2, <3>3, <3>4 DEF Alarms
  <2>2. ASSUME log' = log PROVE Alarms'
    <3>1. \A n, e : InEpoch(n, e)' = InEpoch(n, e)
      BY <2>2 DEF InEpoch
    <3> QED BY <2>2, <3>1 DEF Alarms
  <2> QED BY <2>1, <2>2, Writes
<1> QED BY <1>1, <1>2, HistoryObserves, TypeCorrect, HTypedInvariant, LedgerInvariant, PTL
        DEF HSpec

\* A warning with the threshold t counted t errors of its epoch.
LEMMA WarningsCount ==
  ASSUME HTypeOK, Ledger, NEW i \in 1..Len(log), log[i].warn, log[i].limit \in Nat
  PROVE  Cardinality(InEpoch(Len(log), log[i].epoch)) >= log[i].limit
<1>1. Len(log) \in Nat /\ InEpoch(i, log[i].epoch) \subseteq InEpoch(Len(log), log[i].epoch)
  BY DEF InEpoch, HTypeOK
<1>2. /\ IsFiniteSet(InEpoch(Len(log), log[i].epoch))
      /\ Cardinality(InEpoch(i, log[i].epoch)) <= Cardinality(InEpoch(Len(log), log[i].epoch))
  BY <1>1, EpochsFinite, FS_Subset
<1>3. Cardinality(InEpoch(i, log[i].epoch)) = log[i].limit
  BY DEF Ledger, WarnCountsOwnEpoch, InEpoch, HTypeOK
<1>4. Cardinality(InEpoch(Len(log), log[i].epoch)) \in Nat
  BY <1>2, FS_CardinalityType
<1> QED BY <1>2, <1>3, <1>4

\* Of the errors counted between two Clears with one threshold, one is warned about if
\* they reach it and none if they do not, for any number of contexts and any thresholds.
THEOREM StormIsWarned == HSpec => []WarnedIffReached
<1>1. HTypeOK /\ Ledger /\ Alarms => WarnedIffReached
  <2> SUFFICES ASSUME HTypeOK, Ledger, Alarms, NEW e \in 0..cleared, NEW t \in Thresholds,
                      \A i \in InEpoch(Len(log), e) : log[i].limit = t
               PROVE  (\E i \in InEpoch(Len(log), e) : log[i].warn)
                        <=> Cardinality(InEpoch(Len(log), e)) >= t
    <3>1. HTypeOK => \A e : InEpoch(Len(log), e) = {i \in DOMAIN log : log[i].epoch = e}
      BY DEF InEpoch, HTypeOK
    <3> QED BY <3>1, Zenon DEF WarnedIffReached
  <2>1. Len(log) \in Nat /\ t \in Nat
    BY SentinelAssumption DEF HTypeOK
  <2>2. ASSUME NEW i \in InEpoch(Len(log), e), log[i].warn
        PROVE  Cardinality(InEpoch(Len(log), e)) >= t
    <3>1. i \in 1..Len(log) /\ log[i].epoch = e /\ log[i].limit = t
      BY <2>2 DEF InEpoch
    <3>2. Cardinality(InEpoch(Len(log), log[i].epoch)) >= log[i].limit
      BY <2>1, <2>2, <3>1, WarningsCount
    <3> QED BY <3>1, <3>2
  <2>3. ASSUME Cardinality(InEpoch(Len(log), e)) >= t
        PROVE  \E i \in InEpoch(Len(log), e) : log[i].warn
    <3>1. PICK k \in 1..Len(log) : log[k].warn /\ log[k].epoch = e
      BY <2>1, <2>3 DEF Alarms
    <3> QED BY <3>1 DEF InEpoch
  <2> QED BY <2>2, <2>3
<1> QED BY <1>1, HTypedInvariant, LedgerInvariant, AlarmsInvariant, PTL

\* With one threshold in use every entry of the log was compared with it.
LEMMA OneLimit == ASSUME OneThreshold, HTypeOK
                  PROVE  \A i \in 1..Len(log) : log[i].limit = DefaultThreshold
<1>1. \A i \in 1..Len(log) : log[i] \in LogEntry
  BY DEF HTypeOK
<1> QED BY <1>1 DEF LogEntry, OneThreshold

\* So an epoch that counted threshold errors has warned.
LEMMA OneAlarm ==
  ASSUME OneThreshold, HTypeOK, Alarms, NEW n \in 0..Len(log), NEW e,
         Cardinality(InEpoch(n, e)) >= DefaultThreshold
  PROVE  \E k \in 1..n : log[k].warn /\ log[k].epoch = e
<1>1. \A i \in InEpoch(n, e) : log[i].limit = DefaultThreshold
  BY OneLimit DEF InEpoch, HTypeOK
<1> QED BY <1>1, SentinelAssumption DEF Alarms

-----------------------------------------------------------------------------
(***************************************************************************)
(* The history of one context                                              *)
(***************************************************************************)

\* A record is logged in the window it was counted in, and the windows divide the log
\* by time: those of the open window follow its start by at most WINDOW_MS, those of
\* the window before it came before its start, and any older ones WINDOW_MS before.
Placed(c, entry) ==
  /\ entry.at <= clock /\ (pc[c] # "idle" => entry.at <= now[c])
  /\ entry.window = entry.epoch /\ entry.window <= opened
  /\ entry.window = opened => /\ window_start_ms <= entry.at
                              /\ entry.at <= window_start_ms + WINDOW_MS
  /\ entry.window < opened => entry.at < window_start_ms
  /\ entry.window + 1 < opened => window_start_ms - entry.at > WINDOW_MS

\* The same of two entries, the earlier one first.
InOrder(earlier, later) ==
  /\ earlier.at <= later.at /\ earlier.window <= later.window
  /\ earlier.window = later.window => later.at - earlier.at <= WINDOW_MS
  /\ earlier.window + 1 < later.window => later.at - earlier.at > WINDOW_MS

Ordered == \A i, j \in 1..Len(log) : i < j => InOrder(log[i], log[j])

\* The windows, the reading of the context that is counting, and the whole log.
Times(c) ==
  /\ opened = cleared + IF pc[c] = "clear" THEN 1 ELSE 0
  /\ pc[c] = "clear" => now[c] = window_start_ms
  /\ pc[c] = "add" => window_start_ms <= now[c] /\ now[c] <= window_start_ms + WINDOW_MS
  /\ \A i \in 1..Len(log) : Placed(c, log[i])
  /\ Ordered

\* A window whose wrapped difference is at most WINDOW_MS is not over yet.
LEMMA NotOver == ASSUME NEW n \in 0..MaxTime, NEW s \in 0..MaxTime, s <= n, ~Expired(n, s)
                 PROVE  n <= s + WINDOW_MS
<1>1. n - s \in Nat /\ n - s < TimeMod
  BY SentinelAssumption
<1>2. (n - s) % TimeMod = n - s
  BY <1>1, SentinelAssumption
<1> QED BY <1>2, SentinelAssumption DEF Expired

\* The one context that takes all the steps reads the clock in order, opens a window
\* when the last one is over and counts an error before the next one.
LEMMA TimesInvariant == ASSUME NEW c, Contexts = {c} PROVE HSpec => []Times(c)
<1> USE Contexts = {c}
<1>1. HInit => Times(c)
  BY DEF HInit, Init, Times, Ordered
<1>2. TypeOK /\ HTypeOK /\ Timely /\ Solo(c) /\ Times(c) /\ [HNext]_hvars => Times(c)'
  <2> SUFFICES ASSUME TypeOK, HTypeOK, Timely, Solo(c), Times(c), [HNext]_hvars
               PROVE  Times(c)'
    OBVIOUS
  <2>0. /\ clock \in Nat /\ now[c] \in 0..MaxTime /\ window_start_ms \in 0..MaxTime
        /\ pc \in [{c} -> Steps] /\ now \in [{c} -> 0..MaxTime]
        /\ opened \in Nat /\ cleared \in Nat /\ WINDOW_MS \in Nat
        /\ now[c] <= clock
    BY SentinelAssumption DEF TypeOK, HTypeOK, Timely
  <2>1. \A i \in 1..Len(log) : log[i] \in LogEntry
    BY DEF HTypeOK
  <2>2. CASE Counts(c)
    <3>1. /\ Len(log) \in Nat /\ Len(log') = Len(log) + 1
          /\ \A i \in 1..Len(log) : log'[i] = log[i]
          /\ log'[Len(log')].at = now[c] /\ log'[Len(log')].window = opened
          /\ log'[Len(log')].epoch = cleared
      BY <2>2, Appended
    <3>2. /\ pc[c] = "add" /\ pc'[c] # "clear" /\ pc'[c] # "add"
          /\ UNCHANGED <<window_start_ms, clock, now, opened, cleared>>
      BY <2>0, <2>2, Moves DEF Counts, FetchAdd
    <3>3. /\ window_start_ms <= now[c] /\ now[c] <= window_start_ms + WINDOW_MS
          /\ opened = cleared
      BY <2>0, <3>2 DEF Times
    <3>4. ASSUME NEW i \in 1..Len(log) PROVE Placed(c, log[i])' /\ InOrder(log[i], log'[Len(log')])
      <4>1. log[i].at \in Int /\ log[i].window \in Int /\ Placed(c, log[i])
        BY <2>1 DEF LogEntry, Times
      <4>2. InOrder(log[i], log'[Len(log')])
        BY <2>0, <3>1, <3>2, <3>3, <4>1 DEF Placed, InOrder
      <4>3. /\ log'[i] = log[i]
            /\ log[i].at <= clock /\ log[i].at <= now[c]
        BY <3>1, <3>2, <4>1 DEF Placed
      <4> QED BY <2>0, <3>2, <4>1, <4>2, <4>3 DEF Placed
    <3>5. Placed(c, log[Len(log)])'
      BY <2>0, <3>1, <3>2, <3>3 DEF Placed
    <3>6. Ordered'
      <4> SUFFICES ASSUME NEW i \in 1..Len(log'), NEW j \in 1..Len(log'), i < j
                   PROVE  InOrder(log'[i], log'[j])
        BY DEF Ordered, InOrder
      <4>1. i \in 1..Len(log) /\ log'[i] = log[i]
        BY <3>1
      <4>2. CASE j \in 1..Len(log)
        BY <3>1, <4>1, <4>2 DEF Times, Ordered
      <4>3. CASE j = Len(log')
        BY <3>4, <4>1, <4>3
      <4> QED BY <3>1, <4>2, <4>3
    <3>7. \A i \in 1..Len(log') : Placed(c, log[i])'
      BY <3>1, <3>4, <3>5
    <3> QED BY <3>2, <3>3, <3>6, <3>7 DEF Times
  <2>3. CASE WinReset(c) /\ opened' = opened + 1 /\ UNCHANGED <<log, cleared>>
    <3>1. /\ pc[c] = "cas" /\ pc'[c] = "clear" /\ window_start_ms' = now[c]
          /\ UNCHANGED <<clock, now>>
      BY <2>0, <2>3, Moves DEF WinReset
    <3>2. now[c] - window_start_ms > WINDOW_MS
      BY <3>1 DEF Solo
    <3>3. ASSUME NEW i \in 1..Len(log) PROVE Placed(c, log[i])'
      <4>1. log[i].at \in Int /\ log[i].window \in Int /\ Placed(c, log[i])
        BY <2>1 DEF LogEntry, Times
      <4>2. /\ log[i].at <= clock' /\ log[i].at <= now'[c]
            /\ log[i].window = log[i].epoch /\ log[i].window < opened'
        BY <2>0, <2>3, <3>1, <4>1 DEF Placed
      <4>3. log[i].at < window_start_ms'
        BY <2>0, <3>1, <3>2, <4>1 DEF Placed
      <4>4. log[i].window + 1 < opened' => window_start_ms' - log[i].at > WINDOW_MS
        BY <2>0, <2>3, <3>1, <3>2, <4>1 DEF Placed
      <4>5. log'[i] = log[i] /\ log[i].window # opened' /\ log[i].window <= opened'
        BY <2>0, <2>3, <4>1, <4>2
      <4> QED BY <4>2, <4>3, <4>4, <4>5 DEF Placed
    <3> QED BY <2>0, <2>3, <3>1, <3>3 DEF Times, Ordered, InOrder
  <2>4. CASE Clear(c) /\ cleared' = cleared + 1 /\ UNCHANGED <<log, opened>>
    <3>1. /\ pc[c] = "clear" /\ pc'[c] = "add"
          /\ UNCHANGED <<window_start_ms, clock, now>>
      BY <2>0, <2>4, Moves DEF Clear
    <3> QED BY <2>0, <2>4, <3>1 DEF Times, Placed, Ordered, InOrder
  <2>5. CASE Unseen /\ UNCHANGED <<log, opened, cleared>>
    <3>1. /\ window_start_ms' = window_start_ms /\ clock' \in Nat /\ clock <= clock'
          /\ pc[c] = "clear" <=> pc'[c] = "clear"
      <4>1. pc[c] = "clear" <=> pc'[c] = "clear"
        BY <2>5, Moves
      <4> QED BY <2>0, <2>5, <4>1
              DEF Unseen, Record, ReadThreshold, Load, LoseReset, ActWarn, ActOffline,
                  WriteThreshold, WriteEnabled, Tick, vars, shared
    <3>2. \/ pc'[c] = "idle"
          \/ pc[c] = "idle" /\ pc'[c] = "threshold" /\ now'[c] = clock
          \/ pc[c] # "idle" /\ now'[c] = now[c]
      BY <2>0, <2>5
         DEF Unseen, Record, ReadThreshold, Load, LoseReset, ActWarn, ActOffline,
             WriteThreshold, WriteEnabled, Tick, vars, Goto, At
    <3>3. pc'[c] = "add" =>
            window_start_ms <= now'[c] /\ now'[c] <= window_start_ms + WINDOW_MS
      <4>1. CASE pc[c] = "add"
        BY <2>0, <3>2, <4>1 DEF Times
      <4>2. CASE pc[c] # "add" /\ pc'[c] = "add"
        <5>1. LoseReset(c) \/ Load(c)
          BY <2>0, <2>5, <4>2
             DEF Unseen, Record, ReadThreshold, ActWarn, ActOffline,
                 WriteThreshold, WriteEnabled, Tick, vars, Goto, At
        <5>2. ~LoseReset(c)
          BY DEF LoseReset, Solo, At
        <5>3. Load(c) /\ ~Expired(now[c], window_start_ms) /\ window_start_ms <= now[c]
          BY <2>0, <4>2, <5>1, <5>2 DEF Load, Goto, Solo, At
        <5> QED BY <2>0, <3>2, <4>2, <5>3, NotOver DEF Load, At
      <4> QED BY <4>1, <4>2
    <3>4. ASSUME NEW i \in 1..Len(log) PROVE Placed(c, log[i])'
      <4>1. log[i].at \in Int /\ log[i].window \in Int /\ Placed(c, log[i])
        BY <2>1 DEF LogEntry, Times
      <4> QED BY <2>0, <2>5, <3>1, <3>2, <4>1 DEF Placed
    <3>5. pc'[c] = "clear" => now'[c] = window_start_ms
      BY <3>1, <3>2 DEF Times
    <3>6. Ordered'
      BY <2>5 DEF Times, Ordered, InOrder
    <3> QED BY <2>0, <2>5, <3>1, <3>3, <3>4, <3>5, <3>6 DEF Times
  <2> QED BY <2>2, <2>3, <2>4, <2>5, Writes
<1> QED BY <1>1, <1>2, HistoryObserves, TypeCorrect, HTypedInvariant, TimelyInvariant,
           SoloInvariant, PTL DEF HSpec

\* The errors such a sentinel counted for one warning lie within WINDOW_MS, also while
\* the administrator changes the threshold.
THEOREM WarningsAreClose == ASSUME NEW c, Contexts = {c} PROVE HSpec => []WarnSpansOneWindow
<1>1. HTypeOK /\ Times(c) => WarnSpansOneWindow
  <2> SUFFICES ASSUME HTypeOK, Times(c),
                      NEW i \in 1..Len(log), NEW j \in 1..i, NEW k \in 1..i,
                      log[j].epoch = log[k].epoch
               PROVE  log[j].at - log[k].at <= WINDOW_MS
    BY DEF WarnSpansOneWindow, HTypeOK
  <2>1. j \in 1..Len(log) /\ k \in 1..Len(log)
    BY DEF HTypeOK
  <2>2. log[j] \in LogEntry /\ log[k] \in LogEntry
    BY <2>1 DEF HTypeOK
  <2>3. log[j].at \in Int /\ log[k].at \in Int /\ WINDOW_MS \in Nat
    BY <2>2, SentinelAssumption DEF LogEntry
  <2>4. log[j].window = log[k].window
    BY <2>1 DEF Times, Placed
  <2>5. CASE k < j
    BY <2>1, <2>4, <2>5 DEF Times, Ordered, InOrder
  <2>6. CASE j < k
    BY <2>1, <2>3, <2>6 DEF Times, Ordered, InOrder
  <2>7. CASE j = k
    BY <2>3, <2>7
  <2> QED BY <2>5, <2>6, <2>7
<1> QED BY <1>1, HTypedInvariant, TimesInvariant, PTL

\* Of two warnings the later one counted more of the log: one epoch cannot have both.
LEMMA OneWarningEach ==
  ASSUME OneThreshold, HTypeOK, Ledger,
         NEW i \in 1..Len(log), NEW k \in 1..Len(log), i < k,
         log[i].warn, log[k].warn, log[i].epoch = log[k].epoch
  PROVE  FALSE
<1> DEFINE e == log[i].epoch
<1>1. k \in Nat /\ InEpoch(i, e) \subseteq InEpoch(k, e)
  BY DEF InEpoch, HTypeOK
<1>2. k \in InEpoch(k, e) /\ k \notin InEpoch(i, e)
  BY DEF InEpoch, HTypeOK
<1>3. IsFiniteSet(InEpoch(k, e))
  BY <1>1, EpochsFinite
<1>4. Cardinality(InEpoch(i, e)) < Cardinality(InEpoch(k, e))
  <2>1. IsFiniteSet(InEpoch(k, e) \ {k})
        /\ Cardinality(InEpoch(k, e) \ {k}) = Cardinality(InEpoch(k, e)) - 1
    BY <1>2, <1>3, FS_RemoveElement
  <2>2. InEpoch(i, e) \subseteq InEpoch(k, e) \ {k}
    BY <1>1, <1>2
  <2>3. /\ IsFiniteSet(InEpoch(i, e))
        /\ Cardinality(InEpoch(i, e)) <= Cardinality(InEpoch(k, e) \ {k})
    BY <2>1, <2>2, FS_Subset
  <2>4. Cardinality(InEpoch(i, e)) \in Nat /\ Cardinality(InEpoch(k, e)) \in Nat
    BY <1>3, <2>3, FS_CardinalityType
  <2> HIDE DEF e
  <2> QED BY <2>1, <2>3, <2>4
<1>5. Cardinality(InEpoch(i, e)) = log[i].limit /\ Cardinality(InEpoch(k, e)) = log[k].limit
  BY DEF Ledger, WarnCountsOwnEpoch, InEpoch, HTypeOK
<1>6. log[i].limit = DefaultThreshold /\ log[k].limit = DefaultThreshold
  BY OneLimit
<1>7. DefaultThreshold \in Nat
  BY SentinelAssumption
<1> QED BY <1>4, <1>5, <1>6, <1>7

\* With one threshold in use and one context at a time, every window that was opened
\* warns once if it counted threshold errors, and else not at all.
THEOREM OnceInEachWindow == ASSUME NEW c, Contexts = {c}, OneThreshold
                            PROVE  HSpec => []ExactlyOncePerWindow
<1>1. TypeOK /\ HTypeOK /\ Ledger /\ Alarms /\ Times(c) => ExactlyOncePerWindow
  <2> SUFFICES ASSUME TypeOK, HTypeOK, Ledger, Alarms, Times(c), NEW w \in 0..opened
               PROVE  Cardinality(Warns(w)) = IF Cardinality(Hits(w)) >= threshold THEN 1 ELSE 0
    BY DEF ExactlyOncePerWindow
  <2>1. threshold = DefaultThreshold /\ DefaultThreshold \in Nat \ {0} /\ Len(log) \in Nat
    BY OneThreshold, SentinelAssumption DEF TypeOK, HTypeOK, OneThreshold
  <2>2. \A i \in 1..Len(log) : log[i].window = log[i].epoch
    BY DEF Times, Placed
  <2>3. Hits(w) = InEpoch(Len(log), w)
    BY <2>2 DEF Hits, InEpoch, HTypeOK
  <2>4. Warns(w) = {i \in InEpoch(Len(log), w) : log[i].warn}
    BY <2>3 DEF Warns
  <2>5. \A i, k \in Warns(w) : i = k
    <3> SUFFICES ASSUME NEW i \in Warns(w), NEW k \in Warns(w), i # k PROVE FALSE
      OBVIOUS
    <3>1. /\ i \in 1..Len(log) /\ k \in 1..Len(log) /\ log[i].warn /\ log[k].warn
          /\ log[i].epoch = w /\ log[k].epoch = w
      BY <2>4 DEF InEpoch
    <3>2. ~(i < k) /\ ~(k < i)
      BY <3>1, OneWarningEach
    <3> QED BY <2>1, <3>1, <3>2
  <2>6. CASE Cardinality(Hits(w)) >= threshold
    <3>1. PICK k \in 1..Len(log) : log[k].warn /\ log[k].epoch = w
      BY <2>1, <2>3, <2>6, OneAlarm
    <3>2. k \in Warns(w)
      BY <2>4, <3>1 DEF InEpoch
    <3>3. Warns(w) = {k}
      BY <2>5, <3>2
    <3> QED BY <2>6, <3>3, FS_Singleton
  <2>7. CASE ~(Cardinality(Hits(w)) >= threshold)
    <3>1. ASSUME NEW i \in Warns(w) PROVE FALSE
      <4>1. i \in 1..Len(log) /\ log[i].warn /\ log[i].epoch = w
        BY <2>4, <3>1 DEF InEpoch
      <4>2. log[i].limit = DefaultThreshold
        BY <4>1, OneLimit
      <4>3. Cardinality(InEpoch(Len(log), w)) >= DefaultThreshold
        BY <2>1, <4>1, <4>2, WarningsCount
      <4> QED BY <2>1, <2>3, <2>7, <4>3
    <3>2. Warns(w) = {}
      BY <3>1
    <3> QED BY <2>7, <3>2, FS_EmptySet
  <2> QED BY <2>6, <2>7
<1> QED BY <1>1, HistoryObserves, TypeCorrect, HTypedInvariant, LedgerInvariant,
           AlarmsInvariant, TimesInvariant, PTL

\* Two sets that cover 2t - 1 numbers: one of them has t.
LEMMA Pigeonhole ==
  ASSUME NEW i \in Nat, NEW j \in Nat, NEW t \in Nat \ {0}, j - i + 1 = 2 * t - 1,
         NEW A, NEW B, A \union B = i..j
  PROVE  Cardinality(A) >= t \/ Cardinality(B) >= t
<1>1. IsFiniteSet(i..j) /\ Cardinality(i..j) = 2 * t - 1
  BY FS_Interval
<1>2. IsFiniteSet(A) /\ IsFiniteSet(B)
  BY <1>1, FS_Subset
<1>3. IsFiniteSet(A \cap B)
  BY <1>2, FS_Subset
<1>4. Cardinality(A) \in Nat /\ Cardinality(B) \in Nat /\ Cardinality(A \cap B) \in Nat
  BY <1>2, <1>3, FS_CardinalityType
<1>5. Cardinality(i..j) = Cardinality(A) + Cardinality(B) - Cardinality(A \cap B)
  BY <1>2, FS_Union
<1> QED BY <1>1, <1>4, <1>5

\* With one threshold in use and one context at a time, a storm that goes on to twice
\* the threshold less one error within WINDOW_MS is warned about, wherever the fixed
\* windows divide it.
THEOREM DoubleStorms == ASSUME NEW c, Contexts = {c}, OneThreshold
                        PROVE  HSpec => []DoubleStormWarns
<1>1. TypeOK /\ HTypeOK /\ Alarms /\ Times(c) => DoubleStormWarns
  <2>0. HTypeOK => DOMAIN log = 1..Len(log)
    BY DEF HTypeOK
  <2> SUFFICES ASSUME TypeOK, HTypeOK, Alarms, Times(c),
                      NEW i \in 1..Len(log), NEW j \in 1..Len(log),
                      j - i + 1 = 2 * threshold - 1, log[j].at - log[i].at <= WINDOW_MS
               PROVE  \E k \in 1..j : log[k].warn
                                      /\ log[k].window \in {log[i].window, log[j].window}
    BY <2>0, Zenon DEF DoubleStormWarns
  <2> DEFINE wi == log[i].window
             wj == log[j].window
  <2>1. threshold = DefaultThreshold /\ DefaultThreshold \in Nat \ {0} /\ Len(log) \in Nat
    BY OneThreshold, SentinelAssumption DEF TypeOK, HTypeOK, OneThreshold
  <2>2. i <= j /\ i \in Nat /\ j \in Nat
    BY <2>1
  <2>3. \A m \in 1..Len(log) : log[m].window \in Nat /\ log[m].window = log[m].epoch
    <3>1. \A m \in 1..Len(log) : log[m] \in LogEntry
      BY DEF HTypeOK
    <3> QED BY <3>1 DEF LogEntry, Times, Placed
  <2>4. \A m, n \in 1..Len(log) : m <= n => log[m].window <= log[n].window
    <3> SUFFICES ASSUME NEW m \in 1..Len(log), NEW n \in 1..Len(log), m <= n
                 PROVE  log[m].window <= log[n].window
      OBVIOUS
    <3>1. CASE m = n
      BY <2>3, <3>1
    <3>2. CASE m < n
      BY <3>2 DEF Times, Ordered, InOrder
    <3> QED BY <2>1, <3>1, <3>2
  <2>5. ~(wi + 1 < wj)
    <3>1. CASE i = j
      BY <2>3, <3>1
    <3>2. CASE i < j
      <4>1. log[i] \in LogEntry /\ log[j] \in LogEntry
        BY DEF HTypeOK
      <4>2. log[i].at \in Int /\ log[j].at \in Int /\ WINDOW_MS \in Nat
        BY <4>1, SentinelAssumption DEF LogEntry
      <4> QED BY <3>2, <4>2 DEF Times, Ordered, InOrder
    <3> QED BY <2>2, <3>1, <3>2
  <2>6. \A m \in i..j : log[m].window \in {wi, wj}
    <3> SUFFICES ASSUME NEW m \in i..j PROVE log[m].window \in {wi, wj}
      OBVIOUS
    <3>1. m \in 1..Len(log) /\ i <= m /\ m <= j
      BY <2>1, <2>2
    <3>2. wi <= log[m].window /\ log[m].window <= wj
      BY <2>4, <3>1
    <3> QED BY <2>3, <2>5, <3>1, <3>2
  <2> DEFINE Same(w) == {m \in i..j : log[m].window = w}
  <2>7. Same(wi) \union Same(wj) = i..j
    BY <2>6
  <2>8. PICK w \in {wi, wj} : Cardinality(Same(w)) >= threshold
    <3> HIDE DEF Same
    <3> QED BY <2>1, <2>2, <2>7, Pigeonhole
  <2>9. Same(w) \subseteq InEpoch(j, w)
    BY <2>1, <2>2, <2>3 DEF InEpoch
  <2>10. IsFiniteSet(InEpoch(j, w))
    BY <2>2, EpochsFinite
  <2>11. Cardinality(InEpoch(j, w)) >= DefaultThreshold
    <3>1. /\ IsFiniteSet(Same(w)) /\ Cardinality(Same(w)) <= Cardinality(InEpoch(j, w))
      BY <2>9, <2>10, FS_Subset
    <3>2. Cardinality(Same(w)) \in Nat /\ Cardinality(InEpoch(j, w)) \in Nat
      BY <2>10, <3>1, FS_CardinalityType
    <3> HIDE DEF Same
    <3> QED BY <2>1, <2>8, <3>1, <3>2
  <2>12. PICK k \in 1..j : log[k].warn /\ log[k].epoch = w
    <3>1. j \in 0..Len(log)
      BY <2>1, <2>2
    <3> HIDE DEF wi, wj
    <3> QED BY <2>11, <3>1, OneAlarm
  <2>13. log[k].window = w
    BY <2>1, <2>2, <2>3, <2>12
  <2> QED BY <2>8, <2>12, <2>13
<1> QED BY <1>1, HistoryObserves, TypeCorrect, HTypedInvariant, AlarmsInvariant,
           TimesInvariant, PTL
=============================================================================
