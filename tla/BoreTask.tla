------------------------------- MODULE BoreTask -------------------------------
(***************************************************************************)
(* One task under BORE (patch 0002): its bore_ctx, its load weight, and    *)
(* everything that changes them, which is the fork that makes it, its CPU  *)
(* (ticks, sleeping, yielding, class changes), the administrator who tunes *)
(* the penalty, and writers of kernel.sched_bore on other CPUs.            *)
(*                                                                         *)
(* The first state is the copy of its creator (dup_task_struct), which     *)
(* task_fork_bore turns into a context of its own, or does not.  Until it  *)
(* is on the list of processes no writer finds it.                         *)
(*                                                                         *)
(* The task's handlers run under the runqueue lock, held from a first      *)
(* action until step is "unlocked" again.  They are several actions        *)
(* because sched_bore_key is patched without that lock and update_penalty  *)
(* asks it twice.  readjust_all_task_weights takes the lock.               *)
(*                                                                         *)
(* weight is an index into sched_prio_to_weight: se.load.weight and its    *)
(* inverse.  Virtual deadlines are left out.                               *)
(***************************************************************************)
EXTENDS BorePenalty

CONSTANTS
  Kinds,        \* kinds of task: "leader", "thread", "kthread", "idle" (SCHED_IDLE)
  Nices,        \* static_prio - MAX_RT_PRIO
  Inherited,    \* penalties of creators, and what the caches hold
  Smoothnesses, Offsets, Scales,  \* what is written to the three tunables
  Writers,      \* contexts that write kernel.sched_bore
  MAX_RUN       \* bound: the length of a burst

ASSUME TaskAssumption ==
  /\ Kinds \subseteq {"leader", "thread", "kthread", "idle"}
  /\ Nices \subseteq Prio /\ Inherited \subseteq Penalty
  /\ Smoothnesses \subseteq 0..3 /\ Offsets \subseteq Nat /\ Scales \subseteq Nat
  /\ MAX_RUN \in Nat /\ \E e \in 0..64 : MAX_RUN < 2^e     \* burst_time is a u64

VARIABLES
  kind, nice,
  class, state,                  \* "fair" or "rt"; "running", "ready", "asleep"
  burst_time, prev_penalty, curr_penalty, penalty,   \* bore_ctx
  weight,                        \* a Prio, or IDLE_WEIGHT
  exec,                          \* time the task has run since update_curr
  step, op, prev_prio,           \* the fork or handler under way and its local
  smoothness, offset, scale,     \* sched_burst_*
  sched_bore, sched_bore_key,    \* the sysctl, and the static key
  writer, enable,                \* the step of each writer, and what it read
  overlapped,                    \* history: the last write began during another
  ran, lost,         \* history: run time since the last rest, the creator's included; some
                     \* of it was dropped
  lowered,           \* history: tuning has made the present burst cost less
  exempted,          \* history: the penalty is still that of the kthread it was copied from
  stale              \* history: the weight was copied out of date, missed by a writer before
                     \* the task was listed, or set before a reset; not reweighted since

ctx == <<burst_time, prev_penalty, curr_penalty, penalty>>
entity == <<kind, nice, class, state, weight, exec>>
handler == <<step, op, prev_prio>>
tunables == <<smoothness, offset, scale>>
switch == <<sched_bore, sched_bore_key, writer, enable, overlapped>>
history == <<ran, lost, lowered, exempted, stale>>
vars == <<ctx, entity, handler, tunables, switch, history>>

IDLE_WEIGHT == PRIOS      \* not an index: WEIGHT_IDLEPRIO

Capped(p) == IF kind = "kthread" THEN 0 ELSE p
PrioOf(n, p) == effective_prio(n, p, sched_bore_key)

\* What set_load_weight sets.
LoadWeight(n, p) == IF kind = "idle" THEN IDLE_WEIGHT ELSE PrioOf(n, p)
burst_penalty(b) == calc_burst_penalty(b, offset, scale)

\* The penalty the two bursts deserve.
Deserved == Capped(AtLeast(prev_penalty, curr_penalty))

\* What a burst may have cost, as the tunables were.
Costs(b) == {calc_burst_penalty(b, o, s) : o \in Offsets, s \in Scales}

\* A creator's context: tuning may have left its penalty late, and a kthread that starts
\* a process has none.
Creator ==
  /\ burst_time \in 0..MAX_RUN /\ prev_penalty \in Inherited
  /\ curr_penalty \in Costs(burst_time)
  /\ lowered \in BOOLEAN /\ (burst_penalty(burst_time) < curr_penalty => lowered)
  /\ \/ exempted = FALSE /\ penalty = Deserved
     \/ /\ exempted = FALSE /\ lowered /\ curr_penalty <= prev_penalty
        /\ penalty \in {Capped(p) : p \in UNION {Costs(b) : b \in 0..burst_time}}
        /\ penalty > Deserved
     \/ exempted = TRUE /\ kind = "leader" /\ penalty = 0

Init ==
  /\ kind \in Kinds /\ nice \in Nices
  /\ class = "fair" /\ state = "ready" /\ exec = 0
  /\ smoothness \in Smoothnesses /\ offset \in Offsets /\ scale \in Scales
  /\ sched_bore \in BOOLEAN /\ sched_bore_key = sched_bore
  /\ Creator
  /\ weight \in IF kind = "idle" THEN {IDLE_WEIGHT} ELSE Prio
  /\ stale = (weight # LoadWeight(nice, penalty))
  /\ step = "copied" /\ op = "fork" /\ prev_prio = 0
  /\ writer = [w \in Writers |-> "idle"] /\ enable = [w \in Writers |-> TRUE]
  /\ overlapped = FALSE
  /\ ran = burst_time /\ lost = FALSE

-----------------------------------------------------------------------------
(* The fork that makes the task. *)

\* task_fork_bore looks at the key.
ForkTest ==
  /\ step = "copied"
  /\ step' = IF sched_bore_key THEN "eligible" ELSE "unlisted"
  /\ UNCHANGED <<ctx, entity, op, prev_prio, tunables, switch, history>>

\* The rest of it: what is inherited comes from a creator or a cache; into update_penalty.
ForkReset(inherited) ==
  /\ step = "eligible" /\ step' = "penalty"
  /\ prev_penalty' = AtLeast(inherited, prev_penalty)
  /\ curr_penalty' = 0 /\ burst_time' = 0
  /\ prev_prio' = PrioOf(nice, penalty)
  /\ ran' = 0 /\ lost' = FALSE /\ lowered' = FALSE
  /\ UNCHANGED <<penalty, entity, op, tunables, switch, exempted, stale>>

\* copy_process puts the task on the list of processes, and it may run.
Attach ==
  /\ op = "fork" /\ step \in {"done", "unlisted"}
  /\ step' = "unlocked" /\ op' = "tick" /\ prev_prio' = 0
  /\ UNCHANGED <<ctx, entity, tunables, switch, history>>

-----------------------------------------------------------------------------
(* The task's CPU. *)

Unlocked == step = "unlocked"

\* The clock moves on while the task runs.
Run ==
  /\ Unlocked /\ class = "fair" /\ state = "running" /\ ran < MAX_RUN
  /\ exec' = exec + 1 /\ ran' = ran + 1
  /\ UNCHANGED <<kind, nice, class, state, weight, ctx, handler, tunables, switch,
                 lost, lowered, exempted, stale>>

Pick ==
  /\ Unlocked /\ class = "fair" /\ state = "ready"
  /\ state' = "running"
  /\ UNCHANGED <<kind, nice, class, weight, exec, ctx, handler, tunables, switch, history>>

Wake ==
  /\ Unlocked /\ class = "fair" /\ state = "asleep"
  /\ state' = "ready"
  /\ UNCHANGED <<kind, nice, class, weight, exec, ctx, handler, tunables, switch, history>>

\* Mutant: the priority is compared instead of the penalty.
GrowsByScore(new) == score(new) > score(prev_penalty)

\* What update_curr_bore goes on to update_penalty for.
Grows(new) == new > prev_penalty

\* Mutant: the time accounted is not taken off.
AccountTwice(o) ==
  /\ burst_time' = burst_time + exec /\ exec' = exec
  /\ curr_penalty' = burst_penalty(burst_time')
  /\ UNCHANGED <<prev_penalty, penalty>>
  /\ IF Grows(curr_penalty')
     THEN step' = "penalty" /\ prev_prio' = PrioOf(nice, penalty)
     ELSE step' = "done" /\ UNCHANGED prev_prio

\* update_curr has something to account for: update_curr_bore, into update_penalty.
Account(o) ==
  /\ burst_time' = burst_time + exec /\ exec' = 0
  /\ curr_penalty' = burst_penalty(burst_time')
  /\ UNCHANGED <<prev_penalty, penalty>>
  /\ IF Grows(curr_penalty')
     THEN step' = "penalty" /\ prev_prio' = PrioOf(nice, penalty)
     ELSE step' = "done" /\ UNCHANGED prev_prio

\* The operations that begin with update_curr.  The last three need no running task.
Enter(o) ==
  /\ Unlocked /\ class = "fair"
  /\ state = "running" \/ o \in {"renice", "setsched", "boost"}
  /\ op' = o
  /\ \/ exec > 0 /\ Account(o)
     \/ exec = 0 /\ step' = "done" /\ UNCHANGED <<ctx, exec, prev_prio>>
  /\ UNCHANGED <<kind, nice, class, state, weight, tunables, switch, history>>

\* max_val of update_penalty.
Larger(new, old) == AtLeast(old, new)

\* Reweighting the entity when the priority has changed.
Reweight(new_prio) ==
  IF new_prio # prev_prio /\ kind # "idle"
  THEN weight' = new_prio /\ stale' = FALSE
  ELSE UNCHANGED <<weight, stale>>

\* update_penalty after its first look at the key.
UpdatePenalty ==
  /\ step = "penalty"
  /\ penalty' = Capped(Larger(curr_penalty, prev_penalty))
  /\ Reweight(PrioOf(nice, penalty'))
  /\ step' = "done" /\ prev_prio' = 0
  /\ exempted' = FALSE
  /\ UNCHANGED <<burst_time, prev_penalty, curr_penalty, kind, nice, class, state, exec,
                 op, tunables, switch, ran, lost, lowered>>

\* A sleeping or yielding task ends its burst: restart_burst_bore, into update_penalty.
Restart ==
  /\ step = "done" /\ op \in {"sleep", "yield"}
  /\ prev_penalty' = binary_smooth(curr_penalty, prev_penalty, smoothness)
  /\ curr_penalty' = 0 /\ burst_time' = 0
  /\ prev_prio' = PrioOf(nice, penalty)
  /\ step' = "penalty"
  /\ op' = IF op = "sleep" THEN "block" ELSE "rest"
  /\ ran' = 0 /\ lost' = FALSE /\ lowered' = FALSE
  /\ UNCHANGED <<penalty, entity, tunables, switch, exempted, stale>>

\* The handler releases the runqueue lock and forgets its locals.
Leave(s) ==
  /\ step = "done" /\ step' = "unlocked"
  /\ state' = s
  /\ op' = "tick" /\ prev_prio' = 0
  /\ UNCHANGED <<kind, exec, ctx, tunables, switch, ran, lost, lowered, exempted>>

Ticked == op \in {"tick", "rest"} /\ Leave(state) /\ UNCHANGED <<nice, class, weight, stale>>
Preempt == op = "preempt" /\ Leave("ready") /\ UNCHANGED <<nice, class, weight, stale>>
Block == op = "block" /\ Leave("asleep") /\ UNCHANGED <<nice, class, weight, stale>>

Renice ==
  /\ op = "renice" /\ Leave(state)
  /\ nice' \in Nices
  /\ weight' = LoadWeight(nice', penalty) /\ stale' = FALSE
  /\ UNCHANGED class

\* To a real-time class: by sched_setscheduler, which sets the load weight, or by
\* priority inheritance, which does not.
JoinRT ==
  /\ op \in {"setsched", "boost"} /\ Leave(state)
  /\ class' = "rt"
  /\ IF op = "setsched" THEN weight' = LoadWeight(nice, penalty) ELSE UNCHANGED weight
  /\ UNCHANGED <<nice, stale>>

\* And back, where switched_to_fair resets bore_ctx after the weight was set.
JoinFair(by) ==
  /\ Unlocked /\ class = "rt"
  /\ class' = "fair"
  /\ IF by = "setsched" THEN weight' = LoadWeight(nice, penalty) ELSE UNCHANGED weight
  /\ burst_time' = 0 /\ prev_penalty' = 0 /\ curr_penalty' = 0 /\ penalty' = 0
  /\ ran' = 0 /\ lost' = FALSE /\ lowered' = FALSE /\ exempted' = FALSE /\ stale' = TRUE
  /\ UNCHANGED <<kind, nice, state, exec, handler, tunables, switch>>

\* A real-time task is scheduled without BORE.
MoveRT(s) ==
  /\ Unlocked /\ class = "rt"
  /\ s # state /\ state' = s
  /\ UNCHANGED <<kind, nice, class, weight, exec, ctx, handler, tunables, switch, history>>

-----------------------------------------------------------------------------
(* The administrator. *)

\* One of sched_burst_smoothness, _penalty_offset and _penalty_scale is written.
Tune(sm, off, sc) ==
  /\ smoothness' = sm /\ offset' = off /\ scale' = sc
  /\ lowered' = (lowered \/ calc_burst_penalty(burst_time, off, sc) < curr_penalty)
  /\ UNCHANGED <<ctx, entity, handler, switch, ran, lost, exempted, stale>>

TuneSmoothness == \E v \in Smoothnesses : Tune(v, offset, scale)
TuneOffset == \E v \in Offsets : Tune(smoothness, v, scale)
TuneScale == \E v \in Scales : Tune(smoothness, offset, v)

-----------------------------------------------------------------------------
(* Writers of kernel.sched_bore: sched_bore_update_handler. *)

Proceed(w, from, to) == writer[w] = from /\ writer' = [writer EXCEPT ![w] = to]

WriteBore(w, value) ==
  /\ Proceed(w, "idle", "written")
  /\ sched_bore' = value
  /\ overlapped' = (\E v \in Writers : writer[v] # "idle")
  /\ UNCHANGED <<ctx, entity, handler, tunables, history, sched_bore_key, enable>>

TestBore(w) ==
  /\ Proceed(w, "written", "tested")
  /\ enable' = [enable EXCEPT ![w] = sched_bore]
  /\ UNCHANGED <<ctx, entity, handler, tunables, history, sched_bore, sched_bore_key, overlapped>>

\* Mutant: the key is only ever switched off.
FlipOff(w) ==
  /\ Proceed(w, "tested", "flipped")
  /\ sched_bore_key' = (sched_bore_key /\ enable[w])
  /\ enable' = [enable EXCEPT ![w] = TRUE]
  /\ UNCHANGED <<ctx, entity, handler, tunables, history, sched_bore, overlapped>>

FlipKey(w) ==
  /\ Proceed(w, "tested", "flipped")
  /\ sched_bore_key' = enable[w]
  /\ enable' = [enable EXCEPT ![w] = TRUE]
  /\ UNCHANGED <<ctx, entity, handler, tunables, history, sched_bore, overlapped>>

\* Mutant: only tasks that run or wait are visited.
VisitedOnRq == class = "fair" /\ kind # "thread" /\ state # "asleep"

\* for_each_process finds group leaders, and only fair ones are eligible.
Visited == class = "fair" /\ kind # "thread"

\* readjust_all_task_weights comes to this task.  stop_update is set while
\* reweight_entity calls update_curr: the time of a running task is not accounted.
Revisit ==
  /\ Unlocked
  /\ IF Visited /\ kind # "idle"
     THEN /\ weight' = PrioOf(nice, penalty) /\ stale' = FALSE
          /\ exec' = 0 /\ lost' = (lost \/ exec > 0)
     ELSE UNCHANGED <<weight, stale, exec, lost>>

\* Or it has gone past the end of the list before the task was added.
Miss == op = "fork" /\ stale' = TRUE /\ UNCHANGED <<weight, exec, lost>>

Readjust(w) ==
  /\ Proceed(w, "flipped", "idle")
  /\ Revisit \/ Miss
  /\ UNCHANGED <<kind, nice, class, state, ctx, handler, tunables, ran, lowered, exempted,
                 sched_bore, sched_bore_key, enable, overlapped>>

-----------------------------------------------------------------------------
Ops == {"tick", "preempt", "sleep", "yield", "renice", "setsched", "boost"}

Next ==
  \/ ForkTest \/ (\E inherited \in Inherited : ForkReset(inherited)) \/ Attach
  \/ Run \/ Pick \/ Wake
  \/ (\E o \in Ops : Enter(o)) \/ UpdatePenalty \/ Restart
  \/ Ticked \/ Preempt \/ Block \/ Renice \/ JoinRT
  \/ \E by \in {"setsched", "boost"} : JoinFair(by)
  \/ \E s \in {"running", "ready", "asleep"} : MoveRT(s)
  \/ TuneSmoothness \/ TuneOffset \/ TuneScale
  \/ \E w \in Writers :
       \/ \E value \in BOOLEAN : WriteBore(w, value)
       \/ TestBore(w) \/ FlipKey(w) \/ Readjust(w)

Spec == Init /\ [][Next]_vars
-----------------------------------------------------------------------------
(* Correctness. *)

\* Types; the penalties fit the 16 bits of bore_ctx and index the 40 priorities.
TypeOK ==
  /\ kind \in Kinds /\ nice \in Nices
  /\ class \in {"fair", "rt"} /\ state \in {"running", "ready", "asleep"}
  /\ burst_time \in Nat /\ exec \in Nat
  /\ {prev_penalty, curr_penalty, penalty} \subseteq Penalty
  /\ weight \in Prio \union {IDLE_WEIGHT}
  /\ step \in {"copied", "eligible", "unlisted", "unlocked", "penalty", "done"} /\ prev_prio \in Prio
  /\ op \in Ops \union {"fork", "block", "rest"}
  /\ smoothness \in Smoothnesses /\ offset \in Offsets /\ scale \in Scales
  /\ {sched_bore, sched_bore_key} \subseteq BOOLEAN
  /\ writer \in [Writers -> {"idle", "written", "tested", "flipped"}]
  /\ enable \in [Writers -> BOOLEAN] /\ overlapped \in BOOLEAN
  /\ ran \in Nat /\ {lost, lowered, exempted, stale} \subseteq BOOLEAN

\* update_curr_bore returns early when the burst costs no more than the one before.
\* The penalty is nevertheless the larger of the two (0 for a kthread), as bore.rs says
\* of it; tuning that makes the present burst cheaper than it was leaves it late, never
\* too small: a task cannot use it to run better than either burst deserves.  Excepted is
\* a process that a kthread started while BORE was off, until its first update.
PenaltyIsLarger ==
  Unlocked /\ ~exempted => penalty >= Deserved /\ (~lowered => penalty = Deserved)

\* Sleeping or yielding never costs a task: the smoothed penalty of the burst that ends
\* is at most the penalty in force, whatever was tuned meanwhile.  The rescaling of the
\* deadline on a yield (old_prio > new_prio only) relies on it.
RestNeverPunishes ==
  [][penalty' > penalty => exempted \/ op \notin {"block", "rest"}]_vars

\* The weight EEVDF uses is the one of the effective priority, although it is only
\* written when a handler saw the priority change and the key may flip between its two
\* looks: once right, it stays so through any handlers, new nice values and flips.  What
\* makes it wrong is listed: a copy of a creator whose own was wrong, a writer that goes by
\* during the fork, and a reset of the context after the weight was set (stale); being a
\* thread, which no writer visits; and, for a while, a writer that has flipped the key and
\* is yet to come by.
WeightFollowsPriority ==
  /\ Unlocked /\ class = "fair"
  /\ kind # "thread" /\ ~stale
  /\ \A w \in Writers : writer[w] # "flipped"
  => weight = LoadWeight(nice, penalty)

\* No run time is counted twice, and it is all counted unless a write to
\* kernel.sched_bore came in between (Kconfig: the burst is the runtime since the task
\* last went sleeping or yielding; that of its creator, if it was forked with BORE off).
BurstIsRuntime ==
  /\ burst_time + exec <= ran
  /\ ~lost => burst_time + exec = ran

\* README: reading 1 from kernel.sched_bore verifies that BORE is active.  Storing, testing
\* and patching are three steps without a lock, and two writes that overlap can leave the
\* two with different values for good; a write that overlapped none is what counts.
LoneWriteTakesEffect ==
  (\A w \in Writers : writer[w] = "idle") /\ ~overlapped => sched_bore = sched_bore_key
=============================================================================
