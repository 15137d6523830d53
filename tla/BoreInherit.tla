----------------------------- MODULE BoreInherit -----------------------------
(***************************************************************************)
(* How a new task inherits a penalty under BORE (patch 0002): fork copies  *)
(* the bore_ctx of its creator, then raises the penalty to the average of  *)
(* a family, which is cached in a member of it for a while.                *)
(*                                                                         *)
(* fork holds no lock: the steps of task_fork_bore interleave with those   *)
(* of other forks, with tasks that run, exit and change class, and with    *)
(* writes to sched_burst_inherit_type, which hold none either.  Sampling   *)
(* a family under RCU is one step, as is each access to a cache.           *)
(*                                                                         *)
(* What running does to a penalty is BoreTask's subject; here Work sets it *)
(* to a pair with prev_penalty <= penalty, which BoreTask shows for all    *)
(* but kthreads (PenaltyIsLarger).  init and init_task are one task, ROOT. *)
(***************************************************************************)
EXTENDS Integers, Sequences, FiniteSets, FiniteSetsExt, Functions

CONSTANTS
  TASKS,          \* task structures: numbered from ROOT in the order of their birth
  LOADS,          \* of ROOT and its children at the start: a burst of each
  MAX_PENALTY,
  TYPES,          \* values written to sched_burst_inherit_type
  Writers,        \* contexts that write it
  LIFETIME,       \* sched_burst_cache_lifetime
  GRAIN,          \* 2^BORE_BC_TIMESTAMP_SHIFT
  SAMPLE_LIMIT, SCAN_LIMIT,
  LUT_BITS,       \* width of an entry of the reciprocal table: 32
  BOOT, MAX_TIME, \* the clock at the start, and (bound) at the end
  BURSTS,         \* what running leaves: pairs of prev_penalty and penalty
  MAX_WORK        \* bound: forks, changes of a penalty or a class, exits and writes of
                  \* the type, together

Penalty == 0..MAX_PENALTY
Burst == {b \in Penalty \X Penalty : b[1] <= b[2]}

\* What a sample adds up to, at most, does not reach the rounding error of the table.
ASSUME InheritAssumption ==
  /\ {TASKS, GRAIN, SAMPLE_LIMIT, SCAN_LIMIT, LUT_BITS} \subseteq Nat \ {0}
  /\ {MAX_PENALTY, LIFETIME, BOOT, MAX_TIME, MAX_WORK} \subseteq Nat /\ BOOT <= MAX_TIME
  /\ LOADS \in Seq(Burst) /\ Len(LOADS) \in 2..TASKS
  /\ BURSTS \subseteq Burst
  /\ TYPES \subseteq 0..2
  /\ SAMPLE_LIMIT * MAX_PENALTY * (SAMPLE_LIMIT - 1) < 2^LUT_BITS

VARIABLES
  clock,
  status,                      \* "unborn", "forking", "live", "zombie", "gone"
  rt,                          \* in a real-time class
  real_parent, leader,         \* of each task
  children, threads,           \* the lists, in order; threads of a group leader
  prev_penalty, penalty,       \* bore_ctx
  subtree, group,              \* bore_ctx: the two caches
  fork,                        \* what creates each task that is "forking"
  inherit_type, inherit_key, ancestor_key,
  writer, chosen,              \* the step of each writer, and the type it has read
  overlapped,                  \* history: the last write began during another
  used,                        \* of MAX_WORK
  peak                         \* history: the largest penalty running has produced

tree == <<status, real_parent, leader, children, threads>>
ctx == <<prev_penalty, penalty, subtree, group>>
keys == <<inherit_type, inherit_key, ancestor_key, writer, chosen, overlapped>>
vars == <<clock, rt, tree, ctx, fork, keys, used, peak>>

Tasks == 0..(TASKS - 1)
ROOT == 0
CHILDREN == Len(LOADS) - 1   \* of ROOT, at the start
Kinds == {"process", "sibling", "thread"}   \* no flag, CLONE_PARENT, CLONE_THREAD
Larger(a, b) == IF a < b THEN b ELSE a

-----------------------------------------------------------------------------
(* struct bore_bc. *)

\* Mutant: the low bits of the time are not shifted out.
PackLowBits(now, p) == [time |-> now \div GRAIN, penalty |-> p + (now % GRAIN)]

pack(now, p) == [time |-> now \div GRAIN, penalty |-> p]
timestamp(bc) == bc.time * GRAIN

\* Mutant: the lifetime is compared with the shifted time.
ExpiredShifted(bc, now) == now < timestamp(bc) \/ now \div GRAIN - bc.time > LIFETIME

\* now - timestamp > lifetime, unsigned: a time stamp ahead of now is expired too.
is_expired(bc, now) == now < timestamp(bc) \/ now - timestamp(bc) > LIFETIME

\* History: made is when the family was sampled.
Stamp(bc, at) == [time |-> bc.time, penalty |-> bc.penalty, made |-> at]
EmptyCache(at) == Stamp([time |-> 0, penalty |-> 0], at)

lut == [i \in 1..SAMPLE_LIMIT |-> ((2^LUT_BITS - 1 + i) \div i) % 2^LUT_BITS]

\* Mutant: the entry for 1, which wraps to 0, is used like the others.
AverageByTable(total, count) ==
  IF count = 0 THEN 0 ELSE (total * lut[count]) \div 2^LUT_BITS

\* Mutant: the reciprocal is left out.
TotalPenalty(total, count) == total

average_penalty(total, count) ==
  CASE count = 0 -> 0
    [] count = 1 -> total
    [] OTHER -> (total * lut[count]) \div 2^LUT_BITS

-----------------------------------------------------------------------------
(* Families. *)

Eligible(t) == ~rt[t] /\ status[t] # "zombie"

\* Of the first tasks of a list, the eligible ones, until there are enough.
Sample(list) ==
  LET sample[n \in 0..SCAN_LIMIT] ==
        IF n = 0 THEN [count |-> 0, total |-> 0]
        ELSE LET s == sample[n - 1]
             IN  IF n <= Len(list) /\ s.count < SAMPLE_LIMIT /\ Eligible(list[n])
                   THEN [count |-> s.count + 1, total |-> s.total + penalty[list[n]]]
                   ELSE s
  IN  sample[SCAN_LIMIT]

\* From a along next to the task that has no other next, less than TASKS steps away.
Follow(next, a) ==
  LET at[n \in 0..TASKS] == IF n = 0 THEN a ELSE next[at[n - 1]]
  IN  at[TASKS]

\* count_children_upto2(a) <= sole, for sole at most 1.
AtMostChildren(a, sole) == Len(children[a]) <= sole
GoesUp(a, sole) == real_parent[a] # a /\ AtMostChildren(a, sole)

\* From where the new task will hang up to the first task with another child.
Hub(start, from) ==
  IF GoesUp(start, from)
    THEN Follow([a \in Tasks |-> IF GoesUp(a, 1) THEN real_parent[a] ELSE a], real_parent[start])
    ELSE start

\* Down a chain of only children.
Leaf(t) ==
  Follow([d \in Tasks |-> IF Len(children[d]) = 1 THEN Head(children[d]) ELSE d], t)

\* The tasks whose penalties are averaged for the cache of a.
Family(method, a) ==
  CASE method = "group"  -> threads[a]
    [] method = "parent" -> children[a]
    [] method = "hub"    ->
         LET direct == children[a]
         IN  [i \in DOMAIN direct |-> Leaf(direct[i])]

\* Where the cache of a fork is.
CacheOf(f) == IF f.method = "group" THEN group[f.owner] ELSE subtree[f.owner]
SameCache(f, g) == f.owner = g.owner /\ (f.method = "group") = (g.method = "group")

-----------------------------------------------------------------------------
Idle ==
  [step |-> "none", by |-> ROOT, kind |-> "process", now |-> 0, method |-> "none",
   owner |-> ROOT, count |-> 0, total |-> 0, raced |-> FALSE, settled |-> FALSE, type |-> 0]

\* ROOT and its children.
Init ==
  /\ clock = BOOT
  /\ status = [t \in Tasks |-> IF t <= CHILDREN THEN "live" ELSE "unborn"]
  /\ rt = [t \in Tasks |-> FALSE]
  /\ real_parent = [t \in Tasks |-> ROOT] /\ leader = [t \in Tasks |-> t]
  /\ children = [t \in Tasks |-> IF t = ROOT THEN [i \in 1..CHILDREN |-> i] ELSE <<>>]
  /\ threads = [t \in Tasks |-> IF t <= CHILDREN THEN <<t>> ELSE <<>>]
  /\ prev_penalty = [t \in Tasks |-> IF t <= CHILDREN THEN LOADS[t + 1][1] ELSE 0]
  /\ penalty = [t \in Tasks |-> IF t <= CHILDREN THEN LOADS[t + 1][2] ELSE 0]
  /\ subtree = [t \in Tasks |-> EmptyCache(0)] /\ group = [t \in Tasks |-> EmptyCache(0)]
  /\ fork = [t \in Tasks |-> Idle]
  /\ inherit_type = 2 /\ inherit_key = TRUE /\ ancestor_key = TRUE
  /\ writer = [w \in Writers |-> "idle"] /\ chosen = [w \in Writers |-> 0]
  /\ overlapped = FALSE
  /\ used = 0 /\ peak = Max({b[2] : b \in Range(LOADS)})

\* No write is under way, and the last one was alone.
Settled == ~overlapped /\ \A w \in Writers : writer[w] = "idle"

Effort == used < MAX_WORK /\ used' = used + 1

Live(t) == status[t] = "live"
Forking(t) == \E c \in Tasks : fork[c].step # "none" /\ fork[c].by = t

-----------------------------------------------------------------------------
(* fork: copy_process and task_fork_bore. *)

At(c, s) == fork[c].step = s
Step(c, s) == fork' = [fork EXCEPT ![c].step = s]

\* dup_task_struct copies the creator's context, caches included.
Dup(t, c, kind) ==
  /\ Live(t) /\ ~Forking(t) /\ Effort
  /\ status[c] = "unborn" /\ \A u \in Tasks : u < c => status[u] # "unborn"
  /\ kind = "sibling" => t # ROOT
  /\ status' = [status EXCEPT ![c] = "forking"]
  /\ rt' = [rt EXCEPT ![c] = rt[t]]
  /\ leader' = [leader EXCEPT ![c] = IF kind = "thread" THEN leader[t] ELSE c]
  /\ prev_penalty' = [prev_penalty EXCEPT ![c] = prev_penalty[t]]
  /\ penalty' = [penalty EXCEPT ![c] = penalty[t]]
  /\ subtree' = [subtree EXCEPT ![c] = subtree[t]]
  /\ group' = [group EXCEPT ![c] = group[t]]
  /\ fork' = [fork EXCEPT ![c] =
       [Idle EXCEPT !.step = IF rt[t] THEN "attach" ELSE "start", !.by = t, !.kind = kind]]
  /\ UNCHANGED <<clock, real_parent, children, threads, keys, peak>>

\* p->start_time, and the first look at the keys.
Start(c) ==
  /\ At(c, "start")
  /\ LET f == fork[c]
     IN  fork' = [fork EXCEPT ![c] =
           [f EXCEPT !.now = clock, !.settled = Settled, !.type = inherit_type,
                     !.step = IF f.kind = "thread" \/ inherit_key THEN "look" ELSE "inherit"]]
  /\ UNCHANGED <<clock, rt, tree, ctx, keys, used, peak>>

\* The task whose cache holds for a fork.
Owner(f, method) ==
  LET above == f.kind = "sibling"
      origin == IF above THEN real_parent[f.by] ELSE f.by
  IN  CASE method = "group"  -> leader[f.by]
        [] method = "parent" -> origin
        [] method = "hub"    -> Hub(origin, IF above THEN 1 ELSE 0)

\* The second key decides where to look for a cache; if it has expired the family is sampled.
Look(c) ==
  /\ At(c, "look")
  /\ LET f == fork[c]
         method == IF f.kind = "thread" THEN "group"
                   ELSE IF ancestor_key THEN "hub" ELSE "parent"
         found == [f EXCEPT !.method = method, !.owner = Owner(f, method),
                     !.settled = @ /\ Settled /\ f.type = inherit_type]
         sample == Sample(Family(method, found.owner))
     IN  fork' = [fork EXCEPT ![c] =
           IF is_expired(CacheOf(found), f.now)
           THEN [found EXCEPT !.step = "write", !.count = sample.count, !.total = sample.total]
           ELSE [found EXCEPT !.step = "inherit"]]
  /\ UNCHANGED <<clock, rt, tree, ctx, keys, used, peak>>

\* update_burst_cache.
Update(c) ==
  /\ At(c, "write")
  /\ LET f == fork[c]
         new_bc == Stamp(pack(f.now, Larger(average_penalty(f.total, f.count), penalty[f.owner])),
                         f.now)
     IN  /\ IF f.method = "group"
            THEN group' = [group EXCEPT ![f.owner] = new_bc] /\ UNCHANGED subtree
            ELSE subtree' = [subtree EXCEPT ![f.owner] = new_bc] /\ UNCHANGED group
         /\ fork' = [d \in Tasks |->
              IF d = c THEN [f EXCEPT !.step = "inherit"]
              ELSE [fork[d] EXCEPT !.raced =
                      @ \/ (fork[d].step \in {"write", "inherit"} /\ SameCache(f, fork[d]))]]
  /\ UNCHANGED <<clock, rt, tree, prev_penalty, penalty, keys, used, peak>>

\* The cache is read back, and update_penalty.
Inherit(c) ==
  /\ At(c, "inherit")
  /\ LET f == fork[c]
         inherited == IF f.method = "none" THEN 0 ELSE CacheOf(f).penalty
         prev == Larger(prev_penalty[c], inherited)
     IN  /\ prev_penalty' = [prev_penalty EXCEPT ![c] = prev]
         /\ penalty' = [penalty EXCEPT ![c] = prev]
  /\ Step(c, "attach")
  /\ UNCHANGED <<clock, rt, tree, subtree, group, keys, used, peak>>

\* Under tasklist_lock the task becomes visible.
Attach(c) ==
  /\ At(c, "attach")
  /\ LET f == fork[c]
         parent == IF f.kind = "process" THEN f.by ELSE real_parent[f.by]
     IN  /\ real_parent' = [real_parent EXCEPT ![c] = parent]
         /\ children' = IF f.kind = "thread" THEN children
                        ELSE [children EXCEPT ![parent] = Append(@, c)]
         /\ threads' = [threads EXCEPT ![leader[c]] = Append(@, c)]
  /\ status' = [status EXCEPT ![c] = "live"]
  /\ fork' = [fork EXCEPT ![c] = Idle]
  /\ UNCHANGED <<clock, rt, leader, ctx, keys, used, peak>>

-----------------------------------------------------------------------------
(* What else happens to tasks. *)

Work(t, prev, p) ==
  /\ Live(t) /\ ~rt[t] /\ Effort
  /\ prev_penalty' = [prev_penalty EXCEPT ![t] = prev]
  /\ penalty' = [penalty EXCEPT ![t] = p]
  /\ peak' = Larger(peak, p)
  /\ UNCHANGED <<clock, rt, tree, subtree, group, fork, keys>>

JoinRT(t) ==
  /\ Live(t) /\ ~rt[t] /\ Effort
  /\ rt' = [rt EXCEPT ![t] = TRUE]
  /\ UNCHANGED <<clock, tree, ctx, fork, keys, peak>>

\* reset_task_bore.
JoinFair(t) ==
  /\ Live(t) /\ rt[t]
  /\ rt' = [rt EXCEPT ![t] = FALSE]
  /\ prev_penalty' = [prev_penalty EXCEPT ![t] = 0]
  /\ penalty' = [penalty EXCEPT ![t] = 0]
  /\ subtree' = [subtree EXCEPT ![t] = EmptyCache(clock)]
  /\ group' = [group EXCEPT ![t] = EmptyCache(clock)]
  /\ UNCHANGED <<clock, tree, fork, keys, used, peak>>

Others(t) == {u \in Tasks : u # t /\ Live(u) /\ leader[u] = leader[t]}

\* The children go to another thread of the process, or to init.
Exit(t) ==
  /\ t # ROOT /\ Live(t) /\ ~Forking(t) /\ Effort
  /\ status' = [status EXCEPT ![t] = "zombie"]
  /\ LET reaper == IF Others(t) = {} THEN ROOT ELSE CHOOSE u \in Others(t) : TRUE
     IN  /\ real_parent' =
              [u \in Tasks |-> IF u # t /\ real_parent[u] = t THEN reaper ELSE real_parent[u]]
         /\ children' = [children EXCEPT ![reaper] = @ \o children[t], ![t] = <<>>]
  /\ UNCHANGED <<clock, rt, leader, threads, ctx, fork, keys, peak>>

\* list_del.
Unlink(list, t) ==
  LET i == CHOOSE i \in DOMAIN list : list[i] = t
  IN  IF t \in Range(list) THEN SubSeq(list, 1, i - 1) \o SubSeq(list, i + 1, Len(list)) ELSE list

\* release_task: a leader goes last.
Release(t) ==
  /\ status[t] = "zombie"
  /\ leader[t] = t => threads[t] = <<t>>
  /\ status' = [status EXCEPT ![t] = "gone"]
  /\ threads' = [threads EXCEPT ![leader[t]] = Unlink(@, t)]
  /\ children' = [children EXCEPT ![real_parent[t]] = Unlink(@, t)]
  /\ UNCHANGED <<clock, rt, real_parent, leader, ctx, fork, keys, used, peak>>

Tick ==
  /\ clock < MAX_TIME /\ clock' = clock + 1
  /\ UNCHANGED <<rt, tree, ctx, fork, keys, used, peak>>

-----------------------------------------------------------------------------
(* sched_burst_inherit_type_update_handler. *)

Proceed(w, from, to) == writer[w] = from /\ writer' = [writer EXCEPT ![w] = to]

WriteType(w, v) ==
  /\ Proceed(w, "idle", "written") /\ Effort
  /\ inherit_type' = v
  /\ overlapped' = (\E u \in Writers : writer[u] # "idle")
  /\ UNCHANGED <<clock, rt, tree, ctx, fork, peak, inherit_key, ancestor_key, chosen>>

\* update_inherit_type: the switch reads the type once.
ReadType(w) ==
  /\ Proceed(w, "written", "chosen")
  /\ chosen' = [chosen EXCEPT ![w] = inherit_type]
  /\ UNCHANGED <<clock, rt, tree, ctx, fork, used, peak, inherit_type, inherit_key, ancestor_key,
                 overlapped>>

\* Mutant: type 0 clears the key that only says which ancestor.
SwitchWrongKey(w) ==
  /\ Proceed(w, "chosen", IF chosen[w] = 0 THEN "idle" ELSE "half")
  /\ inherit_key' = TRUE /\ ancestor_key' = (ancestor_key /\ chosen[w] # 0)
  /\ UNCHANGED <<clock, rt, tree, ctx, fork, used, peak, inherit_type, chosen, overlapped>>

\* Type 0 leaves the second key as it is.
SwitchInherit(w) ==
  /\ Proceed(w, "chosen", IF chosen[w] = 0 THEN "idle" ELSE "half")
  /\ inherit_key' = (chosen[w] # 0)
  /\ UNCHANGED <<clock, rt, tree, ctx, fork, used, peak, inherit_type, ancestor_key, chosen,
                 overlapped>>

SwitchAncestor(w) ==
  /\ Proceed(w, "half", "idle")
  /\ ancestor_key' = (chosen[w] = 2) /\ chosen' = [chosen EXCEPT ![w] = 0]
  /\ UNCHANGED <<clock, rt, tree, ctx, fork, used, peak, inherit_type, inherit_key, overlapped>>

-----------------------------------------------------------------------------
Fork ==
  \/ \E t, c \in Tasks, kind \in Kinds : Dup(t, c, kind)
  \/ \E c \in Tasks : Start(c) \/ Look(c) \/ Update(c) \/ Inherit(c) \/ Attach(c)

Next ==
  \/ Fork
  \/ \E t \in Tasks, b \in BURSTS : Work(t, b[1], b[2])
  \/ \E t \in Tasks : JoinRT(t) \/ JoinFair(t) \/ Exit(t) \/ Release(t)
  \/ Tick
  \/ \E w \in Writers :
       \/ \E v \in TYPES : WriteType(w, v)
       \/ ReadType(w) \/ SwitchInherit(w) \/ SwitchAncestor(w)

Spec == Init /\ [][Next]_vars
-----------------------------------------------------------------------------
(* Correctness. *)

Cache == [time : 0..MAX_TIME, penalty : Penalty, made : 0..MAX_TIME]

\* Types; penalties keep their range, averages included.
TypeOK ==
  /\ clock \in BOOT..MAX_TIME
  /\ status \in [Tasks -> {"unborn", "forking", "live", "zombie", "gone"}]
  /\ rt \in [Tasks -> BOOLEAN]
  /\ real_parent \in [Tasks -> Tasks] /\ leader \in [Tasks -> Tasks]
  /\ \A t \in Tasks : {children[t], threads[t]} \subseteq Seq(Tasks)
  /\ prev_penalty \in [Tasks -> Penalty] /\ penalty \in [Tasks -> Penalty]
  /\ subtree \in [Tasks -> Cache] /\ group \in [Tasks -> Cache]
  /\ \A c \in Tasks :
       /\ fork[c].step \in {"none", "start", "look", "write", "inherit", "attach"}
       /\ fork[c].method \in {"none", "parent", "hub", "group"}
       /\ fork[c].count \in 0..SAMPLE_LIMIT /\ fork[c].total \in Nat
  /\ inherit_type \in TYPES \union {2} /\ {inherit_key, ancestor_key} \subseteq BOOLEAN
  /\ writer \in [Writers -> {"idle", "written", "chosen", "half"}]
  /\ chosen \in [Writers -> 0..2] /\ overlapped \in BOOLEAN
  /\ used \in 0..MAX_WORK /\ peak \in Penalty

\* Averaging, caching and copying never add up: however a family forks, exits and reads
\* caches that others are replacing, no task starts with more than some task has run up.
NoInventedPenalty ==
  \A t \in Tasks : penalty[t] <= peak /\ prev_penalty[t] <= peak

\* params.rs: the type selects none, the direct parent or the ancestor hub.  The two keys
\* it is turned into change one after the other and without a lock, so writes that overlap
\* can leave them apart for good; but a fork that finds no write under way, the last one
\* alone, looks where the type says.  A thread always looks at its group.
MethodMatchesType ==
  \A c \in Tasks : LET f == fork[c] IN
    f.step \in {"write", "inherit"} /\ f.settled =>
      f.method = IF f.kind = "thread" THEN "group"
                 ELSE [n \in 0..2 |-> <<"none", "parent", "hub">>[n + 1]][f.type]

\* "Tiempo de vida del cache": the family a fork inherits from was sampled at most a
\* lifetime before, although time stamps lose their low bits, contexts are copied with
\* their caches and reset with them.  Only a fork that replaced the same cache meanwhile
\* can make it older: nothing looks at the time stamp again.
FreshUnlessRaced ==
  \A c \in Tasks : LET f == fork[c] IN
    f.step = "inherit" /\ f.method # "none" /\ ~f.raced =>
      f.now - CacheOf(f).made <= LIFETIME

\* What is cached is the exact average of the sample, rounded down (or the penalty of
\* the task that holds the cache, if larger), though it is computed without a division
\* from a table whose first entry does not fit.
CacheIsAverage ==
  [][\A c \in Tasks : LET f == fork[c] IN
       f.step = "write" /\ fork'[c].step = "inherit" =>
         (IF f.method = "group" THEN group' ELSE subtree')[f.owner].penalty =
           Larger(penalty[f.owner], IF f.count = 0 THEN 0 ELSE f.total \div f.count)]_vars
=============================================================================
