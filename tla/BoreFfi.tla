------------------------------- MODULE BoreFfi -------------------------------
(***************************************************************************)
(* The wrappers of bore_ffi.rs over bore.rs, called as their comments say: *)
(* on the struct bore_ctx that is embedded in a task_struct.  C and Rust   *)
(* each have a layout of their own for those bytes.                        *)
(*                                                                         *)
(* Beside it stands the same context as the functions of bore.c, whose     *)
(* place the wrappers take, would have left it.                            *)
(*                                                                         *)
(* A context is a function from offsets to what begins there.  Numbers of  *)
(* several bytes are whole, but for the subtree cache of C at 16, whose    *)
(* first two bytes are apart.  What lies at 32 is no longer the context's. *)
(***************************************************************************)
EXTENDS BorePenalty

CONSTANTS
  Deltas,                        \* run times that are accounted
  Offsets, Scales, Smoothnesses, \* what the three tunables may be
  Bytes,                         \* bytes of a time stamp
  MAX_RUN                        \* bound: the length of a burst

VARIABLES
  kind,             \* "kthread" or "leader"
  smoothness, offset, scale,
  mem,              \* the bore_ctx the wrappers are given
  beside,           \* the bore_ctx that bore.c works on itself
  needs_reweight    \* what rustlux_bore_update_curr returned last

vars == <<kind, smoothness, offset, scale, mem, beside, needs_reweight>>

At == {0, 8, 10, 12, 14, 15, 16, 17, 24, 32}

Capped(p) == IF kind = "kthread" THEN 0 ELSE p

\* BoreParams::from: the globals of bore.c at every call.
Params == [smoothness |-> smoothness, penalty_offset |-> offset, penalty_scale |-> scale]

-----------------------------------------------------------------------------
(* bore.rs. *)

\* The penalty in force and its score, the upper byte.
WithPenalty(c, p) == [c EXCEPT !.penalty = Capped(p), !.score = Capped(p) \div FRAC]

\* update_curr; changed is what it returns, for a kthread too.  The saturation of the sum is
\* beyond MAX_RUN.
update_curr(c, delta_ns, params) ==
  LET time == c.burst_time + delta_ns
      curr == calc_burst_penalty(time, params.penalty_offset, params.penalty_scale)
      accounted == [c EXCEPT !.burst_time = time, !.curr_penalty = curr]
  IN  IF c.stop_update THEN [ctx |-> c, changed |-> FALSE]
      ELSE IF curr <= c.prev_penalty THEN [ctx |-> accounted, changed |-> FALSE]
      ELSE [ctx |-> WithPenalty(accounted, curr), changed |-> TRUE]

\* restart_burst.
restart_burst(c, params) ==
  LET smoothed == binary_smooth(c.curr_penalty, c.prev_penalty, params.smoothness)
  IN  WithPenalty([c EXCEPT !.prev_penalty = smoothed, !.curr_penalty = 0, !.burst_time = 0],
                  smoothed)

\* BoreCtx::new.
EmptyCtx ==
  [burst_time |-> 0, prev_penalty |-> 0, curr_penalty |-> 0, penalty |-> 0, score |-> 0,
   stop_update |-> FALSE, futex_waiting |-> FALSE, subtree |-> 0, group |-> 0]

-----------------------------------------------------------------------------
(* bore_ffi.rs: BoreCtxFfi. *)

ffi_to_ctx(m) ==
  [burst_time |-> m[0], prev_penalty |-> m[8], curr_penalty |-> m[10], penalty |-> m[12],
   score |-> m[14], stop_update |-> m[16] # 0, futex_waiting |-> m[17] # 0,
   subtree |-> m[24], group |-> m[32]]

\* Padding, at 15, is left alone.
ctx_to_ffi(c, m) ==
  [m EXCEPT ![0] = c.burst_time, ![8] = c.prev_penalty, ![10] = c.curr_penalty,
            ![12] = c.penalty, ![14] = c.score,
            ![16] = IF c.stop_update THEN 1 ELSE 0, ![17] = IF c.futex_waiting THEN 1 ELSE 0,
            ![24] = c.subtree, ![32] = c.group]

-----------------------------------------------------------------------------
(* bore.c: struct bore_ctx. *)

\* update_curr_bore and update_penalty; stop_update is at 14, the score is part of 12.
update_curr_bore(m, delta) ==
  LET time == m[0] + delta
      curr == calc_burst_penalty(time, offset, scale)
      accounted == [m EXCEPT ![0] = time, ![10] = curr]
  IN  IF m[14] # 0 THEN m
      ELSE IF curr <= m[8] THEN accounted
      ELSE [accounted EXCEPT ![12] = Capped(curr)]

\* restart_burst_bore.
restart_burst_bore(m) ==
  LET smoothed == binary_smooth(m[10], m[8], smoothness)
  IN  [m EXCEPT ![0] = 0, ![8] = smoothed, ![10] = 0, ![12] = Capped(smoothed)]

\* reset_task_bore: memset.
reset_task_bore(m) == [o \in At |-> IF o < 32 THEN 0 ELSE m[o]]

-----------------------------------------------------------------------------
Init ==
  /\ kind \in {"leader", "kthread"}
  /\ smoothness \in Smoothnesses /\ offset \in Offsets /\ scale \in Scales
  /\ mem = [o \in At |-> 0] /\ beside = mem
  /\ needs_reweight = FALSE

rustlux_bore_update_curr(delta_ns) ==
  /\ mem[0] + delta_ns <= MAX_RUN
  /\ LET result == update_curr(ffi_to_ctx(mem), delta_ns, Params)
     IN  mem' = ctx_to_ffi(result.ctx, mem) /\ needs_reweight' = result.changed
  /\ beside' = update_curr_bore(beside, delta_ns)
  /\ UNCHANGED <<kind, smoothness, offset, scale>>

rustlux_bore_restart_burst ==
  /\ mem' = ctx_to_ffi(restart_burst(ffi_to_ctx(mem), Params), mem)
  /\ beside' = restart_burst_bore(beside)
  /\ UNCHANGED <<kind, smoothness, offset, scale, needs_reweight>>

rustlux_bore_reset ==
  /\ mem' = ctx_to_ffi(EmptyCtx, mem)
  /\ beside' = reset_task_bore(beside)
  /\ UNCHANGED <<kind, smoothness, offset, scale, needs_reweight>>

\* A fork refreshes the subtree cache: update_burst_cache of bore.c.
RefreshSubtree(low, high) ==
  /\ mem' = [mem EXCEPT ![16] = low, ![17] = high]
  /\ beside' = [beside EXCEPT ![16] = low, ![17] = high]
  /\ UNCHANGED <<kind, smoothness, offset, scale, needs_reweight>>

Next ==
  \/ \E delta_ns \in Deltas : rustlux_bore_update_curr(delta_ns)
  \/ rustlux_bore_restart_burst \/ rustlux_bore_reset
  \/ \E low, high \in Bytes : RefreshSubtree(low, high)

Spec == Init /\ [][Next]_vars
-----------------------------------------------------------------------------
\* "It must have the same layout as struct bore_ctx" (bore_ffi.rs, of BoreCtxFfi): after any
\* calls bore.c finds in the context what its own functions would have left there, and what
\* lies behind it is as it was.
SameLayout == \A o \in At : mem[o] = beside[o]
=============================================================================
