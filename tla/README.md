# Verification of Rustlux

Rustlux is a set of patches and Rust crates that extend the Linux kernel for
desktop use: a DRAM-instability detector, a software ECC scrubber, the BORE
scheduler and a group of hardening decisions. This directory models that logic
in TLA+, checks it with TLC and proves its safety with TLAPS.

## Inventory

| component | state | operations | interacts with | what is hard |
|---|---|---|---|---|
| **Memory sentinel core** (`rustlux_mm/src/mem_sentinel.rs`, kernel copy in patch 0005, C fallback in 0008) | two atomics: window start, count | `on_error` | called by the glue from any CPU, also from an exception inside itself | two atomics changed by separate accesses, wrapped subtraction of a stale clock, equality test |
| **Sentinel glue** (patch 0008) | two sysctls | `mce_log` hook, record, warn, offline | core, hwpoison, taint | sysctls change in the middle of a window |
| **SECDED code** (`soft_ecc.rs`, copies in 0005 and 0009) | none | `encode`, `verify` | called by the scrubber | every pair of 72 bits must be told from every single one |
| **Soft-ECC scrubber** (patches 0009, 0012) | list of regions, codes, page permissions, a self-scheduling work item | protect, reseal, seal_all, scrub pass | kernel boot, `mark_readonly()`, writers of protected memory, DRAM | stale value written back, page permissions toggled under other writers, boot order |
| **BORE penalty** (patch 0002; `rustlux_sched` is a copy that no kernel calls) | `bore_ctx` of a task | fork, update_curr, restart_burst, reweight | scheduler, sysctls | fixed point, early return, stale penalty after tuning, weight copied by fork, reentry from reweight |
| **BORE inheritance** (patch 0002; tunables also in `params.rs`) | burst caches, static keys | fork, exit, class change, ancestor walk, sysctl handler | process tree under RCU, `bore_ctx` of relatives | caches copied by fork, read and written without a lock, truncated time stamps, sampling limits, average without a division, two keys for one type, writers without a lock |
| **BORE FFI** (`bore_ffi.rs` over `bore.rs`) | none: works on the `struct bore_ctx` it is handed | update, restart, reset, effective priority | meant to be called by `bore.c`; nothing calls it yet | two layouts of one structure |
| **RoAfterInit** (`ro_after_init.rs`) | value and sealed flag | init, seal, read | CPUs | the seal is tested only in debug builds; plain stores before a Release store |
| **Page-cache permits and splice guard** (`page_cache.rs`, `splice_guard.rs`, patch 0004, kernel copy in 0005) | a permit that page writes borrow | check, permit, page write | splice, chmod, chattr, remount | three words read one by one, the write comes later, three copies |
| **Hardening decisions** (`rustlux_security`, patches 0006, 0007, kernel copy in 0005) | a static configuration | perf, TIOCSTI, USB, file protections | perf and tty hooks, capabilities, user namespaces | copies and profiles that should be ordered; capabilities handed over without their namespace |
| example module, third-party patches, packaging, configuration | | | | not modelled: no logic of this project |

What makes each component correct: the sentinel warns about every storm and never
more often than it says; the code corrects one flip and detects two; the scrubber
never changes a word except back to what it should be, and heals flips; BORE keeps
its penalties in range, a weight that was right up to date, and lets a child inherit what some
task has run up and no more; Rust leaves in a `bore_ctx` what C would have left there; a
sealed value is never
written and nobody who reads it under the seal sees less than all of it; a page is
written only after everything that forbids it was seen clear; where the copies of a
decision differ, they differ in one direction, for perf events as long as nobody has left
the first user namespace.

## Plan

**Done**

1. Sentinel (`MemSentinel`, abstract `WindowSentinel`, `SentinelHistory`), SECDED
   (`SECDED`, `Codeword`), scrubber (`SoftEccScrub`).
2. BORE: `BorePenalty`, `BoreTask` (one task, from its fork on), `BoreFfi` (the bytes Rust
   and C share), `BoreInherit` (families).
3. Decisions: `PageGuard`, `Hardening`, composed in `KernelHooks`.
4. `RoAfterInit`.
5. Proofs of every safety property of the passing runs.

**Left**

6. Deadlines of `BoreTask`: `rescale_slice` and the futex placement.

The number of runs is kept small: one per kind of environment, not one per property.

## Modules

| module | models | state and actions |
|---|---|---|
| `MemSentinel` | one `mce_log()` record through glue and core | `window_start_ms`, `window_count` are the atomics; `pc` and the locals `now`, `start`, `limit`, `fatal` belong to a context. One action per access to shared memory: `Record` (enabled test, clock), `ReadThreshold`, `Load`, `WinReset`/`LoseReset` (compare_exchange), `Clear` (store 0), `FetchAdd`, `ActWarn`, `ActOffline`. `WriteThreshold`, `WriteEnabled` are the administrator, `Tick` is time |
| `WindowSentinel` | what a sentinel is for | abstract: `Open` and `Hit`, each atomic |
| `SentinelHistory` | nothing of the code | `MemSentinel` with a log of counted errors, for properties about windows and about the errors between two clears; also the fairness of a handler |
| `SECDED` | `soft_ecc.rs` | operators; a word, a code and a syndrome are sets of bit numbers |
| `Codeword` | one protected word in DRAM | flips of word and code bits in any order |
| `SoftEccScrub` | patches 0009 and 0012 | `mem`, `codes`, `regions`, page permissions `writable`, boot stage, and the scrubber's step and locals. A pass is `ScrubBegin`, then per word `Visit` (READ_ONCE and verify) and, for a corrected word, `FixOpen`, `FixWrite`, `FixClose`, `FixEncode`, for an uncorrectable one `Accept`; then `ScrubEnd`. Boot is `IdtSetup`, `InitcallWrite`, `SoftEccInit`, `MarkReadonly`, `SealAll`. `softecc_lock` is held from `ScrubBegin` to `ScrubEnd` |
| `BorePenalty` | penalty arithmetic of patch 0002 and `bore.rs` | operators on fixed-point numbers |
| `BoreTask` | patch 0002 around one task | `burst_time`, `prev_penalty`, `curr_penalty`, `penalty` are its `bore_ctx`, `weight` its `se.load`. It begins as a copy of its creator (`Init`): `ForkTest` and `ForkReset` are `task_fork_bore`, which ends in `UpdatePenalty` or returns at once, `Attach` puts it on the list of processes. Then, under the runqueue lock: `Enter` (update_curr, up to the first look at the key), `UpdatePenalty`, `Restart`, and one action per operation that ends the handler (`Ticked`, `Preempt`, `Block`, `Renice`, `JoinRT`); `JoinFair` is the way back. `Tune*` is the administrator; `WriteBore`, `TestBore`, `FlipKey`, `Readjust` are the steps of `sched_bore_update_handler` |
| `BoreFfi` | `bore_ffi.rs` over `bore.rs` | `mem` is the `bore_ctx` that is handed to the wrappers, a function from offsets to values; `ffi_to_ctx` and `ctx_to_ffi` read and write it where `BoreCtxFfi` has its fields. `beside` is the same context as the functions of `bore.c` would have left it. One action per wrapper that writes, and `RefreshSubtree`, C writing one of its caches |
| `BoreInherit` | the fork half of patch 0002 | tree: `status`, `real_parent`, `leader`, `children`, `threads`, `rt`; context of every task: `prev_penalty`, `penalty`, caches `subtree` and `group`; `fork` holds the locals of a fork under way. A fork is `Dup` (dup_task_struct), `Start` (start_time, first key), `Look` (second key, cache, sampling), `Update` (update_burst_cache), `Inherit` (read back, update_penalty), `Attach` (visible under tasklist_lock). Around it `Work`, `JoinRT`, `JoinFair` (reset), `Exit`, `Release`. `writer` and `chosen` belong to each context that writes `sched_burst_inherit_type`: `WriteType`, `ReadType`, `SwitchInherit`, `SwitchAncestor` are the steps of its handler, which takes no lock |
| `PageGuard` | the splice check and the permit | `marks` are the bits of `i_mode`, `i_flags`, `s_flags`; `copy` says which of the three checks the kernel has. `EnterHook`, one `ReadWord` for each word, `Decide`; `Vouch` is `new_unchecked`; `WritePage`/`PageWritten` a `PageMut` or `->splice_write`; `Finish` drops the permit; `Change` is anyone else |
| `Hardening` | `hardening.rs`, `hardening_ffi.rs`, `capabilities.rs` and the kernel's versions | operators |
| `KernelHooks` | `PageGuard` and `Hardening` for one process | adds its credentials: `caps` with `SetCaps`, and `init_ns`, whether they are of the first user namespace, which `EnterUserNs` leaves for good |
| `RoAfterInit` | `ro_after_init.rs` | `value` and `sealed` are memory, `stores` and `sealing` what the boot CPU has stored and others do not see yet. `init`, `seal`, `StoreLands`, `SealLands`; a reader's `read`, `Look` (one part), `Done` |
| `MCSentinel`, `MCCodeword`, `MCSoftEcc`, `MCBoreTask`, `MCBoreFfi`, `MCBoreInherit`, `MCKernelHooks`, `MCRoAfterInit` | | constants and symmetry for TLC |
| `MemSentinelProofs` | | theorems about `MemSentinel` and `SentinelHistory` |
| `SECDEDProofs`, `CodewordProofs` | | theorems about the operators of `SECDED`, and about `Codeword` |
| `SoftEccProofs` | | theorems about `SoftEccScrub`, on top of those about `SECDED` |
| `BoreTaskProofs` | | theorems about `BorePenalty` and `BoreTask` |
| `BoreInheritProofs` | | theorems about `BoreInherit` |
| `KernelHooksProofs`, `RoAfterInitProofs` | | theorems about the two modules of that name |

Definitions that begin with a comment "Mutant" are faulty variants of the definition
that follows. No specification uses them: each shows that some property can fail.

### Abstractions

* The crates are built for x86: a locked read-modify-write orders the accesses around
  it, so interleaving single accesses covers the `Relaxed` orderings (`MemSentinel`'s
  header says why the plain store is one action).
* Filtering of machine-check records that are not memory errors is the choice not to
  take `Record`. A record carries only "corrected or not" and a page that may be missing.
* Soft-ECC regions are sets of words; a page is a region. `kzalloc` failure is a choice
  of `Protect`, which computes the first codes under the lock; the code does so before it
  takes the lock (0009:383), of a region that no pass knows yet and nobody else writes. DRAM is the actions `FlipWord` and `FlipCode`. `truth` is a history
  variable: what the word was last meant to hold, by the baseline, by an intended
  write, or by an uncorrectable report the scrubber decided to live with. `hits` counts
  flips since the scrubber last read the word.
* In `BoreTask`, `weight` is an index into the kernel's weight table, and SCHED_IDLE is a
  kind of task that never changes. `exec` is run time `update_curr` has not seen yet.
  `Readjust` is the nested case: `reweight_entity` calls `update_curr` while `stop_update`
  is set, so `exec` is dropped; elsewhere the nested call finds nothing. It tests
  eligibility where it takes the lock, the code (0002:569) just before; the class cannot
  matter in between, since leaving the fair class and coming back sets `stale` as well.
  What a task inherits is a constant set here and the subject of `BoreInherit`. `ran`, `lost`,
  `lowered`, `exempted`, `stale`, `overlapped` are history.
* The copy that starts a `BoreTask` is one step, of a creator that is a fair task. A creator
  that runs while it is copied is the caller itself. Left out is a copy made while a writer
  of `sched_bore` is reweighting the creator, whose `stop_update` the child would keep, set,
  if BORE is off by then; and a creator in a real-time class, whose child
  is real-time as well until `JoinFair` resets it.
* In `BoreFfi` a number of several bytes is one cell, except where a field of Rust begins
  inside one of C: the subtree cache at 16. Nothing calls the wrappers, so nothing runs
  beside a call. `saturating_add` is a sum, which `MAX_RUN` keeps below 2^64.
* In `BoreInherit`, `ROOT` is both `init` and `init_task`. Kernel threads and the path
  with `sched_bore_key` off (fork then does nothing) are left out. Sampling a family is
  one step: it runs under RCU and reads each penalty once. `Work` stands for all of
  `BoreTask`. Sampling and the two walks of the tree are recursive functions (`Sample`,
  `Follow`), so that they can be proved about.
* In `PageGuard` the crate's check is called as the kernel calls its own; DAC permission
  (`PermissionDenied`, which no function returns) is left out. The level of
  `perf_event_paranoid` and the terminal are quantified arguments. `capable()` and
  `perfmon_capable()` ask the first user namespace, `cap_effective` does not say which one
  its bits are for: in `Hardening` the hooks without Rust take `init_ns` into account, those
  with Rust cannot.
* `RoAfterInit` assumes the documented contract of `init` (one boot CPU, before `seal`)
  and loads in program order. Stores of a value land part by part in any order,
  the Release store of the flag after them.
* Scrub and sentinel log lines, counters that nothing reads, and the scrub interval are
  left out.
* `CLIENT_WORDS > 0` adds a writer of a protected region that follows the header. The
  repository has none yet; the header (0009:63) announces them.

## Runs

| run | shows | bounds |
|---|---|---|
| `sentinel_single` | with one context at a time every promise of the comments holds (exactly one warning per window, a warning spans one window, 2T-1 errors within a window length always warn), the handler implements `WindowSentinel`, and a warning that was decided taints | window 2, threshold 2, time to 7: three windows, errors on both sides of each boundary and on it; 6 records |
| `sentinel_smp` | what survives two interleaved contexts while the threshold is rewritten and the sentinel switched off and on: a warning counts every error once, no threshold is warned about more often than windows + 1 or twice between clears, no storm is stepped over, a stale reading moves the window back by a bounded step | 2 contexts, which are symmetric; window 1, thresholds 1 and 2, time to 3: a window, and a stale reading after it that lets another begin; 4 records |
| `sentinel_warns_twice` | **violated**: "exactly once per window" | 2 contexts |
| `secded_short` | all words of the (12,8)+1 code, all pairs of flips: corrected, detected | 8 data bits, 4 parity bits, 2 flips |
| `softecc_sealed` | kernel with patch 0012: only intended values are stored, nothing a pass does leaves an error, reports are real, no store faults, pages stay sealed | 2 words (IDT, ro_after_init) of 2 bits, up to 2 flips per word between visits |
| `softecc_client` | write-then-reseal leaves consistent codes whatever pass ran in between; read-only words heal | a ro_after_init word and a client word, 1 flip between visits |
| `bore_task` | the penalty is the larger of both bursts' (late, but never too small, after tuning); a rest never costs; a weight that is right follows the effective priority past every switch of BORE; run time is counted once; a write to `sched_bore` that overlaps no other decides the key | creators with every context these bounds allow, any weight, BORE on or off; 3 priorities of 2 steps, bursts to 3 at twice the neutral scale (below the tolerance, between, and clamped), two offsets, 2 nice values, 2 inherited penalties, all kinds of task, 2 symmetric writers without a bound on writes |
| `bore_ffi_layout` | **violated**: `BoreCtxFfi` "must have the same layout as `struct bore_ctx`" | one increment of run time, time stamp bytes 0, 1, 2 |
| `bore_inherit` | nobody starts with a penalty that no task has run up; a fork that finds no write under way, the last one alone, looks where the type says; what it inherits was sampled at most a lifetime ago unless it raced; what is cached is the exact average | 5 tasks of which 3 are born, in every way, also at once (hubs, chains, threads, siblings); time to 4 from 2 with lifetime 1 and time stamps of grain 2 (fresh, expired, and ahead of the clock); samples of 2, scans of 3; 3 events in all: three forks, or two forks and a change of a penalty or class, an exit or a write of the type at any moment, or one fork and two of these, with two symmetric writers in any overlap |
| `kernel_hooks` | a page is written only if each forbidding bit was clear at some moment since the hook was entered; profiles and copies of the decisions are ordered; tightening never grants | all 2^6 sets of marks under all three copies, all 4 capability sets in and outside the first user namespace, levels -1 to 4 |
| `ro_after_init` | who reads under the seal sees the whole last value; sealed memory never changes | 2 parts, 2 values given any number of times, 2 symmetric readers, debug and release builds |
| `splice_fallback` | **violated**: "C fallback -- same logic, no Rust dependency" | all sets of marks |

The shortened codes keep what the 64-bit code has: positions that are no power of two
for data, all parity positions, syndromes beyond the last position (for 8 and 2 data bits) and
the overall bit. What is special about 64 bits is covered by the proofs.

The BORE runs scale 40 priorities, 256 steps and the unit 1024 down; the logarithm, the
clamps at both ends, rounding and the score's byte keep their form.

In `bore_inherit` the limits 63 and 126 become 2 and 3, so that both are exceeded by the
lists that arise, and the reciprocal table has 6 bits: enough to be exact for the totals
that occur, and the entry for 1 still wraps to 0 as it does at 32. `InheritAssumption` says when a
table is wide enough: `SAMPLE_LIMIT * MAX_PENALTY * (SAMPLE_LIMIT - 1) < 2^LUT_BITS`,
which is 63 * 10239 * 62 < 2^32 in the code.

The sentinel runs and `bore_inherit` switch deadlock checking off because the bounded
clock and budgets end a behaviour. The other systems never stop.

### Fairness

`HFairSpec` of `SentinelHistory`: a handler that has started finishes, since MCE handlers
are not preempted for good. Nothing is assumed about records arriving or the
administrator. `FairSpec` of `SoftEccScrub`: `kernel_init()` gets to its end, and the
workqueue runs the work item again whenever it is scheduled. Nothing is assumed about
writers or DRAM. `FlipsHeal` leaves the sysctl on: switched off, nothing is promised.

## What the violations say

* **sentinel_warns_twice**: CPU A wins the compare_exchange; before it stores 0, CPU B reads
  the new start and increments the old count. The window may warn for an error of the old
  window, lose B's error, or warn again. `sentinel_smp` bounds the damage.
* **bore_ffi_layout**: C keeps the score in the upper byte of the penalty, Rust in a byte of its
  own behind it. Rust's score therefore lies on C's `stop_update` (offset 14), Rust's
  `stop_update` and `futex_waiting` on the subtree cache (16, 17), Rust's subtree cache on the
  group cache (24), and Rust's group cache behind the structure (32). After one update that
  raises the score, `bore.c` would take the context for one under reweighting and stop
  accounting. No kernel calls the wrappers yet.
* **splice_fallback**: the C fallback uses `IS_IMMUTABLE()`, bit 3 of `i_flags`
  (`S_IMMUTABLE`, as `page_cache.rs` has it); the kernel's Rust tests 0x10 of the same
  word, bit 4, which is how the ioctl numbers it. With `CONFIG_RUST` the immutable file is not
  refused. `CopiesOrdered` says what the copies do share.

## Other observations

Where no text promises the opposite, what the code does is modelled and the properties are stated
around it:

* A clock read before another context opened a window makes the subtraction wrap: the
  fresh window looks expired and is opened again with an older start, although "only one
  CPU wins the reset" (`mem_sentinel.rs:65`). `StartGoesBackAtMostLatency` bounds the step, and
  the warnings such resets allow are those of `WarnsBoundedByWindows`.
* The fixed window misses a storm of T errors that straddles two windows
  (`mem_sentinel.rs:22` says "sliding", line 39 "fixed"); `DoubleStormWarns` is what a
  fixed window does give. A threshold lowered to or below the running count silences the
  window, since the count is compared with `==`.
* Three flips can be miscorrected, as with any SECDED code; `soft_ecc.rs:30` promises too
  much when it says "exactly one bit flipped".
* A kernel without patch 0012 registers the regions before the last initcalls have
  written: a pass can revert such a write (`WriteRestores` fails with
  `SEAL_AFTER_RO = FALSE`). `make kernel-patch` applies 0009 but not 0012, the Arch PKGBUILD both.
* Writing a protected region and then resealing it, as the header of 0009 describes, leaves a pass in
  between free to revert the write; `CodesMatchAtRest` still holds, with the old value.
* Two overlapping writes to `kernel.sched_bore` can leave sysctl and key different until
  the next write; `LoneWriteTakesEffect` is what holds.
* The places where a BORE weight goes stale are excepted in `WeightFollowsPriority`:
  `for_each_process` visits leaders only, so other threads keep their weight when BORE is
  switched; `switched_to_fair` resets the context after the weight was set (a
  priority-inheritance boost is enough); and a fork copies the creator's weight, right or
  wrong, keeps it with BORE off, and otherwise replaces it only if the priority changes, so
  that a thread's stale weight is handed on to a process, and a writer that goes through the
  list during the fork misses the child. A write to `kernel.sched_bore`, even of the same
  value, drops the running task's time since the last tick (`lost`).
* Inheritance type 0 ("sin herencia" in `params.rs`) still leaves the child the
  `prev_penalty` that `dup_task_struct` copied. The copied caches describe the creator's
  family until they expire.
* Two overlapping writes to `sched_burst_inherit_type` can leave its two keys to different
  types until the next write; `MethodMatchesType` is about forks after a write that
  overlapped no other. In the run two writes can follow a fork; that a later write alone
  makes it right again is in the theorem.
* A fork with BORE off keeps the creator's burst and penalty (0002:508), and so a process
  that a kthread starts the kthread's penalty of 0, until its first update (`exempted`).
* `rustlux_bore_update_curr` says "needs reweight" also for a kthread, and when the penalty
  was that before (`bore.rs:235`), where `bore_ffi.rs:98` and `rustlux_bindings.h:30` say that
  1 means a change. A reweight to the same priority changes nothing.
* Patch 0006 hands `cap_effective` to Rust, which cannot know that the capabilities of a
  process that is root of its own user namespace are for that namespace only; without Rust
  `perfmon_capable()` (0006:27) refuses it. `CopiesOrdered` holds for perf events in the
  first user namespace only.
* In a release build `read()` before the seal can see a value half written, or memory that
  `uninit()` left unwritten, from safe code; `ReadersSeeFinal` excepts exactly that.
* The crate refuses perf events without `CAP_PERFMON` from level 1 on, also at level 2
  of `desktop()`, whose comment allows basic profiling. The kernel's Rust also takes
  `CAP_SYS_ADMIN` up to level 2 and nothing else from level 3. The kernel's TIOCSTI allows
  one's own terminal, the crate does not while `restrict` is set. `hardening_ffi.rs`
  answers from a static that no sysctl changes.

## Proofs

Every invariant and action property of the passing runs is also a theorem for all values of the constants. Each inductive invariant below was checked
with TLC on the runs' instances before it was proved.

| theorem of | assumptions besides the modules' own `ASSUME` |
|---|---|
| `TypeCorrect`, `OneWarnPerThreshold`, `BoundedStepBack`, `EachErrorCountsOnce`, `StormIsWarned`, `WindowsBoundWarnings` | none |
| `WarningsAreClose` | one context (`Contexts = {c}`) |
| `OnceInEachWindow`, `DoubleStorms`, `SoloRefines` | one context and one threshold |
| `SECDEDProofs`, `CodewordProofs` | 64 data bits, 7 parity bits (`Hamming72_64`) |
| `PagesAreSealed` | none: with and without patch 0012, with and without clients |
| `NoStoreFaults` | patch 0012 (`SEAL_AFTER_RO`) |
| `CodesAreCurrent` | `Capable`: `Hamming72_64`, `SEAL_AFTER_RO`, `MAX_FLIPS <= 2`; any number of words, client words included |
| `OnlyFlipsRemain`, `StoresAreRestores`, `ReportsAreNew` | `Capable`, and `CLIENT_WORDS = 0` |
| `BoreTaskProofs`, `BoreInheritProofs`, `KernelHooksProofs`, `RoAfterInitProofs` | none |

The assumptions are not conveniences. With two contexts `ExactlyOncePerWindow` is false
(`sentinel_warns_twice`); three flips defeat any SECDED code; without patch 0012 a pass can revert
an initcall's write; a client's write can be reverted by a pass before its reseal, so that only
`CodesMatchAtRest` holds with clients. `TaskAssumption` bounds a task's run time by
`MAX_RUN < 2^64`: `burst_time` is a `u64` of nanoseconds. `InheritAssumption` asks for a
reciprocal table as wide as the code's is; a narrow one rounds some averages up.

### Sentinel (`MemSentinelProofs`)

* `OneWarnPerThreshold`: inductive invariant `Counted`: every threshold warned about is at most
  the count. `fetch_add` only hands out larger values, so none is warned about twice.
* `BoundedStepBack`: inductive invariant `Timely`: a busy handler's reading is at most
  `MaxLatency` behind the clock, and the window start is never ahead of it.
* `SoloRefines`: each step is a step of `WindowSentinel` or a stutter. `Solo` says that the
  one context is never behind the start it compares with, so the subtraction does not
  wrap (`NoBorrow`), `Faithful` that with one threshold the count alone tells whether a
  warning was given; the refinement mapping counts a window as open from the
  compare_exchange on.
* The history adds to this what the log says. `Writes` and `Appended` split a step by
  what it adds: an entry for a `fetch_add`, a window for a `compare_exchange`, an epoch for a
  `Clear`. For any contexts and thresholds `Ledger` holds: the count is the number of log
  entries since the last `Clear`; so a warning's epoch has as many entries as its limit
  (`EachErrorCountsOnce`). `Paired` (windows opened = clears + contexts
  about to clear; per threshold at most one warning per clear) gives `WindowsBoundWarnings`, and
  `Alarms` says that an epoch whose entries all have the limit t has a warning if they are
  t or more, which with `Ledger` is `StormIsWarned`. With one context,
  `Times` places the entries: same window, at most `WINDOW_MS` apart; two windows apart,
  more than that. `OnceInEachWindow` is `Ledger` and `Alarms` for a window that is an epoch;
  `DoubleStorms` is a pigeonhole argument: entries within `WINDOW_MS` lie in at most two
  windows, and one of these has half of them.

### SECDED (`SECDEDProofs`, `CodewordProofs`)

For every one of the 2^64 words `verify` answers Clean for an intact pair, Corrected with
the sealed word after any one flip, Uncorrectable after any two, wherever they are. The
argument: the syndrome of a symmetric difference is the symmetric difference of the syndromes (parity
of cardinalities), so syndrome and overall parity depend on the flipped positions only;
positions are distinct, hence two flips never cancel. `AtMostTwoFlips` puts this as one
statement about the set of flips; `WithinTwoBits` as one about Hamming distance
(`Apart`), with which the flips may come before and after the encoding. `SingleFlips` and
`DoubleFlips` carry the first over to every behaviour of `Codeword`.

### Scrubber (`SoftEccProofs`)

* `PagesAreSealed` from `Sealing`: outside `FixOpen`...`FixClose` every read-only page of a running
  system is closed, inside it the one of the word under repair is open. It covers
  `mark_readonly()` running while a pass has a page open.
* `NoStoreFaults` from `Writable`: the order of the boot stages, and the page of a word in
  repair is open.
* The others from `IInv` = `Typed`, `Writable`, `Healthy`. `Healthy` says of each
  protected word that memory and code are, together, no more than `hits` flips away from
  some sealed pair `(base, encode(base))`, with a case for each point in the repair
  at which a word was stored but its code was not, and that `base` is the intended value in a
  read-only region. Its step for `Visit` is `WithinTwoBits`: the scrubber finds
  `base` if there was one flip and reports if there were two.

### BORE (`BoreTaskProofs`)

* `PenaltyIsMonotone`: the fixed-point logarithm is monotone (`fls` by cases of a power of two,
  the mantissa by a quotient), the tolerance, the scale and the clamps preserve it.
* The inductive invariant `IInv` is `TypeOK` with one conjunct per property: `Settled`
  (nothing is pending outside the lock), `Budget` (burst plus pending time is what ran), `Tuned` (the
  current penalty is at most what the burst costs, unless a tunable was lowered), `Due` (the
  penalty in force is at least what is deserved, unless it is `exempted`), `Resting` (between the two halves of
  `restart_burst`), `Weighted` (the weight is that of the priority, also in the middle of a
  handler) and `Alone` (a lone writer's test of the key is still true when it flips it).
* The fork is part of it: `Init` is any copy of a creator whose own context was in order,
  `Phased` ties the steps of `task_fork_bore` to the operation, and `Weighted` holds from
  the start because `stale` says which copies are wrong; it is proved to stay right with a
  key that flips between the two looks of `update_penalty` of the fork as of a handler.

### Inheritance (`BoreInheritProofs`)

* `AverageExact`: multiplying by `ceil(2^32 / n)` and dropping 32 bits divides by `n`, as long as
  the rounding errors of a sample do not add up to `2^32` (`Reciprocal`); no sample does,
  because it has at most `SAMPLE_LIMIT` members with penalties in their range (`SampleBound`).
  With this `CachesTheAverage` is about `Update` alone.
* The inductive invariant `IInv` has five parts. `Typed` and `Bounded` need each other: penalties
  keep their range because no average exceeds the peak (`AverageBound`), and the table is
  exact because penalties have their range. `Bounded` adds the caches and the sums of samples
  under way to `NoInventedPenalty`. `Rooted` says that parents, leaders, creators and the tasks
  that hold a cache for a fork have been attached, so that a new task structure never takes
  the place of one whose cache is about to be read. `Fresh` adds to `FreshUnlessRaced`
  that no time stamp is ahead of the moment it stands for and no fork started later than
  now, which covers a context that is reset under a fork. `Chosen` relates the two keys to the
  type at each step of a writer that overlaps no other (`Keyed`, which says nothing while
  `overlapped` holds), and to what a fork has seen of them.
* `SampleBound` and `FollowIn` are about loops: `Steps` shows that the values of the first N
  steps of a loop exist, and a least step that leaves the invariant of the loop gives the
  contradiction. `Changes` splits a step by the variables it changes.

### Hooks (`KernelHooksProofs`) and `RoAfterInit` (`RoAfterInitProofs`)

* `PermissionIsBacked`: the history `clear` holds every mark that is clear now (`Witnessed`),
  and of the words read so far every mark was seen set or is in `clear` (`SeenOrClear`), so a
  permission, which saw no forbidding mark, is backed (`PermittedSawClear`). The other three theorems compare the decision functions case by case, over
  every set of marks and capabilities.
* `NobodySeesTorn` (`ReadersSeeFinal`) and `SealedNeverChanges` (`SealedIsFinal`), for any number of
  parts, values and readers. `ReadersSeeFinal` is not
  inductive: that a reader sees the last value rests on `Landed` (a part that is not on its way holds
  what was given last), `Released` (a visible seal has nothing on its way) and `Checked`
  (a reader that relies on what it sees holds its reference under the seal), and a new
  reader starts with nothing seen (`Fresh`).

Where a proof goes by induction, as over the powers of two of `PenaltyIsMonotone` or the
steps of `Sample`, it takes the least counterexample: the library's induction theorems take an operator as a
parameter.

### Only model-checked

The liveness properties (`WarnTaints`, `FlipsHeal`) are outside the prover's reach. The bound of `MemSentinel` on
the count is real: `FetchAdd` has the guard that fewer than `CountMod` (2^32) errors
arrive between two clears.

## Not modelled

* Virtual deadlines (`rescale_slice`), the futex placement and changes to or from
  SCHED_IDLE: they need EEVDF, which is outside the repository.
* The sysctl of the scrub interval, event counters nothing reads, failure of
  `set_memory_rw/ro` (ignored by the code), log lines.
* The example module (a template that prints), third-party patches, the Makefile,
  PKGBUILDs and configuration files.
