----------------------------- MODULE KernelHooks -----------------------------
(***************************************************************************)
(* A process before the hooks of the Rustlux kernel: it splices into a     *)
(* file (PageGuard), and is asked about perf events and TIOCSTI while its  *)
(* capabilities change and it enters user namespaces of its own.  The      *)
(* level of kernel.perf_event_paranoid and whether the terminal is its own *)
(* are arguments of the hooks: any.                                        *)
(***************************************************************************)
EXTENDS PageGuard, Hardening

CONSTANT Levels    \* values of kernel.perf_event_paranoid

ASSUME LevelsAssumption == Levels \subseteq Int

VARIABLES
  caps,      \* cap_effective
  init_ns    \* its credentials are of the first user namespace

cred == <<caps, init_ns>>
vars == <<gvars, cred>>

Init == GInit /\ caps \in CapSet /\ init_ns \in BOOLEAN

SetCaps ==
  /\ \E cap \in Cap : caps' \in {with(caps, cap), without(caps, cap)}
  /\ UNCHANGED <<gvars, init_ns>>

\* A new user namespace: the process has every capability there, and no way back.
EnterUserNs ==
  /\ caps' = Cap /\ init_ns' = FALSE
  /\ UNCHANGED gvars

Next == (GNext /\ UNCHANGED cred) \/ SetCaps \/ EnterUserNs

Spec == Init /\ [][Next]_vars
-----------------------------------------------------------------------------
(* Correctness. *)

\* What a configuration allows the process.
Allowed(config, same_tty) ==
  (IF perf_allowed(caps, config.perf.paranoid) THEN {"perf"} ELSE {})
    \union (IF tiocsti_allowed(caps, config.tty.tiocsti_restrict, same_tty) THEN {"tiocsti"} ELSE {})
    \union (IF config.usb.deny_new_usb THEN {} ELSE {"usb"})
    \union (IF config.overlayfs.unprivileged_mounts THEN {"overlayfs"} ELSE {})

\* What the functions of hardening_ffi.rs allow it.
Answered(same_tty) ==
  (IF rustlux_perf_event_allowed(caps, rustlux_perf_paranoid_level) THEN {"perf"} ELSE {})
    \union (IF rustlux_tiocsti_allowed(caps, same_tty) THEN {"tiocsti"} ELSE {})
    \union (IF rustlux_usb_new_device_allowed THEN {"usb"} ELSE {})

\* The numbers that protect files: a lower one allows more.
Weaker(fs, other) == \A field \in DOMAIN fs : fs[field] <= other[field]

\* The same defaults stand in hardening.rs and, once more, in the static from which
\* hardening_ffi.rs answers; maximum() tightens them and desktop() relaxes them.  Whoever
\* the process is, a tighter profile allows nothing that a looser one forbids, and C is
\* answered between the two.
ProfilesOrdered ==
  \A same_tty \in BOOLEAN :
    /\ Allowed(maximum, same_tty) \subseteq Answered(same_tty)
    /\ Answered(same_tty) \subseteq Allowed(HardeningConfig, same_tty)
    /\ Allowed(HardeningConfig, same_tty) \subseteq Allowed(desktop, same_tty)
    /\ Weaker(HardeningConfig.fs, rustlux_protected) /\ Weaker(rustlux_protected, maximum.fs)

\* The decisions exist as a crate, as the kernel's Rust, and in a kernel without Rust, and
\* the copies are not equal; what holds between them is an order.  Crate and kernel agree
\* on a splice except that only the crate knows append-only files, and on perf events
\* about a process with both capabilities or neither; on TIOCSTI the crate is never the
\* more permissive one.  Rust only takes away from what the kernel without it allows: on
\* TIOCSTI from every process, on perf events from those of the first user namespace only,
\* as there Rust decides alone, from bits that do not tell the namespace.
CopiesOrdered ==
  /\ CrateCheck(marks) = "0" <=> KernelCheck(marks) = "0" /\ FS_APPEND_FL \notin marks
  /\ \A level \in Levels :
       /\ caps \in {{}, Cap} =>
            (rustlux_perf_event_allowed(caps, level) <=> kernel_perf_allowed(caps, level))
       /\ init_ns /\ perf_allow_kernel(caps, init_ns, level, TRUE) =>
            perf_allow_kernel(caps, init_ns, level, FALSE)
  /\ \A same_tty, legacy \in BOOLEAN :
       /\ rustlux_tiocsti_allowed(caps, same_tty) => kernel_tiocsti_allowed(caps, same_tty)
       /\ tiocsti(caps, init_ns, same_tty, legacy, TRUE) =>
            tiocsti(caps, init_ns, same_tty, legacy, FALSE)

\* The paranoid levels and the terminals with which a process is granted what it asks for.
LevelsAllowed ==
  [crate  |-> {level \in Levels : rustlux_perf_event_allowed(caps, level)},
   kernel |-> {level \in Levels : kernel_perf_allowed(caps, level)}]
TtysAllowed ==
  [crate  |-> {same_tty \in BOOLEAN : rustlux_tiocsti_allowed(caps, same_tty)},
   kernel |-> {same_tty \in BOOLEAN : kernel_tiocsti_allowed(caps, same_tty)}]

\* Dropping a capability never opens anything, and neither does raising
\* perf_event_paranoid along with it or without it.
TighteningNeverGrants ==
  [][caps' \subseteq caps => \A c \in {"crate", "kernel"} :
       /\ TtysAllowed'[c] \subseteq TtysAllowed[c]
       /\ \A level \in LevelsAllowed'[c] :
            {lower \in Levels : lower <= level} \subseteq LevelsAllowed[c]]_vars
=============================================================================
