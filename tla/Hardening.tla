------------------------------ MODULE Hardening ------------------------------
(***************************************************************************)
(* The decisions of rustlux_security about perf events, TIOCSTI and USB,   *)
(* the configurations they come with, and the kernel's own versions of two *)
(* of them (patch 0005), which patches 0006 and 0007 call.                 *)
(***************************************************************************)
EXTENDS Integers

\* A CapSet, of the capabilities that are asked for.
Cap == {"SysAdmin", "PerfMon"}
CapSet == SUBSET Cap
with(caps, cap) == caps \union {cap}
without(caps, cap) == caps \ {cap}

perf_allowed(caps, paranoid) == paranoid <= 0 \/ "PerfMon" \in caps

\* Mutant: the highest level asks for the capability that every other one accepts.
KernelPerfMonOnly(caps, paranoid) ==
  CASE paranoid <= 0       -> TRUE
    [] paranoid \in {1, 2} -> "SysAdmin" \in caps
    [] OTHER               -> "PerfMon" \in caps

\* rustlux_perf_event_allowed as the kernel has it.
kernel_perf_allowed(caps, paranoid) ==
  CASE paranoid <= 0       -> TRUE
    [] paranoid \in {1, 2} -> Cap \intersect caps # {}
    [] OTHER               -> "SysAdmin" \in caps

tiocsti_allowed(caps, restrict, same_tty) ==
  (same_tty /\ ~restrict) \/ "SysAdmin" \in caps

\* rustlux_tiocsti_allowed as the kernel has it.
kernel_tiocsti_allowed(caps, same_tty) == same_tty \/ "SysAdmin" \in caps

\* capable(): whoever left the first user namespace has capabilities in its own only.
capable(caps, init_ns, cap) == init_ns /\ cap \in caps

\* The hooked functions, in a kernel with or without Rust, which is given the bits of
\* cap_effective whatever namespace they are for.  legacy is the sysctl
\* dev.tty.legacy_tiocsti.
perf_allow_kernel(caps, init_ns, paranoid, rust) ==
  IF rust THEN kernel_perf_allowed(caps, paranoid)
  ELSE paranoid > 1 => \E cap \in Cap : capable(caps, init_ns, cap)

\* Mutant: Rust decides for every process.
TiocstiByRust(caps, init_ns, same_tty, legacy, rust) ==
  IF rust THEN kernel_tiocsti_allowed(caps, same_tty)
  ELSE legacy \/ capable(caps, init_ns, "SysAdmin")

tiocsti(caps, init_ns, same_tty, legacy, rust) ==
  /\ rust => kernel_tiocsti_allowed(caps, same_tty)
  /\ legacy \/ capable(caps, init_ns, "SysAdmin")

-----------------------------------------------------------------------------
(* HardeningConfig. *)

FsProtection == [symlinks |-> 1, hardlinks |-> 1, fifos |-> 2, regular |-> 2]
AslrConfig == [mmap_rnd_bits |-> 32, mmap_rnd_compat_bits |-> 16, kstack_offset |-> TRUE]
TtyConfig == [tiocsti_restrict |-> TRUE, legacy_tiocsti |-> FALSE]
UsbConfig == [deny_new_usb |-> FALSE]
PerfConfig == [paranoid |-> 3]
OverlayFsConfig == [unprivileged_mounts |-> FALSE]

HardeningConfig ==
  [fs |-> FsProtection, aslr |-> AslrConfig, tty |-> TtyConfig, usb |-> UsbConfig,
   perf |-> PerfConfig, overlayfs |-> OverlayFsConfig]

maximum ==
  [fs   |-> [symlinks |-> 1, hardlinks |-> 1, fifos |-> 2, regular |-> 2],
   aslr |-> [mmap_rnd_bits |-> 32, mmap_rnd_compat_bits |-> 16, kstack_offset |-> TRUE],
   tty  |-> [tiocsti_restrict |-> TRUE, legacy_tiocsti |-> FALSE],
   usb  |-> [deny_new_usb |-> TRUE],
   perf |-> [paranoid |-> 3],
   overlayfs |-> [unprivileged_mounts |-> FALSE]]

desktop == [HardeningConfig EXCEPT !.usb.deny_new_usb = FALSE, !.perf.paranoid = 2]

\* Mutant: a number of the static was not kept in step.
StaleStatic ==
  [fs   |-> [symlinks |-> 1, hardlinks |-> 1, fifos |-> 1, regular |-> 2],
   aslr |-> [mmap_rnd_bits |-> 32, mmap_rnd_compat_bits |-> 16, kstack_offset |-> TRUE],
   tty  |-> [tiocsti_restrict |-> TRUE, legacy_tiocsti |-> FALSE],
   usb  |-> [deny_new_usb |-> FALSE],
   perf |-> [paranoid |-> 3],
   overlayfs |-> [unprivileged_mounts |-> FALSE]]

\* The static of hardening_ffi.rs, written out once more.
HARDENING ==
  [fs   |-> [symlinks |-> 1, hardlinks |-> 1, fifos |-> 2, regular |-> 2],
   aslr |-> [mmap_rnd_bits |-> 32, mmap_rnd_compat_bits |-> 16, kstack_offset |-> TRUE],
   tty  |-> [tiocsti_restrict |-> TRUE, legacy_tiocsti |-> FALSE],
   usb  |-> [deny_new_usb |-> FALSE],
   perf |-> [paranoid |-> 3],
   overlayfs |-> [unprivileged_mounts |-> FALSE]]

-----------------------------------------------------------------------------
(* hardening_ffi.rs: what C can ask. *)

rustlux_perf_event_allowed(caps, paranoid) == perf_allowed(caps, paranoid)
rustlux_tiocsti_allowed(caps, same_tty) ==
  tiocsti_allowed(caps, HARDENING.tty.tiocsti_restrict, same_tty)
rustlux_usb_new_device_allowed == ~HARDENING.usb.deny_new_usb
rustlux_perf_paranoid_level == HARDENING.perf.paranoid
rustlux_protected == HARDENING.fs    \* one function for each field
=============================================================================
