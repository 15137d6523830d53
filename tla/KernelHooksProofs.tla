--------------------------- MODULE KernelHooksProofs ---------------------------
(***************************************************************************)
(* What the check before a splice is worth, and how the copies of the      *)
(* hardening decisions relate, for every process, file and set of levels.  *)
(***************************************************************************)
EXTENDS KernelHooks, TLAPS

HTypeOK ==
  /\ copy \in {"crate", "kernel", "fallback"}
  /\ marks \subseteq Marks /\ seen \subseteq Marks /\ clear \subseteq Marks
  /\ pc \in {"idle", "reading", "permitted", "vouched"}
  /\ writing \in BOOLEAN
  /\ read \subseteq DOMAIN Words
  /\ caps \in CapSet /\ init_ns \in BOOLEAN

\* The hook keeps what it has read only while it reads; nobody writes without a grant.
Discarded ==
  /\ pc # "reading" => read = {} /\ seen = {}
  /\ writing => Granted

\* A bit that is clear now counts as seen clear from the hook's entry on.
Witnessed == pc # "idle" => Marks \ marks \subseteq clear

\* A bit of a word that the hook has read was set then, or clear at that moment.
SeenOrClear == pc = "reading" => \A w \in read : Words[w] \subseteq seen \union clear

\* What every copy refuses, and what this one refuses.
Forbidding == {"SUID", "SGID", "RDONLY"} \union Refused(copy)

PermittedSawClear == pc = "permitted" => Forbidding \subseteq clear

IInv == HTypeOK /\ Discarded /\ Witnessed /\ SeenOrClear /\ PermittedSawClear

-----------------------------------------------------------------------------
(* The three copies of the check. *)

\* The marks of a file, by the word that holds them.
LEMMA TheMarks ==
  /\ DOMAIN Words = {"i_mode", "i_flags", "s_flags"}
  /\ Marks = {"SUID", "SGID", "bit3", "bit4", "bit5", "RDONLY"}
  /\ \A m \in Marks : \E w \in DOMAIN Words : m \in Words[w]
  /\ \A w \in DOMAIN Words : Words[w] \subseteq Marks
<1>1. DOMAIN Words = {"i_mode", "i_flags", "s_flags"}
  BY DEF Words
<1>2. /\ Words["i_mode"] = {"SUID", "SGID"} /\ Words["i_flags"] = {"bit3", "bit4", "bit5"}
      /\ Words["s_flags"] = {"RDONLY"}
  BY DEF Words
<1>3. Marks = {"SUID", "SGID", "bit3", "bit4", "bit5", "RDONLY"}
  BY <1>1, <1>2 DEF Marks
<1>. QED
  BY <1>1, <1>2, <1>3

\* A check that answers 0 would also have done so had it seen fewer bits.
LEMMA CheckIsMonotone ==
  ASSUME NEW by \in {"crate", "kernel", "fallback"}, NEW found, Check(by, found) = "0"
  PROVE  ({"SUID", "SGID", "RDONLY"} \union Refused(by)) \intersect found = {}
<1>. USE DEF Check, CrateCheck, KernelCheck, FallbackCheck, Errno, NewPermit, InodeFlags,
             InOrder, FS_IMMUTABLE_FL, FS_APPEND_FL, S_IMMUTABLE
<1>1. {"SUID", "SGID", "RDONLY"} \intersect found = {}
  <2>1. CASE by = "crate"
    BY <2>1
  <2>2. CASE by = "kernel"
    BY <2>2
  <2>3. CASE by = "fallback"
    BY <2>3
  <2>. QED
    BY <2>1, <2>2, <2>3
<1>2. ASSUME NEW m \in found PROVE Check(by, {m}) = "0"
  <2>1. CASE by = "crate"
    BY <1>2, <2>1
  <2>2. CASE by = "kernel"
    BY <1>2, <2>2
  <2>3. CASE by = "fallback"
    BY <1>2, <2>3
  <2>. QED
    BY <2>1, <2>2, <2>3
<1>. QED
  BY <1>1, <1>2 DEF Refused

-----------------------------------------------------------------------------
\* Nothing has been read and nothing is granted.
LEMMA InitIInv == Init => IInv
BY DEF Init, GInit, IInv, HTypeOK, Discarded, Witnessed, SeenOrClear, PermittedSawClear, Granted

\* Every action of the process and of whoever changes the file keeps the invariant.
LEMMA NextIInv == IInv /\ [Next]_vars => IInv'
<1>. SUFFICES ASSUME IInv, [Next]_vars PROVE IInv'
  OBVIOUS
<1>. USE DEF IInv, HTypeOK, Discarded, Witnessed, SeenOrClear, PermittedSawClear, Granted,
             Forbidding, cred
<1>1. ASSUME EnterHook, UNCHANGED cred PROVE IInv'
  BY <1>1 DEF EnterHook
<1>2. ASSUME NEW w \in DOMAIN Words, ReadWord(w), UNCHANGED cred PROVE IInv'
  <2>1. Words[w] \subseteq Marks
    BY TheMarks
  <2>2. Words[w] \subseteq seen' \union clear'
    BY <1>2, <2>1 DEF ReadWord
  <2>. QED
    BY <1>2, <2>1, <2>2 DEF ReadWord
<1>3. ASSUME Decide, UNCHANGED cred PROVE IInv'
  <2>1. CASE Denied
    BY <1>3, <2>1 DEF Decide
  <2>2. CASE ~Denied
    <3>1. Check(copy, seen) = "0" /\ read = DOMAIN Words
      BY <1>3, <2>2 DEF Decide, Denied
    <3>2. Forbidding \subseteq Marks /\ Forbidding \intersect seen = {}
      BY <3>1, CheckIsMonotone, TheMarks DEF Refused
    <3>3. Forbidding \subseteq clear
      BY <1>3, <3>1, <3>2, TheMarks DEF Decide
    <3>. QED
      BY <1>3, <2>2, <3>3 DEF Decide, Refused
  <2>. QED
    BY <2>1, <2>2
<1>4. ASSUME Vouch, UNCHANGED cred PROVE IInv'
  BY <1>4 DEF Vouch
<1>5. ASSUME WritePage \/ PageWritten \/ Finish, UNCHANGED cred PROVE IInv'
  <2>1. CASE WritePage
    BY <1>5, <2>1 DEF WritePage, Refused
  <2>2. CASE PageWritten
    BY <1>5, <2>2 DEF PageWritten, Refused
  <2>3. CASE Finish
    BY <1>5, <2>3 DEF Finish, Refused
  <2>. QED
    BY <1>5, <2>1, <2>2, <2>3
<1>6. ASSUME NEW m \in Marks, Change(m), UNCHANGED cred PROVE IInv'
  BY <1>6 DEF Change, Refused
<1>7. CASE SetCaps
  BY <1>7 DEF SetCaps, gvars, CapSet, with, without, Refused
<1>8. CASE EnterUserNs
  BY <1>8 DEF EnterUserNs, gvars, CapSet, Refused
<1>9. CASE UNCHANGED vars
  BY <1>9 DEF vars, gvars, Refused
<1>. QED
  BY <1>1, <1>2, <1>3, <1>4, <1>5, <1>6, <1>7, <1>8, <1>9 DEF Next, GNext

-----------------------------------------------------------------------------
\* "BEFORE any page is touched" (patch 0004): a page is written under a permission only if
\* every bit that forbids it was clear at some moment since the hook was entered, whichever
\* copy decided and however the file changed meanwhile.
THEOREM PermissionIsBacked == Spec => []WriteSawEachClear
<1>1. IInv => WriteSawEachClear
  BY DEF IInv, PermittedSawClear, Forbidding, WriteSawEachClear
<1>. QED
  BY InitIInv, NextIInv, <1>1, PTL DEF Spec

\* The marks and capabilities stay among those the code names.
LEMMA TypeCorrect == Spec => [](marks \subseteq Marks /\ caps \in CapSet)
<1>1. IInv => marks \subseteq Marks /\ caps \in CapSet
  BY DEF IInv, HTypeOK
<1>. QED
  BY InitIInv, NextIInv, <1>1, PTL DEF Spec

\* A tighter profile never allows what a looser one forbids, and C is answered between the
\* crate's defaults and maximum(), for every set of capabilities.
THEOREM ProfilesAreOrdered == Spec => []ProfilesOrdered
<1>1. ASSUME caps \in CapSet PROVE ProfilesOrdered
  <2>. USE DEF HardeningConfig, maximum, desktop, HARDENING, FsProtection, AslrConfig, TtyConfig,
               UsbConfig, PerfConfig, OverlayFsConfig
  <2>1. ASSUME NEW same_tty \in BOOLEAN
        PROVE  /\ Allowed(maximum, same_tty) \subseteq Answered(same_tty)
               /\ Answered(same_tty) \subseteq Allowed(HardeningConfig, same_tty)
               /\ Allowed(HardeningConfig, same_tty) \subseteq Allowed(desktop, same_tty)
    BY DEF Allowed, Answered, perf_allowed, tiocsti_allowed, rustlux_perf_event_allowed,
           rustlux_tiocsti_allowed, rustlux_usb_new_device_allowed, rustlux_perf_paranoid_level
  <2>2. Weaker(HardeningConfig.fs, rustlux_protected) /\ Weaker(rustlux_protected, maximum.fs)
    BY DEF Weaker, rustlux_protected
  <2>. QED
    BY <2>1, <2>2 DEF ProfilesOrdered
<1>. QED
  BY <1>1, TypeCorrect, PTL

\* What the copies of a decision have in common, for every file, set of capabilities, user
\* namespace and set of perf levels.
THEOREM CopiesAreOrdered == Spec => []CopiesOrdered
<1>1. ASSUME marks \subseteq Marks, caps \in CapSet PROVE CopiesOrdered
  <2>1. CrateCheck(marks) = "0" <=> KernelCheck(marks) = "0" /\ FS_APPEND_FL \notin marks
    BY <1>1 DEF CrateCheck, KernelCheck, Errno, NewPermit, InodeFlags, InOrder,
                FS_IMMUTABLE_FL, FS_APPEND_FL
  <2>2. ASSUME NEW level \in Levels
        PROVE  /\ caps \in {{}, Cap} =>
                    (rustlux_perf_event_allowed(caps, level) <=> kernel_perf_allowed(caps, level))
               /\ init_ns /\ perf_allow_kernel(caps, init_ns, level, TRUE) =>
                    perf_allow_kernel(caps, init_ns, level, FALSE)
    <3>. level \in Int
      BY LevelsAssumption
    <3>1. CASE level <= 0
      BY <3>1 DEF rustlux_perf_event_allowed, perf_allowed, kernel_perf_allowed, perf_allow_kernel
    <3>2. CASE level \in {1, 2}
      BY <3>2 DEF rustlux_perf_event_allowed, perf_allowed, kernel_perf_allowed,
                  perf_allow_kernel, capable, Cap
    <3>3. CASE level > 2
      BY <3>3 DEF rustlux_perf_event_allowed, perf_allowed, kernel_perf_allowed,
                  perf_allow_kernel, capable, Cap
    <3>4. level <= 0 \/ level \in {1, 2} \/ level > 2
      OBVIOUS
    <3>. QED
      BY <3>1, <3>2, <3>3, <3>4, Zenon
  <2>3. ASSUME NEW same_tty \in BOOLEAN, NEW legacy \in BOOLEAN
        PROVE  /\ rustlux_tiocsti_allowed(caps, same_tty) => kernel_tiocsti_allowed(caps, same_tty)
               /\ tiocsti(caps, init_ns, same_tty, legacy, TRUE) =>
                    tiocsti(caps, init_ns, same_tty, legacy, FALSE)
    BY DEF rustlux_tiocsti_allowed, tiocsti_allowed, kernel_tiocsti_allowed, tiocsti, HARDENING
  <2>. QED
    BY <2>1, <2>2, <2>3 DEF CopiesOrdered
<1>. QED
  BY <1>1, TypeCorrect, PTL

\* Dropping a capability and raising the level never grant anything.
THEOREM TighteningIsSafe == Spec => TighteningNeverGrants
<1>1. ASSUME caps' \subseteq caps, NEW c \in {"crate", "kernel"}
      PROVE  /\ TtysAllowed'[c] \subseteq TtysAllowed[c]
             /\ \A level \in LevelsAllowed'[c] :
                  {lower \in Levels : lower <= level} \subseteq LevelsAllowed[c]
  <2>1. TtysAllowed'[c] \subseteq TtysAllowed[c]
    BY <1>1 DEF TtysAllowed, rustlux_tiocsti_allowed, tiocsti_allowed, kernel_tiocsti_allowed
  <2>2. ASSUME NEW level \in LevelsAllowed'[c], NEW lower \in Levels, lower <= level
        PROVE  lower \in LevelsAllowed[c]
    BY <1>1, <2>2, LevelsAssumption
       DEF LevelsAllowed, rustlux_perf_event_allowed, perf_allowed, kernel_perf_allowed, Cap
  <2>. QED
    BY <2>1, <2>2
<1>2. [Next]_vars =>
        [caps' \subseteq caps => \A c \in {"crate", "kernel"} :
           /\ TtysAllowed'[c] \subseteq TtysAllowed[c]
           /\ \A level \in LevelsAllowed'[c] :
                {lower \in Levels : lower <= level} \subseteq LevelsAllowed[c]]_vars
  BY <1>1
<1>. QED
  BY <1>2, PTL DEF Spec, TighteningNeverGrants
=============================================================================
