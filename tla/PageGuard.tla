------------------------------ MODULE PageGuard ------------------------------
(***************************************************************************)
(* May the pages of a file be written through splice()?  The question is   *)
(* answered in three copies: splice_guard.rs over page_cache.rs, the       *)
(* kernel's rustlux.rs (patch 0005), and the inline C that patch 0004 has  *)
(* for kernels without Rust.  Each looks at the mode and the flags of the  *)
(* inode and at the superblock, reads the three one by one without a lock, *)
(* and the pages are written later.                                        *)
(*                                                                         *)
(* The bits that are set in the three words are one set of marks.          *)
(***************************************************************************)
EXTENDS FiniteSets

Words == [i_mode  |-> {"SUID", "SGID"},
          i_flags |-> {"bit3", "bit4", "bit5"},
          s_flags |-> {"RDONLY"}]
Marks == UNION {Words[w] : w \in DOMAIN Words}

\* The bits of i_flags by their names in the sources.  The last is not the repository's:
\* it is what IS_IMMUTABLE tests.
FS_IMMUTABLE_FL == "bit4"
FS_APPEND_FL == "bit5"
S_IMMUTABLE == "bit3"

-----------------------------------------------------------------------------
(* The decisions, of the marks that were read. *)

\* The InodeFlags that rustlux_check_splice_write builds.
InodeFlags(marks) ==
  (marks \intersect {"SUID", "SGID"})
    \union (IF FS_IMMUTABLE_FL \in marks THEN {"IMMUTABLE"} ELSE {})
    \union (IF FS_APPEND_FL \in marks THEN {"APPEND_ONLY"} ELSE {})

\* PageWritePermit::new.
NewPermit(flags, sb_readonly) ==
  IF flags \intersect {"SUID", "SGID"} # {} THEN "SuidOrSgid"
  ELSE IF sb_readonly THEN "ReadOnlyFilesystem"
  ELSE IF "IMMUTABLE" \in flags THEN "Immutable"
  ELSE IF "APPEND_ONLY" \in flags THEN "AppendOnly"
  ELSE "Ok"

Errno(result) ==
  CASE result = "Ok"                 -> "0"
    [] result = "ReadOnlyFilesystem" -> "EROFS"
    [] OTHER                         -> "EPERM"

CrateCheck(marks) == Errno(NewPermit(InodeFlags(marks), "RDONLY" \in marks))

\* Mutant: the set-group-ID bit is not looked at.
SuidOnly(marks, immutable) ==
  IF "SUID" \in marks \/ immutable THEN "EPERM"
  ELSE IF "RDONLY" \in marks THEN "EROFS"
  ELSE "0"

\* The order in which the kernel's copy and the C fallback look.
InOrder(marks, immutable) ==
  IF marks \intersect {"SUID", "SGID"} # {} \/ immutable THEN "EPERM"
  ELSE IF "RDONLY" \in marks THEN "EROFS"
  ELSE "0"

KernelCheck(marks) == InOrder(marks, FS_IMMUTABLE_FL \in marks)
FallbackCheck(marks) == InOrder(marks, S_IMMUTABLE \in marks)

Check(by, found) ==
  CASE by = "crate"    -> CrateCheck(found)
    [] by = "kernel"   -> KernelCheck(found)
    [] by = "fallback" -> FallbackCheck(found)

\* The marks that make a copy refuse.
Refused(by) == {m \in Marks : Check(by, {m}) # "0"}

-----------------------------------------------------------------------------
(* One process that splices into a file, and whoever changes the file meanwhile. *)

VARIABLES
  copy,        \* which of the three the kernel was built with
  marks,       \* the bits set in the inode and its superblock
  pc,          \* "idle"; "reading" in the hook; "permitted", or "vouched" for by the caller
  writing,     \* a PageMut of the permit is alive, or ->splice_write runs
  read, seen,  \* the words the hook has read, and the bits it found set in them
  clear        \* history: bits that have been clear since the hook was entered

gvars == <<copy, marks, pc, writing, read, seen, clear>>

GInit ==
  /\ copy \in {"crate", "kernel", "fallback"}
  /\ marks \in SUBSET Marks
  /\ pc = "idle" /\ writing = FALSE /\ read = {} /\ seen = {} /\ clear = {}

\* do_splice_from calls the hook.
EnterHook ==
  /\ pc = "idle" /\ pc' = "reading"
  /\ clear' = Marks \ marks
  /\ UNCHANGED <<copy, marks, writing, read, seen>>

Denied == Check(copy, seen) # "0"

\* The arguments of a call are evaluated in any order; the C fallback has an order of its
\* own, and returns as soon as a word denies.
MayRead(w) ==
  copy = "fallback" =>
    /\ ~Denied
    /\ w = "i_flags" => "i_mode" \in read
    /\ w = "s_flags" => "i_flags" \in read

ReadWord(w) ==
  /\ pc = "reading" /\ w \notin read /\ MayRead(w)
  /\ read' = read \union {w} /\ seen' = seen \union (marks \intersect Words[w])
  /\ UNCHANGED <<copy, marks, pc, writing, clear>>

\* Permission, or the error: the hook forgets what it has read.
Decide ==
  /\ pc = "reading"
  /\ read = DOMAIN Words \/ (copy = "fallback" /\ Denied)
  /\ read' = {} /\ seen' = {}
  /\ IF Denied THEN pc' = "idle" /\ clear' = {}
     ELSE pc' = "permitted" /\ UNCHANGED clear
  /\ UNCHANGED <<copy, marks, writing>>

\* PageWritePermit::new_unchecked, by a caller that keeps its contract.
Vouch ==
  /\ copy = "crate" /\ pc = "idle"
  /\ {"SUID", "SGID", "RDONLY", FS_IMMUTABLE_FL} \intersect marks = {}
  /\ pc' = "vouched" /\ clear' = Marks \ marks
  /\ UNCHANGED <<copy, marks, writing, read, seen>>

Granted == pc \in {"permitted", "vouched"}

\* A page is written through a PageMut, which borrows the permit (PageMut::new), or by
\* ->splice_write; any number of them.
WritePage ==
  /\ Granted /\ ~writing /\ writing' = TRUE
  /\ UNCHANGED <<copy, marks, pc, read, seen, clear>>

PageWritten ==
  /\ writing /\ writing' = FALSE
  /\ UNCHANGED <<copy, marks, pc, read, seen, clear>>

\* The permit is dropped, which no borrow outlives.
Finish ==
  /\ Granted /\ ~writing /\ pc' = "idle" /\ clear' = {}
  /\ UNCHANGED <<copy, marks, writing, read, seen>>

\* chmod, chattr, remount.
Change(m) ==
  /\ marks' = IF m \in marks THEN marks \ {m} ELSE marks \union {m}
  /\ clear' = IF pc = "idle" THEN {} ELSE clear \union (Marks \ marks')
  /\ UNCHANGED <<copy, pc, writing, read, seen>>

GNext ==
  \/ EnterHook \/ Decide \/ Vouch \/ WritePage \/ PageWritten \/ Finish
  \/ \E w \in DOMAIN Words : ReadWord(w)
  \/ \E m \in Marks : Change(m)

-----------------------------------------------------------------------------
(* Correctness. *)

\* "verify write permission to page cache BEFORE any page is touched" (patch 0004).  The
\* three words are read apart and the file may change before the write: what the check is
\* worth is that a page is written only if each bit that forbids it was clear at some
\* moment since the hook was entered.  A bit that stood all along is never missed.
WriteSawEachClear ==
  pc = "permitted" /\ writing =>
    {"SUID", "SGID", "RDONLY"} \union Refused(copy) \subseteq clear

\* "C fallback -- same logic, no Rust dependency" (patch 0004).
FallbackSameLogic == FallbackCheck(marks) = KernelCheck(marks)
=============================================================================
