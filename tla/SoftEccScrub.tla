----------------------------- MODULE SoftEccScrub -----------------------------
(***************************************************************************)
(* The soft-ECC scrubber of patch 0009 at work: boot, which registers the  *)
(* protected regions while initcalls still write one of them, the delayed  *)
(* work that walks the regions under softecc_lock, the administrator, DRAM *)
(* that flips bits at any moment, and a client that registers a region it  *)
(* writes, and calls rustlux_softecc_reseal() as the header asks.  No code *)
(* of the repository is such a client yet: CLIENT_WORDS = 0 is today's     *)
(* kernel.                                                                 *)
(*                                                                         *)
(* SEAL_AFTER_RO tells the two kernels the repository builds apart: TRUE   *)
(* with patch 0012 (pkg/arch/PKGBUILD), FALSE without it (Makefile).       *)
(***************************************************************************)
EXTENDS SECDED

CONSTANTS
  WORDS,          \* the protected words are 1..WORDS, in the order of the walk
  IDT_WORDS,      \* the first of them are the IDT, the next __ro_after_init
  CLIENT_WORDS,   \* and the last ones the region of a client
  SEAL_AFTER_RO,
  SysctlValues,   \* what is written to vm.rustlux_softecc
  WrittenWords,   \* the values initcalls and the client store
  MAX_FLIPS       \* bound: bits that flip in a word and its code between two visits

ASSUME ScrubAssumption ==
  /\ WORDS \in Nat /\ IDT_WORDS \in 0..WORDS /\ CLIENT_WORDS \in 0..(WORDS - IDT_WORDS)
  /\ SEAL_AFTER_RO \in BOOLEAN
  /\ SysctlValues \subseteq BOOLEAN
  /\ WrittenWords \subseteq Word /\ {} \in WrittenWords
  /\ MAX_FLIPS \in Nat

VARIABLES
  mem, codes,        \* the words in DRAM and their shadow codes
  regions,           \* softecc_regions
  writable,          \* regions whose pages are mapped writable
  boot,              \* how far kernel_init() has come
  armed,             \* softecc_work is scheduled
  enabled,           \* sysctl_softecc_enabled
  scrub, index, word, good, \* the scrubber: its step, i, and its locals
  tainted,           \* TAINT_MACHINE_CHECK
  faulted,           \* some store hit a page that is mapped read-only
  client,            \* the client: "clean", or "dirty" between write and reseal
  truth, hits        \* history: the value a word should have; flips since its last visit

dram == <<mem, codes, truth, hits>>
kernel == <<regions, writable, boot, armed, enabled, tainted, faulted>>
scrubber == <<scrub, index, word, good>>
vars == <<dram, kernel, scrubber, client>>

All == 1..WORDS
Readonly == {"idt", "ro_after_init"}   \* registered with readonly = true
Regions == Readonly \union {"client"}
Region(w) == IF w <= IDT_WORDS THEN "idt"
             ELSE IF w <= WORDS - CLIENT_WORDS THEN "ro_after_init" ELSE "client"
Protected == {w \in All : Region(w) \in regions}
Locked == scrub # "waiting"

Init ==
  /\ mem = [w \in All |-> {}] /\ truth = mem
  /\ codes = [w \in All |-> {}]
  /\ hits = [w \in All |-> 0]
  /\ regions = {} /\ writable = {"ro_after_init", "client"}
  /\ boot = "irqs" /\ armed = FALSE /\ enabled = TRUE
  /\ scrub = "waiting" /\ index = 1 /\ word = {} /\ good = {}
  /\ tainted = FALSE /\ faulted = FALSE /\ client = "clean"

\* The loop of protect(), reseal() and seal_all(): codes of a set of words from
\* what the words hold at this moment.
Encoded(ws) == [w \in All |-> IF w \in ws THEN encode(mem[w]) ELSE codes[w]]

\* What is in memory when a baseline is taken is what the scrubber must keep.
Baseline(ws) ==
  /\ codes' = Encoded(ws)
  /\ truth' = [w \in All |-> IF w \in ws THEN mem[w] ELSE truth[w]]
  /\ hits' = [w \in All |-> IF w \in ws THEN 0 ELSE hits[w]]
  /\ UNCHANGED mem

\* rustlux_softecc_protect(): registers and baselines a region, or returns -ENOMEM
\* having changed nothing.  Its callers ignore the result.
Protect(region) ==
  \/ /\ ~Locked /\ regions' = regions \union {region}
     /\ Baseline({w \in All : Region(w) = region})
  \/ UNCHANGED <<dram, regions>>

\* idt_setup_apic_and_irq_gates(): the IDT is read-only already.
IdtSetup ==
  /\ boot = "irqs" /\ boot' = "initcalls"
  /\ Protect("idt")
  /\ UNCHANGED <<writable, armed, enabled, tainted, faulted, scrubber, client>>

\* A store into a word: on a page that is mapped read-only it faults.
Store(w, v) ==
  IF Region(w) \in writable
    THEN mem' = [mem EXCEPT ![w] = v] /\ faulted' = faulted
    ELSE mem' = mem /\ faulted' = TRUE

\* A store that is meant: by whoever owns the word, not by the scrubber.
Intended(w, v) == Store(w, v) /\ truth' = [truth EXCEPT ![w] = v]

\* An initcall, before or after rustlux_softecc_init() at late_initcall, stores
\* into a __ro_after_init variable.
InitcallWrite(w) ==
  /\ boot \in {"initcalls", "late"} /\ Region(w) = "ro_after_init"
  /\ \E v \in WrittenWords : Intended(w, v)
  /\ UNCHANGED <<codes, hits, regions, writable, boot, armed, enabled, tainted, scrubber, client>>

SoftEccInit ==
  /\ boot = "initcalls" /\ boot' = "late"
  /\ Protect("ro_after_init")
  /\ armed' = ~SEAL_AFTER_RO
  /\ UNCHANGED <<writable, enabled, tainted, faulted, scrubber, client>>

MarkReadonly ==
  /\ boot = "late" /\ boot' = IF SEAL_AFTER_RO THEN "sealing" ELSE "up"
  /\ writable' = writable \ {"ro_after_init"}
  /\ UNCHANGED <<dram, regions, armed, enabled, tainted, faulted, scrubber, client>>

\* Mutant: arms the scrubber without a new baseline.
ArmOnly ==
  /\ boot = "sealing" /\ ~Locked /\ boot' = "up"
  /\ armed' = TRUE
  /\ UNCHANGED <<dram, regions, writable, enabled, tainted, faulted, scrubber, client>>

\* rustlux_softecc_seal_all().
SealAll ==
  /\ boot = "sealing" /\ ~Locked /\ boot' = "up"
  /\ Baseline(Protected)
  /\ armed' = TRUE
  /\ UNCHANGED <<regions, writable, enabled, tainted, faulted, scrubber, client>>

\* Mutant: the walk starts one word before the region.
ScrubFromZero ==
  /\ armed /\ ~Locked /\ enabled
  /\ scrub' = "visit" /\ index' = 0
  /\ UNCHANGED <<dram, kernel, word, good, client>>

\* softecc_scrub_fn() with the sysctl on; with the sysctl off it only schedules
\* itself again.
ScrubBegin ==
  /\ armed /\ ~Locked /\ enabled
  /\ scrub' = "visit" /\ index' = 1
  /\ UNCHANGED <<dram, kernel, word, good, client>>

\* Mutant: the work does not schedule itself again.
ScrubOnce ==
  /\ scrub = "visit" /\ index > WORDS
  /\ scrub' = "waiting" /\ armed' = FALSE
  /\ UNCHANGED <<dram, regions, writable, boot, enabled, tainted, faulted, index, word, good, client>>

ScrubEnd ==
  /\ scrub = "visit" /\ index > WORDS
  /\ scrub' = "waiting"
  /\ UNCHANGED <<dram, kernel, index, word, good, client>>

Skip ==
  /\ scrub = "visit" /\ index \in All \ Protected
  /\ index' = index + 1
  /\ UNCHANGED <<dram, kernel, scrub, word, good, client>>

\* READ_ONCE of a word and rustlux_softecc_verify().  A value that is reported as
\* uncorrectable is the one the scrubber keeps from then on.
Visit ==
  /\ scrub = "visit" /\ index \in Protected
  /\ LET res == verify(mem[index], codes[index])
     IN  /\ word' = mem[index] /\ good' = res.data
         /\ tainted' = (tainted \/ res.status = -1)
         /\ truth' = IF res.status = -1 THEN [truth EXCEPT ![index] = mem[index]] ELSE truth
         /\ scrub' = CASE res.status = 0 -> "visit"
                      [] res.status = 1 -> IF Region(index) \in Readonly THEN "open" ELSE "write"
                      [] res.status = -1 -> "accept"
         /\ index' = IF res.status = 0 THEN index + 1 ELSE index
  /\ hits' = [hits EXCEPT ![index] = 0]
  /\ UNCHANGED <<mem, codes, regions, writable, boot, armed, enabled, faulted, client>>

\* Mutant: the page is not made writable.
OpenNothing ==
  /\ scrub = "open" /\ scrub' = "write"
  /\ UNCHANGED <<dram, kernel, index, word, good, client>>

\* softecc_fix_word(): set_memory_rw, WRITE_ONCE, set_memory_ro.
FixOpen ==
  /\ scrub = "open" /\ scrub' = "write"
  /\ writable' = writable \union {Region(index)}
  /\ UNCHANGED <<dram, regions, boot, armed, enabled, tainted, faulted, index, word, good, client>>

FixWrite ==
  /\ scrub = "write" /\ scrub' = IF Region(index) \in Readonly THEN "close" ELSE "encode"
  /\ Store(index, good)
  /\ UNCHANGED <<codes, truth, hits, regions, writable, boot, armed, enabled, tainted,
                 index, word, good, client>>

\* Mutant: the page stays writable.
CloseNothing ==
  /\ scrub = "close" /\ scrub' = "encode"
  /\ UNCHANGED <<dram, kernel, index, word, good, client>>

FixClose ==
  /\ scrub = "close" /\ scrub' = "encode"
  /\ writable' = writable \ {Region(index)}
  /\ UNCHANGED <<dram, regions, boot, armed, enabled, tainted, faulted, index, word, good, client>>

\* Mutant: the code of the word that was read, not of the one that was stored.
EncodeRead ==
  /\ scrub = "encode" /\ scrub' = "visit" /\ index' = index + 1
  /\ codes' = [codes EXCEPT ![index] = encode(word)]
  /\ UNCHANGED <<mem, truth, hits, kernel, word, good, client>>

FixEncode ==
  /\ scrub = "encode" /\ scrub' = "visit" /\ index' = index + 1
  /\ codes' = [codes EXCEPT ![index] = encode(good)]
  /\ UNCHANGED <<mem, truth, hits, kernel, word, good, client>>

\* Mutant: reports without resealing.
ReportOnly ==
  /\ scrub = "accept" /\ scrub' = "visit" /\ index' = index + 1
  /\ UNCHANGED <<dram, kernel, word, good, client>>

\* "reseal so we report each event once".
Accept ==
  /\ scrub = "accept" /\ scrub' = "visit" /\ index' = index + 1
  /\ codes' = [codes EXCEPT ![index] = encode(word)]
  /\ UNCHANGED <<mem, truth, hits, kernel, word, good, client>>

Scrub ==
  \/ ScrubBegin \/ ScrubEnd \/ Skip \/ Visit
  \/ FixOpen \/ FixWrite \/ FixClose \/ FixEncode \/ Accept

\* DRAM flips a bit of a word or of its code.
Hit(w) == hits[w] < MAX_FLIPS /\ hits' = [hits EXCEPT ![w] = @ + 1]

FlipWord(w) ==
  /\ Hit(w)
  /\ \E b \in 0..(DATA_BITS - 1) : mem' = [mem EXCEPT ![w] = XOR(@, {b})]
  /\ UNCHANGED <<codes, truth, kernel, scrubber, client>>

FlipCode(w) ==
  /\ w \in Protected /\ Hit(w)
  /\ \E b \in 0..CODE_BITS : codes' = [codes EXCEPT ![w] = XOR(@, {b})]
  /\ UNCHANGED <<mem, truth, kernel, scrubber, client>>

WriteSysctl ==
  /\ enabled' \in SysctlValues
  /\ UNCHANGED <<dram, regions, writable, boot, armed, tainted, faulted, scrubber, client>>

\* The client registers its region once the system is up.
ClientProtect ==
  /\ boot = "up" /\ CLIENT_WORDS > 0 /\ "client" \notin regions
  /\ Protect("client")
  /\ UNCHANGED <<writable, boot, armed, enabled, tainted, faulted, scrubber, client>>

\* "any code path that intentionally modifies a protected region" (patch 0009:110)
\* and the rustlux_softecc_reseal() it must call.
ClientWrite(w) ==
  /\ "client" \in regions /\ client = "clean" /\ Region(w) = "client"
  /\ \E v \in WrittenWords : Intended(w, v)
  /\ client' = "dirty"
  /\ UNCHANGED <<codes, hits, regions, writable, boot, armed, enabled, tainted, scrubber>>

\* Mutant: reseals without taking softecc_lock.
ResealUnlocked ==
  /\ client = "dirty"
  /\ codes' = Encoded({w \in All : Region(w) = "client"})
  /\ client' = "clean"
  /\ UNCHANGED <<mem, truth, hits, kernel, scrubber>>

Reseal ==
  /\ client = "dirty" /\ ~Locked
  /\ codes' = Encoded({w \in All : Region(w) = "client"})
  /\ client' = "clean"
  /\ UNCHANGED <<mem, truth, hits, kernel, scrubber>>

Boot == IdtSetup \/ SoftEccInit \/ MarkReadonly \/ SealAll

Next ==
  \/ Boot \/ Scrub \/ WriteSysctl \/ ClientProtect \/ Reseal
  \/ \E w \in All : InitcallWrite(w) \/ FlipWord(w) \/ FlipCode(w) \/ ClientWrite(w)

Spec == Init /\ [][Next]_vars

\* kernel_init() finishes, and the workqueue runs softecc_work again and again.
FairSpec == Spec /\ WF_vars(Boot) /\ WF_vars(Scrub)

(***************************************************************************)
(* Properties                                                              *)
(***************************************************************************)
TypeOK ==
  /\ mem \in [All -> Word] /\ truth \in [All -> Word] /\ codes \in [All -> Code]
  /\ hits \in [All -> 0..MAX_FLIPS]
  /\ regions \subseteq Regions /\ writable \subseteq Regions
  /\ boot \in {"irqs", "initcalls", "late", "sealing", "up"}
  /\ armed \in BOOLEAN /\ enabled \in BOOLEAN /\ tainted \in BOOLEAN /\ faulted \in BOOLEAN
  /\ scrub \in {"waiting", "visit", "open", "write", "close", "encode", "accept"}
  /\ index \in 1..(WORDS + 1) /\ word \in Word /\ good \in Word
  /\ client \in {"clean", "dirty"}

\* What differs from the intended word and from the code it should have.
Errors(w) ==
  Cardinality(XOR(mem[w], truth[w])) + Cardinality(XOR(codes[w], encode(truth[w])))

InRepair(w) == index = w /\ scrub \in {"open", "write", "close", "encode", "accept"}

\* "any later mismatch really is DRAM changing underneath us" (patch 0012:22): once
\* the system is up, a protected word differs from what was last meant to be there
\* by no more bits than DRAM has flipped since the scrubber last looked at it,
\* unless it is being repaired.  Nothing a pass does leaves an error behind.
FlipsAccounted ==
  boot = "up" => \A w \in Protected : ~InRepair(w) => Errors(w) <= hits[w]

\* "single-bit flip: CORRECTED in place" (patch 0009:52): the value that
\* softecc_fix_word() stores is the intended one, never a stale one.
WriteRestores == [][FixWrite => good = truth[index]]_vars

\* "reseal so we report each event once" (patch 0009:335): an UNCORRECTABLE report
\* means that two bits of that word have flipped since its previous visit; a legal
\* write, or an event reported before, is never reported.
ReportsExplained == [][Visit /\ scrub' = "accept" => hits[index] >= 2]_vars

\* No store of an initcall, of the client or of the scrubber hits a page that the
\* scrubber or mark_readonly() has made read-only.
NoFault == ~faulted

\* When the system is up a read-only region is writable only while a word of it is
\* being corrected, whatever the scrubber was doing when it became read-only.
PagesStaySealed ==
  boot = "up" => \A r \in Readonly \intersect writable :
                   scrub \in {"write", "close"} /\ Region(index) = r

\* Writing and then resealing leaves a region consistent, also when a scrub pass
\* ran in between: at rest its codes are those of what the words hold, but for
\* bits that have flipped since the last visit.
CodesMatchAtRest ==
  boot = "up" /\ client = "clean" /\ ~Locked =>
    \A w \in Protected : hits[w] = 0 => codes[w] = encode(mem[w])

\* A flipped word of a read-only region is eventually made what it should be, also
\* when it flips again or another region is written during the pass.
FlipsHeal ==
  \A w \in All :
    (boot = "up" /\ Region(w) \in regions \intersect Readonly /\ mem[w] # truth[w])
      ~> (mem[w] = truth[w])
=============================================================================
