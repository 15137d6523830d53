----------------------------- MODULE SoftEccProofs -----------------------------
(***************************************************************************)
(* The scrubber of patch 0009 beside DRAM that flips bits, boot and a      *)
(* client, for any number of words: which pages are writable when, that no *)
(* store faults, and that the scrubber neither spoils a word nor leaves a  *)
(* code that does not belong to it.                                        *)
(***************************************************************************)
EXTENDS SoftEccScrub, SECDEDProofs

Repairing == {"open", "write", "close", "encode", "accept"}
Initcalls == {"irqs", "initcalls", "late"}   \* boot, before mark_readonly()

\* Every word lies in one of the regions.
LEMMA RegionType == \A w \in All : Region(w) \in Regions
BY DEF Region, Regions, Readonly

-----------------------------------------------------------------------------
(* Which pages are writable *)

\* A read-only region is writable before mark_readonly(), or while softecc_fix_word()
\* is between its set_memory_rw() and its set_memory_ro() on one of its words.
Sealing ==
  \A r \in Readonly \intersect writable :
    \/ r = "ro_after_init" /\ boot \in Initcalls
    \/ scrub \in {"write", "close"} /\ Region(index) = r

\* softecc_fix_word() of patch 0009 closes every page it opens, also one that
\* mark_readonly() seals while it is at work: with or without patch 0012, and
\* whatever else happens, a read-only region of a running system is writable only
\* while one of its words is being stored.
THEOREM PagesAreSealed == Spec => []PagesStaySealed
<1>1. Init => Sealing
  BY DEF Init, Sealing, Readonly, Initcalls
<1>2. Sealing /\ [Next]_vars => Sealing'
  <2> SUFFICES ASSUME Sealing, [Next]_vars PROVE Sealing'
    OBVIOUS
  <2> USE DEF Sealing, Initcalls
  <2>1. CASE IdtSetup
    BY <2>1 DEF IdtSetup, scrubber, Region
  <2>2. CASE SoftEccInit
    BY <2>2 DEF SoftEccInit, scrubber, Region
  <2>3. CASE MarkReadonly
    BY <2>3 DEF MarkReadonly, scrubber, Region
  <2>4. CASE SealAll
    BY <2>4 DEF SealAll, scrubber, Region
  <2>5. CASE ScrubBegin
    BY <2>5 DEF ScrubBegin, kernel, Locked
  <2>6. CASE ScrubEnd
    BY <2>6 DEF ScrubEnd, kernel
  <2>7. CASE Skip
    BY <2>7 DEF Skip, kernel
  <2>8. CASE Visit
    BY <2>8 DEF Visit
  <2>9. CASE FixOpen
    BY <2>9 DEF FixOpen, Region
  <2>10. CASE FixWrite
    BY <2>10 DEF FixWrite, Region
  <2>11. CASE FixClose
    BY <2>11 DEF FixClose, Region
  <2>12. CASE FixEncode
    BY <2>12 DEF FixEncode, kernel
  <2>13. CASE Accept
    BY <2>13 DEF Accept, kernel
  <2>14. CASE WriteSysctl
    BY <2>14 DEF WriteSysctl, scrubber, Region
  <2>15. CASE ClientProtect
    BY <2>15 DEF ClientProtect, scrubber, Region
  <2>16. CASE Reseal
    BY <2>16 DEF Reseal, kernel, scrubber, Region
  <2>17. ASSUME NEW w \in All, InitcallWrite(w) PROVE Sealing'
    BY <2>17 DEF InitcallWrite, scrubber, Region
  <2>18. ASSUME NEW w \in All, FlipWord(w) \/ FlipCode(w) PROVE Sealing'
    BY <2>18 DEF FlipWord, FlipCode, kernel, scrubber, Region
  <2>19. ASSUME NEW w \in All, ClientWrite(w) PROVE Sealing'
    BY <2>19 DEF ClientWrite, scrubber, Region
  <2>20. CASE UNCHANGED vars
    BY <2>20 DEF vars, kernel, scrubber, Region
  <2> QED BY <2>1, <2>2, <2>3, <2>4, <2>5, <2>6, <2>7, <2>8, <2>9, <2>10, <2>11, <2>12, <2>13,
             <2>14, <2>15, <2>16, <2>17, <2>18, <2>19, <2>20 DEF Next, Boot, Scrub
<1>3. Sealing => PagesStaySealed
  BY DEF Sealing, PagesStaySealed, Initcalls
<1> QED BY <1>1, <1>2, <1>3, PTL DEF Spec

-----------------------------------------------------------------------------
(* No store faults *)

\* The scrubber starts once boot is over, initcalls store before their pages are
\* sealed, and the client's pages are never sealed.
Order ==
  /\ armed \/ Locked => boot = "up"
  /\ boot \in Initcalls => "ro_after_init" \in writable
  /\ "client" \in writable

\* softecc_fix_word() opens and closes pages of read-only regions, and stores to
\* pages that are writable.
Fixing ==
  /\ scrub \in {"open", "close"} => Region(index) \in Readonly
  /\ scrub = "write" => Region(index) \in writable

Writable == Order /\ Fixing /\ NoFault

\* With patch 0012, which arms the scrubber when ro_after_init is sealed: the
\* invariant that no store needs more than it has.
LEMMA WritableInvariant == ASSUME SEAL_AFTER_RO PROVE Spec => []Writable
<1>1. Init => Writable
  BY DEF Init, Writable, Order, Fixing, NoFault, Locked, Initcalls
<1>2. Writable /\ [Next]_vars => Writable'
  <2> SUFFICES ASSUME Writable, [Next]_vars PROVE Writable'
    OBVIOUS
  <2> USE DEF Writable, Order, Fixing, NoFault, Initcalls, Locked
  <2>1. CASE IdtSetup
    BY <2>1 DEF IdtSetup, scrubber, Region
  <2>2. CASE SoftEccInit
    BY <2>2, SEAL_AFTER_RO DEF SoftEccInit, scrubber, Region
  <2>3. CASE MarkReadonly
    BY <2>3, SEAL_AFTER_RO DEF MarkReadonly, scrubber, Region
  <2>4. CASE SealAll
    BY <2>4 DEF SealAll, scrubber, Region
  <2>5. CASE ScrubBegin
    BY <2>5 DEF ScrubBegin, kernel
  <2>6. CASE ScrubEnd
    BY <2>6 DEF ScrubEnd, kernel
  <2>7. CASE Skip
    BY <2>7 DEF Skip, kernel
  <2>8. CASE Visit
    <3>1. Region(index) \in Regions
      BY <2>8, RegionType DEF Visit, Protected
    <3>2. Region(index)' = Region(index) \/ scrub' \notin {"open", "write", "close"}
      BY <2>8 DEF Visit, Region
    <3>3. /\ scrub = "visit" /\ scrub' \in {"visit", "open", "write", "accept"}
          /\ scrub' = "open" => Region(index) \in Readonly
          /\ scrub' = "write" => Region(index) \notin Readonly
      BY <2>8, VerifyAnswers DEF Visit
    <3>4. UNCHANGED <<writable, boot, armed, faulted>>
      BY <2>8 DEF Visit
    <3> QED BY <3>1, <3>2, <3>3, <3>4 DEF Regions, Readonly
  <2>9. CASE FixOpen
    BY <2>9 DEF FixOpen, Region
  <2>10. CASE FixWrite
    BY <2>10 DEF FixWrite, Store, Region
  <2>11. CASE FixClose
    BY <2>11 DEF FixClose, Region, Readonly
  <2>12. CASE FixEncode
    BY <2>12 DEF FixEncode, kernel
  <2>13. CASE Accept
    BY <2>13 DEF Accept, kernel
  <2>14. CASE WriteSysctl
    BY <2>14 DEF WriteSysctl, scrubber, Region
  <2>15. CASE ClientProtect
    BY <2>15 DEF ClientProtect, scrubber, Region
  <2>16. CASE Reseal
    BY <2>16 DEF Reseal, kernel, scrubber, Region
  <2>17. ASSUME NEW w \in All, InitcallWrite(w) PROVE Writable'
    BY <2>17 DEF InitcallWrite, Intended, Store, scrubber, Region
  <2>18. ASSUME NEW w \in All, FlipWord(w) \/ FlipCode(w) PROVE Writable'
    BY <2>18 DEF FlipWord, FlipCode, kernel, scrubber, Region
  <2>19. ASSUME NEW w \in All, ClientWrite(w) PROVE Writable'
    BY <2>19 DEF ClientWrite, Intended, Store, scrubber, Region
  <2>20. CASE UNCHANGED vars
    BY <2>20 DEF vars, kernel, scrubber, Region
  <2> QED BY <2>1, <2>2, <2>3, <2>4, <2>5, <2>6, <2>7, <2>8, <2>9, <2>10, <2>11, <2>12, <2>13,
             <2>14, <2>15, <2>16, <2>17, <2>18, <2>19, <2>20 DEF Next, Boot, Scrub
<1> QED BY <1>1, <1>2, PTL DEF Spec

\* With patch 0012 no store of an initcall, of a client or of softecc_fix_word()
\* hits a page that is mapped read-only.
THEOREM NoStoreFaults == ASSUME SEAL_AFTER_RO PROVE Spec => []NoFault
<1>1. Writable => NoFault
  BY DEF Writable
<1> QED BY <1>1, WritableInvariant, PTL

-----------------------------------------------------------------------------
(* Types *)

\* A word under repair is a word of a registered region.
Working == scrub \in Repairing => index \in Protected

Typed == TypeOK /\ Working

\* encode() gives a code of its width.
LEMMA Encodes == ASSUME Hamming72_64 PROVE \A w \in Word : encode(w) \in Code
BY Sealed

\* Taking a baseline stores a code for every word of the region.
LEMMA BaselineType ==
  ASSUME Hamming72_64, TypeOK, NEW ws, Baseline(ws)
  PROVE  /\ mem' \in [All -> Word] /\ truth' \in [All -> Word] /\ codes' \in [All -> Code]
         /\ hits' \in [All -> 0..MAX_FLIPS]
<1>1. 0 \in 0..MAX_FLIPS
  BY ScrubAssumption
<1> QED BY <1>1, Encodes DEF Baseline, Encoded, TypeOK

\* Registering a region, whether or not it is known already, keeps the types.
LEMMA ProtectType ==
  ASSUME Hamming72_64, TypeOK, NEW r \in Regions, Protect(r)
  PROVE  /\ mem' \in [All -> Word] /\ truth' \in [All -> Word] /\ codes' \in [All -> Code]
         /\ hits' \in [All -> 0..MAX_FLIPS]
         /\ regions' \subseteq Regions /\ Protected \subseteq Protected'
<1>1. CASE UNCHANGED <<dram, regions>>
  BY <1>1 DEF dram, TypeOK, Protected
<1>2. CASE Baseline({w \in All : Region(w) = r}) /\ regions' = regions \union {r}
  BY <1>2, BaselineType DEF TypeOK, Protected
<1> QED BY <1>1, <1>2 DEF Protect

\* A store changes the word or faults.
LEMMA StoreType ==
  ASSUME TypeOK, NEW w, NEW v \in Word, Store(w, v)
  PROVE  mem' \in [All -> Word] /\ faulted' \in BOOLEAN
BY DEF Store, TypeOK

\* A flip is counted, up to the bound.
LEMMA HitType ==
  ASSUME TypeOK, NEW w \in All, Hit(w) PROVE hits' \in [All -> 0..MAX_FLIPS]
<1>1. hits[w] + 1 \in 0..MAX_FLIPS
  BY ScrubAssumption DEF Hit, TypeOK
<1> QED BY <1>1 DEF Hit, TypeOK

\* Every variable keeps its range, and what a pass repairs is protected.
LEMMA TypedInvariant == ASSUME Hamming72_64 PROVE Spec => []Typed
<1>1. Init => Typed
  <2>1. {} \in Word /\ {} \in Code
    BY DEF Word, Code
  <2>2. 0 \in 0..MAX_FLIPS /\ 1 \in 1..(WORDS + 1)
    BY ScrubAssumption
  <2> QED BY <2>1, <2>2 DEF Init, Typed, TypeOK, Working, Repairing, Regions, Readonly
<1>2. Typed /\ [Next]_vars => Typed'
  <2> SUFFICES ASSUME Typed, [Next]_vars PROVE Typed'
    OBVIOUS
  <2> USE DEF Typed, Working, Repairing
  <2>0. /\ \A w \in All : w + 1 \in 1..(WORDS + 1)
        /\ "idt" \in Regions /\ "ro_after_init" \in Regions /\ "client" \in Regions
    BY ScrubAssumption DEF All, Regions, Readonly
  <2>1. CASE IdtSetup
    BY <2>0, <2>1, ProtectType DEF IdtSetup, scrubber, TypeOK
  <2>2. CASE SoftEccInit
    BY <2>0, <2>2, ProtectType, ScrubAssumption DEF SoftEccInit, scrubber, TypeOK
  <2>3. CASE MarkReadonly
    BY <2>3 DEF MarkReadonly, dram, scrubber, TypeOK, Protected
  <2>4. CASE SealAll
    BY <2>4, BaselineType DEF SealAll, scrubber, TypeOK, Protected
  <2>5. CASE ScrubBegin
    BY <2>5, ScrubAssumption DEF ScrubBegin, dram, kernel, TypeOK
  <2>6. CASE ScrubEnd
    BY <2>6 DEF ScrubEnd, dram, kernel, TypeOK
  <2>7. CASE Skip
    BY <2>0, <2>7 DEF Skip, dram, kernel, TypeOK
  <2>8. CASE Visit
    <3> DEFINE res == verify(mem[index], codes[index])
    <3>1. index \in All
      BY <2>8 DEF Visit, Protected
    <3>2. mem[index] \in Word /\ codes[index] \in Code
      BY <3>1 DEF TypeOK
    <3>3. res.data \in Word /\ res.status \in {-1, 0, 1}
      BY <3>2, VerifyType, VerifyAnswers
    <3>4. truth' \in [All -> Word] /\ hits' \in [All -> 0..MAX_FLIPS]
      <4>1. hits' = [hits EXCEPT ![index] = 0] /\ 0 \in 0..MAX_FLIPS
        BY <2>8, ScrubAssumption DEF Visit
      <4>2. truth' = [truth EXCEPT ![index] = mem[index]] \/ truth' = truth
        BY <2>8 DEF Visit
      <4> QED BY <3>2, <4>1, <4>2 DEF TypeOK
    <3>5. word' \in Word /\ good' \in Word
      BY <2>8, <3>2, <3>3 DEF Visit
    <3>6. scrub' \in {"visit", "open", "write", "accept"} /\ index' \in 1..(WORDS + 1)
      BY <2>0, <2>8, <3>1, <3>3 DEF Visit, TypeOK
    <3>7. scrub' \in Repairing => index' \in Protected'
      <4>1. scrub' # "visit" => index' = index
        BY <2>8, <3>3 DEF Visit
      <4> QED BY <2>8, <3>6, <4>1 DEF Visit, Protected
    <3>8. /\ UNCHANGED <<mem, codes, regions, writable, boot, armed, enabled, faulted, client>>
          /\ tainted' \in BOOLEAN
      BY <2>8 DEF Visit, TypeOK
    <3> QED BY <3>4, <3>5, <3>6, <3>7, <3>8 DEF TypeOK
  <2>9. CASE FixOpen
    <3>1. Region(index) \in Regions
      BY <2>9, RegionType DEF FixOpen, Protected
    <3> QED BY <2>9, <3>1 DEF FixOpen, dram, TypeOK, Protected
  <2>10. CASE FixWrite
    <3>1. mem' \in [All -> Word] /\ faulted' \in BOOLEAN
      BY <2>10, StoreType DEF FixWrite, TypeOK
    <3> QED BY <2>10, <3>1 DEF FixWrite, TypeOK, Protected
  <2>11. CASE FixClose
    BY <2>11 DEF FixClose, dram, TypeOK, Protected
  <2>12. CASE FixEncode
    <3>1. codes' \in [All -> Code]
      BY <2>12, Encodes DEF FixEncode, TypeOK
    <3> QED BY <2>0, <2>12, <3>1 DEF FixEncode, kernel, TypeOK, Protected
  <2>13. CASE Accept
    <3>1. codes' \in [All -> Code]
      BY <2>13, Encodes DEF Accept, TypeOK
    <3> QED BY <2>0, <2>13, <3>1 DEF Accept, kernel, TypeOK, Protected
  <2>14. CASE WriteSysctl
    BY <2>14, ScrubAssumption DEF WriteSysctl, dram, scrubber, TypeOK, Protected
  <2>15. CASE ClientProtect
    BY <2>0, <2>15, ProtectType DEF ClientProtect, scrubber, TypeOK
  <2>16. CASE Reseal
    <3>1. codes' \in [All -> Code]
      BY <2>16, Encodes DEF Reseal, Encoded, TypeOK
    <3> QED BY <2>16, <3>1 DEF Reseal, kernel, scrubber, TypeOK, Protected
  <2>17. ASSUME NEW w \in All, InitcallWrite(w) PROVE Typed'
    <3>1. PICK v \in Word : Intended(w, v)
      BY <2>17, ScrubAssumption DEF InitcallWrite
    <3>2. mem' \in [All -> Word] /\ faulted' \in BOOLEAN /\ truth' \in [All -> Word]
      BY <3>1, StoreType DEF Intended, TypeOK
    <3> QED BY <2>17, <3>2 DEF InitcallWrite, scrubber, TypeOK, Protected
  <2>18. ASSUME NEW w \in All, FlipWord(w) PROVE Typed'
    <3>1. PICK b \in 0..(DATA_BITS - 1) : mem' = [mem EXCEPT ![w] = XOR(@, {b})]
      BY <2>18 DEF FlipWord
    <3>2. b \in DataBits
      BY DEF DataBits, Hamming72_64
    <3>3. mem' \in [All -> Word]
      BY <3>1, <3>2, Closed DEF TypeOK
    <3>4. hits' \in [All -> 0..MAX_FLIPS]
      BY <2>18, HitType DEF FlipWord
    <3> QED BY <2>18, <3>3, <3>4 DEF FlipWord, kernel, scrubber, TypeOK, Protected
  <2>19. ASSUME NEW w \in All, FlipCode(w) PROVE Typed'
    <3>1. PICK b \in 0..CODE_BITS : codes' = [codes EXCEPT ![w] = XOR(@, {b})]
      BY <2>19 DEF FlipCode
    <3>2. b \in 0..7
      BY DEF Hamming72_64
    <3>3. codes' \in [All -> Code]
      BY <3>1, <3>2, Closed DEF TypeOK
    <3>4. hits' \in [All -> 0..MAX_FLIPS]
      BY <2>19, HitType DEF FlipCode
    <3> QED BY <2>19, <3>3, <3>4 DEF FlipCode, kernel, scrubber, TypeOK, Protected
  <2>20. ASSUME NEW w \in All, ClientWrite(w) PROVE Typed'
    <3>1. PICK v \in Word : Intended(w, v)
      BY <2>20, ScrubAssumption DEF ClientWrite
    <3>2. mem' \in [All -> Word] /\ faulted' \in BOOLEAN /\ truth' \in [All -> Word]
      BY <3>1, StoreType DEF Intended, TypeOK
    <3> QED BY <2>20, <3>2 DEF ClientWrite, scrubber, TypeOK, Protected
  <2>21. CASE UNCHANGED vars
    BY <2>21 DEF vars, dram, kernel, scrubber, TypeOK, Protected
  <2> QED BY <2>1, <2>2, <2>3, <2>4, <2>5, <2>6, <2>7, <2>8, <2>9, <2>10, <2>11, <2>12, <2>13,
             <2>14, <2>15, <2>16, <2>17, <2>18, <2>19, <2>20, <2>21 DEF Next, Boot, Scrub
<1> QED BY <1>1, <1>2, PTL DEF Spec

\* What the scrubber of patch 0009 reads, corrects and stores are 64-bit words and
\* 8-bit codes, and it never walks past the last word.
THEOREM TypeCorrect == ASSUME Hamming72_64 PROVE Spec => []TypeOK
<1>1. Typed => TypeOK
  BY DEF Typed
<1> QED BY <1>1, TypedInvariant, PTL

-----------------------------------------------------------------------------
(* What a pass leaves behind *)

\* base is the value that the word w and its code stand for: they are no further
\* from it than DRAM has flipped bits since the last visit, or the scrubber is
\* about to make them what it should be.
Sound(w, base) ==
  IF InRepair(w)
    THEN /\ scrub \in {"open", "write", "close", "encode"} => good = base
         /\ scrub = "accept" => word = base
         /\ scrub \in {"close", "encode", "accept"} => Apart(mem[w], base) <= hits[w]
    ELSE Apart(mem[w], base) + Apart(codes[w], encode(base)) <= hits[w]

\* Every protected word stands for some value, but for a client's between its store
\* and its reseal; a word of a read-only region for the one that it should have.
Healthy ==
  boot = "up" =>
    \A w \in Protected :
      Region(w) \in Readonly \/ client = "clean" =>
        \E base \in Word : Sound(w, base) /\ (Region(w) \in Readonly => base = truth[w])

IInv == Typed /\ Writable /\ Healthy

\* How far a word and its code are from a value is a number.
LEMMA Measures ==
  ASSUME Hamming72_64, TypeOK, NEW w \in All, NEW base \in Word
  PROVE  /\ mem[w] \in Word /\ codes[w] \in Code /\ encode(base) \in Code
         /\ hits[w] \in 0..MAX_FLIPS /\ hits[w] \in Nat
         /\ Apart(mem[w], base) \in Nat /\ Apart(codes[w], encode(base)) \in Nat
         /\ Apart(mem[w], base) = 0 <=> mem[w] = base
         /\ Apart(codes[w], encode(base)) = 0 <=> codes[w] = encode(base)
<1>1. mem[w] \in Word /\ codes[w] \in Code /\ hits[w] \in 0..MAX_FLIPS
  BY DEF TypeOK
<1>2. hits[w] \in Nat
  BY <1>1, ScrubAssumption
<1>3. encode(base) \in Code
  BY Encodes
<1> QED BY <1>1, <1>2, <1>3, WordsFinite, ApartItself

\* A word and its code that have just been sealed are at no distance.
LEMMA SealedIsSound ==
  ASSUME Hamming72_64, TypeOK', NEW w \in All, NEW base \in Word, ~InRepair(w)',
         mem'[w] = base, codes'[w] = encode(base)
  PROVE  Sound(w, base)'
<1>1. Apart(mem'[w], base) = 0 /\ Apart(codes'[w], encode(base)) = 0
  BY Encodes, WordsFinite, ApartItself
<1>2. hits'[w] \in Nat
  BY ScrubAssumption DEF TypeOK
<1> QED BY <1>1, <1>2 DEF Sound

\* A step that leaves a word, its code and its repair alone.
LEMMA LeftAlone ==
  ASSUME NEW w, NEW base, Sound(w, base),
         mem'[w] = mem[w], codes'[w] = codes[w], hits'[w] = hits[w],
         UNCHANGED scrubber \/ (~InRepair(w) /\ ~InRepair(w)')
  PROVE  Sound(w, base)'
BY Zenon DEF Sound, InRepair, scrubber

\* A bit that flips takes a word one bit further from what it stands for.
LEMMA FlipIsCounted ==
  ASSUME Hamming72_64, TypeOK, NEW w \in All, NEW base \in Word, Sound(w, base),
         NEW v \in All, FlipWord(v) \/ FlipCode(v)
  PROVE  Sound(w, base)'
<1>1. CASE v # w
  <2>1. mem'[w] = mem[w] /\ codes'[w] = codes[w] /\ hits'[w] = hits[w] /\ UNCHANGED scrubber
    BY <1>1 DEF FlipWord, FlipCode, Hit, TypeOK
  <2> QED BY <2>1, LeftAlone
<1>2. CASE v = w
  <2>1. hits'[w] = hits[w] + 1 /\ UNCHANGED scrubber
    BY <1>2 DEF FlipWord, FlipCode, Hit, TypeOK
  <2>2. InRepair(w)' = InRepair(w)
    BY <2>1 DEF InRepair, scrubber
  <2>3. /\ IsFiniteSet(mem[w]) /\ IsFiniteSet(codes[w])
        /\ IsFiniteSet(base) /\ IsFiniteSet(encode(base))
    BY Measures, WordsFinite
  <2>4. CASE FlipWord(v)
    <3>1. PICK b : mem'[w] = XOR(mem[w], {b})
      BY <1>2, <2>4 DEF FlipWord, TypeOK
    <3>2. Apart(mem'[w], base) \in Nat /\ Apart(mem'[w], base) <= Apart(mem[w], base) + 1
      BY <2>3, <3>1, OneFlipFurther
    <3>3. codes' = codes
      BY <2>4 DEF FlipWord
    <3> QED BY <2>1, <2>2, <3>2, <3>3, Measures DEF Sound, scrubber
  <2>5. CASE FlipCode(v)
    <3>1. PICK b : codes'[w] = XOR(codes[w], {b})
      BY <1>2, <2>5 DEF FlipCode, TypeOK
    <3>2. /\ Apart(codes'[w], encode(base)) \in Nat
          /\ Apart(codes'[w], encode(base)) <= Apart(codes[w], encode(base)) + 1
      BY <2>3, <3>1, OneFlipFurther
    <3>3. mem' = mem
      BY <2>5 DEF FlipCode
    <3> QED BY <2>1, <2>2, <3>2, <3>3, Measures DEF Sound, scrubber
  <2> QED BY <2>4, <2>5
<1> QED BY <1>1, <1>2

\* A visit: what verify() finds clean is at no distance, what it corrects is the value
\* the word stands for, and what it reports is the value the scrubber keeps.
LEMMA VisitIsSound ==
  ASSUME Hamming72_64, MAX_FLIPS <= 2, Typed, Typed',
         NEW w \in All, NEW base \in Word, Sound(w, base), Visit
  PROVE  \E kept \in Word :
           /\ Sound(w, kept)'
           /\ \/ kept = base /\ truth'[w] = truth[w] /\ (w = index => scrub' # "accept")
              \/ kept = truth'[w] /\ hits[w] >= 2
<1>1. CASE w # index
  <2>1. mem'[w] = mem[w] /\ codes'[w] = codes[w] /\ hits'[w] = hits[w] /\ truth'[w] = truth[w]
    BY <1>1 DEF Visit, Typed, TypeOK
  <2>2. ~InRepair(w) /\ ~InRepair(w)'
    <3>1. index' = index \/ scrub' = "visit"
      BY VerifyAnswers DEF Visit
    <3> QED BY <1>1, <3>1 DEF Visit, InRepair
  <2> QED BY <1>1, <2>1, <2>2, LeftAlone
<1>2. CASE w = index
  <2> DEFINE res == verify(mem[w], codes[w])
             n == Apart(mem[w], base) + Apart(codes[w], encode(base))
  <2>1. n \in Nat /\ n <= 2 /\ n <= hits[w]
    <3>1. n <= hits[w]
      BY DEF Sound, InRepair, Visit
    <3>2. n \in Nat /\ hits[w] \in Nat /\ hits[w] <= MAX_FLIPS
      BY Measures DEF Typed
    <3> HIDE DEF n
    <3> QED BY <3>1, <3>2, ScrubAssumption
  <2>2. mem' = mem /\ codes' = codes /\ mem[w] \in Word /\ codes[w] \in Code
    BY Measures DEF Visit, Typed
  <2>3. CASE n = 0
    <3>1. res = Clean(base) /\ mem[w] = base /\ codes[w] = encode(base)
      <4>1. Apart(mem[w], base) = 0 /\ Apart(codes[w], encode(base)) = 0
        BY <2>3, Measures DEF Typed
      <4>2. res = Clean(base)
        BY <2>2, <2>3, WithinTwoBits
      <4> QED BY <4>1, <4>2, Measures DEF Typed
    <3>2. res.status = 0
      BY <3>1 DEF Clean
    <3>3. scrub' = "visit" /\ truth' = truth
      BY <1>2, <3>2 DEF Visit
    <3>4. ~InRepair(w)'
      BY <3>3 DEF InRepair
    <3> QED BY <2>2, <3>1, <3>3, <3>4, SealedIsSound DEF Typed
  <2>4. CASE n = 1
    <3>1. res = Corrected(base)
      BY <2>2, <2>4, WithinTwoBits
    <3>2. res.status = 1 /\ res.data = base
      BY <3>1 DEF Corrected
    <3>3. scrub' \in {"open", "write"} /\ truth' = truth /\ good' = base /\ index' = w
      BY <1>2, <3>2 DEF Visit
    <3> QED BY <3>3 DEF Sound, InRepair
  <2>5. CASE n = 2
    <3>1. res = Uncorrectable(mem[w])
      BY <2>2, <2>5, WithinTwoBits
    <3>2. res.status = -1
      BY <3>1 DEF Uncorrectable
    <3>3. /\ scrub' = "accept" /\ truth'[w] = mem[w] /\ word' = mem[w] /\ index' = w
          /\ hits'[w] = 0
      BY <1>2, <3>2 DEF Visit, Typed, TypeOK
    <3>4. PICK kept \in Word : kept = mem[w]
      BY <2>2
    <3>5. Apart(mem'[w], kept) = 0
      BY <2>2, <3>4, WordsFinite, ApartItself
    <3>6. Sound(w, kept)'
      BY <2>2, <3>3, <3>4, <3>5 DEF Sound, InRepair
    <3>7. hits[w] >= 2
      <4>1. n \in Nat /\ n <= hits[w] /\ hits[w] \in Nat
        BY <2>1, Measures DEF Typed
      <4> QED BY <2>5, <4>1
    <3> QED BY <3>3, <3>4, <3>6, <3>7
  <2> HIDE DEF n
  <2> QED BY <2>1, <2>3, <2>4, <2>5
<1> QED BY <1>1, <1>2

\* softecc_fix_word() and the two ways it is left: what it stores and what it
\* encodes is the value the word stands for, also when DRAM flips bits under it.
LEMMA FixIsSound ==
  ASSUME Hamming72_64, Typed, Typed', Fixing, NEW w \in All, NEW base \in Word, Sound(w, base),
         FixOpen \/ FixWrite \/ FixClose \/ FixEncode \/ Accept
  PROVE  Sound(w, base)'
<1>1. CASE w # index
  <2>1. mem'[w] = mem[w] /\ codes'[w] = codes[w] /\ hits'[w] = hits[w]
    BY <1>1 DEF FixOpen, FixWrite, FixClose, FixEncode, Accept, Store, dram, Typed, TypeOK
  <2>2. ~InRepair(w) /\ ~InRepair(w)'
    <3>1. index' = index \/ scrub' = "visit"
      BY DEF FixOpen, FixWrite, FixClose, FixEncode, Accept
    <3> QED BY <1>1, <3>1 DEF InRepair
  <2> QED BY <2>1, <2>2, LeftAlone
<1>2. CASE w = index
  <2>1. CASE FixOpen
    BY <1>2, <2>1 DEF FixOpen, dram, Sound, InRepair
  <2>2. CASE FixWrite
    <3>1. good = base
      BY <1>2, <2>2 DEF FixWrite, Sound, InRepair
    <3>2. mem'[w] = base
      BY <1>2, <2>2, <3>1 DEF FixWrite, Store, Fixing, Typed, TypeOK
    <3>3. Apart(mem'[w], base) = 0 /\ hits'[w] \in Nat
      BY <3>2, WordsFinite, ApartItself, ScrubAssumption DEF Typed, TypeOK
    <3> QED BY <1>2, <2>2, <3>1, <3>3 DEF FixWrite, Sound, InRepair
  <2>3. CASE FixClose
    BY <1>2, <2>3 DEF FixClose, dram, Sound, InRepair
  <2>4. ASSUME FixEncode \/ Accept PROVE Sound(w, base)'
    <3>1. codes'[w] = encode(base) /\ Apart(mem[w], base) <= hits[w]
      BY <1>2, <2>4 DEF FixEncode, Accept, Sound, InRepair, Typed, TypeOK
    <3>2. Apart(codes'[w], encode(base)) = 0
      BY <3>1, Encodes, WordsFinite, ApartItself
    <3>3. mem' = mem /\ hits' = hits /\ ~InRepair(w)'
      BY <2>4 DEF FixEncode, Accept, InRepair
    <3> QED BY <3>1, <3>2, <3>3, Measures DEF Sound, Typed
  <2> QED BY <2>1, <2>2, <2>3, <2>4
<1> QED BY <1>1, <1>2

\* A step that takes no baseline and registers nothing keeps Healthy when, for each
\* word, what made it sound makes it sound again.
LEMMA StaysHealthy ==
  ASSUME Healthy, boot' = "up" => boot = "up", Protected' = Protected,
         client' = "clean" => client = "clean",
         \A w \in Protected :
           /\ Region(w) \in Readonly => truth'[w] = truth[w]
           /\ \A base \in Word :
                Sound(w, base) /\ (Region(w) \in Readonly \/ client' = "clean") => Sound(w, base)'
  PROVE  Healthy'
<1> SUFFICES ASSUME boot = "up", NEW w \in Protected, Region(w) \in Readonly \/ client' = "clean"
             PROVE  \E base \in Word :
                      Sound(w, base)' /\ (Region(w) \in Readonly => base = truth'[w])
  BY Zenon DEF Healthy, Region
<1>1. PICK base \in Word : Sound(w, base) /\ (Region(w) \in Readonly => base = truth[w])
  BY DEF Healthy
<1> QED BY <1>1

\* A step at the start of which the scrubber holds nothing, and that gives every
\* word of ws a code of its own and leaves the others alone.
LEMMA BaselineIsHealthy ==
  ASSUME Hamming72_64, TypeOK, TypeOK', Healthy, ~Locked, UNCHANGED <<mem, scrubber>>,
         NEW ws \in SUBSET All, codes' = Encoded(ws),
         \A w \in ws : Region(w) \in Readonly => truth'[w] = mem[w],
         \A w \in All \ ws : truth'[w] = truth[w] /\ hits'[w] = hits[w],
         \A w \in Protected' \ ws :
           boot = "up" /\ w \in Protected /\ (Region(w) \in Readonly \/ client = "clean")
  PROVE  Healthy'
<1> SUFFICES ASSUME NEW w \in Protected'
             PROVE  \E base \in Word :
                      Sound(w, base)' /\ (Region(w) \in Readonly => base = truth'[w])
  BY DEF Healthy
<1>1. w \in All /\ ~InRepair(w) /\ ~InRepair(w)'
  BY DEF Protected, InRepair, Locked, scrubber
<1>2. CASE w \in ws
  <2>1. PICK base \in Word : base = mem[w]
    BY <1>1 DEF TypeOK
  <2>2. codes'[w] = encode(base) /\ mem'[w] = base
    BY <1>1, <1>2, <2>1 DEF Encoded
  <2> QED BY <1>1, <1>2, <2>1, <2>2, SealedIsSound
<1>3. CASE w \notin ws
  <2>1. PICK base \in Word : Sound(w, base) /\ (Region(w) \in Readonly => base = truth[w])
    BY <1>3 DEF Healthy
  <2>2. codes'[w] = codes[w] /\ mem'[w] = mem[w]
    BY <1>1, <1>3 DEF Encoded
  <2>3. Sound(w, base)'
    BY <1>1, <1>3, <2>1, <2>2, LeftAlone
  <2> QED BY <1>1, <1>3, <2>1, <2>3
<1> QED BY <1>2, <1>3

\* Healthy is kept by every step of the system.
LEMMA HealthyStep ==
  ASSUME Hamming72_64, SEAL_AFTER_RO, MAX_FLIPS <= 2,
         Typed, Typed', Writable, Healthy, [Next]_vars
  PROVE  Healthy'
<1>0. TypeOK /\ TypeOK' /\ Order /\ Fixing
  BY DEF Typed, Writable
<1>1. CASE IdtSetup \/ SoftEccInit \/ MarkReadonly
  BY <1>1, SEAL_AFTER_RO DEF IdtSetup, SoftEccInit, MarkReadonly, Healthy
<1>2. CASE SealAll
  <2>1. /\ ~Locked /\ UNCHANGED <<mem, regions, scrubber>> /\ codes' = Encoded(Protected)
        /\ Protected' = Protected /\ Protected \in SUBSET All
    BY <1>2 DEF SealAll, Baseline, Protected
  <2>2. /\ \A w \in Protected : truth'[w] = mem[w]
        /\ \A w \in All \ Protected : truth'[w] = truth[w] /\ hits'[w] = hits[w]
    BY <1>2, <2>1 DEF SealAll, Baseline
  <2> QED BY <1>0, <2>1, <2>2, BaselineIsHealthy
<1>3. CASE ScrubBegin \/ ScrubEnd \/ Skip
  <2>1. /\ UNCHANGED <<dram, kernel, client>>
        /\ scrub \notin Repairing /\ scrub' \notin Repairing
    BY <1>3 DEF ScrubBegin, ScrubEnd, Skip, Locked, Repairing
  <2>2. \A w : ~InRepair(w) /\ ~InRepair(w)'
    BY <2>1 DEF InRepair, Repairing
  <2>3. UNCHANGED <<boot, client, truth, regions>> /\ Protected' = Protected
    BY <2>1 DEF dram, kernel, Protected
  <2>4. ASSUME NEW w \in Protected, NEW base \in Word, Sound(w, base) PROVE Sound(w, base)'
    BY <2>1, <2>2, <2>4, LeftAlone DEF dram
  <2> QED BY <2>3, <2>4, StaysHealthy
<1>4. CASE Visit
  <2>1. UNCHANGED <<boot, client, regions>> /\ Protected' = Protected
    BY <1>4 DEF Visit, Protected
  <2> SUFFICES ASSUME boot = "up", NEW w \in Protected, Region(w) \in Readonly \/ client = "clean"
               PROVE  \E kept \in Word :
                        Sound(w, kept)' /\ (Region(w) \in Readonly => kept = truth'[w])
    BY <2>1, Zenon DEF Healthy, Region
  <2>2. PICK base \in Word : Sound(w, base) /\ (Region(w) \in Readonly => base = truth[w])
    BY DEF Healthy
  <2>3. w \in All
    BY DEF Protected
  <2>4. PICK kept \in Word :
          /\ Sound(w, kept)'
          /\ \/ kept = base /\ truth'[w] = truth[w]
             \/ kept = truth'[w] /\ hits[w] >= 2
    BY <1>4, <2>2, <2>3, VisitIsSound
  <2> QED BY <2>2, <2>4
<1>5. CASE FixOpen \/ FixWrite \/ FixClose \/ FixEncode \/ Accept
  <2>1. UNCHANGED <<boot, client, truth, regions>> /\ Protected' = Protected
    BY <1>5 DEF FixOpen, FixWrite, FixClose, FixEncode, Accept, dram, kernel, Protected
  <2>2. ASSUME NEW w \in Protected, NEW base \in Word, Sound(w, base) PROVE Sound(w, base)'
    BY <1>0, <1>5, <2>2, FixIsSound DEF Protected
  <2> QED BY <2>1, <2>2, StaysHealthy
<1>6. CASE WriteSysctl \/ UNCHANGED vars
  <2>1. UNCHANGED <<dram, boot, client, regions, scrubber>> /\ Protected' = Protected
    BY <1>6 DEF WriteSysctl, vars, kernel, Protected
  <2>2. ASSUME NEW w \in Protected, NEW base \in Word, Sound(w, base) PROVE Sound(w, base)'
    BY <2>1, <2>2, LeftAlone DEF dram
  <2> QED BY <2>1, <2>2, StaysHealthy DEF dram
<1>7. CASE ClientProtect
  <2>1. UNCHANGED <<boot, client, scrubber>> /\ boot = "up" /\ "client" \notin regions
    BY <1>7 DEF ClientProtect
  <2>2. CASE UNCHANGED <<dram, regions>>
    <3>1. Protected' = Protected
      BY <2>2 DEF Protected
    <3>2. ASSUME NEW w \in Protected, NEW base \in Word, Sound(w, base) PROVE Sound(w, base)'
      BY <2>1, <2>2, <3>2, LeftAlone DEF dram
    <3> QED BY <2>1, <2>2, <3>1, <3>2, StaysHealthy DEF dram
  <2>3. ASSUME ~Locked, regions' = regions \union {"client"},
               Baseline({w \in All : Region(w) = "client"})
        PROVE  Healthy'
    <3> DEFINE ws == {w \in All : Region(w) = "client"}
    <3>1. codes' = Encoded(ws) /\ mem' = mem /\ ws \in SUBSET All
      BY <2>3 DEF Baseline
    <3>2. \A w \in ws : Region(w) \notin Readonly
      BY DEF Readonly
    <3>3. \A w \in All \ ws : truth'[w] = truth[w] /\ hits'[w] = hits[w]
      BY <2>3 DEF Baseline
    <3>4. \A w \in Protected' \ ws : w \in Protected /\ Region(w) \in Readonly
      BY <2>3, RegionType DEF Protected, Regions
    <3> HIDE DEF ws
    <3> QED BY <1>0, <2>1, <2>3, <3>1, <3>2, <3>3, <3>4, BaselineIsHealthy
  <2> QED BY <1>7, <2>2, <2>3 DEF ClientProtect, Protect
<1>8. CASE Reseal
  <2> DEFINE ws == {w \in All : Region(w) = "client"}
  <2>1. /\ ~Locked /\ codes' = Encoded(ws) /\ ws \in SUBSET All
        /\ UNCHANGED <<mem, truth, hits, boot, regions, scrubber>>
    BY <1>8 DEF Reseal, kernel
  <2>2. \A w \in ws : Region(w) \notin Readonly
    BY DEF Readonly
  <2>3. \A w \in Protected' \ ws : w \in Protected /\ Region(w) \in Readonly
    BY <2>1, RegionType DEF Protected, Regions
  <2> HIDE DEF ws
  <2>4. CASE boot = "up"
    BY <1>0, <2>1, <2>2, <2>3, <2>4, BaselineIsHealthy
  <2>5. CASE boot # "up"
    BY <2>1, <2>5 DEF Healthy
  <2> QED BY <2>4, <2>5
<1>9. ASSUME NEW v \in All, InitcallWrite(v) PROVE Healthy'
  BY <1>9 DEF InitcallWrite, Healthy
<1>10. ASSUME NEW v \in All, FlipWord(v) \/ FlipCode(v) PROVE Healthy'
  <2>1. UNCHANGED <<boot, client, truth, regions>> /\ Protected' = Protected
    BY <1>10 DEF FlipWord, FlipCode, kernel, Protected
  <2>2. ASSUME NEW w \in Protected, NEW base \in Word, Sound(w, base) PROVE Sound(w, base)'
    BY <1>0, <1>10, <2>2, FlipIsCounted DEF Protected
  <2> QED BY <2>1, <2>2, StaysHealthy
<1>11. ASSUME NEW v \in All, ClientWrite(v) PROVE Healthy'
  <2>1. UNCHANGED <<codes, hits, boot, regions, scrubber>> /\ Protected' = Protected
    BY <1>11 DEF ClientWrite, Protected
  <2>2. client' = "dirty" /\ Region(v) \notin Readonly
    BY <1>11 DEF ClientWrite, Readonly
  <2>3. ASSUME NEW w \in Protected, Region(w) \in Readonly
        PROVE  mem'[w] = mem[w] /\ truth'[w] = truth[w]
    BY <1>0, <1>11, <2>2, <2>3 DEF ClientWrite, Intended, Store, TypeOK, Protected
  <2>4. ASSUME NEW w \in Protected, NEW base \in Word, Sound(w, base), Region(w) \in Readonly
        PROVE  Sound(w, base)'
    BY <2>1, <2>3, <2>4, LeftAlone
  <2> QED BY <2>1, <2>2, <2>3, <2>4, StaysHealthy
<1> QED BY <1>1, <1>2, <1>3, <1>4, <1>5, <1>6, <1>7, <1>8, <1>9, <1>10, <1>11
        DEF Next, Boot, Scrub

-----------------------------------------------------------------------------
(* What the scrubber promises *)

\* What the theorems below assume: the parameters of soft_ecc.rs, a scrubber armed by
\* patch 0012, and no more than the two flips between two visits of a word that the
\* code is able to tell apart.
Capable == Hamming72_64 /\ SEAL_AFTER_RO /\ MAX_FLIPS <= 2

\* The three parts of the inductive invariant, together.
LEMMA Invariant == ASSUME Capable PROVE Spec => []IInv
<1> USE DEF Capable
<1>1. Init => Healthy
  BY DEF Init, Healthy
<1>2. Typed /\ Typed' /\ Writable /\ Healthy /\ [Next]_vars => Healthy'
  BY HealthyStep
<1>3. Typed /\ Writable /\ Healthy => IInv
  BY DEF IInv
<1> QED BY <1>1, <1>2, <1>3, TypedInvariant, WritableInvariant, PTL DEF Spec

\* Without a client, as in every kernel the repository builds, a protected word is one
\* of a read-only region.
LEMMA NoClient ==
  ASSUME CLIENT_WORDS = 0, NEW w \in Protected PROVE w \in All /\ Region(w) \in Readonly
BY ScrubAssumption DEF Protected, All, Region, Readonly

\* The lock is taken by passes of the scrubber, which start after boot.
LEMMA WhileLocked == ASSUME IInv, Locked PROVE boot = "up"
BY DEF IInv, Writable, Order

\* "any later mismatch really is DRAM changing underneath us" (patch 0012:22): for any
\* number of words, and whatever flips while the scrubber works, no pass leaves an
\* error behind that DRAM has not made since.
THEOREM OnlyFlipsRemain == ASSUME Capable, CLIENT_WORDS = 0 PROVE Spec => []FlipsAccounted
<1>1. ASSUME IInv PROVE FlipsAccounted
  <2> SUFFICES ASSUME boot = "up", NEW w \in Protected, ~InRepair(w) PROVE Errors(w) <= hits[w]
    BY DEF FlipsAccounted
  <2>1. Region(w) \in Readonly
    BY NoClient
  <2>2. Sound(w, truth[w])
    BY <1>1, <2>1 DEF IInv, Healthy
  <2> QED BY <2>2 DEF Sound, Errors, Apart
<1> QED BY <1>1, Invariant, PTL

\* What softecc_fix_word() of patch 0009 stores is the value the word should have, also
\* when DRAM flips more bits between verify() and the store.
THEOREM StoresAreRestores == ASSUME Capable, CLIENT_WORDS = 0 PROVE Spec => WriteRestores
<1>1. ASSUME IInv, FixWrite PROVE good = truth[index]
  <2>1. index \in Protected /\ scrub = "write" /\ boot = "up"
    BY <1>1, WhileLocked DEF FixWrite, IInv, Typed, Working, Repairing, Locked
  <2>2. Sound(index, truth[index])
    BY <1>1, <2>1, NoClient DEF IInv, Healthy
  <2> QED BY <2>1, <2>2 DEF Sound, InRepair
<1>2. IInv /\ [Next]_vars => [FixWrite => good = truth[index]]_vars
  BY <1>1
<1> QED BY <1>2, Invariant, PTL DEF Spec, WriteRestores

\* "reseal so we report each event once" (patch 0009:335): an uncorrectable report, for
\* any number of words, stands for two flips of that word since its last visit.
THEOREM ReportsAreNew == ASSUME Capable, CLIENT_WORDS = 0 PROVE Spec => ReportsExplained
<1>1. ASSUME IInv, IInv', Visit, scrub' = "accept" PROVE hits[index] >= 2
  <2>1. index \in Protected /\ boot = "up"
    BY <1>1, WhileLocked DEF Visit, Locked
  <2>2. PICK w \in All : w = index /\ w \in Protected
    BY <2>1 DEF Protected
  <2>3. PICK base \in Word : Sound(w, base)
    BY <1>1, <2>1, <2>2, NoClient DEF IInv, Healthy
  <2> QED BY <1>1, <2>2, <2>3, VisitIsSound DEF IInv, Capable
<1>2. IInv /\ IInv' /\ [Next]_vars => [Visit /\ scrub' = "accept" => hits[index] >= 2]_vars
  BY <1>1
<1> QED BY <1>2, Invariant, PTL DEF Spec, ReportsExplained

\* The header's advice to write and then to reseal (patch 0009:110) works beside a scrub
\* pass: at rest the codes of every region, a client's too, are those of what the words
\* hold, but for bits that have flipped since.
THEOREM CodesAreCurrent == ASSUME Capable PROVE Spec => []CodesMatchAtRest
<1>1. ASSUME IInv PROVE CodesMatchAtRest
  <2> SUFFICES ASSUME boot = "up", client = "clean", ~Locked, NEW w \in Protected, hits[w] = 0
               PROVE  codes[w] = encode(mem[w])
    BY DEF CodesMatchAtRest
  <2>1. PICK base \in Word : Sound(w, base)
    BY <1>1 DEF IInv, Healthy
  <2>2. Apart(mem[w], base) + Apart(codes[w], encode(base)) <= 0
    BY <2>1 DEF Sound, InRepair, Locked
  <2>3. w \in All /\ TypeOK
    BY <1>1 DEF Protected, IInv, Typed
  <2>4. Apart(mem[w], base) = 0 /\ Apart(codes[w], encode(base)) = 0
    BY <2>2, <2>3, Measures DEF Capable
  <2> QED BY <2>3, <2>4, Measures DEF Capable
<1> QED BY <1>1, Invariant, PTL
=============================================================================
