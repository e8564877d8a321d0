---------------------------- MODULE LoaderProofs ----------------------------
(***************************************************************************)
(* What load_pe makes of an image before any code of it runs, for every    *)
(* set of images a linker may have made, every table size and every number *)
(* of load_pe calls; and that load_pe keeps the promise of LoaderPromise.  *)
(*                                                                         *)
(* Every fact is about the step load_pe is in, or stopped in (Step), and   *)
(* about the images that step is behind (Past), so that a stop changes     *)
(* none of them.                                                           *)
(***************************************************************************)
EXTENDS PeLoaderProofs, FiniteSetTheorems

(* Dividing leaves a remainder smaller than the divisor.                    *)
LEMMA DivisionBounds ==
  ASSUME NEW n \in Nat, NEW a \in Nat \ {0}
  PROVE  /\ n \div a \in Nat
         /\ (n \div a) * a <= n
         /\ n < (n \div a) * a + a
  <1>1. n = (n \div a) * a + (n % a)
    BY Z3
  <1>2. n % a \in 0..(a - 1)
    OBVIOUS
  <1>3. n \div a \in Nat
    OBVIOUS
  <1> QED
    BY <1>1, <1>2, <1>3

LEMMA AlignUpBounds ==
  ASSUME NEW x \in Nat, NEW a \in Nat \ {0}
  PROVE  /\ AlignUp(x, a) \in Nat
         /\ x <= AlignUp(x, a)
         /\ AlignUp(x, a) < x + a
  <1> DEFINE q == (x + a - 1) \div a
  <1>1. x + a - 1 \in Nat
    OBVIOUS
  <1>2. q \in Nat /\ q * a <= x + a - 1 /\ x + a - 1 < q * a + a
    BY <1>1, DivisionBounds
  <1>3. q * a \in Nat
    BY <1>2
  <1>4. AlignUp(x, a) = q * a
    BY DEF AlignUp
  <1> HIDE DEF q
  <1> QED
    BY <1>2, <1>3, <1>4

(* Two multiples of a that are less than a apart are the same.              *)
LEMMA MultiplesApart ==
  ASSUME NEW a \in Nat \ {0}, NEW k \in Nat, NEW m \in Nat, k * a < m * a
  PROVE  k * a + a <= m * a
  <1>1. k < m
    <2> SUFFICES ASSUME m <= k PROVE FALSE
      OBVIOUS
    <2>1. PICK d \in Nat : k = m + d
      BY k - m \in Nat, k = m + (k - m)
    <2>2. k * a = m * a + d * a
      BY <2>1
    <2>3. d * a \in Nat /\ k * a \in Nat /\ m * a \in Nat
      BY <2>1
    <2> QED
      BY <2>2, <2>3
  <1>2. PICK d \in Nat : m = k + 1 + d
    BY <1>1, m - k - 1 \in Nat, m = k + 1 + (m - k - 1)
  <1>3. m * a = k * a + a + d * a
    BY <1>2
  <1>4. d * a \in Nat /\ k * a \in Nat /\ m * a \in Nat
    BY <1>2
  <1> QED
    BY <1>3, <1>4

(* The next section begins behind the pages of the one before: an aligned   *)
(* start plus an aligned size is aligned.                                   *)
LEMMA AlignedSum ==
  ASSUME NEW x \in Nat, NEW y \in Nat, NEW a \in Nat \ {0}
  PROVE  AlignUp(x, a) + AlignUp(y, a) <= AlignUp(AlignUp(x, a) + y, a)
  <1> DEFINE k == (x + a - 1) \div a
             m == (y + a - 1) \div a
             s == AlignUp(x, a) + y
             n == (s + a - 1) \div a
  <1>1. k \in Nat /\ m \in Nat /\ s \in Nat /\ n \in Nat
    <2>1. x + a - 1 \in Nat /\ y + a - 1 \in Nat
      OBVIOUS
    <2>2. k \in Nat /\ m \in Nat
      BY <2>1, DivisionBounds
    <2>3. s \in Nat
      BY AlignUpBounds
    <2>4. s + a - 1 \in Nat
      BY <2>3
    <2> QED
      BY <2>2, <2>3, <2>4, DivisionBounds
  <1>2. AlignUp(x, a) = k * a /\ AlignUp(y, a) = m * a /\ AlignUp(s, a) = n * a
    BY DEF AlignUp
  <1>3. s <= AlignUp(s, a) /\ AlignUp(y, a) < y + a /\ AlignUp(s, a) \in Nat
        /\ AlignUp(x, a) \in Nat /\ AlignUp(y, a) \in Nat
    BY <1>1, AlignUpBounds
  <1>4. (k + m) * a = k * a + m * a
    <2> HIDE DEF k, m
    <2> QED BY <1>1
  <1> SUFFICES ASSUME n * a < (k + m) * a PROVE FALSE
    <2> HIDE DEF k, m, n
    <2> QED
    BY <1>2, <1>3, <1>4
  <1>5. n * a + a <= (k + m) * a
    <2> HIDE DEF k, m, n
    <2> QED
    BY <1>1, MultiplesApart
  <1> QED
    <2> HIDE DEF k, m, n
    <2> QED
    BY <1>1, <1>2, <1>3, <1>4, <1>5

(* Rounding up twice is rounding up once.                                   *)
LEMMA AlignUpTwice ==
  ASSUME NEW x \in Nat, NEW a \in Nat \ {0}
  PROVE  AlignUp(AlignUp(x, a), a) = AlignUp(x, a)
  <1> DEFINE k == (x + a - 1) \div a
             s == AlignUp(x, a)
             n == (s + a - 1) \div a
  <1>1. s \in Nat
    BY AlignUpBounds
  <1>2. k \in Nat /\ n \in Nat
    <2>1. x + a - 1 \in Nat /\ s + a - 1 \in Nat
      BY <1>1
    <2> QED
      BY <2>1, DivisionBounds
  <1>3. s = k * a /\ AlignUp(s, a) = n * a
    BY DEF AlignUp
  <1>4. s <= AlignUp(s, a) /\ AlignUp(s, a) < s + a /\ AlignUp(s, a) \in Nat
    BY <1>1, AlignUpBounds
  <1> SUFFICES AlignUp(s, a) = s
    OBVIOUS
  <1> HIDE DEF k, s, n
  <1>5. ~(k * a < n * a)
    BY <1>1, <1>2, <1>3, <1>4, MultiplesApart
  <1> QED
    BY <1>1, <1>3, <1>4, <1>5

-----------------------------------------------------------------------------
(* Steps                                                                    *)

(* The loading of image l is behind a step when it is over, or in one of    *)
(* the steps that follow.                                                   *)
Past(l, steps) == l < load \/ (l = load /\ Step \in steps)

AfterSections  == {"relocs", "imports", "protect", "tls", "callbacks", "entry"}
AfterRelocs    == {"imports", "protect", "tls", "callbacks", "entry"}
AfterImports   == {"protect", "tls", "callbacks", "entry"}
AfterProtect   == {"tls", "callbacks", "entry"}
AfterTls       == {"callbacks", "entry"}

(* A step that only stops the process, or nothing at all: what happened     *)
(* until then stays.                                                        *)
Quiet ==
  /\ Step' = Step
  /\ UNCHANGED <<file, load, i, j, secRva, space, modules, tls, procs>>

(* The process goes on.                                                     *)
Runs == pc \in Working /\ pc' \in Working

LEMMA RunsStep == Runs => Step = pc /\ Step' = pc'
  BY DEF Runs, Step, Working, Ended

LEMMA StopIsQuiet ==
  ASSUME pc \in Working,
         Abort \/ Fault \/ (Stop("exited") /\ UNCHANGED <<file, space, modules, tls, procs>>)
  PROVE  Quiet
  BY DEF Quiet, Abort, Fault, Stop, Step, Working, Ended

(* A step that is not quiet is one of these, and the process goes on.       *)
Advance ==
  \/ CopyHeaders \/ CopySection \/ SectionsDone
  \/ SkipAbsolute \/ ApplyDir64 \/ NextRelocBlock \/ RelocsDone
  \/ BindThunk \/ NextDescriptor
  \/ ProtectHeaders \/ ProtectSection \/ Register
  \/ NoTls \/ SetupTls \/ RunCallback \/ CallbacksDone
  \/ (\E l \in Loads : \E q \in file[l].lookups : ImageLookup(l, q))
  \/ EntryReturns

LEMMA StepCases == [Next]_vars => Quiet \/ (Runs /\ Advance)
  <1> SUFFICES ASSUME [Next]_vars PROVE Quiet \/ (Runs /\ Advance)
    OBVIOUS
  <1>1. CASE UNCHANGED vars
    BY <1>1 DEF vars, control, space, tls, Quiet, Step
  <1>2. CASE \/ OpenFails \/ MapFails \/ HeadersFail \/ AllocFails
             \/ SectionMisplaced \/ UnknownReloc \/ ProtectFails \/ TlsAllocFails
    BY <1>2, StopIsQuiet
       DEF OpenFails, MapFails, HeadersFail, AllocFails, SectionMisplaced, UnknownReloc,
           AtReloc, ProtectFails, TlsAllocFails, Working
  <1>3. CASE EntryTerminates
    BY <1>3, StopIsQuiet DEF EntryTerminates, Working
  <1>4. CASE EntryReturns
    <2>1. CASE load' = load + 1 /\ pc' = "open"
      BY <1>4, <2>1 DEF EntryReturns, Runs, Working, Advance
    <2> QED
      BY <1>4, <2>1, StopIsQuiet DEF EntryReturns, Working
  <1>5. CASE CopyHeaders \/ CopySection \/ SectionsDone \/ SkipAbsolute \/ ProtectHeaders
             \/ ProtectSection \/ NoTls \/ CallbacksDone
    BY <1>5 DEF CopyHeaders, CopySection, SectionsDone, SkipAbsolute, AtReloc, ProtectHeaders,
         ProtectSection, NoTls, CallbacksDone, Goto, Runs, Working, Advance
  <1>6. CASE ApplyDir64 \/ NextRelocBlock \/ RelocsDone
    <2>1. CASE Abort \/ Fault
      BY <1>6, <2>1, StopIsQuiet DEF ApplyDir64, AtReloc, NextRelocBlock, RelocsDone, Working
    <2>2. CASE ~(Abort \/ Fault)
      BY <1>6, <2>2 DEF ApplyDir64, AtReloc, NextRelocBlock, RelocsDone, Goto, Runs, Working, Advance
    <2> QED
      BY <2>1, <2>2
  <1>7. CASE BindThunk \/ NextDescriptor \/ RunCallback
    <2>1. CASE Abort \/ Fault
      BY <1>7, <2>1, StopIsQuiet DEF BindThunk, NextDescriptor, RunCallback, Working
    <2>2. CASE ~(Abort \/ Fault)
      BY <1>7, <2>2 DEF BindThunk, NextDescriptor, RunCallback, Runs, Working, Advance
    <2> QED
      BY <2>1, <2>2
  <1>8. CASE Register \/ SetupTls
    <2>1. CASE Abort \/ Fault
      BY <1>8, <2>1, StopIsQuiet DEF Register, SetupTls, Working
    <2>2. CASE ~(Abort \/ Fault)
      BY <1>8, <2>2 DEF Register, SetupTls, InstallTls, Goto, Runs, Working, Advance
    <2> QED
      BY <2>1, <2>2
  <1>9. CASE \E l \in Loads : \E q \in file[l].lookups : ImageLookup(l, q)
    <2>1. CASE Abort
      BY <1>9, <2>1, StopIsQuiet DEF ImageLookup, CodeRuns, Working
    <2>2. CASE ~Abort
      BY <1>9, <2>2 DEF ImageLookup, CodeRuns, control, Runs, Working, Advance
    <2> QED
      BY <2>1, <2>2
  <1> QED
    BY <1>1, <1>2, <1>3, <1>4, <1>5, <1>6, <1>7, <1>8, <1>9
       DEF Next, LoadStep, CodeStep, Done, Advance

(* How the steps follow each other.                                         *)
LEMMA StepOrder ==
  ASSUME TypeOK, [Next]_vars
  PROVE  \/ load' = load /\ Step' = Step
         \/ load' = load /\ Step = "open"      /\ Step' = "sections"  /\ CopyHeaders
         \/ load' = load /\ Step = "sections"  /\ Step' = "relocs"    /\ SectionsDone
         \/ load' = load /\ Step = "relocs"    /\ Step' = "imports"   /\ RelocsDone /\ Runs
         \/ load' = load /\ Step = "imports"   /\ Step' = "protect"   /\ ProtectHeaders
         \/ load' = load /\ Step = "protect"   /\ Step' = "tls"       /\ Register /\ Runs
         \/ load' = load /\ Step = "tls"       /\ Step' = "callbacks" /\ SetupTls /\ Runs
         \/ load' = load /\ Step = "tls"       /\ Step' = "entry"     /\ NoTls
         \/ load' = load /\ Step = "callbacks" /\ Step' = "entry"     /\ CallbacksDone
         \/ load' = load + 1 /\ Step = "entry" /\ Step' = "open"      /\ EntryReturns /\ Runs
  <1>1. CASE Quiet
    BY <1>1 DEF Quiet
  <1>2. CASE Runs /\ Advance
    <2>1. Step = pc /\ Step' = pc' /\ pc' \notin Ended
      BY <1>2, RunsStep DEF Runs, Working, Ended
    <2>2. CASE CopyHeaders \/ CopySection \/ SectionsDone \/ SkipAbsolute
      BY <2>1, <2>2 DEF CopyHeaders, CopySection, SectionsDone, SkipAbsolute, AtReloc, Goto
    <2>3. CASE ApplyDir64 \/ NextRelocBlock \/ RelocsDone
      BY <1>2, <2>1, <2>3 DEF ApplyDir64, NextRelocBlock, RelocsDone, AtReloc, Goto, Abort, Fault, Stop, Ended
    <2>4. CASE BindThunk \/ NextDescriptor \/ ProtectHeaders \/ ProtectSection
      BY <2>1, <2>4 DEF BindThunk, NextDescriptor, ProtectHeaders, ProtectSection, Goto, Abort, Fault, Stop, Ended
    <2>5. CASE Register \/ NoTls \/ SetupTls
      BY <1>2, <2>1, <2>5 DEF Register, NoTls, SetupTls, InstallTls, Goto, Abort, Fault, Stop, Ended
    <2>6. CASE RunCallback \/ CallbacksDone
      BY <2>1, <2>6 DEF RunCallback, CallbacksDone, Goto, Abort, Fault, Stop, Ended
    <2>7. CASE \E l \in Loads : \E q \in file[l].lookups : ImageLookup(l, q)
      BY <2>1, <2>7 DEF ImageLookup, control, Abort, Stop, Ended
    <2>8. CASE EntryReturns
      BY <1>2, <2>1, <2>8 DEF EntryReturns, Abort, Stop, Ended
    <2> QED
      BY <1>2, <2>2, <2>3, <2>4, <2>5, <2>6, <2>7, <2>8 DEF Advance
  <1> QED
    BY <1>1, <1>2, StepCases

(* Nothing a step of one load_pe call does reaches the memory of another    *)
(* image, and the files stay what they are.                                 *)
LEMMA OthersUntouched ==
  ASSUME TypeOK, [Next]_vars
  PROVE  /\ file' = file
         /\ \A l \in Loads \ {load} : mem'[l] = mem[l] /\ prot'[l] = prot[l]
         /\ load' # load => UNCHANGED <<space, modules, tls, procs>>
  <1> USE DEF space, tls
  <1>1. CASE Quiet
    BY <1>1 DEF Quiet
  <1>2. CASE Runs /\ Advance
    <2>1. CASE CopyHeaders \/ CopySection \/ SectionsDone \/ SkipAbsolute
      BY <2>1 DEF CopyHeaders, CopySection, SectionsDone, SkipAbsolute, AtReloc, Goto, TypeOK
    <2>2. CASE ApplyDir64 \/ NextRelocBlock \/ RelocsDone
      BY <2>2 DEF ApplyDir64, NextRelocBlock, RelocsDone, Write, Goto, Abort, Fault, Stop, TypeOK
    <2>3. CASE BindThunk \/ NextDescriptor \/ ProtectHeaders \/ ProtectSection
      BY <2>3 DEF BindThunk, NextDescriptor, ProtectHeaders, ProtectSection, Write, Goto, Abort, Fault, Stop, TypeOK
    <2>4. CASE Register \/ NoTls \/ SetupTls
      BY <2>4 DEF Register, NoTls, SetupTls, InstallTls, Write, Goto, Abort, Fault, Stop, TypeOK
    <2>5. CASE RunCallback \/ CallbacksDone
      BY <2>5 DEF RunCallback, CallbacksDone, Goto, Abort, Fault, Stop
    <2>6. CASE \E l \in Loads : \E q \in file[l].lookups : ImageLookup(l, q)
      BY <2>6 DEF ImageLookup, control, Abort, Stop
    <2>7. CASE EntryReturns
      BY <2>7 DEF EntryReturns, Abort, Stop
    <2> QED
      BY <1>2, <2>1, <2>2, <2>3, <2>4, <2>5, <2>6, <2>7 DEF Advance
  <1> QED
    BY <1>1, <1>2, StepCases

(* An image stays behind what it is behind, and gets behind a step only     *)
(* with the action that ends that step.                                     *)
LEMMA PastKept ==
  ASSUME TypeOK, [Next]_vars, NEW l \in Loads
  PROVE  /\ Past(l, AfterSections) => Past(l, AfterSections)'
         /\ Past(l, AfterRelocs)   => Past(l, AfterRelocs)'
         /\ Past(l, AfterImports)  => Past(l, AfterImports)'
         /\ Past(l, AfterProtect)  => Past(l, AfterProtect)'
         /\ Past(l, AfterTls)      => Past(l, AfterTls)'
  <1>1. load \in Nat /\ l \in Nat
    BY DEF TypeOK, Loads
  <1> QED
    BY <1>1, StepOrder DEF Past, AfterSections, AfterRelocs, AfterImports, AfterProtect, AfterTls

LEMMA PastNew ==
  ASSUME TypeOK, [Next]_vars, NEW l \in Loads
  PROVE  /\ Past(l, AfterSections)' /\ ~Past(l, AfterSections)
              => l = load /\ load' = load /\ Step = "sections" /\ SectionsDone
         /\ Past(l, AfterRelocs)'   /\ ~Past(l, AfterRelocs)
              => l = load /\ load' = load /\ Step = "relocs" /\ RelocsDone /\ Runs
         /\ Past(l, AfterImports)'  /\ ~Past(l, AfterImports)
              => l = load /\ load' = load /\ Step = "imports" /\ ProtectHeaders
         /\ Past(l, AfterProtect)'  /\ ~Past(l, AfterProtect)
              => l = load /\ load' = load /\ Step = "protect" /\ Register /\ Runs
         /\ Past(l, AfterTls)'      /\ ~Past(l, AfterTls)
              => l = load /\ load' = load /\ Step = "tls" /\ (NoTls \/ (SetupTls /\ Runs))
  <1>1. load \in Nat /\ l \in Nat
    BY DEF TypeOK, Loads
  <1> QED
    BY <1>1, StepOrder DEF Past, AfterSections, AfterRelocs, AfterImports, AfterProtect, AfterTls

-----------------------------------------------------------------------------
(* Layout: sections lie one behind the other                                *)

LEMMA ImageTypes ==
  ASSUME NEW f \in Images
  PROVE  /\ f.align \in Nat \ {0} /\ f.headers \in Nat /\ f.headers \in 1..MaxRva
         /\ f.sections \in Seq(Section) /\ Len(f.sections) \in Nat
         /\ DOMAIN f.sections = 1..Len(f.sections)
         /\ \A n \in 1..Len(f.sections) :
              /\ f.sections[n] \in Section
              /\ f.sections[n].va \in Nat /\ f.sections[n].vsize \in Nat
              /\ f.sections[n].raw \in Nat
  <1>1. f \in Image /\ LinkerMade(f)
    BY DataAssumption
  <1>2. f.align \in Nat \ {0} /\ f.headers \in 1..MaxRva /\ f.sections \in Seq(Section)
    BY <1>1 DEF Image, LinkerMade
  <1>3. \A n \in 1..Len(f.sections) : f.sections[n] \in Section
    BY <1>2, ElementType
  <1>4. \A s \in Section : s.va \in Nat /\ s.vsize \in Nat /\ s.raw \in Nat
    BY DataAssumption DEF Section, Rva
  <1> QED
    BY <1>2, <1>3, <1>4, DataAssumption

(* The first k sections are where the copying loop expects them, behind the *)
(* pages of the headers and behind one another's.                           *)
Laid(f, k) ==
  /\ \A n \in 1..k : f.sections[n].va = ExpectedVa(f, n)
  /\ \A n \in 1..k : AlignUp(f.headers, f.align) <= f.sections[n].va
  /\ \A n, m \in 1..k : n < m =>
       f.sections[n].va + AlignUp(f.sections[n].vsize, f.align) <= f.sections[m].va

(* While sections are copied, secRva is the end of the one before; the next *)
(* one cannot begin inside the pages of any of them.                        *)
LayingOut ==
  /\ i <= Len(img.sections) + 1
  /\ Laid(img, i - 1)
  /\ secRva = IF i = 1 THEN AlignUp(img.headers, img.align)
              ELSE img.sections[i-1].va + img.sections[i-1].vsize
  /\ AlignUp(img.headers, img.align) <= AlignUp(secRva, img.align)
  /\ \A n \in 1..(i - 1) :
       img.sections[n].va + AlignUp(img.sections[n].vsize, img.align)
         <= AlignUp(secRva, img.align)

LayoutInv ==
  /\ Step = "sections" => LayingOut
  /\ \A l \in Loads : Past(l, AfterSections) =>
       file[l].kind = "pe64" /\ Laid(file[l], Len(file[l].sections))
  /\ Step = "sections" => img.kind = "pe64"

LEMMA ImgInImages == TypeOK => img \in Images
  BY DEF TypeOK, img

LEMMA CopyHeadersLays ==
  ASSUME TypeOK, CopyHeaders
  PROVE  LayingOut'
  <1>1. img' = img /\ i' = 1 /\ secRva' = AlignUp(img.headers, img.align)
    BY DEF CopyHeaders, img
  <1>2. img.headers \in Nat /\ img.align \in Nat \ {0} /\ Len(img.sections) \in Nat
    BY ImgInImages, ImageTypes
  <1>3. AlignUp(img.headers, img.align) <= AlignUp(AlignUp(img.headers, img.align), img.align)
    BY <1>2, AlignUpBounds
  <1>4. Laid(img, 0)
    BY DEF Laid
  <1> QED
    BY <1>1, <1>2, <1>3, <1>4 DEF LayingOut

LEMMA CopySectionLays ==
  ASSUME TypeOK, CopySection, LayingOut
  PROVE  LayingOut'
  <1> DEFINE s  == img.sections[i]
             at == AlignUp(secRva, img.align)
  <1>1. img' = img /\ i' = i + 1 /\ secRva' = at + s.vsize /\ s.va = at
    BY DEF CopySection, img
  <1>2. /\ img.headers \in Nat /\ img.align \in Nat \ {0} /\ Len(img.sections) \in Nat
        /\ \A n \in 1..Len(img.sections) :
             img.sections[n].va \in Nat /\ img.sections[n].vsize \in Nat
    BY ImgInImages, ImageTypes
  <1>3. i \in 1..Len(img.sections) /\ secRva \in Nat
    BY <1>2 DEF CopySection, TypeOK
  <1>4. /\ at \in Nat /\ s.vsize \in Nat
        /\ AlignUp(s.vsize, img.align) \in Nat
        /\ at + AlignUp(s.vsize, img.align) <= AlignUp(at + s.vsize, img.align)
    BY <1>2, <1>3, AlignUpBounds, AlignedSum
  <1>5. secRva' \in Nat /\ AlignUp(secRva', img.align) \in Nat
    <2>1. secRva' \in Nat
      <3> HIDE DEF at, s
      <3> QED
        BY <1>1, <1>4
    <2> QED
      BY <1>2, <2>1, AlignUpBounds
  <1>6. Laid(img, i)
    <2>1. s.va = ExpectedVa(img, i)
      <3>1. CASE i = 1
        BY <1>1, <1>2, <3>1, AlignUpTwice DEF LayingOut, ExpectedVa
      <3>2. CASE i # 1
        BY <1>1, <3>2 DEF LayingOut, ExpectedVa
      <3> QED
        BY <3>1, <3>2
    <2>2. ASSUME NEW n \in 1..i
          PROVE  img.sections[n].va = ExpectedVa(img, n)
                 /\ AlignUp(img.headers, img.align) <= img.sections[n].va
      <3>1. CASE n = i
        BY <1>1, <2>1, <3>1 DEF LayingOut
      <3>2. CASE n \in 1..(i - 1)
        BY <3>2 DEF LayingOut, Laid
      <3> QED
        BY <1>3, <3>1, <3>2
    <2>3. ASSUME NEW n \in 1..i, NEW m \in 1..i, n < m
          PROVE  img.sections[n].va + AlignUp(img.sections[n].vsize, img.align) <= img.sections[m].va
      <3>1. n \in 1..(i - 1)
        BY <1>3, <2>3
      <3>2. CASE m = i
        BY <1>1, <3>1, <3>2 DEF LayingOut
      <3>3. CASE m \in 1..(i - 1)
        BY <2>3, <3>1, <3>3 DEF LayingOut, Laid
      <3> QED
        BY <1>3, <3>2, <3>3
    <2> QED
      BY <2>2, <2>3 DEF Laid
  <1>7. AlignUp(img.headers, img.align) <= AlignUp(secRva', img.align)
    <2>1. AlignUp(img.headers, img.align) \in Nat
      BY <1>2, AlignUpBounds
    <2> QED
      BY <1>1, <1>4, <1>5, <2>1 DEF LayingOut
  <1>8. ASSUME NEW n \in 1..i
        PROVE  img.sections[n].va + AlignUp(img.sections[n].vsize, img.align)
                 <= AlignUp(secRva', img.align)
    <2>1. img.sections[n].va \in Nat /\ AlignUp(img.sections[n].vsize, img.align) \in Nat
      <3>1. n \in 1..Len(img.sections)
        BY <1>2, <1>3
      <3>2. img.sections[n].va \in Nat /\ img.sections[n].vsize \in Nat
        BY <1>2, <3>1
      <3> QED
        BY <1>2, <3>2, AlignUpBounds
    <2>2. CASE n = i
      BY <1>1, <1>4, <2>2
    <2>3. CASE n \in 1..(i - 1)
      <3>1. img.sections[n].va + AlignUp(img.sections[n].vsize, img.align) <= at
        BY <2>3 DEF LayingOut
      <3> QED
        BY <1>1, <1>4, <1>5, <2>1, <3>1
    <2> QED
      BY <1>3, <2>2, <2>3
  <1>9. i' - 1 = i /\ i' # 1 /\ i' <= Len(img.sections) + 1
    BY <1>1, <1>2, <1>3
  <1> HIDE DEF s, at
  <1> QED
    <2>1. secRva' = img.sections[i].va + img.sections[i].vsize
      BY <1>1 DEF s
    <2> QED
      BY <1>1, <1>6, <1>7, <1>8, <1>9, <2>1 DEF LayingOut

LEMMA LayoutStep == TypeOK /\ LayoutInv /\ [Next]_vars => LayoutInv'
  <1> SUFFICES ASSUME TypeOK, LayoutInv, [Next]_vars PROVE LayoutInv'
    OBVIOUS
  <1>1. (Step = "sections")' => LayingOut' /\ (img.kind = "pe64")'
    <2> SUFFICES ASSUME Step' = "sections" PROVE LayingOut' /\ (img.kind = "pe64")'
      OBVIOUS
    <2>1. CASE Quiet
      BY <2>1 DEF Quiet, LayoutInv, LayingOut, img
    <2>2. CASE Runs /\ Advance
      <3>1. Step = pc /\ pc' = "sections"
        BY <2>2, RunsStep
      <3>2. CASE CopyHeaders
        BY <3>2, CopyHeadersLays DEF CopyHeaders, img
      <3>3. CASE CopySection
        BY <3>1, <3>3, CopySectionLays DEF CopySection, LayoutInv, img
      <3> QED
        BY <2>2, <3>1, <3>2, <3>3 DEF Advance, SectionsDone, SkipAbsolute, ApplyDir64,
           NextRelocBlock, AtReloc, RelocsDone, BindThunk, NextDescriptor, ProtectHeaders,
           ProtectSection, Register, NoTls, SetupTls, InstallTls, RunCallback, CallbacksDone,
           ImageLookup, CodeRuns, EntryReturns, Goto, Abort, Fault, Stop, control
    <2> QED
      BY <2>1, <2>2, StepCases
  <1>2. ASSUME NEW l \in Loads, Past(l, AfterSections)'
        PROVE  file'[l].kind = "pe64" /\ Laid(file'[l], Len(file'[l].sections))
    <2>1. file' = file
      BY OthersUntouched
    <2>2. CASE Past(l, AfterSections)
      BY <2>1, <2>2 DEF LayoutInv
    <2>3. CASE ~Past(l, AfterSections)
      <3>1. l = load /\ Step = "sections" /\ SectionsDone
        BY <1>2, <2>3, PastNew
      <3>2. i - 1 = Len(img.sections)
        <4>1. Len(img.sections) \in Nat /\ i \in Nat
          BY ImgInImages, ImageTypes DEF TypeOK
        <4> QED
          BY <3>1, <4>1 DEF SectionsDone, LayoutInv, LayingOut
      <3> QED
        BY <2>1, <3>1, <3>2 DEF LayoutInv, LayingOut, img
    <2> QED
      BY <2>2, <2>3
  <1> QED
    BY <1>1, <1>2 DEF LayoutInv

-----------------------------------------------------------------------------
(* Stores: what the loader writes into an image it has copied               *)

LEMMA RelocTypes ==
  ASSUME NEW f \in Images, NEW b \in 1..Len(f.relocs)
  PROVE  /\ b \in DOMAIN f.relocs
         /\ f.relocs[b].entries \in Seq(Reloc)
         /\ DOMAIN f.relocs[b].entries = 1..Len(f.relocs[b].entries)
         /\ Len(f.relocs[b].entries) \in 0..(MaxRva + 1)
         /\ \A e \in 1..Len(f.relocs[b].entries) : f.relocs[b].entries[e].rva \in Rva
  <1>1. f \in Image /\ LinkerMade(f)
    BY DataAssumption
  <1>2. f.relocs \in Seq(RelocBlock)
    BY <1>1 DEF Image
  <1>3. f.relocs[b] \in RelocBlock /\ b \in DOMAIN f.relocs
    BY <1>2, ElementType
  <1>4. f.relocs[b].entries \in Seq(Reloc)
    BY <1>3 DEF RelocBlock
  <1>5. \A e \in 1..Len(f.relocs[b].entries) : f.relocs[b].entries[e] \in Reloc
    BY <1>4, ElementType
  <1>6. Len(f.relocs[b].entries) <= MaxRva + 1
    BY <1>1, <1>3 DEF LinkerMade
  <1> QED
    BY <1>3, <1>4, <1>5, <1>6, DataAssumption DEF Reloc

LEMMA ImportTypes ==
  ASSUME NEW f \in Images
  PROVE  /\ f.imports \in Seq(Descriptor) /\ DOMAIN f.imports = 1..Len(f.imports)
         /\ Len(f.imports) \in Nat
         /\ \A d \in 1..Len(f.imports) :
              /\ f.imports[d].at \in Rva /\ f.imports[d].dll \in STRING
              /\ f.imports[d].thunks \in Seq(Thunk)
              /\ DOMAIN f.imports[d].thunks = 1..Len(f.imports[d].thunks)
              /\ Len(f.imports[d].thunks) \in Nat
              /\ \A t \in 1..Len(f.imports[d].thunks) : f.imports[d].thunks[t] \in Thunk
  <1>1. f.imports \in Seq(Descriptor)
    BY DataAssumption DEF Image
  <1>2. ASSUME NEW d \in 1..Len(f.imports)
        PROVE  /\ f.imports[d].at \in Rva /\ f.imports[d].dll \in STRING
               /\ f.imports[d].thunks \in Seq(Thunk)
    <2>1. f.imports[d] \in Descriptor
      BY <1>1, <1>2, ElementType
    <2> QED
      BY <2>1 DEF Descriptor
  <1>3. ASSUME NEW d \in 1..Len(f.imports), NEW t \in 1..Len(f.imports[d].thunks)
        PROVE  f.imports[d].thunks[t] \in Thunk
    BY <1>2, ElementType
  <1> QED
    BY <1>1, <1>2, <1>3

(* Thunk t of descriptor d, as the IAT entry and what it is looked up by.   *)
ThunkAt(f, d, t) == [dll |-> f.imports[d].dll, thunk |-> f.imports[d].thunks[t]]

LEMMA ThunkIsOne ==
  ASSUME NEW f \in Images, NEW d \in 1..Len(f.imports), NEW t \in 1..Len(f.imports[d].thunks)
  PROVE  /\ ThunkAt(f, d, t) \in Thunks(f)
         /\ f.imports[d].thunks[t].iat \in IatCells(f)
  <1>1. d \in DOMAIN f.imports /\ t \in DOMAIN f.imports[d].thunks
    BY ImportTypes
  <1>2. ThunkAt(f, d, t) \in Thunks(f)
    BY <1>1 DEF ThunkAt, Thunks
  <1>3. ThunkAt(f, d, t).thunk.iat = f.imports[d].thunks[t].iat
    BY DEF ThunkAt
  <1> QED
    BY <1>2, <1>3 DEF IatCells

LEMMA ThunksAreAt ==
  ASSUME NEW f \in Images, NEW x \in Thunks(f)
  PROVE  /\ \E d \in 1..Len(f.imports) : \E t \in 1..Len(f.imports[d].thunks) :
              x = ThunkAt(f, d, t)
         /\ x.thunk.iat \in Rva /\ x.thunk.iat \in IatCells(f)
  <1>1. PICK d \in DOMAIN f.imports : \E t \in DOMAIN f.imports[d].thunks :
          x = [dll |-> f.imports[d].dll, thunk |-> f.imports[d].thunks[t]]
    BY DEF Thunks
  <1>2. PICK t \in DOMAIN f.imports[d].thunks :
          x = [dll |-> f.imports[d].dll, thunk |-> f.imports[d].thunks[t]]
    BY <1>1
  <1>3. d \in 1..Len(f.imports) /\ t \in 1..Len(f.imports[d].thunks)
    BY ImportTypes
  <1>4. f.imports[d].thunks[t].iat \in Rva
    BY <1>3, ImportTypes DEF Thunk
  <1>5. x.thunk.iat \in IatCells(f)
    BY DEF IatCells
  <1> QED
    BY <1>2, <1>3, <1>4, <1>5 DEF ThunkAt

(* The entry the relocation loop is at is one of the places that name its   *)
(* target.                                                                  *)
LEMMA EntryIsSite ==
  ASSUME TypeOK, AtReloc
  PROVE  /\ i \in 1..Len(img.relocs) /\ j \in 1..Len(img.relocs[i].entries)
         /\ Entry.rva \in Rva
         /\ Entry.type = "dir64" => <<i, j>> \in RelocSites(img, Entry.rva) /\ Entry.rva \in Slots(img)
  <1>1. img \in Images /\ i \in Nat \ {0} /\ j \in Nat \ {0}
    BY ImgInImages DEF TypeOK
  <1>2. i \in 1..Len(img.relocs)
    <2>1. img.relocs \in Seq(RelocBlock)
      BY <1>1, DataAssumption DEF Image
    <2> QED
      BY <1>1, <2>1 DEF AtReloc
  <1>3. /\ i \in DOMAIN img.relocs /\ j \in DOMAIN img.relocs[i].entries
        /\ j \in 1..Len(img.relocs[i].entries) /\ j \in 1..(MaxRva + 1)
        /\ Entry.rva \in Rva
    <2>1. j \in 1..Len(img.relocs[i].entries)
      BY <1>1, <1>2, RelocTypes DEF AtReloc
    <2>2. Len(img.relocs[i].entries) \in 0..(MaxRva + 1)
      BY <1>1, <1>2, RelocTypes
    <2>3. j \in 1..(MaxRva + 1)
      BY <2>1, <2>2, DataAssumption
    <2> QED
      BY <1>1, <1>2, <2>1, <2>3, RelocTypes DEF Entry
  <1>4. ASSUME Entry.type = "dir64"
        PROVE  <<i, j>> \in RelocSites(img, Entry.rva)
    BY <1>3, <1>4 DEF RelocSites, Entry
  <1> QED
    BY <1>2, <1>3, <1>4 DEF Slots

(* All the stores into a copied image, one at a time.                       *)
StoreReloc == /\ Step = "relocs" /\ ApplyDir64 /\ Runs
              /\ Write(Entry.rva, [mem[load][Entry.rva] EXCEPT !.adj = @ + 1])
              /\ Entry.rva \in Slots(img) /\ Entry.rva \in Rva
StoreBase  == /\ Step = "relocs" /\ RelocsDone /\ Runs
              /\ Write(0, [mem[load][0] EXCEPT !.adj = 1])
StoreImport(r, m) == /\ Step = "imports" /\ BindThunk /\ Runs
                     /\ r = img.imports[i].thunks[j].iat
                     /\ r \in IatCells(img) /\ r \in Rva
                     /\ m \in ModuleIdx
                     /\ Write(r, Import(m))
StoreMark(r) == /\ Step = "imports" /\ NextDescriptor /\ Runs
                /\ r \in Marks(img) /\ r \in Rva /\ Write(r, BoundMark)
StoreIndex == /\ Step = "tls" /\ SetupTls /\ Runs
              /\ HasTls(img) /\ img.tls.index \in Rva
              /\ Write(img.tls.index, TlsIndex(tlsIndex))

LEMMA Stores ==
  ASSUME TypeOK, [Next]_vars, Step \in AfterSections
  PROVE  \/ mem' = mem
         \/ StoreReloc \/ StoreBase
         \/ \E r \in Rva, m \in ModuleIdx : StoreImport(r, m)
         \/ \E r \in Rva : StoreMark(r)
         \/ StoreIndex
  <1>1. CASE Quiet
    BY <1>1 DEF Quiet, space
  <1>2. CASE Runs /\ Advance
    <2>1. Step = pc
      BY <1>2, RunsStep
    <2>2. pc' \notin Ended
      BY <1>2 DEF Runs, Working, Ended
    <2>3. CASE ApplyDir64
      BY <1>2, <2>1, <2>2, <2>3, EntryIsSite
         DEF ApplyDir64, AtReloc, StoreReloc, Fault, Stop, Ended
    <2>4. CASE RelocsDone
      BY <1>2, <2>1, <2>2, <2>4 DEF RelocsDone, StoreBase, Fault, Stop, Ended
    <2>5. CASE BindThunk
      <3> DEFINE t == img.imports[i].thunks[j]
                 q == [dll |-> img.imports[i].dll, sym |-> t.sym, ordinal |-> t.ordinal]
      <3>1. PICK m \in Resolve(q) : Write(t.iat, Import(m))
        BY <2>2, <2>5 DEF BindThunk, Abort, Fault, Stop, Ended
      <3>2. m \in ModuleIdx
        BY ResolveType
      <3>3. i \in 1..Len(img.imports) /\ j \in 1..Len(img.imports[i].thunks)
        BY <2>5, ImgInImages, ImportTypes DEF BindThunk, TypeOK
      <3>4. t.iat \in Rva /\ t.iat \in IatCells(img)
        BY <3>3, ImgInImages, ImportTypes, ThunkIsOne DEF Thunk
      <3>5. Step = "imports"
        BY <2>1, <2>5 DEF BindThunk
      <3>6. StoreImport(t.iat, m)
        BY <1>2, <2>5, <3>1, <3>2, <3>4, <3>5 DEF StoreImport
      <3> QED
        BY <3>2, <3>4, <3>6
    <2>6. CASE NextDescriptor
      <3>1. i \in 1..Len(img.imports) /\ i \in DOMAIN img.imports
        BY <2>6, ImgInImages, ImportTypes DEF NextDescriptor, TypeOK
      <3>2. img.imports[i].at \in Rva /\ img.imports[i].at \in Marks(img)
        BY <3>1, ImgInImages, ImportTypes DEF Marks
      <3>3. StoreMark(img.imports[i].at)
        BY <1>2, <2>1, <2>2, <2>6, <3>2 DEF StoreMark, NextDescriptor, Abort, Fault, Stop, Ended
      <3> QED
        BY <3>2, <3>3
    <2>7. CASE SetupTls
      <3>1. img.tls.index \in Rva
        BY ImgType DEF Image, Tls
      <3> QED
        BY <1>2, <2>1, <2>2, <2>7, <3>1 DEF SetupTls, InstallTls, StoreIndex, Abort, Fault, Stop, Ended
    <2> QED
      BY <1>2, <2>1, <2>3, <2>4, <2>5, <2>6, <2>7
         DEF Advance, CopyHeaders, CopySection, SectionsDone, SkipAbsolute, NextRelocBlock,
             ProtectHeaders, ProtectSection, Register, NoTls, RunCallback, CallbacksDone,
             ImageLookup, EntryReturns, AfterSections, Goto, Abort, Fault, space
  <1> QED
    BY <1>1, <1>2, StepCases

-----------------------------------------------------------------------------
(* Contents: sections hold the bytes of the file                            *)

(* With k sections copied, the cells of the headers and of these sections   *)
(* hold what the file says, but for the ones the loader patches, and        *)
(* nothing else holds bytes of the file.                                    *)
FileOrZero(l, s, r) ==
  IF r < s.va + s.raw THEN mem[l][r].tag = "file" /\ mem[l][r].arg = r
                      ELSE mem[l][r].tag = "zero"

Filled(l, k) ==
  /\ \A n \in 1..k : \A r \in SectionCells(file[l].sections[n]) \ Patched(l) :
       FileOrZero(l, file[l].sections[n], r)
  /\ \A r \in 0 .. (file[l].headers - 1) : mem[l][r].tag = "file"
  /\ \A r \in Rva : mem[l][r].tag = "file" => r < file[l].headers \/ r \in FileData(file[l])

ContentInv ==
  /\ Step = "sections" => Filled(load, i - 1)
  /\ \A l \in Loads : Past(l, AfterSections) => Filled(l, Len(file[l].sections))

LEMMA SectionsInside ==
  ASSUME NEW f \in Images, NEW n \in 1..Len(f.sections)
  PROVE  /\ SectionPages(f, f.sections[n]) \subseteq Rva
         /\ SectionCells(f.sections[n]) \subseteq SectionPages(f, f.sections[n])
         /\ SectionCells(f.sections[n]) \subseteq Rva
  <1>1. LinkerMade(f)
    BY DataAssumption
  <1>2. f.sections[n].va \in Nat /\ f.sections[n].vsize \in Nat /\ f.align \in Nat \ {0}
        /\ n \in DOMAIN f.sections
    BY ImageTypes
  <1>3. SectionPages(f, f.sections[n]) \subseteq Rva
    BY <1>1, <1>2 DEF LinkerMade
  <1>4. f.sections[n].vsize <= AlignUp(f.sections[n].vsize, f.align)
        /\ AlignUp(f.sections[n].vsize, f.align) \in Nat
    BY <1>2, AlignUpBounds
  <1>5. SectionCells(f.sections[n]) \subseteq SectionPages(f, f.sections[n])
    BY <1>2, <1>4 DEF SectionCells, SectionPages
  <1> QED
    BY <1>3, <1>5

LEMMA CopiedBounds ==
  ASSUME NEW s, s.vsize \in Nat, s.raw \in Nat
  PROVE  Copied(s) \in Nat /\ Copied(s) <= s.vsize /\ Copied(s) <= s.raw
         /\ (Copied(s) = s.vsize \/ Copied(s) = s.raw)
  BY DEF Copied

(* Cells with file data are cells of a section.                             *)
LEMMA DataInSections ==
  ASSUME NEW f \in Images, NEW r \in FileData(f)
  PROVE  \E n \in 1..Len(f.sections) :
           /\ r \in SectionCells(f.sections[n])
           /\ r < f.sections[n].va + f.sections[n].raw
  <1>1. PICK n \in DOMAIN f.sections :
          r \in f.sections[n].va .. (f.sections[n].va + Copied(f.sections[n]) - 1)
    BY DEF FileData
  <1>2. n \in 1..Len(f.sections) /\ f.sections[n].va \in Nat
        /\ f.sections[n].vsize \in Nat /\ f.sections[n].raw \in Nat
    BY ImageTypes
  <1>3. Copied(f.sections[n]) \in Nat /\ Copied(f.sections[n]) <= f.sections[n].vsize
        /\ Copied(f.sections[n]) <= f.sections[n].raw
    BY <1>2, CopiedBounds
  <1> DEFINE s == f.sections[n]
             c == Copied(s)
  <1>4. r \in SectionCells(s) /\ r < s.va + s.raw
    <2>1. r \in s.va .. (s.va + c - 1) /\ s.va \in Nat /\ s.vsize \in Nat /\ s.raw \in Nat
          /\ c \in Nat /\ c <= s.vsize /\ c <= s.raw
      BY <1>1, <1>2, <1>3
    <2> HIDE DEF s, c
    <2> QED
      BY <2>1 DEF SectionCells
  <1> QED
    BY <1>2, <1>4

(* What the loader patches lies behind the headers.                         *)
LEMMA PatchedBehindHeaders ==
  ASSUME NEW f \in Images, Laid(f, Len(f.sections)),
         NEW r \in FileData(f) \cup (IF HasTls(f) THEN {f.tls.index} ELSE {})
  PROVE  f.headers <= r /\ r \in Rva /\ AlignUp(f.headers, f.align) <= r
  <1>1. \E n \in 1..Len(f.sections) : r \in SectionCells(f.sections[n])
    <2>1. CASE r \in FileData(f)
      BY <2>1, DataInSections
    <2>2. CASE HasTls(f) /\ r = f.tls.index
      BY <2>2, ImageTypes, DataAssumption DEF LinkerMade
    <2> QED
      BY <2>1, <2>2
  <1>2. PICK n \in 1..Len(f.sections) : r \in SectionCells(f.sections[n])
    BY <1>1
  <1>3. f.sections[n].va \in Nat /\ f.sections[n].vsize \in Nat
        /\ f.headers \in Nat /\ f.align \in Nat \ {0}
    BY ImageTypes
  <1>4. f.headers <= AlignUp(f.headers, f.align) /\ AlignUp(f.headers, f.align) \in Nat
    BY <1>3, AlignUpBounds
  <1>5. AlignUp(f.headers, f.align) <= f.sections[n].va
    BY DEF Laid
  <1>6. r \in Rva
    BY <1>2, SectionsInside
  <1> QED
    BY <1>2, <1>3, <1>4, <1>5, <1>6 DEF SectionCells

LEMMA CopyHeadersFills ==
  ASSUME TypeOK, CopyHeaders
  PROVE  Filled(load, 0)'
  <1>1. file' = file /\ load' = load /\ load \in Loads
    BY DEF CopyHeaders, TypeOK
  <1>2. \A r \in Rva : mem'[load][r] = IF r < img.headers THEN FileCell(r) ELSE Junk
    BY <1>1 DEF CopyHeaders, TypeOK
  <1>3. img.headers \in 1..MaxRva
    BY ImgInImages, ImageTypes
  <1>4. \A r \in 0 .. (img.headers - 1) : r \in Rva /\ mem'[load][r].tag = "file"
    <2>1. \A r \in 0 .. (img.headers - 1) : r \in Rva /\ r < img.headers
      BY <1>3, DataAssumption DEF Rva
    <2>2. \A r \in Rva : FileCell(r).tag = "file"
      BY DEF FileCell
    <2> QED
      BY <1>2, <2>1, <2>2
  <1>5. \A r \in Rva : mem'[load][r].tag = "file" => r < img.headers
    BY <1>2 DEF Junk
  <1> QED
    BY <1>1, <1>4, <1>5 DEF Filled, img

LEMMA CopySectionFills ==
  ASSUME TypeOK, CopySection, LayingOut, Filled(load, i - 1)
  PROVE  Filled(load, i - 1)'
  <1> DEFINE s == img.sections[i]
  <1>1. i \in 1..Len(img.sections) /\ Len(img.sections) \in Nat
    BY ImgInImages, ImageTypes DEF CopySection, TypeOK
  <1>2. s.va \in Nat /\ s.vsize \in Nat /\ s.raw \in Nat
    BY <1>1, ImgInImages, ImageTypes
  <1>3. Copied(s) \in Nat /\ Copied(s) <= s.vsize /\ Copied(s) <= s.raw
        /\ (Copied(s) = s.vsize \/ Copied(s) = s.raw)
    <2> HIDE DEF s
    <2> QED
      BY <1>2, CopiedBounds
  <1>4. file' = file /\ load' = load /\ i' = i + 1 /\ load \in Loads /\ img' = img
    BY DEF CopySection, TypeOK, img
  <1>5. \A r \in Rva : mem'[load][r] =
          IF r \in s.va .. (s.va + Copied(s) - 1) THEN FileCell(s.va + (r - s.va))
          ELSE IF r \in SectionCells(s) THEN Zero ELSE mem[load][r]
    BY <1>4 DEF CopySection, TypeOK, SectionCells
  <1>6. Laid(img, i)
    <2>1. Laid(img, i - 1)' /\ LayingOut'
      BY CopySectionLays DEF LayingOut, CopySection, img
    <2>2. i' - 1 = i
      BY <1>1, <1>4
    <2> QED
      BY <1>4, <2>1, <2>2 DEF LayingOut
  <1>7. ASSUME NEW n \in 1..i, NEW r \in SectionCells(file[load].sections[n]) \ Patched(load)
        PROVE  FileOrZero(load, file[load].sections[n], r)'
    <2>1. n \in 1..Len(img.sections)
      BY <1>1
    <2>2. r \in Rva
      BY <1>7, <2>1, ImgInImages, SectionsInside DEF img
    <2>3. CASE n = i
      <3>1. r \in SectionCells(s) /\ r \in Nat
        BY <1>7, <2>2, <2>3, DataAssumption DEF img, Rva
      <3>2. r < s.va + s.raw <=> r \in s.va .. (s.va + Copied(s) - 1)
        BY <1>2, <1>3, <3>1 DEF SectionCells
      <3>3. s.va + (r - s.va) = r
        BY <1>2, <3>1
      <3>4. IF r < s.va + s.raw THEN mem'[load][r] = FileCell(r) ELSE mem'[load][r] = Zero
        BY <1>5, <2>2, <3>1, <3>2, <3>3
      <3> QED
        BY <1>4, <2>3, <3>4 DEF FileOrZero, FileCell, Zero, img
    <2>4. CASE n \in 1..(i - 1)
      <3>1. img.sections[n].va + AlignUp(img.sections[n].vsize, img.align) <= s.va
        BY <1>1, <1>6, <2>4 DEF Laid
      <3>2. r < img.sections[n].va + AlignUp(img.sections[n].vsize, img.align) /\ r \in Nat
        <4>1. r \in SectionPages(img, img.sections[n])
          BY <1>7, <2>1, ImgInImages, SectionsInside DEF img
        <4>2. img.sections[n].va \in Nat /\ img.sections[n].vsize \in Nat /\ img.align \in Nat \ {0}
          BY <2>1, ImgInImages, ImageTypes
        <4>3. AlignUp(img.sections[n].vsize, img.align) \in Nat
          BY <4>2, AlignUpBounds
        <4> QED
          BY <4>1, <4>2, <4>3 DEF SectionPages
      <3>3. AlignUp(img.sections[n].vsize, img.align) \in Nat /\ img.sections[n].va \in Nat
        BY <2>1, ImgInImages, ImageTypes, AlignUpBounds
      <3>4. mem'[load][r] = mem[load][r]
        <4>1. ~(s.va <= r)
          BY <1>2, <3>1, <3>2, <3>3
        <4>2. r \notin SectionCells(s) /\ r \notin s.va .. (s.va + Copied(s) - 1)
          BY <1>2, <1>3, <3>2, <4>1 DEF SectionCells
        <4> HIDE DEF s
        <4> QED
          BY <1>5, <2>2, <4>2
      <3>5. FileOrZero(load, file[load].sections[n], r)
        BY <1>7, <2>4 DEF Filled
      <3> QED
        BY <1>4, <3>4, <3>5 DEF FileOrZero
    <2> QED
      BY <1>1, <2>3, <2>4
  <1>8. ASSUME NEW r \in 0 .. (img.headers - 1)
        PROVE  mem'[load][r].tag = "file"
    <2>1. img.headers \in Nat /\ img.headers \in 1..MaxRva /\ img.align \in Nat \ {0}
      BY ImgInImages, ImageTypes
    <2>5. r \in Rva
      BY <2>1, DataAssumption DEF Rva
    <2>2. img.headers <= AlignUp(img.headers, img.align) /\ AlignUp(img.headers, img.align) \in Nat
      BY <2>1, AlignUpBounds
    <2>3. AlignUp(img.headers, img.align) <= s.va
      BY <1>1, <1>6 DEF Laid
    <2>4. ~(s.va <= r)
      BY <1>2, <2>1, <2>2, <2>3
    <2>6. r \notin SectionCells(s) /\ r \notin s.va .. (s.va + Copied(s) - 1)
      BY <1>2, <1>3, <2>4 DEF SectionCells
    <2>7. mem'[load][r] = mem[load][r]
      <3> HIDE DEF s
      <3> QED
        BY <1>5, <2>5, <2>6
    <2>8. mem[load][r].tag = "file"
      BY DEF Filled, img
    <2> QED
      BY <2>7, <2>8
  <1>9. ASSUME NEW r \in Rva, mem'[load][r].tag = "file"
        PROVE  r < img.headers \/ r \in FileData(img)
    <2>1. CASE r \in s.va .. (s.va + Copied(s) - 1)
      BY <1>1, <2>1, ImgInImages, ImageTypes DEF FileData
    <2>2. CASE r \notin s.va .. (s.va + Copied(s) - 1)
      <3>1. mem'[load][r] = mem[load][r]
        BY <1>5, <1>9, <2>2 DEF Zero
      <3> QED
        BY <1>9, <3>1 DEF Filled, img
    <2> QED
      BY <2>1, <2>2
  <1>10. file[load] = img /\ i' - 1 = i
    BY <1>1, <1>4 DEF img
  <1> QED
    BY <1>4, <1>7, <1>8, <1>9, <1>10 DEF Filled, Patched

(* After the copy, a store leaves what a cell holds as it is, or patches it.*)
LEMMA StoresPatch ==
  ASSUME TypeOK, LayoutInv, [Next]_vars, Step \in AfterSections, NEW r \in Rva
  PROVE  \/ /\ mem'[load][r].tag = mem[load][r].tag
            /\ mem'[load][r].arg = mem[load][r].arg
         \/ /\ r \in Patched(load) /\ file[load].headers <= r
            /\ mem'[load][r].tag # "file"
  <1>1. load \in Loads /\ img \in Images /\ img = file[load]
    BY ImgInImages DEF TypeOK, img
  <1>2. Laid(img, Len(img.sections))
    BY <1>1 DEF LayoutInv, Past
  <1>3. mem[load][r] \in Cell
    BY <1>1 DEF TypeOK
  <1>4. ASSUME NEW x \in Rva, NEW c, Write(x, c)
        PROVE  IF r = x THEN mem'[load][r] = c ELSE mem'[load][r] = mem[load][r]
    BY <1>1, <1>4 DEF Write, TypeOK
  <1>5. ASSUME NEW x \in Rva, NEW c, Write(x, c), c.tag = mem[load][x].tag, c.arg = mem[load][x].arg
        PROVE  mem'[load][r].tag = mem[load][r].tag /\ mem'[load][r].arg = mem[load][r].arg
    BY <1>4, <1>5
  <1>6. ASSUME NEW x \in Rva, NEW c, Write(x, c), c.tag # "file",
               x \in FileData(img) \cup (IF HasTls(img) THEN {img.tls.index} ELSE {}),
               x \in Patched(load)
        PROVE  \/ mem'[load][r].tag = mem[load][r].tag /\ mem'[load][r].arg = mem[load][r].arg
               \/ r \in Patched(load) /\ file[load].headers <= r /\ mem'[load][r].tag # "file"
    <2>1. img.headers <= x
      BY <1>1, <1>2, <1>6, PatchedBehindHeaders
    <2> QED
      BY <1>1, <1>4, <1>6, <2>1
  <1>7. IatCells(img) \cup Marks(img) \subseteq FileData(img)
    BY <1>1, DataAssumption DEF LinkerMade
  <1>8. CASE mem' = mem
    BY <1>8
  <1>9. CASE StoreReloc
    <2>1. mem[load][Entry.rva] \in Cell
      BY <1>1, <1>9 DEF TypeOK, StoreReloc
    <2>2. [mem[load][Entry.rva] EXCEPT !.adj = @ + 1].tag = mem[load][Entry.rva].tag
          /\ [mem[load][Entry.rva] EXCEPT !.adj = @ + 1].arg = mem[load][Entry.rva].arg
      BY <2>1 DEF Cell
    <2> QED
      BY <1>5, <1>9, <2>2 DEF StoreReloc
  <1>10. CASE StoreBase
    <2>1. 0 \in Rva
      BY DataAssumption DEF Rva
    <2>2. mem[load][0] \in Cell
      BY <1>1, <2>1 DEF TypeOK
    <2>3. [mem[load][0] EXCEPT !.adj = 1].tag = mem[load][0].tag
          /\ [mem[load][0] EXCEPT !.adj = 1].arg = mem[load][0].arg
      BY <2>2 DEF Cell
    <2> QED
      BY <1>5, <1>10, <2>1, <2>3 DEF StoreBase
  <1>11. ASSUME NEW x \in Rva, NEW m \in ModuleIdx, StoreImport(x, m)
         PROVE  \/ mem'[load][r].tag = mem[load][r].tag /\ mem'[load][r].arg = mem[load][r].arg
                \/ r \in Patched(load) /\ file[load].headers <= r /\ mem'[load][r].tag # "file"
    <2>1. x \in Patched(load)
      BY <1>1, <1>11 DEF StoreImport, Patched
    <2>2. Import(m).tag # "file"
      BY DEF Import
    <2> QED
      BY <1>6, <1>7, <1>11, <2>1, <2>2 DEF StoreImport
  <1>12. ASSUME NEW x \in Rva, StoreMark(x)
         PROVE  \/ mem'[load][r].tag = mem[load][r].tag /\ mem'[load][r].arg = mem[load][r].arg
                \/ r \in Patched(load) /\ file[load].headers <= r /\ mem'[load][r].tag # "file"
    <2>1. x \in Patched(load)
      BY <1>1, <1>12 DEF StoreMark, Patched
    <2>2. BoundMark.tag # "file"
      BY DEF BoundMark
    <2> QED
      BY <1>6, <1>7, <1>12, <2>1, <2>2 DEF StoreMark
  <1>13. CASE StoreIndex
    <2>1. img.tls.index \in Patched(load)
      BY <1>1, <1>13 DEF StoreIndex, Patched
    <2>2. TlsIndex(tlsIndex).tag # "file"
      BY DEF TlsIndex
    <2>3. img.tls.index \in FileData(img) \cup (IF HasTls(img) THEN {img.tls.index} ELSE {})
      BY <1>13 DEF StoreIndex
    <2> QED
      BY <1>6, <1>13, <2>1, <2>2, <2>3 DEF StoreIndex
  <1> QED
    BY <1>8, <1>9, <1>10, <1>11, <1>12, <1>13, Stores

LEMMA ContentStep == TypeOK /\ LayoutInv /\ ContentInv /\ [Next]_vars => ContentInv'
  <1> SUFFICES ASSUME TypeOK, LayoutInv, ContentInv, [Next]_vars PROVE ContentInv'
    OBVIOUS
  <1>1. (Step = "sections")' => Filled(load, i - 1)'
    <2> SUFFICES ASSUME Step' = "sections" PROVE Filled(load, i - 1)'
      OBVIOUS
    <2>1. CASE Quiet
      BY <2>1 DEF Quiet, ContentInv, Filled, FileOrZero, Patched, space
    <2>2. CASE Runs /\ Advance
      <3>1. Step = pc /\ pc' = "sections"
        BY <2>2, RunsStep
      <3>2. CASE CopyHeaders
        <4>1. i' - 1 = 0
          BY <3>2 DEF CopyHeaders
        <4>2. Filled(load, 0)'
          BY <3>2, CopyHeadersFills
        <4> QED
          BY <4>1, <4>2
      <3>3. CASE CopySection
        BY <3>1, <3>3, CopySectionFills DEF CopySection, LayoutInv, ContentInv
      <3> QED
        BY <2>2, <3>1, <3>2, <3>3 DEF Advance, SectionsDone, SkipAbsolute, ApplyDir64,
           NextRelocBlock, AtReloc, RelocsDone, BindThunk, NextDescriptor, ProtectHeaders,
           ProtectSection, Register, NoTls, SetupTls, InstallTls, RunCallback, CallbacksDone,
           ImageLookup, CodeRuns, EntryReturns, Goto, Abort, Fault, Stop, control
    <2> QED
      BY <2>1, <2>2, StepCases
  <1>2. ASSUME NEW l \in Loads, Past(l, AfterSections)'
        PROVE  Filled(l, Len(file[l].sections))'
    <2>1. file' = file
      BY OthersUntouched
    <2>2. CASE Past(l, AfterSections) /\ (l # load \/ load' # load)
      <3>1. mem'[l] = mem[l]
        BY <2>2, OthersUntouched DEF space
      <3> QED
        BY <2>1, <2>2, <3>1 DEF ContentInv, Filled, FileOrZero, Patched
    <2>3. CASE l = load /\ Step \in AfterSections /\ load' = load
      <3>1. Filled(load, Len(file[load].sections))
        BY <2>3 DEF ContentInv, Past
      <3>2. ASSUME NEW r \in Rva
            PROVE  \/ mem'[load][r].tag = mem[load][r].tag /\ mem'[load][r].arg = mem[load][r].arg
                   \/ r \in Patched(load) /\ file[load].headers <= r /\ mem'[load][r].tag # "file"
        BY <2>3, StoresPatch
      <3>3. ASSUME NEW n \in 1..Len(file[load].sections),
                   NEW r \in SectionCells(file[load].sections[n]) \ Patched(load)
            PROVE  FileOrZero(load, file[load].sections[n], r)'
        <4>1. r \in Rva
          BY <3>3, ImgInImages, SectionsInside DEF img
        <4>2. mem'[load][r].tag = mem[load][r].tag /\ mem'[load][r].arg = mem[load][r].arg
          BY <3>2, <3>3, <4>1
        <4>3. FileOrZero(load, file[load].sections[n], r)
          BY <3>1 DEF Filled
        <4> QED
          BY <2>1, <2>3, <4>2, <4>3 DEF FileOrZero
      <3>4. ASSUME NEW r \in 0 .. (file[load].headers - 1)
            PROVE  mem'[load][r].tag = "file"
        <4>1. file[load].headers \in Nat /\ file[load].headers \in 1..MaxRva
          BY ImgInImages, ImageTypes DEF img
        <4>2. r \in Rva /\ ~(file[load].headers <= r)
          BY <4>1, DataAssumption DEF Rva
        <4>3. mem[load][r].tag = "file"
          BY <3>1 DEF Filled
        <4> QED
          BY <3>2, <4>2, <4>3
      <3>5. ASSUME NEW r \in Rva, mem'[load][r].tag = "file"
            PROVE  r < file[load].headers \/ r \in FileData(file[load])
        <4>1. mem[load][r].tag = "file"
          BY <3>2, <3>5
        <4> QED
          BY <3>1, <4>1 DEF Filled
      <3> QED
        BY <2>1, <2>3, <3>3, <3>4, <3>5 DEF Filled, Patched
    <2>4. CASE ~Past(l, AfterSections)
      <3>1. l = load /\ load' = load /\ Step = "sections" /\ SectionsDone
        BY <1>2, <2>4, PastNew
      <3>2. i - 1 = Len(img.sections)
        <4>1. Len(img.sections) \in Nat /\ i \in Nat
          BY ImgInImages, ImageTypes DEF TypeOK
        <4> QED
          BY <3>1, <4>1 DEF SectionsDone, LayoutInv, LayingOut
      <3>3. Filled(load, Len(file[load].sections))
        BY <3>1, <3>2 DEF ContentInv, img
      <3>4. mem' = mem
        BY <3>1 DEF SectionsDone, space
      <3> QED
        BY <2>1, <3>1, <3>3, <3>4 DEF Filled, FileOrZero, Patched
    <2>5. Past(l, AfterSections) => l # load \/ Step \in AfterSections
      BY DEF Past, TypeOK, Loads
    <2> QED
      BY <2>2, <2>3, <2>4, <2>5
  <1> QED
    BY <1>1, <1>2 DEF ContentInv

-----------------------------------------------------------------------------
(* Rebasing: base_delta is added once where a relocation asks for it        *)

(* The relocation loop is behind place p of the table.                      *)
Reached(p) == p[1] < i \/ (p[1] = i /\ p[2] < j)

RebaseInv ==
  /\ Step = "sections" => \A r \in Rva : mem[load][r].adj = 0
  /\ Step = "relocs" => \A r \in Rva :
       mem[load][r].adj = IF \E p \in RelocSites(img, r) : Reached(p) THEN 1 ELSE 0
  /\ \A l \in Loads : Past(l, AfterRelocs) =>
       \A r \in Rva : mem[l][r].adj = IF r \in Slots(file[l]) \cup {0} THEN 1 ELSE 0

LEMMA SiteTypes ==
  ASSUME NEW f \in Images, NEW r, NEW p \in RelocSites(f, r)
  PROVE  /\ p = <<p[1], p[2]>>
         /\ p[1] \in 1..Len(f.relocs) /\ p[1] \in Nat /\ p[2] \in Nat
         /\ p[2] \in 1..Len(f.relocs[p[1]].entries)
         /\ f.relocs[p[1]].entries[p[2]].type = "dir64"
         /\ f.relocs[p[1]].entries[p[2]].rva = r
  <1>1. /\ p \in (DOMAIN f.relocs) \X (1..MaxRva + 1)
        /\ p[2] \in DOMAIN f.relocs[p[1]].entries
        /\ f.relocs[p[1]].entries[p[2]].type = "dir64"
        /\ f.relocs[p[1]].entries[p[2]].rva = r
    BY DEF RelocSites
  <1>2. f.relocs \in Seq(RelocBlock)
    BY DataAssumption DEF Image
  <1>3. p[1] \in 1..Len(f.relocs)
    BY <1>1, <1>2
  <1>4. p[2] \in 1..Len(f.relocs[p[1]].entries)
    BY <1>1, <1>3, RelocTypes
  <1>5. p = <<p[1], p[2]>>
    BY <1>1
  <1> QED
    BY <1>1, <1>3, <1>4, <1>5

LEMMA CopyUnrebased ==
  ASSUME TypeOK, RebaseInv, CopyHeaders \/ (CopySection /\ Runs)
  PROVE  \A r \in Rva : mem'[load][r].adj = 0
  <1>1. load \in Loads
    BY DEF TypeOK
  <1>2. Junk.adj = 0 /\ Zero.adj = 0 /\ \A n : FileCell(n).adj = 0
    BY DEF Junk, Zero, FileCell
  <1>3. CASE CopyHeaders
    <2>1. \A r \in Rva : mem'[load][r] = IF r < img.headers THEN FileCell(r) ELSE Junk
      BY <1>1, <1>3 DEF CopyHeaders, TypeOK
    <2> QED
      BY <1>2, <2>1
  <1>4. CASE CopySection /\ Runs
    <2> DEFINE s == img.sections[i]
               at == AlignUp(secRva, img.align)
    <2>1. \A r \in Rva : mem'[load][r] =
            IF r \in at .. (at + Copied(s) - 1) THEN FileCell(s.va + (r - at))
            ELSE IF r \in at .. (at + s.vsize - 1) THEN Zero ELSE mem[load][r]
      BY <1>1, <1>4 DEF CopySection, TypeOK
    <2>2. \A r \in Rva : mem[load][r].adj = 0
      BY <1>4, RunsStep DEF CopySection, RebaseInv
    <2> HIDE DEF s, at
    <2> QED
      BY <1>2, <2>1, <2>2
  <1> QED
    BY <1>3, <1>4

(* One iteration of the relocation loop.                                    *)
LEMMA RelocStepCounts ==
  ASSUME TypeOK, RebaseInv, Runs, SkipAbsolute \/ ApplyDir64 \/ NextRelocBlock, NEW r \in Rva
  PROVE  mem'[load][r].adj = IF \E p \in RelocSites(img, r) : Reached(p)' THEN 1 ELSE 0
  <1>1. Step = "relocs" /\ load \in Loads /\ i \in Nat \ {0} /\ j \in Nat \ {0} /\ img \in Images
    BY RunsStep, ImgInImages DEF SkipAbsolute, ApplyDir64, NextRelocBlock, AtReloc, TypeOK
  <1>2. mem[load][r].adj = IF \E p \in RelocSites(img, r) : Reached(p) THEN 1 ELSE 0
    BY <1>1 DEF RebaseInv
  <1>3. mem[load][r] \in Cell
    BY <1>1 DEF TypeOK
  <1>4. ASSUME NEW p \in RelocSites(img, r)
        PROVE  p = <<p[1], p[2]>> /\ p[1] \in Nat /\ p[2] \in Nat
    BY <1>1, SiteTypes
  <1>5. CASE SkipAbsolute
    <2>1. i' = i /\ j' = j + 1 /\ mem' = mem
      BY <1>5 DEF SkipAbsolute, space
    <2>2. ASSUME NEW p \in RelocSites(img, r)
          PROVE  Reached(p)' <=> Reached(p)
      <3>1. ~(p[1] = i /\ p[2] = j)
        BY <1>1, <1>5, <2>2, SiteTypes DEF SkipAbsolute, Entry
      <3> QED
        BY <1>1, <1>4, <2>1, <3>1 DEF Reached
    <2> QED
      BY <1>2, <2>1, <2>2
  <1>6. CASE NextRelocBlock
    <2>1. i' = i + 1 /\ j' = 1 /\ mem' = mem
      BY <1>6 DEF NextRelocBlock, Abort, Stop, Runs, Working, space
    <2>2. ASSUME NEW p \in RelocSites(img, r)
          PROVE  Reached(p)' <=> Reached(p)
      <3>1. p[1] = i => p[2] < j
        <4> SUFFICES ASSUME p[1] = i PROVE p[2] < j
          OBVIOUS
        <4>1. p[2] \in 1..Len(img.relocs[i].entries)
          BY <1>1, SiteTypes
        <4>2. Len(img.relocs[i].entries) \in 0..(MaxRva + 1) /\ j > Len(img.relocs[i].entries)
          BY <1>1, <1>6, RelocTypes, SiteTypes DEF NextRelocBlock
        <4> QED
          BY <1>1, <4>1, <4>2, DataAssumption
      <3>2. p[2] >= 1
        <4>1. p[2] \in 1..Len(img.relocs[p[1]].entries)
          BY <1>1, SiteTypes
        <4> QED
          BY <4>1
      <3> QED
        BY <1>1, <1>4, <2>1, <3>1, <3>2 DEF Reached
    <2> QED
      BY <1>2, <2>1, <2>2
  <1>7. CASE ApplyDir64
    <2>1. /\ Write(Entry.rva, [mem[load][Entry.rva] EXCEPT !.adj = @ + 1])
          /\ i' = i /\ j' = j + 1
      BY <1>7 DEF ApplyDir64, Fault, Stop, Runs, Working
    <2>2. <<i, j>> \in RelocSites(img, Entry.rva) /\ Entry.rva \in Rva
      BY <1>7, EntryIsSite DEF ApplyDir64
    <2>3. CASE r = Entry.rva
      <3>1. \A p \in RelocSites(img, r) : p = <<i, j>>
        BY <1>1, <2>2, <2>3, DataAssumption DEF LinkerMade, Slots
      <3>2. ~\E p \in RelocSites(img, r) : Reached(p)
        BY <1>1, <3>1 DEF Reached
      <3>3. mem[load][r].adj = 0
        BY <1>2, <3>2
      <3>4. mem'[load][r].adj = 1
        <4>1. mem'[load][r] = [mem[load][r] EXCEPT !.adj = @ + 1]
          BY <1>1, <2>1, <2>3 DEF Write, TypeOK
        <4> QED
          BY <1>3, <3>3, <4>1 DEF Cell
      <3>5. PICK p \in RelocSites(img, r) : p[1] = i /\ p[2] = j
        BY <2>2, <2>3
      <3>6. Reached(p)'
        BY <1>1, <2>1, <3>5 DEF Reached
      <3> QED
        BY <3>4, <3>6
    <2>4. CASE r # Entry.rva
      <3>1. mem'[load][r] = mem[load][r]
        BY <1>1, <2>1, <2>2, <2>4 DEF Write, TypeOK
      <3>2. ASSUME NEW p \in RelocSites(img, r)
            PROVE  Reached(p)' <=> Reached(p)
        <4>1. ~(p[1] = i /\ p[2] = j)
          BY <1>1, <2>4, SiteTypes DEF Entry
        <4> QED
          BY <1>1, <1>4, <2>1, <4>1 DEF Reached
      <3> QED
        BY <1>2, <3>1, <3>2
    <2> QED
      BY <2>3, <2>4
  <1> QED
    BY <1>5, <1>6, <1>7

(* Once ImageBase is set, adj is final: the later stores go elsewhere.      *)
LEMMA BaseSetCounts ==
  ASSUME TypeOK, RebaseInv, Runs, RelocsDone, NEW r \in Rva
  PROVE  mem'[load][r].adj = IF r \in Slots(img) \cup {0} THEN 1 ELSE 0
  <1>1. Step = "relocs" /\ load \in Loads /\ i \in Nat \ {0} /\ j \in Nat \ {0} /\ img \in Images
    BY RunsStep, ImgInImages DEF RelocsDone, TypeOK
  <1>2. mem[load][r].adj = IF \E p \in RelocSites(img, r) : Reached(p) THEN 1 ELSE 0
    BY <1>1 DEF RebaseInv
  <1>3. Write(0, [mem[load][0] EXCEPT !.adj = 1])
    BY DEF RelocsDone, Fault, Stop, Runs, Working
  <1>4. 0 \in Rva
    BY DataAssumption DEF Rva
  <1>5. mem[load][r] \in Cell
    BY <1>1 DEF TypeOK
  <1>6. CASE r = 0
    <2>1. mem'[load][r] = [mem[load][r] EXCEPT !.adj = 1]
      BY <1>1, <1>3, <1>4, <1>6 DEF Write, TypeOK
    <2> QED
      BY <1>5, <1>6, <2>1 DEF Cell
  <1>7. CASE r # 0
    <2>1. mem'[load][r] = mem[load][r]
      BY <1>1, <1>3, <1>4, <1>7 DEF Write, TypeOK
    <2>2. ASSUME NEW p \in RelocSites(img, r)
          PROVE  Reached(p)
      <3>1. p[1] \in 1..Len(img.relocs) /\ Len(img.relocs) \in Nat
        <4>1. img.relocs \in Seq(RelocBlock)
          BY <1>1, DataAssumption DEF Image
        <4> QED
          BY <1>1, <4>1, SiteTypes
      <3> QED
        BY <1>1, <3>1 DEF RelocsDone, Reached
    <2> QED
      BY <1>2, <1>7, <2>1, <2>2 DEF Slots
  <1> QED
    BY <1>6, <1>7

LEMMA LaterStoresKeepAdj ==
  ASSUME TypeOK, RebaseInv, [Next]_vars, Step \in AfterRelocs, NEW r \in Rva
  PROVE  mem'[load][r].adj = mem[load][r].adj
  <1>1. load \in Loads /\ img \in Images /\ img = file[load] /\ Step \in AfterSections
    BY ImgInImages DEF TypeOK, img, AfterRelocs, AfterSections
  <1>2. mem[load][r].adj = IF r \in Slots(img) \cup {0} THEN 1 ELSE 0
    BY <1>1 DEF RebaseInv, Past
  <1>3. (Slots(img) \cup {0}) \cap (IatCells(img) \cup Marks(img)) = {}
    BY <1>1, DataAssumption DEF LinkerMade
  <1>4. HasTls(img) => img.tls.index \notin Slots(img) \cup {0}
    BY <1>1, DataAssumption DEF LinkerMade
  <1>5. ASSUME NEW x \in Rva, NEW c, Write(x, c), c.adj = 0, x \notin Slots(img) \cup {0}
        PROVE  mem'[load][r].adj = mem[load][r].adj
    <2>1. IF r = x THEN mem'[load][r] = c ELSE mem'[load][r] = mem[load][r]
      BY <1>1, <1>5 DEF Write, TypeOK
    <2> QED
      BY <1>2, <1>5, <2>1
  <1>6. CASE mem' = mem
    BY <1>6
  <1>7. CASE StoreReloc \/ StoreBase
    BY <1>7 DEF StoreReloc, StoreBase, AfterRelocs
  <1>8. ASSUME NEW x \in Rva, NEW m \in ModuleIdx, StoreImport(x, m)
        PROVE  mem'[load][r].adj = mem[load][r].adj
    <2>1. Import(m).adj = 0
      BY DEF Import
    <2> QED
      BY <1>3, <1>5, <1>8, <2>1 DEF StoreImport
  <1>9. ASSUME NEW x \in Rva, StoreMark(x)
        PROVE  mem'[load][r].adj = mem[load][r].adj
    <2>1. BoundMark.adj = 0
      BY DEF BoundMark
    <2> QED
      BY <1>3, <1>5, <1>9, <2>1 DEF StoreMark
  <1>10. CASE StoreIndex
    <2>1. TlsIndex(tlsIndex).adj = 0
      BY DEF TlsIndex
    <2> QED
      BY <1>4, <1>5, <1>10, <2>1 DEF StoreIndex
  <1> QED
    BY <1>1, <1>6, <1>7, <1>8, <1>9, <1>10, Stores

LEMMA RebaseStep == TypeOK /\ RebaseInv /\ [Next]_vars => RebaseInv'
  <1> SUFFICES ASSUME TypeOK, RebaseInv, [Next]_vars PROVE RebaseInv'
    OBVIOUS
  <1>1. file' = file /\ (Step' = "sections" \/ Step' = "relocs" => load' = load /\ img' = img)
    BY OthersUntouched, StepOrder DEF img
  <1>2. (Step = "sections")' => \A r \in Rva : mem'[load'][r].adj = 0
    <2> SUFFICES ASSUME Step' = "sections" PROVE \A r \in Rva : mem'[load'][r].adj = 0
      OBVIOUS
    <2>1. CASE Quiet
      BY <2>1 DEF Quiet, RebaseInv, space
    <2>2. CASE Runs /\ Advance
      <3>1. Step = pc /\ pc' = "sections"
        BY <2>2, RunsStep
      <3>2. CASE CopyHeaders \/ CopySection
        BY <1>1, <2>2, <3>2, CopyUnrebased
      <3> QED
        BY <2>2, <3>1, <3>2 DEF Advance, SectionsDone, SkipAbsolute, ApplyDir64,
           NextRelocBlock, AtReloc, RelocsDone, BindThunk, NextDescriptor, ProtectHeaders,
           ProtectSection, Register, NoTls, SetupTls, InstallTls, RunCallback, CallbacksDone,
           ImageLookup, CodeRuns, EntryReturns, Goto, Abort, Fault, Stop, control
    <2> QED
      BY <2>1, <2>2, StepCases
  <1>3. ASSUME Step' = "relocs", NEW r \in Rva
        PROVE  mem'[load'][r].adj = IF \E p \in RelocSites(img', r) : Reached(p)' THEN 1 ELSE 0
    <2>1. CASE Quiet
      BY <1>3, <2>1 DEF Quiet, RebaseInv, Reached, space, img
    <2>2. CASE Runs /\ Advance
      <3>1. Step = pc /\ pc' = "relocs"
        BY <1>3, <2>2, RunsStep
      <3>2. CASE SectionsDone
        <4>1. i' = 1 /\ j' = 1 /\ mem' = mem
          BY <3>2 DEF SectionsDone, Goto, space
        <4>2. mem[load][r].adj = 0
          BY <3>1, <3>2 DEF SectionsDone, RebaseInv
        <4>3. ASSUME NEW p \in RelocSites(img, r)
              PROVE  ~Reached(p)'
          <5>1. p[1] \in 1..Len(img.relocs) /\ p[2] \in 1..Len(img.relocs[p[1]].entries)
                /\ p[1] \in Nat /\ p[2] \in Nat
            BY ImgInImages, SiteTypes
          <5>2. p[1] >= 1 /\ p[2] >= 1
            BY <5>1
          <5> QED
            BY <4>1, <5>1, <5>2 DEF Reached
        <4> QED
          BY <1>1, <1>3, <4>1, <4>2, <4>3
      <3>3. CASE SkipAbsolute \/ ApplyDir64 \/ NextRelocBlock
        BY <1>1, <1>3, <2>2, <3>3, RelocStepCounts
      <3> QED
        BY <2>2, <3>1, <3>2, <3>3 DEF Advance, CopyHeaders, CopySection,
           RelocsDone, BindThunk, NextDescriptor, ProtectHeaders,
           ProtectSection, Register, NoTls, SetupTls, InstallTls, RunCallback, CallbacksDone,
           ImageLookup, CodeRuns, EntryReturns, Goto, Abort, Fault, Stop, control
    <2> QED
      BY <2>1, <2>2, StepCases
  <1>4. ASSUME NEW l \in Loads, Past(l, AfterRelocs)', NEW r \in Rva
        PROVE  mem'[l][r].adj = IF r \in Slots(file'[l]) \cup {0} THEN 1 ELSE 0
    <2>1. CASE Past(l, AfterRelocs) /\ (l # load \/ load' # load)
      <3>1. mem'[l] = mem[l]
        BY <2>1, OthersUntouched DEF space
      <3> QED
        BY <1>1, <2>1, <3>1 DEF RebaseInv
    <2>2. CASE l = load /\ Step \in AfterRelocs
      BY <1>1, <2>2, LaterStoresKeepAdj DEF RebaseInv, Past
    <2>3. CASE ~Past(l, AfterRelocs)
      <3>1. l = load /\ RelocsDone /\ Runs
        BY <1>4, <2>3, PastNew
      <3> QED
        BY <1>1, <3>1, BaseSetCounts DEF img
    <2>4. Past(l, AfterRelocs) => l # load \/ Step \in AfterRelocs
      BY DEF Past, TypeOK, Loads
    <2> QED
      BY <2>1, <2>2, <2>3, <2>4
  <1> QED
    BY <1>1, <1>2, <1>3, <1>4 DEF RebaseInv

-----------------------------------------------------------------------------
(* Protection, and what can fault                                           *)

(* The headers and the first k sections have the protection they end with.  *)
Protected(l, k) ==
  /\ \A r \in HeaderPages(file[l]) : prot[l][r] = {"r"}
  /\ \A n \in 1..k : \A r \in SectionPages(file[l], file[l].sections[n]) :
       prot[l][r] = Protection(file[l].sections[n])

ProtectInv ==
  /\ Step \in {"sections", "relocs", "imports"} => \A r \in Rva : CanWrite(r)
  /\ Step = "protect" => i <= Len(img.sections) + 1 /\ Protected(load, i - 1)
  /\ \A l \in Loads : Past(l, AfterProtect) => Protected(l, Len(file[l].sections))

(* The protections change only where load_pe says so.                       *)
LEMMA ProtChanges ==
  ASSUME TypeOK, [Next]_vars
  PROVE  prot' = prot \/ CopyHeaders \/ ProtectHeaders \/ ProtectSection
  <1>1. CASE Quiet
    BY <1>1 DEF Quiet, space
  <1>2. CASE Advance
    BY <1>2 DEF Advance, CopySection, SectionsDone, SkipAbsolute, ApplyDir64,
         NextRelocBlock, RelocsDone, BindThunk, NextDescriptor, Register, NoTls, SetupTls,
         InstallTls, RunCallback, CallbacksDone, ImageLookup, EntryReturns, Abort, Fault, space
  <1> QED
    BY <1>1, <1>2, StepCases

LEMMA IntervalsApart ==
  ASSUME NEW p \in Int, NEW q \in Int, NEW x \in Int, NEW y \in Int, q < x
  PROVE  (p .. q) \cap (x .. y) = {}
  OBVIOUS

(* Where an area of a cells ends, another may begin.                        *)
LEMMA EndsBefore ==
  ASSUME NEW v \in Nat, NEW a \in Nat, NEW w \in Nat, NEW b \in Nat, v + a <= w
  PROVE  /\ v + a - 1 \in Int /\ w + b - 1 \in Int /\ v \in Int /\ w \in Int
         /\ v + a - 1 < w
  OBVIOUS

(* The place of a cell in a template that goes from start to last.          *)
LEMMA PlaceInTemplate ==
  ASSUME NEW start \in Nat, NEW last \in Nat, NEW r \in start .. last
  PROVE  /\ r \in Nat /\ r <= last /\ r - start + 1 \in 1 .. (last - start + 1)
         /\ start + (r - start + 1) - 1 = r
  OBVIOUS

LEMMA SectionsApart ==
  ASSUME NEW f \in Images, Laid(f, Len(f.sections)), NEW n \in 1..Len(f.sections)
  PROVE  /\ \A m \in 1..Len(f.sections) : m # n =>
              SectionPages(f, f.sections[m]) \cap SectionPages(f, f.sections[n]) = {}
         /\ HeaderPages(f) \cap SectionPages(f, f.sections[n]) = {}
  <1>1. \A m \in 1..Len(f.sections) :
          /\ f.sections[m].va \in Nat
          /\ AlignUp(f.sections[m].vsize, f.align) \in Nat
    BY ImageTypes, AlignUpBounds
  <1>2. AlignUp(f.headers, f.align) \in Nat
    BY ImageTypes, AlignUpBounds
  <1>3. ASSUME NEW m \in 1..Len(f.sections), NEW k \in 1..Len(f.sections), m < k
        PROVE  SectionPages(f, f.sections[m]) \cap SectionPages(f, f.sections[k]) = {}
    <2>1. f.sections[m].va + AlignUp(f.sections[m].vsize, f.align) <= f.sections[k].va
      BY <1>3 DEF Laid
    <2> DEFINE a == AlignUp(f.sections[m].vsize, f.align)
               b == AlignUp(f.sections[k].vsize, f.align)
    <2>2. /\ f.sections[m].va \in Nat /\ a \in Nat /\ f.sections[k].va \in Nat /\ b \in Nat
          /\ f.sections[m].va + a <= f.sections[k].va
      BY <1>1, <2>1
    <2>3. /\ SectionPages(f, f.sections[m]) = f.sections[m].va .. (f.sections[m].va + a - 1)
          /\ SectionPages(f, f.sections[k]) = f.sections[k].va .. (f.sections[k].va + b - 1)
      BY DEF SectionPages
    <2>4. /\ f.sections[m].va + a - 1 \in Int /\ f.sections[k].va + b - 1 \in Int
          /\ f.sections[m].va \in Int /\ f.sections[k].va \in Int
          /\ f.sections[m].va + a - 1 < f.sections[k].va
      <3> HIDE DEF a, b
      <3> QED
        BY <2>2, EndsBefore
    <2> HIDE DEF a, b
    <2> QED
      BY <2>3, <2>4, IntervalsApart
  <1>4. HeaderPages(f) \cap SectionPages(f, f.sections[n]) = {}
    <2>1. AlignUp(f.headers, f.align) <= f.sections[n].va
      BY DEF Laid
    <2> QED
      BY <1>1, <1>2, <2>1 DEF SectionPages, HeaderPages
  <1>5. ASSUME NEW m \in 1..Len(f.sections), m # n
        PROVE  SectionPages(f, f.sections[m]) \cap SectionPages(f, f.sections[n]) = {}
    <2>1. m < n \/ n < m
      BY <1>5
    <2> QED
      BY <1>3, <2>1
  <1> QED
    BY <1>4, <1>5

LEMMA ProtectHeadersProtects ==
  ASSUME TypeOK, ProtectHeaders
  PROVE  Protected(load, 0)'
  <1>1. load \in Loads /\ load' = load /\ file' = file /\ img = file[load]
    BY DEF ProtectHeaders, Goto, TypeOK, img
  <1>2. HeaderPages(img) \subseteq Rva
    BY ImgInImages, DataAssumption DEF LinkerMade
  <1>3. \A r \in Rva : prot'[load][r] = IF r \in HeaderPages(img) THEN {"r"} ELSE prot[load][r]
    BY <1>1 DEF ProtectHeaders, TypeOK
  <1> QED
    BY <1>1, <1>2, <1>3 DEF Protected

LEMMA ProtectSectionProtects ==
  ASSUME TypeOK, LayoutInv, ProtectSection, Runs, Protected(load, i - 1)
  PROVE  Protected(load, i - 1)' /\ i' <= Len(img.sections) + 1
  <1>1. load \in Loads /\ load' = load /\ file' = file /\ img = file[load] /\ img \in Images
        /\ i' = i + 1
    BY ImgInImages DEF ProtectSection, TypeOK, img
  <1>2. i \in 1..Len(img.sections) /\ Len(img.sections) \in Nat /\ i' - 1 = i
        /\ i' <= Len(img.sections) + 1
    BY <1>1, ImageTypes DEF ProtectSection, TypeOK
  <1>3. Laid(img, Len(img.sections))
    BY <1>1, RunsStep DEF LayoutInv, Past, AfterSections, ProtectSection
  <1>4. \A r \in Rva : prot'[load][r] =
          IF r \in SectionPages(img, img.sections[i]) THEN Protection(img.sections[i])
          ELSE prot[load][r]
    BY <1>1 DEF ProtectSection, TypeOK
  <1>5. ASSUME NEW r \in HeaderPages(img)
        PROVE  prot'[load][r] = {"r"}
    <2>1. r \in Rva
      BY <1>1, DataAssumption DEF LinkerMade
    <2>2. r \notin SectionPages(img, img.sections[i])
      BY <1>1, <1>2, <1>3, SectionsApart
    <2> QED
      BY <1>1, <1>4, <2>1, <2>2 DEF Protected
  <1>6. ASSUME NEW n \in 1..i, NEW r \in SectionPages(img, img.sections[n])
        PROVE  prot'[load][r] = Protection(img.sections[n])
    <2>1. n \in 1..Len(img.sections)
      BY <1>2
    <2>2. r \in Rva
      BY <1>1, <2>1, SectionsInside
    <2>3. CASE n = i
      BY <1>4, <2>2, <2>3
    <2>4. CASE n # i
      <3>1. n \in 1..(i - 1)
        BY <1>2, <2>4
      <3>2. r \notin SectionPages(img, img.sections[i])
        BY <1>1, <1>2, <1>3, <1>6, <2>1, <2>4, SectionsApart
      <3> QED
        BY <1>1, <1>4, <2>2, <3>1, <3>2 DEF Protected
    <2> QED
      BY <2>3, <2>4
  <1> QED
    BY <1>1, <1>2, <1>5, <1>6 DEF Protected

LEMMA ProtectStep == TypeOK /\ LayoutInv /\ ProtectInv /\ [Next]_vars => ProtectInv'
  <1> SUFFICES ASSUME TypeOK, LayoutInv, ProtectInv, [Next]_vars PROVE ProtectInv'
    OBVIOUS
  <1>1. file' = file /\ load \in Loads
    BY OthersUntouched DEF TypeOK
  <1>2. ASSUME Step' \in {"sections", "relocs", "imports"}, NEW r \in Rva
        PROVE  CanWrite(r)'
    <2>1. load' = load /\ (Step \in {"sections", "relocs", "imports"} \/ CopyHeaders)
      BY <1>2, StepOrder
    <2>2. CASE CopyHeaders
      <3>1. prot'[load][r] = {"r", "w"}
        BY <1>1, <2>2 DEF CopyHeaders, TypeOK
      <3> QED
        BY <2>1, <3>1 DEF CanWrite
    <2>3. CASE prot' = prot /\ Step \in {"sections", "relocs", "imports"}
      BY <2>1, <2>3 DEF ProtectInv, CanWrite
    <2>4. (~ProtectHeaders /\ ~ProtectSection) \/ prot' = prot
      BY <1>2, <2>1, StepCases DEF ProtectHeaders, ProtectSection, Goto, Step, Ended, Quiet, space
    <2> QED
      BY <2>1, <2>2, <2>3, <2>4, ProtChanges
  <1>3. (Step = "protect")' => i' <= Len(img'.sections) + 1 /\ Protected(load, i - 1)'
    <2> SUFFICES ASSUME Step' = "protect"
                 PROVE  i' <= Len(img'.sections) + 1 /\ Protected(load, i - 1)'
      OBVIOUS
    <2>1. CASE Quiet
      BY <2>1 DEF Quiet, ProtectInv, Protected, img, space
    <2>2. CASE Runs /\ Advance
      <3>1. Step = pc /\ pc' = "protect"
        BY <2>2, RunsStep
      <3>2. CASE ProtectHeaders
        <4>1. i' = 1 /\ img' = img
          BY <3>2 DEF ProtectHeaders, Goto, img
        <4>2. Len(img.sections) \in Nat
          BY ImgInImages, ImageTypes
        <4>3. Protected(load, 0)' /\ i' - 1 = 0
          BY <3>2, <4>1, ProtectHeadersProtects
        <4> QED
          BY <4>1, <4>2, <4>3
      <3>3. CASE ProtectSection
        <4>1. Protected(load, i - 1)
          BY <3>1, <3>3 DEF ProtectSection, ProtectInv
        <4>2. img' = img
          BY <3>3 DEF ProtectSection, img
        <4> QED
          BY <2>2, <3>3, <4>1, <4>2, ProtectSectionProtects
      <3> QED
        BY <2>2, <3>1, <3>2, <3>3 DEF Advance, CopyHeaders, CopySection, SectionsDone,
           SkipAbsolute, ApplyDir64, NextRelocBlock, AtReloc, RelocsDone, BindThunk,
           NextDescriptor, Register, NoTls, SetupTls, InstallTls, RunCallback, CallbacksDone,
           ImageLookup, CodeRuns, EntryReturns, Goto, Abort, Fault, Stop, control
    <2> QED
      BY <2>1, <2>2, StepCases
  <1>4. ASSUME NEW l \in Loads, Past(l, AfterProtect)'
        PROVE  Protected(l, Len(file[l].sections))'
    <2>1. CASE Past(l, AfterProtect) /\ (l # load \/ load' # load)
      <3>1. prot'[l] = prot[l]
        BY <2>1, OthersUntouched DEF space
      <3> QED
        BY <1>1, <2>1, <3>1 DEF ProtectInv, Protected
    <2>2. CASE l = load /\ Step \in AfterProtect
      <3>1. prot' = prot
        BY <2>2, StepCases, ProtChanges DEF AfterProtect, CopyHeaders, ProtectHeaders,
           ProtectSection, Step, Ended, Quiet, space, Runs, Working
      <3> QED
        BY <1>1, <2>2, <3>1 DEF ProtectInv, Protected, Past
    <2>3. CASE ~Past(l, AfterProtect)
      <3>1. l = load /\ Step = "protect" /\ Register /\ Runs
        BY <1>4, <2>3, PastNew
      <3>2. prot' = prot /\ i > Len(img.sections)
        BY <3>1 DEF Register, Abort, space
      <3>3. i - 1 = Len(img.sections)
        <4>1. Len(img.sections) \in Nat /\ i \in Nat
          BY ImgInImages, ImageTypes DEF TypeOK
        <4> QED
          BY <3>1, <3>2, <4>1 DEF ProtectInv
      <3> QED
        BY <1>1, <3>1, <3>2, <3>3 DEF ProtectInv, Protected, img
    <2>4. Past(l, AfterProtect) => l # load \/ Step \in AfterProtect
      BY DEF Past, TypeOK, Loads
    <2> QED
      BY <2>1, <2>2, <2>3, <2>4
  <1> QED
    BY <1>1, <1>2, <1>3, <1>4 DEF ProtectInv

(* Behind the base relocations, a cell other than ImageBase holds a         *)
(* relocated pointer of the file just when a relocation names it.           *)
LEMMA PointersRelocated ==
  ASSUME TypeOK, ContentInv, RebaseInv, Step \in AfterRelocs, NEW r \in Rva, r # 0
  PROVE  Relocated(r) <=> r \in Slots(img)
  <1>1. load \in Loads /\ img \in Images /\ img = file[load] /\ Step \in AfterSections
    BY ImgInImages DEF TypeOK, img, AfterRelocs, AfterSections
  <1>2. mem[load][r].adj = IF r \in Slots(img) THEN 1 ELSE 0
    BY <1>1 DEF RebaseInv, Past
  <1>3. ASSUME r \in Slots(img)
        PROVE  mem[load][r].tag = "file"
    <2>1. r \in FileData(img)
      BY <1>1, <1>3, DataAssumption DEF LinkerMade
    <2>2. PICK n \in 1..Len(img.sections) :
            r \in SectionCells(img.sections[n]) /\ r < img.sections[n].va + img.sections[n].raw
      BY <1>1, <2>1, DataInSections
    <2>3. r \notin Patched(load)
      BY <1>1, <1>3, DataAssumption DEF LinkerMade, Patched
    <2>4. Filled(load, Len(img.sections))
      BY <1>1 DEF ContentInv, Past
    <2> QED
      BY <1>1, <2>2, <2>3, <2>4 DEF Filled, FileOrZero
  <1> QED
    BY <1>2, <1>3 DEF Relocated

LEMMA TlsCells ==
  ASSUME NEW f \in Images, HasTls(f)
  PROVE  /\ f.tls.index \in Rva /\ f.tls.dir \in Nat /\ f.tls.table \in Nat /\ f.tls.calls \in Nat
         /\ f.tls.start \in Rva /\ f.tls.last \in Rva /\ f.tls.start <= f.tls.last
         /\ TlsPointers(f) \subseteq Rva \ {0}
         /\ f.tls.index \notin TlsPointers(f)
         /\ \E n \in 1..Len(f.sections) : f.tls.index \in SectionPages(f, f.sections[n])
  <1>1. f \in Image /\ LinkerMade(f)
    BY DataAssumption
  <1>2. f.tls \in Tls
    BY <1>1 DEF Image
  <1>3. /\ f.tls.index \in Rva /\ f.tls.dir \in Nat /\ f.tls.table \in Nat /\ f.tls.calls \in Nat
        /\ f.tls.start \in Rva /\ f.tls.last \in Rva
    BY <1>2, DataAssumption DEF Tls, Rva
  <1>4. /\ f.tls.start <= f.tls.last /\ f.tls.dir + 3 <= MaxRva
        /\ f.tls.table + f.tls.calls <= MaxRva + 1
        /\ TlsPointers(f) \cap {0, f.tls.index} = {}
        /\ \E n \in DOMAIN f.sections : f.tls.index \in SectionCells(f.sections[n])
    BY <1>1 DEF LinkerMade
  <1>5. TlsPointers(f) \subseteq Rva
    <2>1. {f.tls.dir, f.tls.dir + 1, f.tls.dir + 2, f.tls.dir + 3} \subseteq Rva
      BY <1>3, <1>4, DataAssumption DEF Rva
    <2>2. f.tls.table .. f.tls.table + f.tls.calls - 1 \subseteq Rva
      BY <1>3, <1>4, DataAssumption DEF Rva
    <2> QED
      BY <2>1, <2>2 DEF TlsPointers
  <1>6. \E n \in 1..Len(f.sections) : f.tls.index \in SectionPages(f, f.sections[n])
    BY <1>4, ImageTypes, SectionsInside
  <1> QED
    BY <1>3, <1>4, <1>5, <1>6

LEMMA IndexWritable ==
  ASSUME TypeOK, ProtectInv, Step \in AfterProtect, HasTls(img)
  PROVE  CanWrite(img.tls.index) <=> InWritable(img, img.tls.index)
  <1>1. load \in Loads /\ img \in Images /\ img = file[load]
    BY ImgInImages DEF TypeOK, img
  <1>2. \A n \in 1..Len(img.sections) : \A r \in SectionPages(img, img.sections[n]) :
          prot[load][r] = Protection(img.sections[n])
    BY <1>1 DEF ProtectInv, Past, Protected
  <1>3. \A n \in 1..Len(img.sections) :
          "w" \in Protection(img.sections[n]) <=> img.sections[n].write
    BY DEF Protection
  <1>4. PICK n \in 1..Len(img.sections) : img.tls.index \in SectionPages(img, img.sections[n])
    BY <1>1, TlsCells
  <1>5. DOMAIN img.sections = 1..Len(img.sections)
    BY <1>1, ImageTypes
  <1> QED
    BY <1>2, <1>3, <1>4, <1>5 DEF CanWrite, InWritable

(* What can still fault behind the base relocations is a TLS step with an   *)
(* index that is not writable, or a pointer without a relocation.           *)
LEMMA TlsFaults ==
  ASSUME TypeOK, ContentInv, RebaseInv, ProtectInv, SetupTls, Fault, pc \in Working
  PROVE  ~InWritable(img, img.tls.index) \/ ~TlsPointers(img) \subseteq Slots(img)
  <1>1. Step = "tls" /\ HasTls(img) /\ img \in Images
    BY ImgInImages DEF SetupTls, Step, Ended, Working
  <1>2. Step \in AfterProtect /\ Step \in AfterRelocs
    BY <1>1 DEF AfterProtect, AfterRelocs
  <1>3. TlsPointers(img) \subseteq Rva \ {0}
    BY <1>1, TlsCells
  <1>4. {img.tls.dir, img.tls.dir + 1, img.tls.dir + 2} \subseteq TlsPointers(img)
    BY DEF TlsPointers
  <1>5. \/ ~Relocated(img.tls.dir) \/ ~Relocated(img.tls.dir + 1) \/ ~Relocated(img.tls.dir + 2)
        \/ ~CanWrite(img.tls.index)
    BY DEF SetupTls, Abort, Fault, Stop, InstallTls, Goto
  <1> QED
    BY <1>1, <1>2, <1>3, <1>4, <1>5, PointersRelocated, IndexWritable

LEMMA CallbackFaults ==
  ASSUME TypeOK, ContentInv, RebaseInv, RunCallback, Fault, pc \in Working, HasTls(img)
  PROVE  ~TlsPointers(img) \subseteq Slots(img)
  <1>1. Step = "callbacks" /\ img \in Images /\ Step \in AfterRelocs
    BY ImgInImages DEF RunCallback, Step, Ended, Working, AfterRelocs
  <1>2. TlsPointers(img) \subseteq Rva \ {0} /\ img.tls.calls \in Nat /\ img.tls.table \in Nat
    BY <1>1, TlsCells
  <1>3. i \in Nat \ {0} /\ i <= img.tls.calls
    BY DEF TypeOK, RunCallback
  <1>4. img.tls.dir + 3 \in TlsPointers(img) /\ img.tls.table + i - 1 \in TlsPointers(img)
    BY <1>2, <1>3 DEF TlsPointers
  <1>5. ~Relocated(img.tls.dir + 3) \/ ~Relocated(img.tls.table + i - 1)
    BY DEF RunCallback, Fault, Stop
  <1> QED
    BY <1>1, <1>2, <1>4, <1>5, PointersRelocated

(* Before the pages are protected nothing the loader stores to can trap.    *)
LEMMA NoEarlyFaults ==
  ASSUME TypeOK, ProtectInv, pc \in Working, Fault, [Next]_vars, ~MapFails
  PROVE  (pc = "tls" /\ SetupTls) \/ (pc = "callbacks" /\ RunCallback)
  <1>1. Step = pc /\ pc' = "faulted" /\ ~UNCHANGED vars
    BY DEF Step, Working, Ended, Fault, Stop, vars, control
  <1>2. pc \in {"sections", "relocs", "imports"} => \A r \in Rva : CanWrite(r)
    BY <1>1 DEF ProtectInv
  <1>3. CASE ApplyDir64
    BY <1>2, <1>3, <1>1, EntryIsSite DEF ApplyDir64, AtReloc
  <1>4. CASE RelocsDone
    BY <1>1, <1>2, <1>4, DataAssumption DEF RelocsDone, Goto, Rva
  <1>5. CASE BindThunk
    <2>1. i \in 1..Len(img.imports) /\ j \in 1..Len(img.imports[i].thunks)
      BY <1>5, ImgInImages, ImportTypes DEF BindThunk, TypeOK
    <2>2. img.imports[i].thunks[j].iat \in Rva
      BY <2>1, ImgInImages, ImportTypes DEF Thunk
    <2> QED
      BY <1>1, <1>2, <1>5, <2>2 DEF BindThunk, Abort, Stop
  <1>6. CASE NextDescriptor
    <2>1. i \in 1..Len(img.imports)
      BY <1>6, ImgInImages, ImportTypes DEF NextDescriptor, TypeOK
    <2>2. img.imports[i].at \in Rva
      BY <2>1, ImgInImages, ImportTypes
    <2> QED
      BY <1>1, <1>2, <1>6, <2>2 DEF NextDescriptor, Abort, Stop
  <1>7. CASE SetupTls \/ RunCallback
    <2>1. SetupTls => pc = "tls"
      BY DEF SetupTls
    <2>2. RunCallback => pc = "callbacks"
      BY DEF RunCallback
    <2> QED
      BY <1>7, <2>1, <2>2
  <1>8. CASE OpenFails \/ HeadersFail \/ AllocFails \/ SectionMisplaced \/ UnknownReloc
             \/ NextRelocBlock \/ ProtectFails \/ TlsAllocFails
    BY <1>1, <1>8 DEF OpenFails, HeadersFail, AllocFails, SectionMisplaced, UnknownReloc,
         NextRelocBlock, ProtectFails, TlsAllocFails, Abort, Stop, Working
  <1>9. CASE CopyHeaders \/ CopySection \/ SectionsDone \/ SkipAbsolute \/ ProtectHeaders
             \/ ProtectSection \/ Register \/ NoTls \/ CallbacksDone
    BY <1>1, <1>9 DEF CopyHeaders, CopySection, SectionsDone, SkipAbsolute, AtReloc, ProtectHeaders,
         ProtectSection, Register, NoTls, CallbacksDone, Goto, Abort, Stop, Working
  <1>10. CASE CodeStep
    <2>1. CASE \E l \in Loads : \E q \in file[l].lookups : ImageLookup(l, q)
      BY <1>1, <2>1 DEF ImageLookup, control, Abort, Stop, Working
    <2>2. CASE EntryReturns \/ EntryTerminates
      BY <1>1, <2>2 DEF EntryReturns, EntryTerminates, Abort, Stop, Working
    <2> QED
      BY <1>10, <2>1, <2>2 DEF CodeStep
  <1>11. ~Done
    BY <1>1 DEF Done
  <1> QED
    BY <1>1, <1>3, <1>4, <1>5, <1>6, <1>7, <1>8, <1>9, <1>10, <1>11 DEF Next, LoadStep

(* Callbacks are run only for an image with a TLS directory.                *)
CallbacksInv == Step = "callbacks" => HasTls(img)

LEMMA CallbacksStep == TypeOK /\ CallbacksInv /\ [Next]_vars => CallbacksInv'
  BY OthersUntouched, StepOrder DEF CallbacksInv, SetupTls, img

LEMMA FaultsStep ==
  ASSUME TypeOK, ContentInv, RebaseInv, ProtectInv, CallbacksInv, OnlyTlsIndexTraps, [Next]_vars
  PROVE  OnlyTlsIndexTraps'
  <1> SUFFICES ASSUME pc' = "faulted"
               PROVE  \/ why' = "open" /\ img'.kind = "empty"
                      \/ why' = "tls" /\ ~InWritable(img', img'.tls.index)
                      \/ why' \in {"tls", "callbacks"} /\ ~TlsPointers(img') \subseteq Slots(img')
    BY DEF OnlyTlsIndexTraps
  <1>1. CASE pc \notin Working
    <2>1. UNCHANGED vars
      BY <1>1 DEF Next, LoadStep, CodeStep, Done, OpenFails, MapFails, HeadersFail, AllocFails,
         CopyHeaders, CopySection, SectionMisplaced, SectionsDone, SkipAbsolute, ApplyDir64,
         UnknownReloc, AtReloc, NextRelocBlock, RelocsDone, BindThunk, NextDescriptor,
         ProtectHeaders, ProtectSection, ProtectFails, Register, NoTls, SetupTls, TlsAllocFails,
         RunCallback, CallbacksDone, ImageLookup, CodeRuns, EntryReturns, EntryTerminates, Working
    <2> QED
      BY <2>1 DEF vars, control, img, OnlyTlsIndexTraps
  <1>2. CASE pc \in Working
    <2>1. Fault
      BY <1>2 DEF Next, LoadStep, CodeStep, Done, OpenFails, MapFails, HeadersFail, AllocFails,
         CopyHeaders, CopySection, SectionMisplaced, SectionsDone, SkipAbsolute, ApplyDir64,
         UnknownReloc, AtReloc, NextRelocBlock, RelocsDone, BindThunk, NextDescriptor,
         ProtectHeaders, ProtectSection, ProtectFails, Register, NoTls, SetupTls, InstallTls,
         TlsAllocFails, RunCallback, CallbacksDone, ImageLookup, EntryReturns, EntryTerminates,
         Working, Ended, Abort, Stop, Goto, vars, control
    <2>2. img' = img /\ why' = pc
      BY <2>1 DEF Fault, Stop, img
    <2>3. CASE MapFails
      BY <2>2, <2>3 DEF MapFails
    <2>4. CASE pc = "tls" /\ SetupTls
      BY <1>2, <2>1, <2>2, <2>4, TlsFaults
    <2>5. CASE pc = "callbacks" /\ RunCallback
      <3>1. HasTls(img)
        BY <2>5 DEF CallbacksInv, Step, Ended
      <3> QED
        BY <1>2, <2>1, <2>2, <2>5, <3>1, CallbackFaults
    <2> QED
      BY <1>2, <2>1, <2>3, <2>4, <2>5, NoEarlyFaults
  <1> QED
    BY <1>1, <1>2

-----------------------------------------------------------------------------
(* Thread-local storage                                                     *)

HasIndex(l) == Past(l, AfterTls) /\ HasTls(file[l])
IndexCell(l) == mem[l][file[l].tls.index]

(* The template of l is in tls_array[] under x.                             *)
TemplateAt(l, x) ==
  \A r \in (file[l].tls.start .. file[l].tls.last) \ {file[l].tls.index} :
    tlsArray[x][r - file[l].tls.start + 1] = mem[l][r]

TlsInv ==
  /\ \A l \in Loads : HasIndex(l) =>
       /\ gs
       /\ IndexCell(l).tag = "tlsindex"
       /\ IndexCell(l).arg < tlsIndex
       /\ TemplateAt(l, IndexCell(l).arg)
  /\ \A k, l \in Loads : HasIndex(k) /\ HasIndex(l) /\ k # l =>
       IndexCell(k).arg # IndexCell(l).arg

LEMMA TlsChanges ==
  ASSUME TypeOK, [Next]_vars
  PROVE  UNCHANGED tls \/ (SetupTls /\ Runs)
  <1>1. CASE Quiet
    BY <1>1 DEF Quiet
  <1>2. CASE Runs /\ Advance
    BY <1>2 DEF Advance, CopyHeaders, CopySection, SectionsDone, SkipAbsolute, ApplyDir64,
         NextRelocBlock, RelocsDone, BindThunk, NextDescriptor, ProtectHeaders, ProtectSection,
         Register, NoTls, RunCallback, CallbacksDone, ImageLookup, EntryReturns, Abort, Fault
  <1> QED
    BY <1>1, <1>2, StepCases

(* From the moment its own code may run, no store of the loader reaches an  *)
(* image.                                                                   *)
LEMMA SettledMemory ==
  ASSUME TypeOK, [Next]_vars, NEW l \in Loads, Past(l, AfterTls)
  PROVE  mem'[l] = mem[l]
  <1>1. CASE l # load
    BY <1>1, OthersUntouched
  <1>2. CASE l = load
    <2>1. Step \in AfterTls
      BY <1>2 DEF Past, TypeOK, Loads
    <2>2. Step \in AfterSections /\ Step \notin {"relocs", "imports", "tls"}
      BY <2>1 DEF AfterTls, AfterSections
    <2> QED
      BY <2>2, Stores DEF StoreReloc, StoreBase, StoreImport, StoreMark, StoreIndex
  <1> QED
    BY <1>1, <1>2

LEMMA TlsInstalled ==
  ASSUME TypeOK, SetupTls, Runs
  PROVE  /\ load \in Loads /\ img \in Images /\ HasTls(img) /\ Step = "tls"
         /\ tlsIndex' = tlsIndex + 1 /\ gs' = TRUE /\ load' = load /\ file' = file
         /\ mem'[load][img.tls.index] = TlsIndex(tlsIndex)
         /\ \A r \in Rva \ {img.tls.index} : mem'[load][r] = mem[load][r]
         /\ \A l \in Loads \ {load} : mem'[l] = mem[l]
         /\ \A x \in TlsSlots \ {tlsIndex} : tlsArray'[x] = tlsArray[x]
         /\ tlsArray'[tlsIndex] = [n \in 1 .. (img.tls.last - img.tls.start + 1) |->
                                     mem[load][img.tls.start + n - 1]]
  <1>1. load \in Loads /\ img \in Images /\ HasTls(img) /\ Step = "tls"
    BY ImgInImages, RunsStep DEF TypeOK, SetupTls
  <1>2. InstallTls(tlsIndex + 1)
    BY DEF SetupTls, Runs, Working, Abort, Fault, Stop
  <1>3. img.tls.index \in Rva
    BY <1>1, TlsCells
  <1>4. mem' = [mem EXCEPT ![load][img.tls.index] = TlsIndex(tlsIndex)]
    BY <1>2 DEF InstallTls, Write
  <1>5. /\ mem'[load][img.tls.index] = TlsIndex(tlsIndex)
        /\ \A r \in Rva \ {img.tls.index} : mem'[load][r] = mem[load][r]
        /\ \A l \in Loads \ {load} : mem'[l] = mem[l]
    BY <1>1, <1>3, <1>4 DEF TypeOK
  <1>6. tlsArray' = [tlsArray EXCEPT ![tlsIndex] =
                       [n \in 1 .. (img.tls.last - img.tls.start + 1) |->
                          mem[load][img.tls.start + n - 1]]]
    BY <1>2 DEF InstallTls
  <1>7. tlsIndex \in TlsSlots /\ DOMAIN tlsArray = TlsSlots
    BY DEF TypeOK
  <1> QED
    BY <1>1, <1>2, <1>5, <1>6, <1>7 DEF InstallTls, Goto

LEMMA IndexTypes ==
  ASSUME TypeOK, NEW l \in Loads, HasTls(file[l])
  PROVE  IndexCell(l).arg \in Nat
  <1>1. file[l] \in Images
    BY DEF TypeOK
  <1>2. file[l].tls.index \in Rva
    BY <1>1, TlsCells
  <1>3. IndexCell(l) \in Cell
    BY <1>2 DEF TypeOK, IndexCell
  <1> QED
    BY <1>3 DEF Cell

LEMMA TlsStep ==
  ASSUME TypeOK, TlsInv, [Next]_vars
  PROVE  TlsInv'
  <1>1. file' = file
    BY OthersUntouched
  <1>2. CASE UNCHANGED tls
    <2>1. ASSUME NEW l \in Loads, HasIndex(l)'
          PROVE  HasIndex(l) /\ mem'[l] = mem[l]
      <3>1. Past(l, AfterTls)
        <4>1. ~(SetupTls /\ Runs)
          <5>1. tlsIndex' = tlsIndex /\ tlsIndex \in Nat
            BY <1>2, SizeAssumption DEF TypeOK, TlsSlots, tls
          <5>2. SetupTls /\ Runs => tlsIndex' = tlsIndex + 1
            BY TlsInstalled
          <5> QED
            BY <5>1, <5>2
        <4> QED
          BY <1>1, <2>1, <4>1, PastNew DEF HasIndex, NoTls, img
      <3> QED
        BY <1>1, <2>1, <3>1, SettledMemory DEF HasIndex
    <2>2. ASSUME NEW l \in Loads, HasIndex(l)'
          PROVE  IndexCell(l)' = IndexCell(l)
      BY <1>1, <2>1, <2>2 DEF IndexCell
    <2>3. ASSUME NEW l \in Loads, HasIndex(l)', TemplateAt(l, IndexCell(l).arg)
          PROVE  TemplateAt(l, IndexCell(l).arg)'
      BY <1>1, <1>2, <2>1, <2>2, <2>3 DEF TemplateAt, tls
    <2> QED
      BY <1>2, <2>1, <2>2, <2>3 DEF TlsInv, tls
  <1>3. CASE SetupTls /\ Runs
    <2>1. ASSUME NEW l \in Loads, HasIndex(l)', l # load
          PROVE  HasIndex(l) /\ mem'[l] = mem[l]
      BY <1>1, <1>3, <2>1, PastNew, TlsInstalled DEF HasIndex
    <2>2. ASSUME NEW l \in Loads, HasIndex(l)', l # load
          PROVE  /\ IndexCell(l)' = IndexCell(l)
                 /\ IndexCell(l).arg \in Nat /\ IndexCell(l).arg < tlsIndex
                 /\ tlsArray'[IndexCell(l).arg] = tlsArray[IndexCell(l).arg]
      <3>1. HasIndex(l) /\ mem'[l] = mem[l] /\ IndexCell(l).arg < tlsIndex
        BY <2>1, <2>2 DEF TlsInv
      <3>2. IndexCell(l).arg \in Nat
        BY <3>1, IndexTypes DEF HasIndex
      <3>3. IndexCell(l).arg \in TlsSlots \ {tlsIndex}
        BY <3>1, <3>2, SizeAssumption DEF TypeOK, TlsSlots
      <3> QED
        BY <1>1, <1>3, <3>1, <3>2, <3>3, TlsInstalled DEF IndexCell
    <2>3. /\ \A l \in Loads : l = load => IndexCell(l)' = TlsIndex(tlsIndex)
          /\ gs' = TRUE /\ tlsIndex' = tlsIndex + 1
          /\ tlsIndex \in Nat
      <3>1. tlsIndex \in Nat
        BY SizeAssumption DEF TypeOK, TlsSlots
      <3> QED
        BY <1>1, <1>3, <3>1, TlsInstalled DEF IndexCell, img
    <2>4. TlsIndex(tlsIndex).arg = tlsIndex /\ TlsIndex(tlsIndex).tag = "tlsindex"
      BY DEF TlsIndex
    <2>5. ASSUME NEW r \in (img.tls.start .. img.tls.last) \ {img.tls.index}
          PROVE  tlsArray'[tlsIndex][r - img.tls.start + 1] = mem'[load][r]
      <3>1. /\ img.tls.start \in Rva /\ img.tls.last \in Rva
            /\ tlsArray'[tlsIndex] = [n \in 1 .. (img.tls.last - img.tls.start + 1) |->
                                        mem[load][img.tls.start + n - 1]]
            /\ \A x \in Rva \ {img.tls.index} : mem'[load][x] = mem[load][x]
        BY <1>3, TlsInstalled, TlsCells
      <3> DEFINE n == r - img.tls.start + 1
      <3>2. /\ r \in Rva /\ n \in 1 .. (img.tls.last - img.tls.start + 1)
            /\ img.tls.start + n - 1 = r
        <4>1. /\ img.tls.start \in Nat /\ img.tls.last \in Nat /\ img.tls.last <= MaxRva
              /\ MaxRva \in Nat /\ r \in img.tls.start .. img.tls.last
          BY <2>5, <3>1, DataAssumption DEF Rva
        <4>2. /\ r \in Nat /\ r <= img.tls.last
              /\ n \in 1 .. (img.tls.last - img.tls.start + 1)
              /\ img.tls.start + n - 1 = r
          BY <4>1, PlaceInTemplate
        <4>3. r <= MaxRva
          <5> HIDE DEF n
          <5> QED BY <4>1, <4>2
        <4> QED BY <4>1, <4>2, <4>3 DEF Rva
      <3> HIDE DEF n
      <3>3. tlsArray'[tlsIndex][n] = mem[load][r]
        BY <3>1, <3>2
      <3> QED
        BY <3>1, <3>2, <3>3 DEF n
    <2>6. ASSUME NEW l \in Loads, HasIndex(l)'
          PROVE  /\ gs'
                 /\ IndexCell(l)'.tag = "tlsindex"
                 /\ IndexCell(l)'.arg < tlsIndex'
                 /\ TemplateAt(l, IndexCell(l).arg)'
      <3>1. CASE l = load
        <4>1. IndexCell(l)'.arg = tlsIndex /\ IndexCell(l)'.tag = "tlsindex"
          BY <2>3, <2>4, <3>1
        <4>2. TemplateAt(l, IndexCell(l).arg)'
          BY <1>1, <2>5, <3>1, <4>1 DEF TemplateAt, img
        <4> QED
          BY <2>3, <4>1, <4>2
      <3>2. CASE l # load
        <4>1. TlsInv => TemplateAt(l, IndexCell(l).arg)
          BY <2>1, <2>6, <3>2 DEF TlsInv
        <4>2. TemplateAt(l, IndexCell(l).arg)'
          BY <1>1, <2>1, <2>2, <2>6, <3>2, <4>1 DEF TemplateAt
        <4>3. IndexCell(l).tag = "tlsindex"
          BY <2>1, <2>6, <3>2 DEF TlsInv
        <4> QED
          BY <2>2, <2>3, <2>6, <3>2, <4>2, <4>3
      <3> QED
        BY <3>1, <3>2
    <2>7. ASSUME NEW k \in Loads, NEW l \in Loads, HasIndex(k)', HasIndex(l)', k # l
          PROVE  IndexCell(k)'.arg # IndexCell(l)'.arg
      <3>1. CASE k # load /\ l # load
        <4>1. IndexCell(k).arg # IndexCell(l).arg
          BY <2>1, <2>7, <3>1 DEF TlsInv
        <4> QED
          BY <2>2, <2>7, <3>1, <4>1
      <3>2. CASE k = load
        BY <2>2, <2>3, <2>4, <2>7, <3>2
      <3>3. CASE l = load
        BY <2>2, <2>3, <2>4, <2>7, <3>3
      <3> QED
        BY <3>1, <3>2, <3>3
    <2> QED
      BY <2>6, <2>7 DEF TlsInv
  <1> QED
    BY <1>2, <1>3, TlsChanges

-----------------------------------------------------------------------------
(* Imports and lookups: what the resolver answered stays its answer         *)

LEMMA AnswerIsOne ==
  ASSUME NEW table, NEW files, NEW q, DOMAIN table \subseteq Nat,
         NEW m \in Answer(table, files, q), NEW n \in Answer(table, files, q)
  PROVE  m = n
  <1>1. m \in Nat /\ n \in Nat /\ m \in Named(table, q) /\ n \in Named(table, q)
    BY DEF Answer, Named
  <1>2. ~(n < m) /\ ~(m < n)
    BY <1>1 DEF Answer
  <1> QED
    BY <1>1, <1>2

(* The only change to modules[] is a new entry behind all the others.       *)
LEMMA TableGrows ==
  ASSUME TypeOK, ModuleTableDense, [Next]_vars
  PROVE  \/ modules' = modules
         \/ \E m \in ModuleIdx :
              /\ modules[m] = NoModule
              /\ \A n \in ModuleIdx : n < m => modules[n] # NoModule /\ modules'[n] = modules[n]
              /\ \A n \in ModuleIdx : n # m => modules'[n] = modules[n]
              /\ DOMAIN modules' = ModuleIdx
  <1>1. CASE Quiet
    BY <1>1 DEF Quiet
  <1>2. CASE Runs /\ Advance /\ ~Register
    BY <1>2 DEF Advance, CopyHeaders, CopySection, SectionsDone, SkipAbsolute, ApplyDir64,
         NextRelocBlock, RelocsDone, BindThunk, NextDescriptor, ProtectHeaders, ProtectSection,
         NoTls, SetupTls, InstallTls, RunCallback, CallbacksDone, ImageLookup, EntryReturns,
         Abort, Fault
  <1>3. CASE Runs /\ Register
    <2>1. PICK m \in FreeEntries :
            /\ \A n \in FreeEntries : m <= n
            /\ modules' = [modules EXCEPT ![m] = [name |-> img.name, load |-> load]]
      BY <1>3 DEF Register, Runs, Working, Abort, Stop
    <2>2. m \in ModuleIdx /\ modules[m] = NoModule /\ m \in Nat
      BY <2>1, SizeAssumption DEF FreeEntries, ModuleIdx
    <2>3. ASSUME NEW n \in ModuleIdx, n < m
          PROVE  modules[n] # NoModule
      <3>1. n \in Nat /\ ~(m <= n)
        BY <2>2, <2>3, SizeAssumption DEF ModuleIdx
      <3> QED
        BY <2>1, <3>1 DEF FreeEntries
    <2>4. DOMAIN modules = ModuleIdx
      BY DEF TypeOK
    <2>5. \A n \in ModuleIdx : n # m => modules'[n] = modules[n]
      BY <2>1, <2>2, <2>4
    <2>6. \A n \in ModuleIdx : n < m => n # m
      BY <2>2, SizeAssumption DEF ModuleIdx
    <2> QED
      BY <2>1, <2>2, <2>3, <2>4, <2>5, <2>6
  <1> QED
    BY <1>1, <1>2, <1>3, StepCases

(* So what the resolver answers once, it answers for ever.                  *)
LEMMA AnswersKept ==
  ASSUME TypeOK, ModuleTableDense, [Next]_vars, NEW q, NEW c, Resolve(q) = {c}
  PROVE  Resolve(q)' = {c} /\ modules'[c] = modules[c] /\ c \in ModuleIdx
  <1>1. file' = file /\ DOMAIN modules = ModuleIdx
    BY OthersUntouched DEF TypeOK
  <1>2. c \in Answer(modules, file, q)
    BY DEF Resolve
  <1>3. c \in Named(modules, q) /\ c \in ModuleIdx /\ c \in Nat
    BY <1>1, <1>2, SizeAssumption DEF Answer, Named, ModuleIdx
  <1>4. CASE modules' = modules
    BY <1>1, <1>3, <1>4 DEF Resolve
  <1>5. CASE \E m \in ModuleIdx :
              /\ modules[m] = NoModule
              /\ \A n \in ModuleIdx : n < m => modules[n] # NoModule /\ modules'[n] = modules[n]
              /\ \A n \in ModuleIdx : n # m => modules'[n] = modules[n]
              /\ DOMAIN modules' = ModuleIdx
    <2>1. PICK m \in ModuleIdx :
              /\ modules[m] = NoModule
              /\ \A n \in ModuleIdx : n < m => modules[n] # NoModule /\ modules'[n] = modules[n]
              /\ \A n \in ModuleIdx : n # m => modules'[n] = modules[n]
              /\ DOMAIN modules' = ModuleIdx
      BY <1>5
    <2>2. m \in Nat /\ \A n \in ModuleIdx : n \in Nat /\ 1 <= n /\ 1..n \subseteq ModuleIdx
      BY SizeAssumption DEF ModuleIdx
    <2>3. c < m
      <3>1. \A n \in 1..c : modules[n] # NoModule
        BY <1>3 DEF Named
      <3>2. ~(m \in 1..c)
        BY <2>1, <3>1
      <3> QED
        BY <1>3, <2>2, <3>2
    <2>4. ASSUME NEW n \in ModuleIdx, n < m
          PROVE  n \in Named(modules, q) <=> n \in Named(modules', q)
      <3>1. \A k \in 1..n : k \in ModuleIdx /\ k < m
        BY <2>2, <2>4
      <3>2. \A k \in 1..n : modules[k] # NoModule /\ modules'[k] = modules[k]
        BY <2>1, <3>1
      <3>3. modules'[n] = modules[n] /\ n \in DOMAIN modules /\ n \in DOMAIN modules'
        BY <1>1, <2>1, <2>4
      <3> QED
        BY <3>2, <3>3 DEF Named
    <2>5. c \in Answer(modules', file, q)
      <3>1. modules'[c] = modules[c] /\ c \in Named(modules', q)
        BY <1>3, <2>1, <2>3, <2>4
      <3>2. ASSUME NEW n \in Named(modules', q), n < c
            PROVE  ~GivesUp(modules'[n], file, q) /\ ~HasExport(modules'[n], file, q)
        <4>1. n \in ModuleIdx /\ n < m
          BY <1>3, <2>1, <2>2, <2>3, <3>2 DEF Named
        <4>2. n \in Named(modules, q) /\ modules'[n] = modules[n]
          BY <2>1, <2>4, <3>2, <4>1
        <4> QED
          BY <1>2, <3>2, <4>2 DEF Answer
      <3> QED
        BY <1>2, <3>1, <3>2 DEF Answer
    <2>6. \A n \in Answer(modules', file, q) : n = c
      <3>1. DOMAIN modules' \subseteq Nat
        BY <2>1, <2>2
      <3> QED
        BY <2>5, <3>1, AnswerIsOne
    <2> QED
      BY <1>1, <1>3, <2>1, <2>3, <2>5, <2>6 DEF Resolve
  <1> QED
    BY <1>4, <1>5, TableGrows

LEMMA EntriesRegistered ==
  ASSUME TypeOK, ModuleTableDense, NEW m \in ModuleIdx
  PROVE  /\ modules[m].load \in Loads \cup {0}
         /\ modules[m].load = 0 \/ (modules[m].load \in Loads /\ Registered(modules[m].load))
  <1>1. NBuiltins \in Nat /\ MaxModules \in Nat
    BY BuiltinNames, SizeAssumption DEF NBuiltins
  <1>2. CASE m \in 1..NBuiltins
    <2>1. modules[m] = [name |-> Builtins[m], load |-> 0]
      BY <1>2 DEF ModuleTableDense
    <2> QED
      BY <2>1
  <1>3. CASE m \in (NBuiltins + 1)..MaxModules
    <2> DEFINE l == m - NBuiltins
    <2>1. modules[m] = IF l \in Loads /\ Registered(l)
                         THEN [name |-> file[l].name, load |-> l] ELSE NoModule
      BY <1>3 DEF ModuleTableDense
    <2> HIDE DEF l
    <2>2. CASE l \in Loads /\ Registered(l)
      <3>1. modules[m].load = l
        BY <2>1, <2>2
      <3> QED
        BY <2>2, <3>1
    <2>3. CASE ~(l \in Loads /\ Registered(l))
      <3>1. modules[m].load = 0
        BY <2>1, <2>3 DEF NoModule
      <3> QED
        BY <3>1
    <2> QED
      BY <2>2, <2>3
  <1> QED
    BY <1>1, <1>2, <1>3 DEF ModuleIdx

(* Thunk x of image l is bound for good, to a module before the image.      *)
Settled(l, x) ==
  LET c == mem[l][x.thunk.iat]
      q == [dll |-> x.dll, sym |-> x.thunk.sym, ordinal |-> x.thunk.ordinal]
  IN  /\ c.tag = "import"
      /\ Resolve(q) = {c.arg}
      /\ modules[c.arg].load < l

BoundInv ==
  /\ Step = "imports" =>
       /\ i <= Len(img.imports) + 1
       /\ \A d \in 1..Len(img.imports) : \A t \in 1..Len(img.imports[d].thunks) :
            Reached(<<d, t>>) => Settled(load, ThunkAt(img, d, t))
  /\ \A l \in Loads : Past(l, AfterImports) =>
       \A x \in Thunks(file[l]) : Settled(l, x)

LEMMA BindSettles ==
  ASSUME TypeOK, ModuleTableDense, BindThunk, Runs, NEW l \in Loads, l = load, NEW x,
         x = ThunkAt(img, i, j)
  PROVE  Settled(l, x)'
  <1> DEFINE q == [dll |-> x.dll, sym |-> x.thunk.sym, ordinal |-> x.thunk.ordinal]
  <1>1. /\ i \in 1..Len(img.imports) /\ j \in 1..Len(img.imports[i].thunks)
        /\ img \in Images
    BY ImgInImages, ImportTypes DEF BindThunk, TypeOK
  <1>2. x.dll = img.imports[i].dll /\ x.thunk = img.imports[i].thunks[j] /\ x.thunk.iat \in Rva
    BY <1>1, ImportTypes DEF ThunkAt, Thunk
  <1>3. PICK m \in Resolve(q) : Write(x.thunk.iat, Import(m))
    BY <1>2 DEF BindThunk, Runs, Working, Abort, Fault, Stop
  <1>4. file' = file /\ modules' = modules
    BY DEF BindThunk, Abort, Fault
  <1>5. mem'[l][x.thunk.iat] = Import(m)
    BY <1>2, <1>3 DEF Write, TypeOK
  <1>6. Resolve(q) = {m}
    <2>1. DOMAIN modules \subseteq Nat
      BY SizeAssumption DEF TypeOK, ModuleIdx
    <2> QED
      BY <1>3, <2>1, AnswerIsOne DEF Resolve
  <1>7. modules[m].load < l
    <2>1. m \in ModuleIdx /\ Step = "imports"
      BY ResolveType, RunsStep DEF BindThunk
    <2>2. modules[m].load = 0 \/ modules[m].load < load
      BY <2>1, EntriesRegistered DEF Registered
    <2> QED
      BY <2>2, SizeAssumption DEF Loads
  <1> HIDE DEF q
  <1>8. Import(m).tag = "import" /\ Import(m).arg = m
    BY DEF Import
  <1>9. Resolve(q)' = {m}
    BY <1>4, <1>6 DEF Resolve
  <1> QED
    BY <1>4, <1>5, <1>7, <1>8, <1>9 DEF Settled, q

(* Nothing the loader does later touches the entry of a bound thunk.        *)
LEMMA SettledKept ==
  ASSUME TypeOK, ModuleTableDense, [Next]_vars, NEW l \in Loads, NEW x \in Thunks(file[l]),
         Settled(l, x), l # load \/ Step \in AfterImports \cup {"imports"}
  PROVE  Settled(l, x)'
  <1> DEFINE q == [dll |-> x.dll, sym |-> x.thunk.sym, ordinal |-> x.thunk.ordinal]
             a == x.thunk.iat
  <1>1. file[l] \in Images /\ LinkerMade(file[l])
    BY DataAssumption DEF TypeOK
  <1>2. a \in Rva /\ a \in IatCells(file[l])
    BY <1>1, ThunksAreAt
  <1>3. mem[l][a].tag = "import" /\ Resolve(q) = {mem[l][a].arg} /\ modules[mem[l][a].arg].load < l
    BY DEF Settled
  <1> HIDE DEF q, a
  <1>4. /\ Resolve(q)' = {mem[l][a].arg}
        /\ modules'[mem[l][a].arg] = modules[mem[l][a].arg]
    <2> DEFINE c == mem[l][a].arg
    <2>1. Resolve(q) = {c}
      BY <1>3
    <2> HIDE DEF c
    <2>2. Resolve(q)' = {c} /\ modules'[c] = modules[c]
      BY <2>1, AnswersKept
    <2> QED
      BY <2>2 DEF c
  <1>5. CASE mem'[l][a] = mem[l][a]
    BY <1>3, <1>4, <1>5 DEF Settled, q, a
  <1>6. CASE l # load
    BY <1>5, <1>6, OthersUntouched
  <1>7. CASE l = load /\ Step \in AfterImports \cup {"imports"}
    <2>1. Step \in AfterSections /\ Step # "relocs" /\ file[l] = img
      BY <1>7 DEF AfterImports, AfterSections, img
    <2>2. CASE mem' = mem
      BY <1>5, <2>2
    <2>3. ASSUME NEW r \in Rva, NEW m \in ModuleIdx, StoreImport(r, m)
          PROVE  Settled(l, x)'
      <3>1. BindThunk /\ Runs /\ r = img.imports[i].thunks[j].iat /\ Write(r, Import(m))
        BY <2>3 DEF StoreImport
      <3>2. CASE x = ThunkAt(img, i, j)
        BY <1>7, <3>1, <3>2, BindSettles
      <3>3. CASE x # ThunkAt(img, i, j)
        <4>1. i \in 1..Len(img.imports) /\ j \in 1..Len(img.imports[i].thunks)
          BY <3>1, ImgInImages, ImportTypes DEF BindThunk, TypeOK
        <4>2. ThunkAt(img, i, j) \in Thunks(img) /\ ThunkAt(img, i, j).thunk.iat = r
          BY <3>1, <4>1, ImgInImages, ThunkIsOne DEF ThunkAt
        <4>3. a # r
          BY <1>1, <2>1, <3>3, <4>2 DEF LinkerMade, a
        <4> QED
          BY <1>2, <1>5, <1>7, <3>1, <4>3 DEF Write, TypeOK
      <3> QED
        BY <3>2, <3>3
    <2>4. ASSUME NEW r \in Rva, StoreMark(r)
          PROVE  Settled(l, x)'
      <3>1. a # r
        BY <1>1, <1>2, <2>1, <2>4 DEF StoreMark, LinkerMade
      <3> QED
        BY <1>2, <1>5, <1>7, <2>4, <3>1 DEF StoreMark, Write, TypeOK
    <2>5. CASE StoreIndex
      <3>1. a # img.tls.index
        BY <1>1, <1>2, <2>1, <2>5 DEF StoreIndex, LinkerMade
      <3> QED
        BY <1>2, <1>5, <1>7, <2>5, <3>1 DEF StoreIndex, Write, TypeOK
    <2> QED
      BY <2>1, <2>2, <2>3, <2>4, <2>5, Stores DEF StoreReloc, StoreBase
  <1> QED
    BY <1>6, <1>7

(* How the import loop moves on.                                            *)
LEMMA ImportLoop ==
  ASSUME TypeOK, [Next]_vars, Step = "imports", Step' = "imports"
  PROVE  \/ i' = i /\ j' = j
         \/ BindThunk /\ Runs /\ i' = i /\ j' = j + 1
         \/ NextDescriptor /\ Runs /\ i' = i + 1 /\ j' = 1
  <1>1. CASE Quiet
    BY <1>1 DEF Quiet
  <1>2. CASE Runs /\ Advance
    <2>1. pc = "imports" /\ pc' = "imports" /\ pc' \notin Ended
      BY <1>2, RunsStep DEF Ended
    <2>2. CASE BindThunk
      BY <1>2, <2>1, <2>2 DEF BindThunk, Abort, Fault, Stop
    <2>3. CASE NextDescriptor
      BY <1>2, <2>1, <2>3 DEF NextDescriptor, Abort, Fault, Stop
    <2> QED
      BY <1>2, <2>1, <2>2, <2>3
         DEF Advance, CopyHeaders, CopySection, SectionsDone, SkipAbsolute, ApplyDir64, AtReloc,
             NextRelocBlock, RelocsDone, ProtectHeaders, ProtectSection, Register, NoTls,
             SetupTls, RunCallback, CallbacksDone, ImageLookup, CodeRuns, EntryReturns, Goto
  <1> QED
    BY <1>1, <1>2, StepCases

LEMMA BoundStep ==
  ASSUME TypeOK, ModuleTableDense, BoundInv, [Next]_vars
  PROVE  BoundInv'
  <1>1. file' = file
    BY OthersUntouched
  <1>2. img \in Images /\ load \in Loads /\ i \in Nat \ {0} /\ j \in Nat \ {0}
        /\ Len(img.imports) \in Nat
    BY ImgInImages, ImportTypes DEF TypeOK
  <1>3. ASSUME Step' = "imports"
        PROVE  /\ i' <= Len(img'.imports) + 1
               /\ \A d \in 1..Len(img'.imports) : \A t \in 1..Len(img'.imports[d].thunks) :
                    Reached(<<d, t>>)' => Settled(load, ThunkAt(img, d, t))'
    <2>1. CASE Step = "relocs"
      <3>1. i' = 1 /\ j' = 1 /\ img' = img
        BY <1>1, <1>3, <2>1, StepOrder
           DEF RelocsDone, Goto, Fault, Stop, Runs, Working, img
      <3>2. \A d \in 1..Len(img.imports) : \A t \in 1..Len(img.imports[d].thunks) :
              ~Reached(<<d, t>>)'
        <4>1. \A d \in 1..Len(img.imports) : Len(img.imports[d].thunks) \in Nat
          BY <1>2, ImportTypes
        <4> QED
          BY <1>2, <3>1, <4>1 DEF Reached
      <3> QED
        BY <1>2, <3>1, <3>2
    <2>2. CASE Step = "imports"
      <3>1. load' = load /\ img' = img
        BY <1>1, <1>3, <2>2, StepOrder DEF img
      <3>2. /\ i <= Len(img.imports) + 1
            /\ \A d \in 1..Len(img.imports) : \A t \in 1..Len(img.imports[d].thunks) :
                 Reached(<<d, t>>) => Settled(load, ThunkAt(img, d, t))
        BY <2>2 DEF BoundInv
      <3>3. i' <= Len(img.imports) + 1
        BY <1>2, <1>3, <2>2, <3>2, ImportLoop DEF NextDescriptor
      <3>4. ASSUME NEW d \in 1..Len(img.imports), NEW t \in 1..Len(img.imports[d].thunks),
                   Reached(<<d, t>>)'
            PROVE  Settled(load, ThunkAt(img, d, t))'
        <4> DEFINE x == ThunkAt(img, d, t)
        <4>1. d \in Nat /\ t \in Nat /\ t <= Len(img.imports[d].thunks)
              /\ Len(img.imports[d].thunks) \in Nat
          BY <1>2, ImportTypes
        <4>2. Reached(<<d, t>>)' <=> (d < i' \/ (d = i' /\ t < j'))
          BY DEF Reached
        <4>3. Reached(<<d, t>>) <=> (d < i \/ (d = i /\ t < j))
          BY DEF Reached
        <4>4. Reached(<<d, t>>) \/ (BindThunk /\ Runs /\ d = i /\ t = j)
          BY <1>2, <1>3, <2>2, <3>4, <4>1, <4>2, <4>3, ImportLoop DEF NextDescriptor
        <4>5. x \in Thunks(img)
          BY <1>2, ThunkIsOne
        <4>6. PICK y : y = x
          OBVIOUS
        <4>7. PICK l \in Loads : l = load
          BY <1>2
        <4>8. Settled(l, y)'
          <5>1. CASE Reached(<<d, t>>)
            <6>1. Settled(l, y) /\ y \in Thunks(file[l])
              BY <3>2, <4>5, <4>6, <4>7, <5>1 DEF img
            <6> QED
              BY <2>2, <6>1, SettledKept
          <5>2. CASE BindThunk /\ Runs /\ d = i /\ t = j
            BY <4>6, <4>7, <5>2, BindSettles
          <5> QED
            BY <4>4, <5>1, <5>2
        <4>9. l = load' /\ y = x'
          BY <3>1, <4>6, <4>7 DEF ThunkAt
        <4> QED
          BY <4>8, <4>9
      <3> QED
        BY <3>1, <3>3, <3>4
    <2> QED
      BY <1>3, <2>1, <2>2, StepOrder
  <1>4. ASSUME NEW l \in Loads, Past(l, AfterImports)', NEW x \in Thunks(file'[l])
        PROVE  Settled(l, x)'
    <2>1. CASE Past(l, AfterImports)
      <3>1. l # load \/ Step \in AfterImports
        BY <1>2, <2>1 DEF Past, Loads
      <3> QED
        BY <1>1, <2>1, <3>1, SettledKept DEF BoundInv
    <2>2. CASE ~Past(l, AfterImports)
      <3>1. l = load /\ Step = "imports" /\ i > Len(img.imports)
        BY <1>4, <2>2, PastNew DEF ProtectHeaders
      <3>2. x \in Thunks(img)
        BY <1>1, <3>1 DEF img
      <3>3. PICK d \in 1..Len(img.imports) : \E t \in 1..Len(img.imports[d].thunks) :
              x = ThunkAt(img, d, t)
        BY <1>2, <3>2, ThunksAreAt
      <3>4. PICK t \in 1..Len(img.imports[d].thunks) : x = ThunkAt(img, d, t)
        BY <3>3
      <3>5. Reached(<<d, t>>)
        BY <1>2, <3>1 DEF Reached
      <3>6. Settled(l, x)
        BY <3>1, <3>4, <3>5 DEF BoundInv
      <3> QED
        BY <1>1, <3>1, <3>2, <3>6, SettledKept
    <2> QED
      BY <2>1, <2>2
  <1> QED
    BY <1>3, <1>4 DEF BoundInv

(* The query GetProcAddress asks for the handle of a module.                *)
AskedOf(q) == [q EXCEPT !.dll = LibraryAlias[q.dll]]

LookupInv ==
  \A p \in procs :
    /\ Resolve(AskedOf(p.query)) = {p.target}
    /\ modules[p.target].load = 0 \/ Prepared(modules[p.target].load)

LEMMA PreparedKept ==
  ASSUME TypeOK, [Next]_vars, NEW l \in Loads, Prepared(l)
  PROVE  Prepared(l)'
  BY PastKept DEF Prepared, Past, AfterTls

LEMMA ProcsChange ==
  ASSUME TypeOK, [Next]_vars
  PROVE  \/ procs' = procs
         \/ \E l \in Loads : \E q \in file[l].lookups :
              ImageLookup(l, q) /\ Runs
  <1>1. CASE Quiet
    BY <1>1 DEF Quiet
  <1>2. CASE Runs /\ Advance
    BY <1>2 DEF Advance, CopyHeaders, CopySection, SectionsDone, SkipAbsolute, ApplyDir64,
         NextRelocBlock, RelocsDone, BindThunk, NextDescriptor, ProtectHeaders, ProtectSection,
         Register, NoTls, SetupTls, InstallTls, RunCallback, CallbacksDone, EntryReturns,
         Abort, Fault
  <1> QED
    BY <1>1, <1>2, StepCases

(* Code runs only when the image it is in, and so every registered one, is  *)
(* prepared.                                                                *)
LEMMA RegisteredArePrepared ==
  ASSUME TypeOK, CodeRuns, NEW l, Registered(l)
  PROVE  Prepared(l)
  BY DEF CodeRuns, Registered, Prepared, Step, Ended

LEMMA LookupAnswers ==
  ASSUME TypeOK, ModuleTableDense, NEW l \in Loads, NEW q \in file[l].lookups,
         ImageLookup(l, q), Runs
  PROVE  \E m \in ModuleIdx :
           /\ procs' = procs \cup {[caller |-> l, query |-> q, target |-> m]}
           /\ Resolve(AskedOf(q)) = {m}
           /\ modules[m].load = 0 \/ Prepared(modules[m].load)
  <1>1. PICK m \in Resolve(AskedOf(q)) :
          procs' = procs \cup {[caller |-> l, query |-> q, target |-> m]}
    <2>1. ~Abort
      BY DEF Runs, Working, Abort, Stop
    <2> QED
      BY <2>1 DEF ImageLookup, AskedOf
  <1>2. m \in ModuleIdx
    BY ResolveType
  <1>3. Resolve(AskedOf(q)) = {m}
    <2>1. DOMAIN modules \subseteq Nat
      BY SizeAssumption DEF TypeOK, ModuleIdx
    <2>2. \A n \in Answer(modules, file, AskedOf(q)) : n = m
      BY <1>1, <2>1, AnswerIsOne DEF Resolve
    <2> QED
      BY <1>1, <2>2 DEF Resolve
  <1>4. modules[m].load = 0 \/ Prepared(modules[m].load)
    BY <1>2, EntriesRegistered, RegisteredArePrepared DEF ImageLookup
  <1> QED
    BY <1>1, <1>2, <1>3, <1>4

LEMMA LookupStep ==
  ASSUME TypeOK, ModuleTableDense, LookupInv, [Next]_vars
  PROVE  LookupInv'
  <1>1. ASSUME NEW q, NEW m \in ModuleIdx, Resolve(q) = {m},
               modules[m].load = 0 \/ Prepared(modules[m].load)
        PROVE  Resolve(q)' = {m} /\ (modules'[m].load = 0 \/ Prepared(modules[m].load)')
    <2>1. Resolve(q)' = {m} /\ modules'[m] = modules[m]
      BY <1>1, AnswersKept
    <2>2. PICK k \in Loads \cup {0} : k = modules[m].load
      BY EntriesRegistered
    <2>3. k # 0 => Prepared(k)'
      BY <1>1, <2>2, PreparedKept
    <2>4. Prepared(modules[m].load)' <=> Prepared(k)'
      BY <2>1, <2>2 DEF Prepared
    <2> QED
      BY <2>1, <2>2, <2>3, <2>4
  <1>2. ASSUME NEW p \in procs
        PROVE  /\ Resolve(AskedOf(p.query))' = {p.target}
               /\ modules'[p.target].load = 0 \/ Prepared(modules[p.target].load)'
    <2>1. p.target \in ModuleIdx
      BY DEF TypeOK
    <2>2. PICK m \in ModuleIdx : m = p.target
      BY <2>1
    <2>3. PICK q : q = AskedOf(p.query)
      OBVIOUS
    <2>4. Resolve(q) = {m} /\ (modules[m].load = 0 \/ Prepared(modules[m].load))
      BY <2>2, <2>3 DEF LookupInv
    <2>5. Resolve(q)' = {m} /\ (modules'[m].load = 0 \/ Prepared(modules[m].load)')
      BY <1>1, <2>4
    <2> QED
      BY <2>2, <2>3, <2>5
  <1>3. CASE procs' = procs
    BY <1>2, <1>3 DEF LookupInv
  <1>4. ASSUME NEW l \in Loads, NEW q \in file[l].lookups, ImageLookup(l, q), Runs
        PROVE  LookupInv'
    <2>1. PICK m \in ModuleIdx :
           /\ procs' = procs \cup {[caller |-> l, query |-> q, target |-> m]}
           /\ Resolve(AskedOf(q)) = {m}
           /\ modules[m].load = 0 \/ Prepared(modules[m].load)
      BY <1>4, LookupAnswers
    <2>2. PICK a : a = AskedOf(q)
      OBVIOUS
    <2>3. Resolve(a)' = {m} /\ (modules'[m].load = 0 \/ Prepared(modules[m].load)')
      BY <1>1, <2>1, <2>2
    <2>4. Resolve(AskedOf(q))' = {m} /\ (modules'[m].load = 0 \/ Prepared(modules[m].load)')
      BY <2>2, <2>3
    <2>5. \A p \in procs' : p \in procs \/ p = [caller |-> l, query |-> q, target |-> m]
      BY <2>1
    <2>6. \A p \in procs' : p \in procs \/ (p.query = q /\ p.target = m)
      BY <2>5
    <2> QED
      BY <1>2, <2>4, <2>6 DEF LookupInv
  <1> QED
    BY <1>3, <1>4, ProcsChange

-----------------------------------------------------------------------------
(* The inductive invariant, and what it says of an image whose code may run *)

LoadInv ==
  /\ TypeOK /\ StopRemembered /\ ModuleTableDense
  /\ LayoutInv /\ ContentInv /\ RebaseInv
  /\ ProtectInv /\ CallbacksInv /\ OnlyTlsIndexTraps
  /\ TlsInv /\ BoundInv /\ LookupInv

LEMMA InitLoadInv == Init => LoadInv
  <1> SUFFICES ASSUME Init PROVE LoadInv
    OBVIOUS
  <1>1. Step = "open" /\ pc = "open"
    BY DEF Init, Step, Ended
  <1>2. \A l \in Loads : /\ ~Past(l, AfterSections) /\ ~Past(l, AfterRelocs)
                         /\ ~Past(l, AfterImports) /\ ~Past(l, AfterProtect)
                         /\ ~Past(l, AfterTls)
    <2>1. \A l \in Loads : ~(l < load)
      BY SizeAssumption DEF Init, Loads
    <2> QED
      BY <1>1, <2>1
         DEF Past, AfterSections, AfterRelocs, AfterImports, AfterProtect, AfterTls
  <1>3. TypeOK /\ ModuleTableDense
    BY InitType, InitDense
  <1>4. LayoutInv /\ ContentInv /\ RebaseInv
    BY <1>1, <1>2 DEF LayoutInv, ContentInv, RebaseInv
  <1>5. ProtectInv /\ CallbacksInv /\ OnlyTlsIndexTraps /\ StopRemembered
    BY <1>1, <1>2 DEF ProtectInv, CallbacksInv, OnlyTlsIndexTraps, StopRemembered, Ended
  <1>6. TlsInv /\ BoundInv /\ LookupInv
    BY <1>1, <1>2 DEF TlsInv, HasIndex, BoundInv, LookupInv, Init
  <1> QED
    BY <1>3, <1>4, <1>5, <1>6 DEF LoadInv

LEMMA LoadInvStep == LoadInv /\ [Next]_vars => LoadInv'
  <1> SUFFICES ASSUME LoadInv, [Next]_vars PROVE LoadInv'
    OBVIOUS
  <1>1. TypeOK' /\ StopRemembered'
    BY NextType, StopRememberedStep DEF LoadInv
  <1>2. ModuleTableDense'
    <2>1. CASE Register
      BY <2>1, RegisterDense DEF LoadInv
    <2>2. CASE ~Register
      BY <2>2, OnlyRegisterRegisters DEF LoadInv, ModuleTableDense
    <2> QED
      BY <2>1, <2>2
  <1>3. LayoutInv' /\ ContentInv' /\ RebaseInv'
    BY LayoutStep, ContentStep, RebaseStep DEF LoadInv
  <1>4. ProtectInv' /\ CallbacksInv' /\ OnlyTlsIndexTraps'
    BY ProtectStep, CallbacksStep, FaultsStep DEF LoadInv
  <1>5. TlsInv' /\ BoundInv' /\ LookupInv'
    BY TlsStep, BoundStep, LookupStep DEF LoadInv
  <1> QED
    BY <1>1, <1>2, <1>3, <1>4, <1>5 DEF LoadInv

LEMMA Loading == Spec => []LoadInv
  BY InitLoadInv, LoadInvStep, PTL DEF Spec

(* An image is prepared when it is behind all the loader does to it.        *)
LEMMA PreparedIsPast ==
  ASSUME NEW l \in Loads, Prepared(l)
  PROVE  /\ Past(l, AfterSections) /\ Past(l, AfterRelocs) /\ Past(l, AfterImports)
         /\ Past(l, AfterProtect) /\ Past(l, AfterTls)
  BY DEF Prepared, Past, AfterSections, AfterRelocs, AfterImports, AfterProtect, AfterTls

(* Every cell of every section of an image holds, before any code of the    *)
(* image runs and as long as the process lives, the bytes the file has for  *)
(* that RVA, zero behind them; the headers are there too.                   *)
THEOREM SectionsAreFaithful == Spec => []SectionsFaithful
  <1>1. LoadInv => SectionsFaithful
    <2> SUFFICES ASSUME LoadInv, NEW l \in Loads, Prepared(l)
                 PROVE  /\ \A n \in DOMAIN file[l].sections :
                             \A r \in SectionCells(file[l].sections[n]) \ Patched(l) :
                               FileOrZero(l, file[l].sections[n], r)
                        /\ \A r \in 0 .. (file[l].headers - 1) : mem[l][r].tag = "file"
      BY DEF SectionsFaithful, FileOrZero
    <2>1. Filled(l, Len(file[l].sections))
      BY PreparedIsPast DEF LoadInv, ContentInv
    <2>2. DOMAIN file[l].sections = 1..Len(file[l].sections)
      BY ImageTypes DEF LoadInv, TypeOK
    <2> QED
      BY <2>1, <2>2 DEF Filled
  <1> QED
    BY <1>1, Loading, PTL

(* base_delta is added exactly once to each DIR64 target and to nothing     *)
(* else but ImageBase, whatever the relocation blocks and their order.      *)
THEOREM RebasesOnce == Spec => []RebasedOnce
  <1>1. LoadInv => RebasedOnce
    BY PreparedIsPast DEF LoadInv, RebaseInv, RebasedOnce
  <1> QED
    BY <1>1, Loading, PTL

(* Every import stays bound to what the resolver answers for it, a built-in *)
(* or an image registered before, whatever is loaded afterwards.            *)
THEOREM ImportsStaySettled == Spec => []ImportsSettled
  <1>1. LoadInv => ImportsSettled
    <2> SUFFICES ASSUME LoadInv, NEW l \in Loads, Prepared(l), NEW x \in Thunks(file[l])
                 PROVE  Settled(l, x)
      BY DEF ImportsSettled, Settled
    <2> QED
      BY PreparedIsPast DEF LoadInv, BoundInv
  <1> QED
    BY <1>1, Loading, PTL

(* The pages of an image have the protection its section headers ask for,   *)
(* its headers are read-only: no mprotect of one section reaches another's. *)
THEOREM PagesAreProtected == Spec => []PagesProtected
  <1>1. LoadInv => PagesProtected
    <2> SUFFICES ASSUME LoadInv, NEW l \in Loads, Prepared(l)
                 PROVE  /\ \A n \in DOMAIN file[l].sections :
                             \A r \in SectionPages(file[l], file[l].sections[n]) :
                               prot[l][r] = Protection(file[l].sections[n])
                        /\ \A r \in HeaderPages(file[l]) : prot[l][r] = {"r"}
      BY DEF PagesProtected
    <2>1. Protected(l, Len(file[l].sections))
      BY PreparedIsPast DEF LoadInv, ProtectInv
    <2>2. DOMAIN file[l].sections = 1..Len(file[l].sections)
      BY ImageTypes DEF LoadInv, TypeOK
    <2> QED
      BY <2>1, <2>2 DEF Protected
  <1> QED
    BY <1>1, Loading, PTL

(* Each image with TLS has an index no other has, its own template under it *)
(* in tls_array[], and GS is set, before a callback of it can run.          *)
THEOREM TlsIsReady == Spec => []TlsReady
  <1>1. LoadInv => TlsReady
    <2> SUFFICES ASSUME LoadInv, NEW l \in Loads, Prepared(l), HasTls(file[l])
                 PROVE  /\ gs
                        /\ IndexCell(l).tag = "tlsindex"
                        /\ \A k \in Loads \ {l} : Prepared(k) /\ HasTls(file[k]) =>
                             IndexCell(k).arg # IndexCell(l).arg
                        /\ TemplateAt(l, IndexCell(l).arg)
      BY DEF TlsReady, IndexCell, TemplateAt
    <2>1. \A k \in Loads : Prepared(k) /\ HasTls(file[k]) => HasIndex(k)
      BY PreparedIsPast DEF HasIndex
    <2> QED
      BY <2>1 DEF LoadInv, TlsInv
  <1> QED
    BY <1>1, Loading, PTL

(* What code got from GetProcAddress it would get again at any later time,  *)
(* from a module whose own code may already run.                            *)
THEOREM LookupsStaySettled == Spec => []LookupsSettled
  <1>1. LoadInv => LookupsSettled
    <2> SUFFICES ASSUME LoadInv, NEW p \in procs
                 PROVE  /\ Resolve(AskedOf(p.query)) = {p.target}
                        /\ modules[p.target].load = 0 \/ Prepared(modules[p.target].load)
      BY DEF LookupsSettled, AskedOf
    <2> QED
      BY DEF LoadInv, LookupInv
  <1> QED
    BY <1>1, Loading, PTL

(* A store of the loader traps only at a TLS index in a section that is not *)
(* writable: everything else is patched before it is protected.             *)
THEOREM OnlyTheTlsIndexTraps == Spec => []OnlyTlsIndexTraps
  <1>1. LoadInv => OnlyTlsIndexTraps
    BY DEF LoadInv
  <1> QED
    BY <1>1, Loading, PTL

-----------------------------------------------------------------------------
(* The promise: what load_pe has accepted so far of an image                *)

TypesKnown(f, b, k) ==
  \A e \in 1..k : f.relocs[b].entries[e].type \in {"absolute", "dir64"}

BlockAccepted(f, b) == f.relocs[b].fits /\ TypesKnown(f, b, Len(f.relocs[b].entries))

(* The thunk is answered by the modules before image l.                     *)
Answered(l, d, t) ==
  Answer(Promise!Table(l - 1), file,
         [dll |-> file[l].imports[d].dll, sym |-> file[l].imports[d].thunks[t].sym,
          ordinal |-> file[l].imports[d].thunks[t].ordinal]) # {}

DescriptorAccepted(l, d) ==
  /\ file[l].imports[d].fits
  /\ \A t \in 1..Len(file[l].imports[d].thunks) : Answered(l, d, t)

(* What SetupTls has found out when the callbacks are run.                  *)
TlsAccepted(l) ==
  LET f == file[l]
  IN  /\ f.tls.supported
      /\ Cardinality({m \in 1..l-1 : HasTls(file[m])}) < MaxTls - 1
      /\ \A p \in {f.tls.dir, f.tls.dir + 1, f.tls.dir + 2} : Promise!FilePointer(f, p)
      /\ InWritable(f, f.tls.index)

(* Code of the current image has been called.                               *)
Started == Step = "entry" \/ (Step = "callbacks" /\ i > 1)

WithTls(n) == {m \in 1..n : HasTls(file[m])}

AcceptInv ==
  /\ load > 1 => file[load - 1].ends = "true"
  /\ Step = "relocs" =>
       /\ i <= Len(img.relocs) + 1
       /\ \A b \in 1..(i - 1) : BlockAccepted(img, b)
       /\ i <= Len(img.relocs) =>
            j <= Len(img.relocs[i].entries) + 1 /\ TypesKnown(img, i, j - 1)
  /\ \A l \in Loads : Past(l, AfterRelocs) =>
       \A b \in 1..Len(file[l].relocs) : BlockAccepted(file[l], b)
  /\ Step = "imports" =>
       /\ \A d \in 1..(i - 1) : DescriptorAccepted(load, d)
       /\ i <= Len(img.imports) =>
            /\ j <= Len(img.imports[i].thunks) + 1
            /\ \A t \in 1..(j - 1) : Answered(load, i, t)
  /\ \A l \in Loads : Past(l, AfterImports) =>
       \A d \in 1..Len(file[l].imports) : DescriptorAccepted(l, d)
  /\ \A l \in Loads : Past(l, AfterProtect) => NBuiltins + l <= MaxModules
  /\ tlsIndex = Cardinality(WithTls(IF Step \in AfterTls THEN load ELSE load - 1))
  /\ Step = "callbacks" => TlsAccepted(load)
  /\ Started => Promise!Loadable(load)

(* The words of PeImage mean the same in the promise.                       *)
LEMMA PromiseWords ==
  /\ \A f : Promise!Thunks(f) = Thunks(f)
  /\ \A f : Promise!HasTls(f) = HasTls(f)
  /\ \A f, r : Promise!RelocSites(f, r) = RelocSites(f, r)
  /\ \A f : Promise!Slots(f) = Slots(f)
  /\ \A f : Promise!FileData(f) = FileData(f)
  /\ \A f, r : Promise!InWritable(f, r) = InWritable(f, r)
  /\ \A f : Promise!Contiguous(f) = Contiguous(f)
  /\ \A t, g, q : Promise!Answer(t, g, q) = Answer(t, g, q)
  /\ Promise!NoModule = NoModule
  /\ \A S : Promise!Cardinality(S) = Cardinality(S)
  <1>1. \A f : Promise!Thunks(f) = Thunks(f)
    BY DEF Promise!Thunks, Thunks
  <1>2. \A f : Promise!HasTls(f) = HasTls(f)
    BY DEF Promise!HasTls, HasTls
  <1>3. \A f, r : Promise!RelocSites(f, r) = RelocSites(f, r)
    BY DEF Promise!RelocSites, RelocSites
  <1>4. \A f : Promise!Slots(f) = Slots(f)
    BY <1>3 DEF Promise!Slots, Slots, Promise!Rva, Rva
  <1>5. \A f : Promise!FileData(f) = FileData(f)
    BY DEF Promise!FileData, FileData, Promise!Copied, Copied
  <1>6. \A a, b : Promise!AlignUp(a, b) = AlignUp(a, b)
    BY DEF Promise!AlignUp, AlignUp
  <1>7. \A f, r : Promise!InWritable(f, r) = InWritable(f, r)
    BY <1>6 DEF Promise!InWritable, InWritable, Promise!SectionPages, SectionPages
  <1>8. \A f : Promise!Contiguous(f) = Contiguous(f)
    BY <1>6 DEF Promise!Contiguous, Contiguous, Promise!ExpectedVa, ExpectedVa
  <1>9. Promise!NoModule = NoModule
    BY DEF Promise!NoModule, NoModule
  <1>10. \A t, q : Promise!Named(t, q) = Named(t, q)
    BY <1>9 DEF Promise!Named, Named
  <1>11. \A e, g, q : Promise!HasExport(e, g, q) = HasExport(e, g, q)
    BY DEF Promise!HasExport, HasExport
  <1>12. \A e, g, q : Promise!GivesUp(e, g, q) = GivesUp(e, g, q)
    BY DEF Promise!GivesUp, GivesUp
  <1>13. \A t, g, q : Promise!Answer(t, g, q) = Answer(t, g, q)
    BY <1>10, <1>11, <1>12 DEF Promise!Answer, Answer
  <1>14. \A S : Promise!Cardinality(S) = Cardinality(S)
    BY DEF Promise!Cardinality, Cardinality
  <1> QED
    BY <1>1, <1>2, <1>3, <1>4, <1>5, <1>7, <1>8, <1>9, <1>13, <1>14

(* Two tables that differ only in empty entries behind give the same        *)
(* answers.                                                                 *)
LEMMA SameAnswers ==
  ASSUME NEW t, NEW u, NEW n \in Nat, NEW m \in Nat, n <= m,
         DOMAIN t = 1..n, DOMAIN u = 1..m,
         \A x \in 1..n : t[x] = u[x],
         \A x \in 1..m : x > n => u[x] = NoModule,
         NEW files, NEW q
  PROVE  Answer(t, files, q) = Answer(u, files, q)
  <1>1. Named(t, q) \subseteq 1..n
    BY DEF Named
  <1>2. ASSUME NEW x \in 1..n
        PROVE  x \in Named(t, q) <=> x \in Named(u, q)
    <2>1. \A y \in 1..x : y \in 1..n /\ t[y] = u[y]
      OBVIOUS
    <2>2. t[x] = u[x] /\ x \in DOMAIN t /\ x \in DOMAIN u
      OBVIOUS
    <2> QED
      BY <2>1, <2>2 DEF Named
  <1>3. ASSUME NEW x \in Named(u, q)
        PROVE  x \in 1..n
    <2>1. x \in 1..m /\ x \in 1..x /\ \A y \in 1..x : u[y] # NoModule
      BY DEF Named
    <2> QED
      BY <2>1
  <1>4. Named(t, q) = Named(u, q) /\ \A x \in Named(t, q) : t[x] = u[x]
    BY <1>1, <1>2, <1>3
  <1> QED
    BY <1>4 DEF Answer

LEMMA TableShape ==
  ASSUME NEW k \in Nat
  PROVE  /\ DOMAIN Promise!Table(k) = 1..(NBuiltins + k)
         /\ \A m \in 1..(NBuiltins + k) :
              Promise!Table(k)[m] =
                IF m <= NBuiltins THEN [name |-> Builtins[m], load |-> 0]
                ELSE [name |-> file[m - NBuiltins].name, load |-> m - NBuiltins]
  BY DEF Promise!Table, NBuiltins

(* modules[] with k images registered answers as the promise's table does.  *)
LEMMA TableIsModules ==
  ASSUME TypeOK, ModuleTableDense, NEW k \in 0..NLoads, NBuiltins + k <= MaxModules,
         \A l \in Loads : Registered(l) <=> l <= k,
         NEW q
  PROVE  Answer(Promise!Table(k), file, q) = Resolve(q)
  <1>1. /\ NBuiltins \in Nat /\ MaxModules \in Nat /\ NLoads \in Nat /\ k \in Nat
        /\ NBuiltins + k \in Nat
    BY BuiltinNames, SizeAssumption DEF NBuiltins
  <1>2. DOMAIN modules = 1..MaxModules
    BY DEF TypeOK, ModuleIdx
  <1>3. ASSUME NEW x \in 1..(NBuiltins + k)
        PROVE  Promise!Table(k)[x] = modules[x]
    <2>1. CASE x \in 1..NBuiltins
      <3>1. modules[x] = [name |-> Builtins[x], load |-> 0]
        BY <2>1 DEF ModuleTableDense
      <3>2. x <= NBuiltins
        BY <1>1, <2>1
      <3> QED
        BY <1>1, <3>1, <3>2, TableShape
    <2>2. CASE x \in (NBuiltins + 1)..(NBuiltins + k)
      <3>1. /\ x - NBuiltins \in Loads /\ x - NBuiltins <= k
            /\ x \in (NBuiltins + 1)..MaxModules /\ ~(x <= NBuiltins)
        BY <1>1, <2>2 DEF Loads
      <3>2. modules[x] = [name |-> file[x - NBuiltins].name, load |-> x - NBuiltins]
        BY <3>1 DEF ModuleTableDense
      <3> QED
        BY <1>1, <3>1, <3>2, TableShape
    <2> QED
      BY <1>1, <2>1, <2>2
  <1>4. ASSUME NEW x \in 1..MaxModules, x > NBuiltins + k
        PROVE  modules[x] = NoModule
    <2>1. x \in (NBuiltins + 1)..MaxModules /\ ~(x - NBuiltins <= k)
      BY <1>1, <1>4
    <2> QED
      BY <2>1 DEF ModuleTableDense
  <1>5. DOMAIN Promise!Table(k) = 1..(NBuiltins + k)
    BY <1>1, TableShape
  <1> DEFINE t == Promise!Table(k)
  <1>6. \A x \in 1..(NBuiltins + k) : t[x] = modules[x]
    BY <1>3
  <1>7. DOMAIN t = 1..(NBuiltins + k)
    BY <1>5
  <1> HIDE DEF t
  <1>8. Answer(t, file, q) = Answer(modules, file, q)
    BY <1>1, <1>2, <1>4, <1>6, <1>7, SameAnswers
  <1> QED
    BY <1>8 DEF Resolve, t

LEMMA BeforeRegistering ==
  ASSUME TypeOK, ModuleTableDense, AcceptInv,
         Step \in {"open", "sections", "relocs", "imports", "protect"}, NEW q
  PROVE  /\ Answer(Promise!Table(load - 1), file, q) = Resolve(q)
         /\ NBuiltins + (load - 1) <= MaxModules
  <1>1. load \in 1..NLoads /\ NBuiltins \in Nat /\ NBuiltins <= MaxModules /\ MaxModules \in Nat
        /\ NLoads \in Nat
    BY BuiltinNames, SizeAssumption DEF NBuiltins, TypeOK, Loads
  <1>2. NBuiltins + (load - 1) <= MaxModules
    <2>1. CASE load = 1
      BY <1>1, <2>1
    <2>2. CASE load > 1
      <3>1. load - 1 \in Loads /\ load - 1 < load
        BY <1>1, <2>2 DEF Loads
      <3> QED
        BY <3>1 DEF AcceptInv, Past
    <2> QED
      BY <1>1, <2>1, <2>2
  <1>3. \A l \in Loads : Registered(l) <=> l <= load - 1
    BY <1>1 DEF Registered, Loads
  <1>4. load - 1 \in 0..NLoads
    BY <1>1
  <1> QED
    BY <1>2, <1>3, <1>4, TableIsModules

LEMMA WhileCodeRuns ==
  ASSUME TypeOK, ModuleTableDense, AcceptInv, Step \in AfterTls, NEW q
  PROVE  Answer(Promise!Table(load), file, q) = Resolve(q)
  <1>1. load \in 1..NLoads /\ NLoads \in Nat /\ load \in Loads
    BY SizeAssumption DEF TypeOK, Loads
  <1>2. NBuiltins + load <= MaxModules
    BY <1>1 DEF AcceptInv, Past, AfterTls, AfterProtect
  <1>3. \A l \in Loads : Registered(l) <=> l <= load
    BY <1>1 DEF Registered, Loads, AfterTls
  <1> QED
    BY <1>1, <1>2, <1>3, TableIsModules

-----------------------------------------------------------------------------
(* Each part of Loadable against what load_pe has looked at                 *)

LEMMA RelocatableIs ==
  ASSUME NEW f \in Images
  PROVE  Promise!Relocatable(f) <=> \A b \in 1..Len(f.relocs) : BlockAccepted(f, b)
  <1>1. DOMAIN f.relocs = 1..Len(f.relocs)
    BY DataAssumption DEF Image
  <1>2. \A b \in 1..Len(f.relocs) :
          DOMAIN f.relocs[b].entries = 1..Len(f.relocs[b].entries)
    BY RelocTypes
  <1>3. ASSUME NEW b \in 1..Len(f.relocs), NEW e \in 1..Len(f.relocs[b].entries)
        PROVE  f.relocs[b].entries[e] \in Promise!Entries(f)
    BY <1>1, <1>2 DEF Promise!Entries
  <1>4. ASSUME NEW x \in Promise!Entries(f)
        PROVE  \E b \in 1..Len(f.relocs) : \E e \in 1..Len(f.relocs[b].entries) :
                 x = f.relocs[b].entries[e]
    BY <1>1, <1>2 DEF Promise!Entries
  <1> QED
    BY <1>1, <1>3, <1>4 DEF Promise!Relocatable, BlockAccepted, TypesKnown

LEMMA LinkableIs ==
  ASSUME TypeOK, NEW l \in Loads
  PROVE  Promise!Linkable(l) <=> \A d \in 1..Len(file[l].imports) : DescriptorAccepted(l, d)
  <1> DEFINE f == file[l]
  <1>1. f \in Images
    BY DEF TypeOK
  <1>2. DOMAIN f.imports = 1..Len(f.imports)
    BY <1>1, ImportTypes
  <1>3. ASSUME NEW x \in Thunks(f)
        PROVE  \E d \in 1..Len(f.imports) : \E t \in 1..Len(f.imports[d].thunks) :
                 x.dll = f.imports[d].dll /\ x.thunk = f.imports[d].thunks[t]
    BY <1>1, ThunksAreAt DEF ThunkAt
  <1>4. ASSUME NEW d \in 1..Len(f.imports), NEW t \in 1..Len(f.imports[d].thunks)
        PROVE  \E x \in Thunks(f) : x.dll = f.imports[d].dll /\ x.thunk = f.imports[d].thunks[t]
    BY <1>1, ThunkIsOne DEF ThunkAt
  <1>5. (\A x \in Thunks(f) :
           Answer(Promise!Table(l - 1), file,
                  [dll |-> x.dll, sym |-> x.thunk.sym, ordinal |-> x.thunk.ordinal]) # {})
        <=> \A d \in 1..Len(f.imports) : \A t \in 1..Len(f.imports[d].thunks) : Answered(l, d, t)
    <2> HIDE DEF f
    <2>1. \A d, t : Answered(l, d, t) <=>
            Answer(Promise!Table(l - 1), file,
              [dll |-> f.imports[d].dll, sym |-> f.imports[d].thunks[t].sym,
               ordinal |-> f.imports[d].thunks[t].ordinal]) # {}
      BY DEF Answered, f
    <2> DEFINE Asked(dll, t) ==
                 Answer(Promise!Table(l - 1), file,
                        [dll |-> dll, sym |-> t.sym, ordinal |-> t.ordinal]) # {}
    <2>2. \A d, t : Answered(l, d, t) <=> Asked(f.imports[d].dll, f.imports[d].thunks[t])
      BY <2>1
    <2> SUFFICES (\A x \in Thunks(f) : Asked(x.dll, x.thunk))
                   <=> \A d \in 1..Len(f.imports) : \A t \in 1..Len(f.imports[d].thunks) :
                         Asked(f.imports[d].dll, f.imports[d].thunks[t])
      BY <2>2
    <2> HIDE DEF Asked
    <2> QED
      BY <1>3, <1>4
  <1>6. Promise!Linkable(l) <=>
          /\ \A x \in Thunks(f) :
               Answer(Promise!Table(l - 1), file,
                      [dll |-> x.dll, sym |-> x.thunk.sym, ordinal |-> x.thunk.ordinal]) # {}
          /\ \A d \in DOMAIN f.imports : f.imports[d].fits
    BY PromiseWords DEF Promise!Linkable
  <1> QED
    BY <1>2, <1>5, <1>6 DEF DescriptorAccepted

LEMMA ContiguousIs ==
  ASSUME NEW f \in Images, Laid(f, Len(f.sections))
  PROVE  Contiguous(f)
  BY ImageTypes DEF Laid, Contiguous

LEMMA FilePointerIs ==
  ASSUME NEW f \in Images, NEW r
  PROVE  Promise!FilePointer(f, r) <=> r \in Slots(f)
  BY DataAssumption, PromiseWords DEF Promise!FilePointer, LinkerMade

LEMMA TlsLoadableIs ==
  ASSUME NEW l
  PROVE  Promise!TlsLoadable(l) <=>
           (HasTls(file[l]) =>
              TlsAccepted(l) /\ (file[l].tls.calls > 0 =>
                                   /\ Promise!FilePointer(file[l], file[l].tls.dir + 3)
                                   /\ Promise!FilePointer(file[l], file[l].tls.table)))
  BY PromiseWords DEF Promise!TlsLoadable, TlsAccepted

-----------------------------------------------------------------------------
(* Acceptance is an invariant                                               *)

(* The promise is about the files, and these stay what they are.            *)
LEMMA PromiseKept ==
  ASSUME file' = file
  PROVE  /\ \A l, d, t : Answered(l, d, t)' <=> Answered(l, d, t)
         /\ \A l, d : DescriptorAccepted(l, d)' <=> DescriptorAccepted(l, d)
         /\ \A l : TlsAccepted(l)' <=> TlsAccepted(l)
         /\ \A n : WithTls(n)' = WithTls(n)
         /\ \A l : Promise!Loadable(l)' <=> Promise!Loadable(l)
  <1>1. \A l : Promise!Table(l)' = Promise!Table(l)
    BY DEF Promise!Table
  <1>2. \A l, d, t : Answered(l, d, t)' <=> Answered(l, d, t)
    BY <1>1 DEF Answered
  <1>3. \A l, d : DescriptorAccepted(l, d)' <=> DescriptorAccepted(l, d)
    BY <1>2 DEF DescriptorAccepted
  <1>4. \A l : TlsAccepted(l)' <=> TlsAccepted(l)
    BY DEF TlsAccepted
  <1>5. \A n : WithTls(n)' = WithTls(n)
    BY DEF WithTls
  <1>6. \A l : Promise!Linkable(l)' <=> Promise!Linkable(l)
    BY <1>1 DEF Promise!Linkable
  <1>7. \A l : Promise!TlsLoadable(l)' <=> Promise!TlsLoadable(l)
    BY DEF Promise!TlsLoadable
  <1>8. \A l : Promise!Loadable(l)' <=> Promise!Loadable(l)
    BY <1>6, <1>7 DEF Promise!Loadable
  <1> QED
    BY <1>2, <1>3, <1>4, <1>5, <1>8

LEMMA RelocLoop ==
  ASSUME TypeOK, [Next]_vars, Step = "relocs", Step' = "relocs"
  PROVE  \/ i' = i /\ j' = j
         \/ AtReloc /\ Entry.type \in {"absolute", "dir64"} /\ i' = i /\ j' = j + 1
         \/ /\ i <= Len(img.relocs) /\ j > Len(img.relocs[i].entries) /\ img.relocs[i].fits
            /\ i' = i + 1 /\ j' = 1
  <1>1. CASE Quiet
    BY <1>1 DEF Quiet
  <1>2. CASE Runs /\ Advance
    <2>1. pc = "relocs" /\ pc' = "relocs" /\ pc' \notin Ended
      BY <1>2, RunsStep DEF Ended
    <2>2. CASE SkipAbsolute
      BY <2>2 DEF SkipAbsolute
    <2>3. CASE ApplyDir64
      BY <2>1, <2>3 DEF ApplyDir64, Fault, Stop
    <2>4. CASE NextRelocBlock
      BY <2>1, <2>4 DEF NextRelocBlock, Abort, Stop
    <2> QED
      BY <1>2, <2>1, <2>2, <2>3, <2>4
         DEF Advance, CopyHeaders, CopySection, SectionsDone, RelocsDone, BindThunk,
             NextDescriptor, ProtectHeaders, ProtectSection, Register, NoTls,
             SetupTls, RunCallback, CallbacksDone, ImageLookup, CodeRuns, EntryReturns, Goto,
             Fault, Stop
  <1> QED
    BY <1>1, <1>2, StepCases

LEMMA AcceptRelocs ==
  ASSUME TypeOK, AcceptInv, [Next]_vars, Step' = "relocs"
  PROVE  /\ i' <= Len(img'.relocs) + 1
         /\ \A b \in 1..(i' - 1) : BlockAccepted(img', b)
         /\ i' <= Len(img'.relocs) =>
              j' <= Len(img'.relocs[i'].entries) + 1 /\ TypesKnown(img', i', j' - 1)
  <1>1. /\ img \in Images /\ i \in Nat \ {0} /\ j \in Nat \ {0} /\ Len(img.relocs) \in Nat
        /\ \A b \in 1..Len(img.relocs) : Len(img.relocs[b].entries) \in Nat
    <2>1. img \in Images
      BY ImgInImages
    <2>2. Len(img.relocs) \in Nat
      BY <2>1, DataAssumption DEF Image
    <2>3. \A b \in 1..Len(img.relocs) : Len(img.relocs[b].entries) \in Nat
      BY <2>1, RelocTypes, DataAssumption
    <2> QED
      BY <2>1, <2>2, <2>3 DEF TypeOK
  <1>2. img' = img
    BY OthersUntouched, StepOrder DEF img
  <1>3. CASE Step = "sections"
    <2>1. i' = 1 /\ j' = 1
      BY <1>3, StepOrder DEF SectionsDone, Goto
    <2>2. TypesKnown(img, 1, 0)
      BY DEF TypesKnown
    <2> QED
      BY <1>1, <1>2, <2>1, <2>2
  <1>4. CASE Step = "relocs"
    <2>1. /\ i <= Len(img.relocs) + 1
          /\ \A b \in 1..(i - 1) : BlockAccepted(img, b)
          /\ i <= Len(img.relocs) =>
               j <= Len(img.relocs[i].entries) + 1 /\ TypesKnown(img, i, j - 1)
      BY <1>4 DEF AcceptInv
    <2>2. CASE i' = i /\ j' = j
      BY <1>2, <2>1, <2>2
    <2>3. CASE AtReloc /\ Entry.type \in {"absolute", "dir64"} /\ i' = i /\ j' = j + 1
      <3>1. i <= Len(img.relocs) /\ j <= Len(img.relocs[i].entries)
        BY <2>3 DEF AtReloc
      <3>2. TypesKnown(img, i, j)
        <4>1. \A e \in 1..j : e = j \/ e \in 1..(j - 1)
          BY <1>1
        <4>2. img.relocs[i].entries[j].type \in {"absolute", "dir64"}
          BY <2>3 DEF Entry
        <4>3. TypesKnown(img, i, j - 1)
          BY <2>1, <3>1
        <4> QED
          BY <4>1, <4>2, <4>3 DEF TypesKnown
      <3>3. Len(img.relocs[i].entries) \in Nat
        BY <1>1, <3>1
      <3> QED
        BY <1>1, <1>2, <2>1, <2>3, <3>1, <3>2, <3>3
    <2>4. CASE /\ i <= Len(img.relocs) /\ j > Len(img.relocs[i].entries) /\ img.relocs[i].fits
               /\ i' = i + 1 /\ j' = 1
      <3>1. Len(img.relocs[i].entries) \in Nat
        BY <1>1, <2>4
      <3>2. TypesKnown(img, i, Len(img.relocs[i].entries))
        BY <1>1, <2>1, <2>4, <3>1 DEF TypesKnown
      <3>3. BlockAccepted(img, i)
        BY <2>4, <3>2 DEF BlockAccepted
      <3>4. \A b \in 1..i : BlockAccepted(img, b)
        BY <1>1, <2>1, <3>3
      <3>5. TypesKnown(img, i + 1, 0)
        BY DEF TypesKnown
      <3>6. i + 1 <= Len(img.relocs) => Len(img.relocs[i + 1].entries) \in Nat
        BY <1>1
      <3> QED
        BY <1>1, <1>2, <2>4, <3>4, <3>5, <3>6
    <2> QED
      BY <1>4, <2>2, <2>3, <2>4, RelocLoop
  <1> QED
    BY <1>3, <1>4, StepOrder

LEMMA AcceptImports ==
  ASSUME TypeOK, ModuleTableDense, BoundInv, AcceptInv, [Next]_vars, Step' = "imports"
  PROVE  /\ \A d \in 1..(i' - 1) : DescriptorAccepted(load, d)
         /\ i' <= Len(img.imports) =>
              /\ j' <= Len(img.imports[i'].thunks) + 1
              /\ \A t \in 1..(j' - 1) : Answered(load, i', t)
  <1>1. /\ img \in Images /\ i \in Nat \ {0} /\ j \in Nat \ {0} /\ Len(img.imports) \in Nat
        /\ \A d \in 1..Len(img.imports) : Len(img.imports[d].thunks) \in Nat
        /\ img = file[load]
    BY ImgInImages, ImportTypes DEF TypeOK, img
  <1>2. CASE Step = "relocs"
    <2>1. i' = 1 /\ j' = 1
      BY <1>2, StepOrder DEF RelocsDone, Goto, Fault, Stop, Runs, Working
    <2>2. 1..(i' - 1) = {} /\ 1..(j' - 1) = {}
      BY <2>1
    <2>3. 1 <= Len(img.imports) => 1 <= Len(img.imports[1].thunks) + 1
      <3>1. 1 <= Len(img.imports) => 1 \in 1..Len(img.imports)
        BY <1>1
      <3>2. 1 \in 1..Len(img.imports) => Len(img.imports[1].thunks) \in Nat
        BY <1>1
      <3>3. \A n \in Nat : 1 <= n + 1
        OBVIOUS
      <3> QED
        BY <3>1, <3>2, <3>3
    <2> QED
      BY <2>1, <2>2, <2>3
  <1>3. CASE Step = "imports"
    <2>1. /\ \A d \in 1..(i - 1) : DescriptorAccepted(load, d)
          /\ i <= Len(img.imports) =>
               /\ j <= Len(img.imports[i].thunks) + 1
               /\ \A t \in 1..(j - 1) : Answered(load, i, t)
      BY <1>3 DEF AcceptInv
    <2>2. CASE i' = i /\ j' = j
      BY <2>1, <2>2
    <2>3. CASE BindThunk /\ Runs /\ i' = i /\ j' = j + 1
      <3>1. i <= Len(img.imports) /\ j <= Len(img.imports[i].thunks)
        BY <2>3 DEF BindThunk
      <3>2. Answered(load, i, j)
        <4> DEFINE q == [dll |-> img.imports[i].dll, sym |-> img.imports[i].thunks[j].sym,
                         ordinal |-> img.imports[i].thunks[j].ordinal]
        <4>1. Resolve(q) # {}
          BY <2>3 DEF BindThunk, Runs, Working, Abort, Stop
        <4>2. Answered(load, i, j) <=> Answer(Promise!Table(load - 1), file, q) # {}
          BY <1>1 DEF Answered
        <4> HIDE DEF q
        <4>3. Answer(Promise!Table(load - 1), file, q) = Resolve(q)
          BY <1>3, BeforeRegistering
        <4> QED
          BY <4>1, <4>2, <4>3
      <3>3. \A t \in 1..j : Answered(load, i, t)
        BY <1>1, <2>1, <3>1, <3>2
      <3>4. Len(img.imports[i].thunks) \in Nat
        BY <1>1, <3>1
      <3> QED
        BY <1>1, <2>1, <2>3, <3>1, <3>3, <3>4
    <2>4. CASE NextDescriptor /\ Runs /\ i' = i + 1 /\ j' = 1
      <3>1. i <= Len(img.imports) /\ j > Len(img.imports[i].thunks) /\ img.imports[i].fits
        BY <2>4 DEF NextDescriptor, Runs, Working, Abort, Fault, Stop
      <3>2. Len(img.imports[i].thunks) \in Nat
        BY <1>1, <3>1
      <3>3. DescriptorAccepted(load, i)
        BY <1>1, <2>1, <3>1, <3>2 DEF DescriptorAccepted
      <3>4. \A d \in 1..i : DescriptorAccepted(load, d)
        BY <1>1, <2>1, <3>3
      <3>5. i + 1 <= Len(img.imports) => Len(img.imports[i + 1].thunks) \in Nat
        BY <1>1
      <3>6. \A d \in 1..(i' - 1) : DescriptorAccepted(load, d)
        BY <1>1, <2>4, <3>4
      <3>7. \A t \in 1..(j' - 1) : Answered(load, i', t)
        BY <2>4
      <3>8. i' <= Len(img.imports) => j' <= Len(img.imports[i'].thunks) + 1
        <4>1. \A n \in Nat : 1 <= n + 1
          OBVIOUS
        <4>2. i + 1 <= Len(img.imports) => 1 <= Len(img.imports[i + 1].thunks) + 1
          BY <3>5, <4>1
        <4> QED
          BY <2>4, <4>2
      <3> QED
        BY <3>6, <3>7, <3>8
    <2> QED
      BY <1>3, <2>2, <2>3, <2>4, ImportLoop
  <1> QED
    BY <1>2, <1>3, StepOrder

(* tls_index counts the images with TLS that have got this far.             *)
LEMMA OneMoreWithTls ==
  ASSUME TypeOK
  PROVE  /\ Cardinality(WithTls(load)) =
              Cardinality(WithTls(load - 1)) + (IF HasTls(img) THEN 1 ELSE 0)
         /\ Cardinality(WithTls(load - 1)) \in Nat
  <1>1. load \in Nat /\ load \in 1..NLoads
    BY SizeAssumption DEF TypeOK, Loads
  <1>2. IsFiniteSet(1..(load - 1))
    BY <1>1, FS_Interval
  <1>3. WithTls(load - 1) \in SUBSET (1..(load - 1))
    BY DEF WithTls
  <1>4. IsFiniteSet(WithTls(load - 1))
    BY <1>2, <1>3, FS_Subset
  <1>5. Cardinality(WithTls(load - 1)) \in Nat
    BY <1>4, FS_CardinalityType
  <1>6. CASE HasTls(img)
    <2>1. WithTls(load) = WithTls(load - 1) \cup {load}
      BY <1>1, <1>6 DEF WithTls, img
    <2>2. load \notin WithTls(load - 1)
      BY <1>1 DEF WithTls
    <2>3. Cardinality(WithTls(load - 1) \cup {load}) = Cardinality(WithTls(load - 1)) + 1
      BY <1>4, <2>2, FS_AddElement
    <2> QED
      BY <1>5, <1>6, <2>1, <2>3
  <1>7. CASE ~HasTls(img)
    <2>1. WithTls(load) = WithTls(load - 1)
      BY <1>1, <1>7 DEF WithTls, img
    <2> QED
      BY <1>5, <1>7, <2>1
  <1> QED
    BY <1>5, <1>6, <1>7

LEMMA AcceptCount ==
  ASSUME TypeOK, AcceptInv, [Next]_vars
  PROVE  tlsIndex' = Cardinality(WithTls(IF Step' \in AfterTls THEN load' ELSE load' - 1))
  <1>1. tlsIndex = Cardinality(WithTls(IF Step \in AfterTls THEN load ELSE load - 1))
    BY DEF AcceptInv
  <1>2. load \in Nat
    BY SizeAssumption DEF TypeOK, Loads
  <1>3. CASE SetupTls /\ Runs
    <2>1. load' = load /\ tlsIndex' = tlsIndex + 1 /\ Step = "tls" /\ HasTls(img)
      BY <1>3, TlsInstalled
    <2>2. Step' = "callbacks"
      BY <1>3, RunsStep DEF SetupTls, InstallTls, Goto, Abort, Fault, Stop, Runs, Working
    <2> QED
      BY <1>1, <2>1, <2>2, OneMoreWithTls DEF AfterTls
  <1>4. CASE tlsIndex' = tlsIndex /\ ~(SetupTls /\ Runs)
    <2>1. CASE Step = "tls" /\ Step' = "entry" /\ NoTls /\ load' = load
      <3>1. ~HasTls(img)
        BY <2>1 DEF NoTls
      <3> QED
        BY <1>1, <1>4, <2>1, <3>1, OneMoreWithTls DEF AfterTls
    <2>2. CASE load' = load + 1 /\ Step = "entry" /\ Step' = "open"
      BY <1>1, <1>2, <1>4, <2>2 DEF AfterTls
    <2> QED
      BY <1>1, <1>4, <2>1, <2>2, StepOrder DEF AfterTls
  <1> QED
    BY <1>3, <1>4, TlsChanges DEF tls

LEMMA AcceptTls ==
  ASSUME TypeOK, ContentInv, RebaseInv, ProtectInv, AcceptInv, SetupTls, Runs
  PROVE  TlsAccepted(load)
  <1>1. Step = "tls" /\ HasTls(img) /\ img \in Images /\ img = file[load]
    BY TlsInstalled DEF img
  <1>2. /\ img.tls.supported /\ Relocated(img.tls.dir) /\ Relocated(img.tls.dir + 1)
        /\ tlsIndex < MaxTls - 1 /\ Relocated(img.tls.dir + 2) /\ CanWrite(img.tls.index)
    BY DEF SetupTls, Runs, Working, Abort, Fault, Stop
  <1>3. Step \in AfterProtect /\ Step \in AfterRelocs /\ Step \notin AfterTls
    BY <1>1 DEF AfterProtect, AfterRelocs, AfterTls
  <1>4. {img.tls.dir, img.tls.dir + 1, img.tls.dir + 2} \subseteq Rva \ {0}
    BY <1>1, TlsCells DEF TlsPointers
  <1>5. {img.tls.dir, img.tls.dir + 1, img.tls.dir + 2} \subseteq Slots(img)
    BY <1>2, <1>3, <1>4, PointersRelocated
  <1>6. InWritable(img, img.tls.index)
    BY <1>1, <1>2, <1>3, IndexWritable
  <1>7. Cardinality({m \in 1..load - 1 : HasTls(file[m])}) < MaxTls - 1
    BY <1>2, <1>3 DEF AcceptInv, WithTls
  <1> QED
    BY <1>1, <1>2, <1>5, <1>6, <1>7, FilePointerIs DEF TlsAccepted

LEMMA CallbackLoop ==
  ASSUME TypeOK, [Next]_vars, Step = "callbacks", Step' = "callbacks"
  PROVE  i' = i \/ (RunCallback /\ Runs /\ i' = i + 1)
  <1>1. CASE Quiet
    BY <1>1 DEF Quiet
  <1>2. CASE Runs /\ Advance
    <2>1. pc = "callbacks" /\ pc' = "callbacks" /\ pc' \notin Ended
      BY <1>2, RunsStep DEF Ended
    <2>2. CASE RunCallback
      BY <1>2, <2>1, <2>2 DEF RunCallback, Fault, Stop
    <2>3. CASE \E l \in Loads : \E q \in file[l].lookups : ImageLookup(l, q)
      BY <2>1, <2>3 DEF ImageLookup, control, Abort, Stop
    <2> QED
      BY <1>2, <2>1, <2>2, <2>3
         DEF Advance, CopyHeaders, CopySection, SectionsDone, SkipAbsolute, ApplyDir64, AtReloc,
             NextRelocBlock, RelocsDone, BindThunk, NextDescriptor, ProtectHeaders, ProtectSection,
             Register, NoTls, SetupTls, CallbacksDone, EntryReturns, Goto
  <1> QED
    BY <1>1, <1>2, StepCases

(* Behind its registration an image is loadable, but for what the TLS step  *)
(* is about.                                                                *)
LEMMA RegisteredIsLoadable ==
  ASSUME TypeOK, LayoutInv, AcceptInv, Step \in AfterProtect
  PROVE  Promise!Loadable(load) <=> Promise!TlsLoadable(load)
  <1>1. load \in Loads /\ file[load] \in Images
    BY DEF TypeOK
  <1>2. Past(load, AfterSections) /\ Past(load, AfterRelocs) /\ Past(load, AfterImports)
        /\ Past(load, AfterProtect)
    BY DEF Past, AfterSections, AfterRelocs, AfterImports, AfterProtect
  <1>3. file[load].kind = "pe64" /\ Contiguous(file[load])
    BY <1>1, <1>2, ContiguousIs DEF LayoutInv
  <1>4. Promise!Relocatable(file[load])
    BY <1>1, <1>2, RelocatableIs DEF AcceptInv
  <1>5. Promise!Linkable(load)
    BY <1>1, <1>2, LinkableIs DEF AcceptInv
  <1>6. Len(Builtins) + load <= MaxModules
    BY <1>1, <1>2 DEF AcceptInv, NBuiltins
  <1> QED
    BY <1>3, <1>4, <1>5, <1>6, PromiseWords DEF Promise!Loadable

LEMMA NoTlsStarts ==
  ASSUME TypeOK, LayoutInv, AcceptInv, NoTls
  PROVE  Promise!Loadable(load)
  <1>1. Step \in AfterProtect /\ ~HasTls(file[load])
    BY DEF NoTls, Step, Ended, AfterProtect, img
  <1> QED
    BY <1>1, RegisteredIsLoadable, TlsLoadableIs

LEMMA FirstCallback ==
  ASSUME TypeOK, LayoutInv, ContentInv, RebaseInv, CallbacksInv, AcceptInv, pc = "callbacks", i = 1
  PROVE  Promise!Loadable(load) <=>
           (img.tls.calls = 0 \/ (Relocated(img.tls.dir + 3) /\ Relocated(img.tls.table)))
  <1>1. Step = "callbacks" /\ img \in Images /\ img = file[load]
    BY ImgInImages DEF Step, Ended, img
  <1>2. Step \in AfterProtect /\ Step \in AfterRelocs /\ HasTls(img) /\ TlsAccepted(load)
    BY <1>1 DEF AfterProtect, AfterRelocs, CallbacksInv, AcceptInv
  <1>3. img.tls.calls \in Nat /\ img.tls.table \in Nat /\ TlsPointers(img) \subseteq Rva \ {0}
    BY <1>1, <1>2, TlsCells
  <1>4. Promise!Loadable(load) <=>
          (img.tls.calls > 0 => /\ img.tls.dir + 3 \in Slots(img)
                                /\ img.tls.table \in Slots(img))
    BY <1>1, <1>2, RegisteredIsLoadable, TlsLoadableIs, FilePointerIs
  <1>5. ASSUME img.tls.calls > 0
        PROVE  /\ Relocated(img.tls.dir + 3) <=> img.tls.dir + 3 \in Slots(img)
               /\ Relocated(img.tls.table) <=> img.tls.table \in Slots(img)
    <2>1. img.tls.dir + 3 \in TlsPointers(img) /\ img.tls.table \in TlsPointers(img)
      BY <1>3, <1>5 DEF TlsPointers
    <2>2. img.tls.dir + 3 \in Rva \ {0} /\ img.tls.table \in Rva \ {0}
      BY <1>3, <2>1
    <2> QED
      BY <1>2, <2>2, PointersRelocated
  <1> QED
    BY <1>3, <1>4, <1>5

(* An image starts only when it is loadable.                                *)
LEMMA StartsLoadable ==
  ASSUME TypeOK, LayoutInv, ContentInv, RebaseInv, CallbacksInv, AcceptInv, [Next]_vars,
         ~Started, Started'
  PROVE  load' = load /\ Promise!Loadable(load)
  <1>1. i \in Nat \ {0} /\ img \in Images
    BY ImgInImages DEF TypeOK
  <1>2. CASE Step = "tls" /\ Step' = "entry" /\ NoTls /\ load' = load
    BY <1>2, NoTlsStarts
  <1>3. CASE Step = "callbacks" /\ Step' = "entry" /\ CallbacksDone /\ load' = load
    <2>1. i = 1 /\ pc = "callbacks" /\ i > img.tls.calls
      BY <1>1, <1>3 DEF Started, CallbacksDone
    <2>2. img.tls.calls \in Nat
      BY <1>1, <1>3, TlsCells DEF CallbacksInv
    <2>3. img.tls.calls = 0
      BY <2>1, <2>2
    <2> QED
      BY <1>3, <2>1, <2>3, FirstCallback
  <1>4. CASE Step = "callbacks" /\ Step' = "callbacks" /\ load' = load
    <2>1. i = 1 /\ RunCallback /\ Runs
      BY <1>1, <1>4, CallbackLoop DEF Started
    <2>2. Relocated(img.tls.dir + 3) /\ Relocated(img.tls.table + 1 - 1)
      BY <2>1 DEF RunCallback, Runs, Working, Fault, Stop
    <2>3. img.tls.table \in Nat
      BY <1>1, <1>4, TlsCells DEF CallbacksInv
    <2>4. img.tls.table + 1 - 1 = img.tls.table
      BY <2>3
    <2> QED
      BY <1>4, <2>1, <2>2, <2>4, FirstCallback DEF RunCallback
  <1>5. SetupTls /\ Runs => i' = 1
    BY DEF SetupTls, InstallTls, Goto, Abort, Fault, Stop, Runs, Working
  <1> QED
    BY <1>2, <1>3, <1>4, <1>5, StepOrder DEF Started

LEMMA StartedStays ==
  ASSUME TypeOK, [Next]_vars, Started, load' = load
  PROVE  Started'
  <1>1. i \in Nat
    BY DEF TypeOK
  <1>2. CASE Step = "entry"
    BY <1>2, StepOrder DEF Started, TypeOK, Loads
  <1>3. CASE Step = "callbacks" /\ i > 1
    BY <1>1, <1>3, StepOrder, CallbackLoop DEF Started
  <1> QED
    BY <1>2, <1>3 DEF Started

LEMMA AcceptStep ==
  ASSUME TypeOK, ModuleTableDense, LayoutInv, ContentInv, RebaseInv, ProtectInv, CallbacksInv,
         BoundInv, AcceptInv, [Next]_vars
  PROVE  AcceptInv'
  <1>1. file' = file /\ load \in Nat
    BY OthersUntouched, SizeAssumption DEF TypeOK, Loads
  <1>2. load' > 1 => file'[load' - 1].ends = "true"
    <2>1. CASE load' = load
      BY <1>1, <2>1 DEF AcceptInv
    <2>2. CASE load' = load + 1 /\ EntryReturns /\ Runs
      <3>1. img.ends = "true"
        BY <2>2 DEF EntryReturns, Runs, Working, Abort, Stop
      <3> QED
        BY <1>1, <2>2, <3>1 DEF img
    <2> QED
      BY <2>1, <2>2, StepOrder
  <1>3. ASSUME NEW l \in Loads, Past(l, AfterRelocs)'
        PROVE  \A b \in 1..Len(file[l].relocs) : BlockAccepted(file[l], b)
    <2>1. CASE Past(l, AfterRelocs)
      BY <2>1 DEF AcceptInv
    <2>2. CASE ~Past(l, AfterRelocs)
      <3>1. l = load /\ Step = "relocs" /\ i > Len(img.relocs)
        BY <1>3, <2>2, PastNew DEF RelocsDone
      <3>2. i \in Nat /\ Len(img.relocs) \in Nat
        <4>1. img.relocs \in Seq(RelocBlock)
          BY ImgInImages, DataAssumption DEF Image
        <4> QED
          BY <4>1 DEF TypeOK
      <3> QED
        BY <3>1, <3>2 DEF AcceptInv, img
    <2> QED
      BY <2>1, <2>2
  <1>4. ASSUME NEW l \in Loads, Past(l, AfterImports)'
        PROVE  \A d \in 1..Len(file[l].imports) : DescriptorAccepted(l, d)
    <2>1. CASE Past(l, AfterImports)
      BY <2>1 DEF AcceptInv
    <2>2. CASE ~Past(l, AfterImports)
      <3>1. l = load /\ Step = "imports" /\ i > Len(img.imports)
        BY <1>4, <2>2, PastNew DEF ProtectHeaders
      <3>2. i \in Nat /\ Len(img.imports) \in Nat
        BY ImgInImages, ImportTypes DEF TypeOK
      <3> QED
        BY <3>1, <3>2 DEF AcceptInv, img
    <2> QED
      BY <2>1, <2>2
  <1>5. ASSUME NEW l \in Loads, Past(l, AfterProtect)'
        PROVE  NBuiltins + l <= MaxModules
    <2>1. CASE Past(l, AfterProtect)
      BY <2>1 DEF AcceptInv
    <2>2. CASE ~Past(l, AfterProtect)
      <3>1. l = load /\ Register /\ Runs
        BY <1>5, <2>2, PastNew
      <3>2. PICK m \in FreeEntries : \A n \in FreeEntries : m <= n
        BY <3>1 DEF Register, Runs, Working, Abort, Stop
      <3>3. m = NBuiltins + load
        BY <3>1, <3>2, FirstFreeEntry DEF Register
      <3>4. m <= MaxModules
        BY SizeAssumption DEF FreeEntries, ModuleIdx
      <3> QED
        BY <3>1, <3>3, <3>4
    <2> QED
      BY <2>1, <2>2
  <1>6. ASSUME Step' = "callbacks"
        PROVE  TlsAccepted(load')
    <2>1. CASE Step = "callbacks" /\ load' = load
      BY <2>1 DEF AcceptInv
    <2>2. CASE SetupTls /\ Runs /\ load' = load
      BY <2>2, AcceptTls
    <2> QED
      BY <1>6, <2>1, <2>2, StepOrder
  <1>7. ASSUME Started'
        PROVE  Promise!Loadable(load')
    <2>1. CASE Started
      <3>1. load' = load
        BY <1>7, <2>1, StepOrder DEF Started
      <3> QED
        BY <2>1, <3>1 DEF AcceptInv
    <2>2. CASE ~Started
      BY <1>7, <2>2, StartsLoadable
    <2> QED
      BY <2>1, <2>2
  <1>8. tlsIndex' = Cardinality(WithTls(IF Step' \in AfterTls THEN load' ELSE load' - 1))
    BY AcceptCount
  <1>9. Step' = "imports" => load' = load /\ img' = img
    BY <1>1, StepOrder DEF img
  <1> QED
    BY <1>1, <1>2, <1>3, <1>4, <1>5, <1>6, <1>7, <1>8, <1>9, AcceptRelocs, AcceptImports, PromiseKept
       DEF AcceptInv

-----------------------------------------------------------------------------
(* load_pe keeps its promise                                                *)

KeepInv == LoadInv /\ AcceptInv

LEMMA InitKeepInv == Init => KeepInv
  <1> SUFFICES ASSUME Init PROVE KeepInv
    OBVIOUS
  <1>1. LoadInv
    BY InitLoadInv
  <1>2. Step = "open" /\ load = 1 /\ tlsIndex = 0
    BY DEF Init, Step, Ended
  <1>3. \A l \in Loads : ~Past(l, AfterRelocs) /\ ~Past(l, AfterImports) /\ ~Past(l, AfterProtect)
    <2>1. \A l \in Loads : ~(l < 1)
      BY SizeAssumption DEF Loads
    <2> QED
      BY <1>2, <2>1 DEF Past, AfterRelocs, AfterImports, AfterProtect
  <1>4. WithTls(load - 1) = {}
    BY <1>2 DEF WithTls
  <1>5. Cardinality(WithTls(load - 1)) = 0
    BY <1>4, FS_EmptySet
  <1>6. AcceptInv
    BY <1>2, <1>3, <1>5 DEF AcceptInv, Started, AfterTls
  <1> QED
    BY <1>1, <1>6 DEF KeepInv

LEMMA KeepInvStep == KeepInv /\ [Next]_vars => KeepInv'
  <1> SUFFICES ASSUME KeepInv, [Next]_vars PROVE KeepInv'
    OBVIOUS
  <1>1. LoadInv'
    BY LoadInvStep DEF KeepInv
  <1>2. AcceptInv'
    BY AcceptStep DEF KeepInv, LoadInv
  <1> QED
    BY <1>1, <1>2 DEF KeepInv

(* What the parts of Loadable rule out.                                     *)
LEMMA LoadableParts ==
  ASSUME TypeOK, Promise!Loadable(load)
  PROVE  /\ img.kind = "pe64" /\ Contiguous(img)
         /\ \A b \in 1..Len(img.relocs) : BlockAccepted(img, b)
         /\ \A d \in 1..Len(img.imports) : DescriptorAccepted(load, d)
         /\ NBuiltins + load <= MaxModules
         /\ Promise!TlsLoadable(load)
  <1>1. load \in Loads /\ file[load] \in Images
    BY DEF TypeOK
  <1>2. /\ file[load].kind = "pe64" /\ Contiguous(file[load])
        /\ Promise!Relocatable(file[load]) /\ Promise!Linkable(load)
        /\ Len(Builtins) + load <= MaxModules /\ Promise!TlsLoadable(load)
    BY PromiseWords DEF Promise!Loadable
  <1> QED
    BY <1>1, <1>2, RelocatableIs, LinkableIs DEF img, NBuiltins

LEMMA MisplacedRefused ==
  ASSUME TypeOK, LayoutInv, SectionMisplaced
  PROVE  ~Contiguous(img)
  <1>1. Step = "sections" /\ i <= Len(img.sections)
        /\ img.sections[i].va # AlignUp(secRva, img.align)
    BY DEF SectionMisplaced, Step, Ended
  <1>2. img \in Images /\ i \in Nat \ {0}
    BY ImgInImages DEF TypeOK
  <1>3. i \in DOMAIN img.sections /\ img.headers \in Nat /\ img.align \in Nat \ {0}
    BY <1>1, <1>2, ImageTypes
  <1>4. secRva = IF i = 1 THEN AlignUp(img.headers, img.align)
                 ELSE img.sections[i-1].va + img.sections[i-1].vsize
    BY <1>1 DEF LayoutInv, LayingOut
  <1>5. AlignUp(secRva, img.align) = ExpectedVa(img, i)
    BY <1>3, <1>4, AlignUpTwice DEF ExpectedVa
  <1> QED
    BY <1>1, <1>3, <1>5 DEF Contiguous

LEMMA BindRefused ==
  ASSUME TypeOK, ModuleTableDense, AcceptInv, BindThunk, Abort
  PROVE  ~DescriptorAccepted(load, i) /\ i \in 1..Len(img.imports)
  <1> DEFINE q == [dll |-> img.imports[i].dll, sym |-> img.imports[i].thunks[j].sym,
                   ordinal |-> img.imports[i].thunks[j].ordinal]
  <1>1. i \in 1..Len(img.imports) /\ j \in 1..Len(img.imports[i].thunks) /\ img = file[load]
    BY ImgInImages, ImportTypes DEF BindThunk, TypeOK, img
  <1>2. Resolve(q) = {}
    BY DEF BindThunk, Abort, Fault, Stop
  <1>3. Answered(load, i, j) <=> Answer(Promise!Table(load - 1), file, q) # {}
    BY <1>1 DEF Answered
  <1> HIDE DEF q
  <1>4. Step = "imports"
    BY DEF BindThunk, Step, Ended
  <1>5. Answer(Promise!Table(load - 1), file, q) = Resolve(q)
    BY <1>4, BeforeRegistering
  <1> QED
    BY <1>1, <1>2, <1>3, <1>5 DEF DescriptorAccepted

LEMMA RegisterRefused ==
  ASSUME TypeOK, ModuleTableDense, Register, Abort
  PROVE  ~(NBuiltins + load <= MaxModules)
  <1> SUFFICES ASSUME NBuiltins + load <= MaxModules PROVE FALSE
    OBVIOUS
  <1> DEFINE p == NBuiltins + load
  <1>1. NBuiltins \in Nat /\ load \in 1..NLoads /\ MaxModules \in Nat
    BY BuiltinNames, SizeAssumption DEF NBuiltins, TypeOK, Loads
  <1>2. p \in (NBuiltins + 1)..MaxModules /\ p - NBuiltins = load /\ p \in ModuleIdx
    BY <1>1 DEF ModuleIdx
  <1>3. ~Registered(load)
    BY <1>1 DEF Register, Registered, Step, Ended
  <1>4. modules[p] = NoModule
    BY <1>2, <1>3 DEF ModuleTableDense
  <1>5. FreeEntries = {}
    BY DEF Register, Abort, Goto, Stop
  <1> QED
    BY <1>2, <1>4, <1>5 DEF FreeEntries

LEMMA TlsRefused ==
  ASSUME TypeOK, ContentInv, RebaseInv, ProtectInv, AcceptInv, SetupTls, Abort \/ Fault
  PROVE  ~Promise!TlsLoadable(load)
  <1>1. pc = "tls" /\ Step = "tls" /\ HasTls(img) /\ img \in Images /\ img = file[load]
    BY ImgInImages DEF SetupTls, Step, Ended, img
  <1>2. Step \in AfterProtect /\ Step \in AfterRelocs /\ Step \notin AfterTls
    BY <1>1 DEF AfterProtect, AfterRelocs, AfterTls
  <1>3. \/ ~img.tls.supported \/ ~Relocated(img.tls.dir) \/ ~Relocated(img.tls.dir + 1)
        \/ ~(tlsIndex < MaxTls - 1) \/ ~Relocated(img.tls.dir + 2) \/ ~CanWrite(img.tls.index)
    BY <1>1 DEF SetupTls, InstallTls, Goto, Abort, Fault, Stop
  <1>4. {img.tls.dir, img.tls.dir + 1, img.tls.dir + 2} \subseteq Rva \ {0}
    BY <1>1, TlsCells DEF TlsPointers
  <1>5. /\ Relocated(img.tls.dir) <=> img.tls.dir \in Slots(img)
        /\ Relocated(img.tls.dir + 1) <=> img.tls.dir + 1 \in Slots(img)
        /\ Relocated(img.tls.dir + 2) <=> img.tls.dir + 2 \in Slots(img)
    BY <1>2, <1>4, PointersRelocated
  <1>6. CanWrite(img.tls.index) <=> InWritable(img, img.tls.index)
    BY <1>1, <1>2, IndexWritable
  <1>7. tlsIndex = Cardinality({m \in 1..load - 1 : HasTls(file[m])})
    BY <1>2 DEF AcceptInv, WithTls
  <1>8. ~TlsAccepted(load)
    BY <1>1, <1>3, <1>5, <1>6, <1>7, FilePointerIs DEF TlsAccepted
  <1> QED
    BY <1>1, <1>8, TlsLoadableIs

(* Before an image has started, load_pe stops only on one it must refuse.   *)
LEMMA Refuses ==
  ASSUME KeepInv, [Next]_vars, pc \in Working, Abort \/ Fault, ~Started
  PROVE  MayRunOut \/ ~Promise!Loadable(load)
  <1> SUFFICES ASSUME Promise!Loadable(load) PROVE MayRunOut
    OBVIOUS
  <1> USE DEF KeepInv, LoadInv
  <1>1. /\ pc' \in {"aborted", "faulted"} /\ Step = pc /\ ~UNCHANGED vars
        /\ i' = i /\ j' = j /\ mem' = mem /\ i \in Nat \ {0} /\ j \in Nat \ {0}
    BY DEF Abort, Fault, Stop, Step, Working, Ended, vars, control, space, TypeOK
  <1>2. /\ img.kind = "pe64" /\ Contiguous(img)
        /\ \A b \in 1..Len(img.relocs) : BlockAccepted(img, b)
        /\ \A d \in 1..Len(img.imports) : DescriptorAccepted(load, d)
        /\ NBuiltins + load <= MaxModules
        /\ Promise!TlsLoadable(load)
    BY LoadableParts
  <1>3. Fault => MapFails \/ (pc = "tls" /\ SetupTls) \/ (pc = "callbacks" /\ RunCallback)
    BY NoEarlyFaults
  <1>4. CASE OpenFails \/ MapFails \/ HeadersFail
    BY <1>2, <1>4 DEF OpenFails, MapFails, HeadersFail
  <1>5. CASE AllocFails \/ ProtectFails \/ TlsAllocFails
    BY <1>5 DEF AllocFails, ProtectFails, TlsAllocFails
  <1>6. CASE CopyHeaders \/ CopySection \/ SectionsDone \/ SkipAbsolute \/ ProtectHeaders
             \/ ProtectSection \/ NoTls \/ CallbacksDone
    BY <1>1, <1>6 DEF CopyHeaders, CopySection, SectionsDone, SkipAbsolute, AtReloc, ProtectHeaders,
         ProtectSection, NoTls, CallbacksDone, Goto
  <1>7. CASE SectionMisplaced
    BY <1>2, <1>7, MisplacedRefused
  <1>8. CASE UnknownReloc
    <2>1. i \in 1..Len(img.relocs) /\ j \in 1..Len(img.relocs[i].entries) /\ Entry.type = "other"
      BY <1>8, EntryIsSite DEF UnknownReloc
    <2> QED
      BY <1>2, <2>1 DEF BlockAccepted, TypesKnown, Entry
  <1>9. CASE ApplyDir64 \/ RelocsDone
    <2>1. pc = "relocs"
      BY <1>9 DEF ApplyDir64, AtReloc, RelocsDone
    <2>2. ~Fault
      BY <1>3, <2>1 DEF MapFails
    <2> QED
      BY <1>1, <1>9, <2>1, <2>2 DEF ApplyDir64, RelocsDone, Goto
  <1>10. CASE NextRelocBlock
    <2>1. i <= Len(img.relocs) /\ ~img.relocs[i].fits
      BY <1>1, <1>10 DEF NextRelocBlock
    <2>2. i \in 1..Len(img.relocs)
      <3>1. img.relocs \in Seq(RelocBlock)
        BY ImgInImages, DataAssumption DEF Image
      <3> QED
        BY <1>1, <2>1, <3>1
    <2> QED
      BY <1>2, <2>1, <2>2 DEF BlockAccepted
  <1>11. CASE BindThunk
    <2>1. ~Fault
      BY <1>3, <1>11 DEF BindThunk, MapFails
    <2> QED
      BY <1>2, <1>11, <2>1, BindRefused
  <1>12. CASE NextDescriptor
    <2>1. ~Fault
      BY <1>3, <1>12 DEF NextDescriptor, MapFails
    <2>2. i <= Len(img.imports) /\ ~img.imports[i].fits
      BY <1>1, <1>12, <2>1 DEF NextDescriptor
    <2>3. i \in 1..Len(img.imports) /\ img = file[load]
      BY <1>1, <2>2, ImgInImages, ImportTypes DEF img
    <2> QED
      BY <1>2, <2>2, <2>3 DEF DescriptorAccepted
  <1>13. CASE Register
    <2>1. ~Fault
      BY <1>3, <1>13 DEF Register, MapFails
    <2> QED
      BY <1>2, <1>13, <2>1, RegisterRefused
  <1>14. CASE SetupTls
    BY <1>2, <1>14, TlsRefused
  <1>15. CASE RunCallback
    <2>1. pc = "callbacks" /\ i = 1 /\ i <= img.tls.calls
      BY <1>1, <1>15 DEF RunCallback, Started
    <2>2. HasTls(img) /\ img \in Images
      BY <1>1, <2>1, ImgInImages DEF CallbacksInv
    <2>3. img.tls.calls \in Nat /\ img.tls.table \in Nat
      BY <2>2, TlsCells
    <2>4. Relocated(img.tls.dir + 3) /\ Relocated(img.tls.table)
      BY <2>1, <2>3, FirstCallback
    <2>5. img.tls.table + i - 1 = img.tls.table
      BY <2>1, <2>3
    <2> QED
      BY <1>1, <1>15, <2>1, <2>4, <2>5 DEF RunCallback
  <1>16. CASE CodeStep
    <2>1. CodeRuns
      BY <1>16 DEF CodeStep, ImageLookup, CodeRuns, EntryReturns, EntryTerminates
    <2> QED
      BY <1>1, <2>1 DEF CodeRuns, Started
  <1>17. ~Done
    BY <1>1 DEF Done
  <1> QED
    BY <1>1, <1>4, <1>5, <1>6, <1>7, <1>8, <1>9, <1>10, <1>11, <1>12, <1>13, <1>14, <1>15,
       <1>16, <1>17 DEF Next, LoadStep

(* Once it has started, the process is stopped only by what its code does.  *)
LEMMA LaterCallbackFails ==
  ASSUME KeepInv, pc \in Working, Started, RunCallback, Fault
  PROVE  Promise!MayFail(load)
  <1> USE DEF KeepInv, LoadInv
  <1>1. /\ Step = "callbacks" /\ pc = "callbacks" /\ i > 1 /\ i <= img.tls.calls /\ i \in Nat
        /\ img \in Images /\ img = file[load]
    BY ImgInImages DEF RunCallback, Started, Step, Ended, TypeOK, img
  <1>2. HasTls(img) /\ Step \in AfterRelocs
    BY <1>1 DEF CallbacksInv, AfterRelocs
  <1>3. img.tls.calls \in Nat /\ img.tls.table \in Nat /\ TlsPointers(img) \subseteq Rva \ {0}
    BY <1>1, <1>2, TlsCells
  <1>4. /\ img.tls.dir + 3 \in TlsPointers(img)
        /\ img.tls.table + i - 1 \in TlsPointers(img)
    BY <1>1, <1>3 DEF TlsPointers
  <1>5. Promise!TlsLoadable(load)
    BY LoadableParts DEF AcceptInv
  <1>6. img.tls.dir + 3 \in Slots(img)
    BY <1>1, <1>2, <1>3, <1>5, TlsLoadableIs, FilePointerIs
  <1>7. Relocated(img.tls.dir + 3)
    BY <1>2, <1>3, <1>4, <1>6, PointersRelocated
  <1>8. ~Relocated(img.tls.table + i - 1)
    BY <1>7 DEF RunCallback, Fault, Stop
  <1>9. img.tls.table + i - 1 \notin Slots(img)
    BY <1>2, <1>3, <1>4, <1>8, PointersRelocated
  <1>10. i \in 2 .. file[load].tls.calls
         /\ ~Promise!FilePointer(file[load], file[load].tls.table + i - 1)
    BY <1>1, <1>3, <1>9, FilePointerIs
  <1> QED
    BY <1>10 DEF Promise!MayFail

LEMMA LookupFails ==
  ASSUME KeepInv, NEW l \in Loads, NEW q \in file[l].lookups, ImageLookup(l, q), Abort
  PROVE  Promise!MayFail(load)
  <1> USE DEF KeepInv, LoadInv
  <1>1. Step \in AfterTls /\ l \in 1..load
    BY DEF ImageLookup, CodeRuns, Step, Ended, AfterTls, Loads, TypeOK
  <1>2. q.dll \notin DOMAIN LibraryAlias \/ Resolve(AskedOf(q)) = {}
    <2>1. pc' # pc
      BY DEF ImageLookup, CodeRuns, Abort, Stop
    <2> QED
      BY <2>1 DEF ImageLookup, AskedOf, control
  <1>3. Answer(Promise!Table(load), file, AskedOf(q)) = Resolve(AskedOf(q))
    BY <1>1, WhileCodeRuns
  <1>4. Promise!Answer(Promise!Table(load), file, AskedOf(q)) = Resolve(AskedOf(q))
    BY <1>3, PromiseWords
  <1>5. \/ q.dll \notin DOMAIN LibraryAlias
        \/ Promise!Answer(Promise!Table(load), file, AskedOf(q)) = {}
    BY <1>2, <1>4
  <1> QED
    BY <1>1, <1>5 DEF Promise!MayFail, AskedOf

LEMMA CodeFailures ==
  ASSUME KeepInv, [Next]_vars, pc \in Working, Abort \/ Fault, Started
  PROVE  Promise!MayFail(load)
  <1>1. /\ pc' \in {"aborted", "faulted"} /\ ~UNCHANGED vars /\ Step = pc
        /\ pc \in {"callbacks", "entry"}
    BY DEF Abort, Fault, Stop, Step, Working, Ended, vars, control, Started
  <1>2. CASE RunCallback
    <2>1. ~Abort
      BY <1>2 DEF RunCallback, Abort, Fault, Stop, Working
    <2> QED
      BY <1>2, <2>1, LaterCallbackFails
  <1>3. CASE \E l \in Loads : \E q \in file[l].lookups : ImageLookup(l, q)
    <2>1. PICK l \in Loads : \E q \in file[l].lookups : ImageLookup(l, q)
      BY <1>3
    <2>2. PICK q \in file[l].lookups : ImageLookup(l, q)
      BY <2>1
    <2>3. Abort
      BY <1>1, <2>2 DEF ImageLookup, control
    <2> QED
      BY <2>2, <2>3, LookupFails
  <1>4. CASE EntryReturns
    <2>1. img.ends = "false"
      BY <1>1, <1>4 DEF EntryReturns, Stop
    <2> QED
      BY <2>1 DEF Promise!MayFail, img
  <1>5. CASE CallbacksDone \/ EntryTerminates \/ Done
    BY <1>1, <1>5 DEF CallbacksDone, EntryTerminates, Done, Goto, Stop
  <1> QED
    BY <1>1, <1>2, <1>3, <1>4, <1>5
       DEF Next, LoadStep, CodeStep, OpenFails, MapFails, HeadersFail, AllocFails, CopyHeaders,
           CopySection, SectionMisplaced, SectionsDone, SkipAbsolute, ApplyDir64, UnknownReloc,
           AtReloc, NextRelocBlock, RelocsDone, BindThunk, NextDescriptor, ProtectHeaders,
           ProtectSection, ProtectFails, Register, NoTls, SetupTls, TlsAllocFails

-----------------------------------------------------------------------------
(* The refinement: every step of load_pe is a step of the promise or none   *)

Begun   == IF Started THEN load ELSE load - 1
Outcome == IF pc \in Ended THEN pc ELSE "running"

LEMMA PromiseSteps ==
  /\ Promise!InTurn <=> Begun < NLoads /\ (Begun = 0 \/ file[Begun].ends = "true")
  /\ Promise!Start <=> /\ Outcome = "running" /\ Promise!InTurn /\ Promise!Loadable(Begun + 1)
                       /\ Begun' = Begun + 1 /\ file' = file /\ Outcome' = Outcome
  /\ Promise!Refuse <=> /\ Outcome = "running" /\ Promise!InTurn
                        /\ MayRunOut \/ ~Promise!Loadable(Begun + 1)
                        /\ Outcome' \in {"aborted", "faulted"} /\ file' = file /\ Begun' = Begun
  /\ Promise!CodeFails <=> /\ Outcome = "running" /\ Begun > 0 /\ Promise!MayFail(Begun)
                           /\ Outcome' \in {"aborted", "faulted"} /\ file' = file /\ Begun' = Begun
  /\ Promise!Exit <=> /\ Outcome = "running" /\ Begun > 0
                      /\ \/ file[Begun].ends = "terminate"
                         \/ file[Begun].ends = "true" /\ Begun = NLoads
                      /\ Outcome' = "exited" /\ file' = file /\ Begun' = Begun
  /\ (UNCHANGED Promise!avars) <=> file' = file /\ Begun' = Begun /\ Outcome' = Outcome
  <1> USE DEF Begun, Started, Outcome
  <1>1. Promise!InTurn <=> Begun < NLoads /\ (Begun = 0 \/ file[Begun].ends = "true")
    BY DEF Promise!InTurn
  <1>2. Promise!Start <=> /\ Outcome = "running" /\ Promise!InTurn /\ Promise!Loadable(Begun + 1)
                          /\ Begun' = Begun + 1 /\ file' = file /\ Outcome' = Outcome
    BY DEF Promise!Start
  <1>3. Promise!Refuse <=> /\ Outcome = "running" /\ Promise!InTurn
                           /\ MayRunOut \/ ~Promise!Loadable(Begun + 1)
                           /\ Outcome' \in {"aborted", "faulted"} /\ file' = file /\ Begun' = Begun
    BY DEF Promise!Refuse
  <1>4. Promise!CodeFails <=> /\ Outcome = "running" /\ Begun > 0 /\ Promise!MayFail(Begun)
                              /\ Outcome' \in {"aborted", "faulted"} /\ file' = file /\ Begun' = Begun
    BY DEF Promise!CodeFails
  <1>5. Promise!Exit <=> /\ Outcome = "running" /\ Begun > 0
                         /\ \/ file[Begun].ends = "terminate"
                            \/ file[Begun].ends = "true" /\ Begun = NLoads
                         /\ Outcome' = "exited" /\ file' = file /\ Begun' = Begun
    BY DEF Promise!Exit
  <1>6. (UNCHANGED Promise!avars) <=> file' = file /\ Begun' = Begun /\ Outcome' = Outcome
    BY DEF Promise!avars
  <1> QED
    BY <1>1, <1>2, <1>3, <1>4, <1>5, <1>6

(* The last step of a process.                                              *)
LEMMA EndsHow ==
  ASSUME TypeOK, [Next]_vars, pc \in Working
  PROVE  \/ UNCHANGED vars
         \/ Runs
         \/ Abort \/ Fault
         \/ /\ pc = "entry" /\ Stop("exited") /\ file' = file
            /\ \/ img.ends = "terminate"
               \/ img.ends = "true" /\ load = NLoads
  <1>1. CASE UNCHANGED vars
    BY <1>1
  <1>2. CASE \/ OpenFails \/ MapFails \/ HeadersFail \/ AllocFails
             \/ SectionMisplaced \/ UnknownReloc \/ ProtectFails \/ TlsAllocFails
    BY <1>2 DEF OpenFails, MapFails, HeadersFail, AllocFails, SectionMisplaced, UnknownReloc,
         ProtectFails, TlsAllocFails
  <1>3. CASE CopyHeaders \/ CopySection \/ SectionsDone \/ SkipAbsolute \/ ProtectHeaders
             \/ ProtectSection \/ NoTls \/ CallbacksDone
    BY <1>3 DEF CopyHeaders, CopySection, SectionsDone, SkipAbsolute, AtReloc, ProtectHeaders,
         ProtectSection, NoTls, CallbacksDone, Goto, Runs, Working
  <1>4. CASE ApplyDir64 \/ NextRelocBlock \/ RelocsDone
    BY <1>4 DEF ApplyDir64, AtReloc, NextRelocBlock, RelocsDone, Goto, Runs, Working
  <1>5. CASE BindThunk
    BY <1>5 DEF BindThunk, Runs, Working
  <1>6. CASE NextDescriptor
    BY <1>6 DEF NextDescriptor, Runs, Working
  <1>7. CASE Register
    BY <1>7 DEF Register, Goto, Runs, Working
  <1>8. CASE SetupTls
    BY <1>8 DEF SetupTls, InstallTls, Goto, Runs, Working
  <1>9. CASE RunCallback
    BY <1>9 DEF RunCallback, Runs, Working
  <1>10. CASE \E l \in Loads : \E q \in file[l].lookups : ImageLookup(l, q)
    BY <1>10 DEF ImageLookup, control, Runs
  <1>11. CASE EntryReturns
    BY <1>11 DEF EntryReturns, Runs, Working
  <1>12. CASE EntryTerminates
    BY <1>12 DEF EntryTerminates
  <1>13. ~Done
    BY DEF Done, Working, Ended
  <1> QED
    BY <1>1, <1>2, <1>3, <1>4, <1>5, <1>6, <1>7, <1>8, <1>9, <1>10, <1>11, <1>12, <1>13
       DEF Next, LoadStep, CodeStep

LEMMA StoppedStays ==
  ASSUME [Next]_vars, pc \notin Working
  PROVE  UNCHANGED vars
  <1>1. CASE LoadStep
    BY <1>1 DEF LoadStep, OpenFails, MapFails, HeadersFail, AllocFails, CopyHeaders, CopySection,
         SectionMisplaced, SectionsDone, SkipAbsolute, ApplyDir64, UnknownReloc, AtReloc,
         NextRelocBlock, RelocsDone, BindThunk, NextDescriptor, ProtectHeaders, ProtectSection,
         ProtectFails, Register, NoTls, SetupTls, TlsAllocFails, RunCallback, CallbacksDone, Working
  <1>2. CASE CodeStep
    BY <1>2 DEF CodeStep, ImageLookup, CodeRuns, EntryReturns, EntryTerminates, Working
  <1> QED
    BY <1>1, <1>2 DEF Next, Done

(* The image load_pe works on is the one whose turn it is.                  *)
LEMMA InTurnWhileLoading ==
  ASSUME TypeOK, AcceptInv, ~Started
  PROVE  Promise!InTurn /\ Begun + 1 = load
  <1>1. load \in 1..NLoads /\ NLoads \in Nat /\ Begun = load - 1
    BY SizeAssumption DEF TypeOK, Loads, Begun
  <1>2. load - 1 = 0 \/ file[load - 1].ends = "true"
    BY <1>1 DEF AcceptInv
  <1> QED
    BY <1>1, <1>2, PromiseSteps

LEMMA GoesOn ==
  ASSUME KeepInv, [Next]_vars, Runs
  PROVE  Promise!Start \/ UNCHANGED Promise!avars
  <1> USE DEF KeepInv, LoadInv
  <1>1. Outcome = "running" /\ Outcome' = "running" /\ file' = file /\ load \in Nat
    BY OthersUntouched, SizeAssumption DEF Runs, Working, Ended, Outcome, TypeOK, Loads
  <1>2. CASE ~Started /\ Started'
    <2>1. load' = load /\ Promise!Loadable(load)
      BY <1>2, StartsLoadable
    <2>2. Promise!InTurn /\ Begun + 1 = load
      BY <1>2, InTurnWhileLoading
    <2>3. Begun' = Begun + 1
      BY <1>2, <2>1, <2>2 DEF Begun
    <2>4. Promise!Loadable(Begun + 1)
      BY <2>1, <2>2
    <2> QED
      BY <1>1, <2>2, <2>3, <2>4, PromiseSteps
  <1>3. CASE Started /\ load' = load
    <2>1. Started'
      BY <1>3, StartedStays
    <2> QED
      BY <1>1, <1>3, <2>1, PromiseSteps DEF Begun
  <1>4. CASE load' # load
    <2>1. load' = load + 1 /\ Step = "entry" /\ Step' = "open"
      BY <1>4, StepOrder
    <2>2. Started /\ ~Started'
      BY <2>1 DEF Started
    <2>3. Begun' = Begun
      BY <1>1, <2>1, <2>2 DEF Begun
    <2> QED
      BY <1>1, <2>3, PromiseSteps
  <1>5. CASE ~Started /\ ~Started' /\ load' = load
    BY <1>1, <1>5, PromiseSteps DEF Begun
  <1> QED
    BY <1>2, <1>3, <1>4, <1>5

LEMMA PromiseStep ==
  ASSUME KeepInv, [Next]_vars
  PROVE  [Promise!Next]_(Promise!avars)
  <1> USE DEF KeepInv, LoadInv
  <1>1. file' = file /\ load \in 1..NLoads /\ NLoads \in Nat
    BY OthersUntouched, SizeAssumption DEF TypeOK, Loads
  <1>2. CASE UNCHANGED vars
    BY <1>2, PromiseSteps DEF vars, control, Begun, Outcome, Started, Step
  <1>3. CASE pc \in Ended
    <2>1. UNCHANGED vars
      <3>1. pc \notin Working
        BY <1>3 DEF Working, Ended
      <3> QED
        BY <3>1, StoppedStays
    <2> QED
      BY <1>2, <2>1
  <1>4. CASE pc \in Working /\ Runs
    BY <1>4, GoesOn DEF Promise!Next
  <1>5. CASE pc \in Working /\ (Abort \/ Fault)
    <2>1. Outcome = "running" /\ Outcome' \in {"aborted", "faulted"}
      BY <1>5 DEF Abort, Fault, Stop, Outcome, Working, Ended
    <2>2. load' = load /\ i' = i /\ Step' = Step
      BY <1>5 DEF Abort, Fault, Stop, Step, Working, Ended
    <2>3. Begun' = Begun
      BY <2>2 DEF Begun, Started
    <2>4. CASE Started
      <3>1. Begun = load /\ Promise!MayFail(load)
        BY <1>5, <2>4, CodeFailures DEF Begun
      <3> QED
        BY <1>1, <2>1, <2>3, <3>1, PromiseSteps DEF Promise!Next
    <2>5. CASE ~Started
      <3>1. MayRunOut \/ ~Promise!Loadable(load)
        BY <1>5, <2>5, Refuses
      <3>2. Promise!InTurn /\ Begun + 1 = load
        BY <2>5, InTurnWhileLoading
      <3>3. MayRunOut \/ ~Promise!Loadable(Begun + 1)
        BY <3>1, <3>2
      <3> QED
        BY <1>1, <2>1, <2>3, <3>2, <3>3, PromiseSteps DEF Promise!Next
    <2> QED
      BY <2>4, <2>5
  <1>6. CASE /\ pc = "entry" /\ Stop("exited") /\ file' = file
             /\ \/ img.ends = "terminate"
                \/ img.ends = "true" /\ load = NLoads
    <2>1. Outcome = "running" /\ Outcome' = "exited"
      BY <1>6 DEF Stop, Outcome, Ended
    <2>2. load' = load /\ Step = "entry" /\ Step' = "entry"
      BY <1>6 DEF Stop, Step, Ended
    <2>3. Begun = load /\ Begun' = load
      BY <2>2 DEF Begun, Started
    <2> QED
      BY <1>1, <1>6, <2>1, <2>3, PromiseSteps DEF Promise!Next, img
  <1> QED
    BY <1>2, <1>3, <1>4, <1>5, <1>6, EndsHow DEF TypeOK

LEMMA PromiseInit == Init => Promise!Init
  <1> SUFFICES ASSUME Init PROVE Promise!Init
    OBVIOUS
  <1>1. ~(Step = "entry" \/ (Step = "callbacks" /\ i > 1)) /\ load - 1 = 0 /\ pc \notin Ended
    BY DEF Init, Step, Ended
  <1>2. file \in [1..NLoads -> Images]
    BY DEF Init, Loads
  <1> QED
    BY <1>1, <1>2 DEF Promise!Init

(* load_pe and its loops, tables and memory do what LoaderPromise promises  *)
(* of the files alone: images start one after the other, each only when it  *)
(* can be loaded on top of those before it; load_pe stops the process only  *)
(* on one that cannot (or when memory runs out); and later the process ends *)
(* only through what image code does.                                       *)
THEOREM LoaderKeepsPromise == Spec => KeepsPromise
  <1>1. Init => KeepInv
    BY InitKeepInv
  <1>2. KeepInv /\ [Next]_vars => KeepInv'
    BY KeepInvStep
  <1>3. Init => Promise!Init
    BY PromiseInit
  <1>4. KeepInv /\ [Next]_vars => [Promise!Next]_(Promise!avars)
    BY PromiseStep
  <1> QED
    BY <1>1, <1>2, <1>3, <1>4, PTL DEF Spec, KeepsPromise, Promise!Spec
=============================================================================
