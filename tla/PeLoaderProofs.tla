--------------------------- MODULE PeLoaderProofs ---------------------------
(***************************************************************************)
(* Theorems about the PE loader, for every set of images, every table size *)
(* and every number of load_pe calls.                                      *)
(***************************************************************************)
EXTENDS PeLoader, TLAPS

(* Rounding up to an alignment gives a natural number.                      *)
LEMMA AlignUpType == \A x \in Nat, a \in Nat \ {0} : AlignUp(x, a) \in Nat
  BY DEF AlignUp

(* What is known of the file at the current path.                           *)
LEMMA ImgType ==
  ASSUME TypeOK
  PROVE  /\ img \in Image
         /\ LinkerMade(img)
  BY DataAssumption DEF TypeOK, img

(* Whatever answers a lookup is an entry of modules[].                      *)
LEMMA ResolveType ==
  ASSUME TypeOK, NEW q
  PROVE  Resolve(q) \subseteq ModuleIdx
  BY DEF TypeOK, Resolve, Answer, Named

LEMMA CellTypes ==
  /\ Junk \in Cell /\ Zero \in Cell /\ BoundMark \in Cell
  /\ \A n \in Nat : FileCell(n) \in Cell /\ Import(n) \in Cell /\ TlsIndex(n) \in Cell
  BY DEF Junk, Zero, BoundMark, FileCell, Import, TlsIndex, Cell

(* An element of a sequence over S is in S.                                 *)
LEMMA ElementType ==
  ASSUME NEW S, NEW s \in Seq(S), NEW n \in 1..Len(s)
  PROVE  s[n] \in S
  OBVIOUS

(* Adding base_delta, or setting ImageBase, leaves a cell.                  *)
LEMMA AdjustType ==
  ASSUME NEW c \in Cell
  PROVE  /\ [c EXCEPT !.adj = @ + 1] \in Cell
         /\ [c EXCEPT !.adj = 1] \in Cell
  BY SMT DEF Cell

(* A store of a cell keeps the type of memory.                              *)
LEMMA WriteType ==
  ASSUME TypeOK, NEW r \in Rva, NEW c \in Cell, Write(r, c)
  PROVE  mem' \in [Loads -> [Rva -> Cell]]
  BY DEF TypeOK, Write

LEMMA StopType ==
  ASSUME TypeOK, pc \in Working, Abort \/ Fault
  PROVE  TypeOK'
  BY DEF TypeOK, Abort, Fault, Stop, space, tls, Working, Ended

-----------------------------------------------------------------------------
(* Type correctness                                                         *)

LEMMA InitType == Init => TypeOK
  <1> SUFFICES ASSUME Init PROVE TypeOK
    OBVIOUS
  <1>1. [l \in Loads |-> [r \in Rva |-> Junk]] \in [Loads -> [Rva -> Cell]]
    BY CellTypes
  <1>2. modules \in [ModuleIdx -> [name : STRING \cup {NULL}, load : Loads \cup {0}]]
    <2>1. \A m \in ModuleIdx : m <= NBuiltins => Builtins[m] \in STRING
      <3>1. \A m \in 1..Len(Builtins) : Builtins[m] \in STRING
        BY BuiltinNames, ElementType
      <3>2. Len(Builtins) \in Nat
        BY BuiltinNames
      <3> QED
        BY <3>1, <3>2, SizeAssumption DEF NBuiltins, ModuleIdx
    <2>2. \A m \in ModuleIdx :
            (IF m <= NBuiltins THEN [name |-> Builtins[m], load |-> 0] ELSE NoModule)
              \in [name : STRING \cup {NULL}, load : Loads \cup {0}]
      <3>1. NoModule \in [name : STRING \cup {NULL}, load : Loads \cup {0}]
        BY DEF NoModule
      <3>2. \A m \in ModuleIdx : m <= NBuiltins =>
              [name |-> Builtins[m], load |-> 0] \in [name : STRING \cup {NULL}, load : Loads \cup {0}]
        BY <2>1
      <3> QED
        BY <3>1, <3>2
    <2> QED
      BY <2>2 DEF Init
  <1>3. 1 \in Loads /\ 0 \in TlsSlots
    BY SizeAssumption DEF Loads, TlsSlots
  <1>4. prot \in [Loads -> [Rva -> SUBSET {"r", "w", "x"}]]
    BY DEF Init
  <1>5. tlsArray \in [TlsSlots -> Seq(Cell)]
    BY DEF Init
  <1>6. file \in [Loads -> Images] /\ procs \subseteq [caller : Loads, query : Query, target : ModuleIdx]
    BY DEF Init
  <1>7. mem \in [Loads -> [Rva -> Cell]]
    BY <1>1 DEF Init
  <1>8. /\ load \in Loads /\ pc \in Working /\ why = "none" /\ secRva \in Nat
        /\ i \in Nat \ {0} /\ j \in Nat \ {0}
        /\ tlsIndex \in TlsSlots /\ gs \in BOOLEAN
    <2>1. why = "none" /\ secRva \in Nat /\ i \in Nat \ {0} /\ j \in Nat \ {0}
      BY DEF Init
    <2>2. load \in Loads /\ pc \in Working /\ tlsIndex \in TlsSlots
      BY <1>3 DEF Init, Working
    <2>3. gs \in BOOLEAN
      BY DEF Init
    <2> QED
      BY <2>1, <2>2, <2>3
  <1> QED
    BY <1>2, <1>4, <1>5, <1>6, <1>7, <1>8 DEF TypeOK

LEMMA CopyHeadersType == TypeOK /\ CopyHeaders => TypeOK'
  <1> SUFFICES ASSUME TypeOK, CopyHeaders PROVE TypeOK'
    OBVIOUS
  <1>1. img.headers \in Nat /\ img.align \in Nat \ {0}
    BY ImgType DEF Image
  <1>2. [r \in Rva |-> IF r < img.headers THEN FileCell(r) ELSE Junk] \in [Rva -> Cell]
    BY CellTypes, DataAssumption DEF Rva
  <1>3. mem' \in [Loads -> [Rva -> Cell]]
    BY <1>2 DEF CopyHeaders, TypeOK
  <1>4. prot' \in [Loads -> [Rva -> SUBSET {"r", "w", "x"}]]
    BY DEF CopyHeaders, TypeOK
  <1>5. secRva' \in Nat
    BY <1>1, AlignUpType DEF CopyHeaders
  <1> QED
    BY <1>3, <1>4, <1>5 DEF CopyHeaders, TypeOK, tls, Working

LEMMA CopySectionType == TypeOK /\ CopySection => TypeOK'
  <1> SUFFICES ASSUME TypeOK, CopySection PROVE TypeOK'
    OBVIOUS
  <1> DEFINE s == img.sections[i]
             at == AlignUp(secRva, img.align)
  <1>1. img.sections \in Seq(Section) /\ img.align \in Nat \ {0}
    BY ImgType DEF Image
  <1>2. s \in Section
    BY <1>1 DEF CopySection, TypeOK
  <1>3. s.va \in Nat /\ s.vsize \in Nat
    BY <1>2, DataAssumption DEF Section, Rva
  <1>4. s.va = at
    BY DEF CopySection
  <1> DEFINE new == [r \in Rva |->
                 IF r \in at .. (at + Copied(s) - 1) THEN FileCell(s.va + (r - at))
                 ELSE IF r \in at .. (at + s.vsize - 1) THEN Zero
                 ELSE mem[load][r]]
  <1>5. \A r \in Rva : s.va + (r - at) \in Nat
    BY <1>3, <1>4, DataAssumption DEF Rva
  <1>6. new \in [Rva -> Cell]
    <2> HIDE DEF s, at
    <2> QED
      BY <1>5, CellTypes DEF TypeOK
  <1>7. mem' = [mem EXCEPT ![load] = new]
    BY DEF CopySection
  <1>8. mem' \in [Loads -> [Rva -> Cell]]
    <2> HIDE DEF new
    <2> QED
      BY <1>6, <1>7 DEF TypeOK
  <1>9. secRva' \in Nat
    BY <1>3, <1>4 DEF CopySection
  <1> QED
    BY <1>8, <1>9 DEF CopySection, TypeOK, tls

LEMMA ApplyDir64Type == TypeOK /\ ApplyDir64 => TypeOK'
  <1> SUFFICES ASSUME TypeOK, ApplyDir64 PROVE TypeOK'
    OBVIOUS
  <1>1. img.relocs \in Seq(RelocBlock)
    BY ImgType DEF Image
  <1>2. img.relocs[i].entries \in Seq(Reloc)
    <2>1. i \in 1..Len(img.relocs)
      BY <1>1 DEF ApplyDir64, AtReloc, TypeOK
    <2>2. img.relocs[i] \in RelocBlock
      BY <1>1, <2>1, ElementType
    <2> QED
      BY <2>2 DEF RelocBlock
  <1>3. Entry.rva \in Rva
    <2>1. j \in 1..Len(img.relocs[i].entries)
      BY <1>2 DEF ApplyDir64, AtReloc, TypeOK
    <2>2. Entry \in Reloc
      BY <1>2, <2>1, ElementType DEF Entry
    <2> QED
      BY <2>2 DEF Reloc
  <1>4. CASE CanWrite(Entry.rva)
    <2>1. mem[load][Entry.rva] \in Cell
      BY <1>3 DEF TypeOK
    <2>2. [mem[load][Entry.rva] EXCEPT !.adj = @ + 1] \in Cell
      BY <2>1, AdjustType
    <2>3. mem' \in [Loads -> [Rva -> Cell]]
      BY <1>3, <1>4, <2>2, WriteType DEF ApplyDir64
    <2> QED
      BY <1>4, <2>3 DEF ApplyDir64, TypeOK, tls
  <1>5. CASE ~CanWrite(Entry.rva)
    BY <1>5, StopType DEF ApplyDir64, AtReloc, Working
  <1> QED
    BY <1>4, <1>5

LEMMA RelocsDoneType == TypeOK /\ RelocsDone => TypeOK'
  <1> SUFFICES ASSUME TypeOK, RelocsDone PROVE TypeOK'
    OBVIOUS
  <1>1. CASE CanWrite(0)
    <2>1. 0 \in Rva
      BY DataAssumption DEF Rva
    <2>2. [mem[load][0] EXCEPT !.adj = 1] \in Cell
      <3>1. mem[load][0] \in Cell
        BY <2>1 DEF TypeOK
      <3> QED
        BY <3>1, AdjustType
    <2>3. mem' \in [Loads -> [Rva -> Cell]]
      BY <1>1, <2>1, <2>2, WriteType DEF RelocsDone
    <2> QED
      BY <1>1, <2>3 DEF RelocsDone, Goto, TypeOK, tls, Working
  <1>2. CASE ~CanWrite(0)
    BY <1>2, StopType DEF RelocsDone, Working
  <1> QED
    BY <1>1, <1>2

LEMMA BindThunkType == TypeOK /\ BindThunk => TypeOK'
  <1> SUFFICES ASSUME TypeOK, BindThunk PROVE TypeOK'
    OBVIOUS
  <1> DEFINE t == img.imports[i].thunks[j]
             q == [dll |-> img.imports[i].dll, sym |-> t.sym, ordinal |-> t.ordinal]
  <1>1. img.imports \in Seq(Descriptor)
    BY ImgType DEF Image
  <1>2. img.imports[i].thunks \in Seq(Thunk)
    <2>1. i \in 1..Len(img.imports)
      BY <1>1 DEF BindThunk, TypeOK
    <2>2. img.imports[i] \in Descriptor
      BY <1>1, <2>1, ElementType
    <2> QED
      BY <2>2 DEF Descriptor
  <1>3. t.iat \in Rva
    <2>1. j \in 1..Len(img.imports[i].thunks)
      BY <1>2 DEF BindThunk, TypeOK
    <2>2. t \in Thunk
      BY <1>2, <2>1, ElementType
    <2> QED
      BY <2>2 DEF Thunk
  <1>4. CASE Abort \/ Fault
    BY <1>4, StopType DEF BindThunk, Working
  <1>5. ASSUME NEW m \in Resolve(q), Write(t.iat, Import(m)), j' = j + 1,
               UNCHANGED <<file, load, pc, why, i, secRva, prot, modules, tls, procs>>
        PROVE  TypeOK'
    <2>1. m \in Nat
      BY ResolveType, SizeAssumption DEF ModuleIdx
    <2>2. mem' \in [Loads -> [Rva -> Cell]]
      <3> HIDE DEF t, q
      <3> QED
        BY <1>3, <1>5, <2>1, CellTypes, WriteType
    <2> QED
      BY <1>5, <2>2 DEF TypeOK, tls
  <1> QED
    BY <1>4, <1>5 DEF BindThunk

LEMMA NextDescriptorType == TypeOK /\ NextDescriptor => TypeOK'
  <1> SUFFICES ASSUME TypeOK, NextDescriptor PROVE TypeOK'
    OBVIOUS
  <1>1. img.imports \in Seq(Descriptor)
    BY ImgType DEF Image
  <1>2. img.imports[i].at \in Rva
    <2>1. i \in 1..Len(img.imports)
      BY <1>1 DEF NextDescriptor, TypeOK
    <2>2. img.imports[i] \in Descriptor
      BY <1>1, <2>1, ElementType
    <2> QED
      BY <2>2 DEF Descriptor
  <1>3. CASE Abort \/ Fault
    BY <1>3, StopType DEF NextDescriptor, Working
  <1>4. CASE /\ Write(img.imports[i].at, BoundMark)
             /\ i' = i + 1 /\ j' = 1
             /\ UNCHANGED <<file, load, pc, why, secRva, prot, modules, tls, procs>>
    <2>1. mem' \in [Loads -> [Rva -> Cell]]
      BY <1>2, <1>4, CellTypes, WriteType
    <2> QED
      BY <1>4, <2>1 DEF TypeOK, tls
  <1> QED
    BY <1>3, <1>4 DEF NextDescriptor

LEMMA ProtectType == TypeOK /\ (ProtectHeaders \/ ProtectSection) => TypeOK'
  <1> SUFFICES ASSUME TypeOK, ProtectHeaders \/ ProtectSection PROVE TypeOK'
    OBVIOUS
  <1>1. CASE ProtectHeaders
    <2>1. prot' \in [Loads -> [Rva -> SUBSET {"r", "w", "x"}]]
      BY <1>1 DEF ProtectHeaders, TypeOK
    <2> QED
      BY <1>1, <2>1 DEF ProtectHeaders, Goto, TypeOK, tls, Working
  <1>2. CASE ProtectSection
    <2>1. Protection(img.sections[i]) \in SUBSET {"r", "w", "x"}
      BY DEF Protection
    <2>2. prot' \in [Loads -> [Rva -> SUBSET {"r", "w", "x"}]]
      BY <1>2, <2>1 DEF ProtectSection, TypeOK
    <2> QED
      BY <1>2, <2>2 DEF ProtectSection, TypeOK, tls
  <1> QED
    BY <1>1, <1>2

LEMMA RegisterType == TypeOK /\ Register => TypeOK'
  <1> SUFFICES ASSUME TypeOK, Register PROVE TypeOK'
    OBVIOUS
  <1>1. CASE FreeEntries = {}
    BY <1>1, StopType DEF Register, Working
  <1>2. CASE FreeEntries # {}
    <2>1. img.name \in STRING
      BY ImgType DEF Image
    <2>2. modules' \in [ModuleIdx -> [name : STRING \cup {NULL}, load : Loads \cup {0}]]
      <3>1. PICK m \in FreeEntries :
              modules' = [modules EXCEPT ![m] = [name |-> img.name, load |-> load]]
        BY <1>2 DEF Register
      <3>2. [name |-> img.name, load |-> load] \in [name : STRING \cup {NULL}, load : Loads \cup {0}]
        BY <2>1 DEF TypeOK
      <3> QED
        BY <3>1, <3>2 DEF FreeEntries, TypeOK
    <2> QED
      BY <1>2, <2>2 DEF Register, Goto, TypeOK, space, tls, Working
  <1> QED
    BY <1>1, <1>2

LEMMA SetupTlsType == TypeOK /\ SetupTls => TypeOK'
  <1> SUFFICES ASSUME TypeOK, SetupTls PROVE TypeOK'
    OBVIOUS
  <1> DEFINE d == img.tls
             n == d.last - d.start + 1
             block == [k \in 1..n |-> mem[load][d.start + k - 1]]
  <1>1. d \in Tls
    BY ImgType DEF Image
  <1>2. d.start \in Rva /\ d.last \in Rva /\ d.index \in Rva
    BY <1>1 DEF Tls
  <1>3. d.start <= d.last
    BY ImgType DEF LinkerMade, SetupTls
  <1>4. CASE Abort \/ Fault
    BY <1>4, StopType DEF SetupTls, Working
  <1>5. CASE /\ tlsIndex < MaxTls - 1
             /\ tlsArray' = [tlsArray EXCEPT ![tlsIndex] = block]
             /\ Write(d.index, TlsIndex(tlsIndex))
             /\ tlsIndex' = tlsIndex + 1
             /\ gs' = TRUE
             /\ Goto("callbacks")
             /\ UNCHANGED <<file, prot, modules, procs>>
    <2>1. n \in Nat /\ \A k \in 1..n : d.start + k - 1 \in Rva
      BY <1>2, <1>3, DataAssumption DEF Rva
    <2>2. block \in Seq(Cell)
      <3>1. \A k \in 1..n : mem[load][d.start + k - 1] \in Cell
        BY <2>1 DEF TypeOK
      <3>2. block \in [1..n -> Cell]
        BY <3>1
      <3> HIDE DEF block, n
      <3> QED
        BY <2>1, <3>2
    <2>3. tlsArray' \in [TlsSlots -> Seq(Cell)]
      <3> HIDE DEF block
      <3> QED
        BY <1>5, <2>2 DEF TypeOK
    <2>4. tlsIndex \in Nat /\ tlsIndex' \in TlsSlots
      BY <1>5, SizeAssumption DEF TypeOK, TlsSlots
    <2>5. mem' \in [Loads -> [Rva -> Cell]]
      BY <1>2, <1>5, <2>4, CellTypes, WriteType
    <2> QED
      BY <1>5, <2>3, <2>4, <2>5 DEF Goto, TypeOK, Working
  <1> QED
    BY <1>4, <1>5 DEF SetupTls, InstallTls

LEMMA ImageLookupType ==
  ASSUME TypeOK, NEW l \in Loads, NEW q \in file[l].lookups, ImageLookup(l, q)
  PROVE  TypeOK'
  <1> DEFINE p == [q EXCEPT !.dll = LibraryAlias[q.dll]]
  <1>1. q \in Query
    BY DataAssumption DEF TypeOK, Image
  <1>2. CASE Abort
    BY <1>2, StopType DEF ImageLookup, CodeRuns, Working
  <1>3. ASSUME NEW m \in Resolve(p),
               procs' = procs \cup {[caller |-> l, query |-> q, target |-> m]},
               UNCHANGED <<file, control, space, modules, tls>>
        PROVE  TypeOK'
    <2>1. m \in ModuleIdx
      BY ResolveType
    <2> QED
      BY <1>1, <1>3, <2>1 DEF TypeOK, control, space, tls
  <1> QED
    BY <1>2, <1>3 DEF ImageLookup

LEMMA EntryType == TypeOK /\ (EntryReturns \/ EntryTerminates) => TypeOK'
  <1> SUFFICES ASSUME TypeOK, EntryReturns \/ EntryTerminates PROVE TypeOK'
    OBVIOUS
  <1>1. CASE Abort
    BY <1>1, StopType DEF EntryReturns, EntryTerminates, Working
  <1>2. CASE EntryReturns /\ load < NLoads /\ load' = load + 1
    BY <1>2, <1>1, SizeAssumption
       DEF EntryReturns, Stop, TypeOK, Loads, space, tls, Working, Ended
  <1>3. CASE /\ pc = "entry" /\ Stop("exited")
             /\ UNCHANGED <<file, space, modules, tls, procs>>
    BY <1>3 DEF Stop, TypeOK, space, tls, Working, Ended
  <1> QED
    BY <1>1, <1>2, <1>3 DEF EntryReturns, EntryTerminates

LEMMA NextType == TypeOK /\ [Next]_vars => TypeOK'
  <1> SUFFICES ASSUME TypeOK, [Next]_vars PROVE TypeOK'
    OBVIOUS
  <1>1. CASE \/ OpenFails \/ MapFails \/ HeadersFail \/ AllocFails
             \/ SectionMisplaced \/ ProtectFails \/ TlsAllocFails
    BY <1>1, StopType
       DEF OpenFails, MapFails, HeadersFail, AllocFails, SectionMisplaced,
           ProtectFails, TlsAllocFails, Working
  <1>2. CASE SectionsDone \/ NoTls \/ CallbacksDone
    BY <1>2 DEF SectionsDone, NoTls, CallbacksDone, Goto, TypeOK, space, tls, Working
  <1>6. CASE SkipAbsolute \/ UnknownReloc
    BY <1>6, StopType
       DEF SkipAbsolute, UnknownReloc, AtReloc, TypeOK, space, tls, Working
  <1>3. CASE NextRelocBlock
    BY <1>3, StopType DEF NextRelocBlock, TypeOK, space, tls, Working
  <1>4. CASE RunCallback
    BY <1>4, StopType DEF RunCallback, TypeOK, space, tls, Working
  <1>5. CASE UNCHANGED vars
    BY <1>5 DEF vars, control, space, tls, TypeOK
  <1> QED
    BY <1>1, <1>2, <1>3, <1>4, <1>5, <1>6, CopyHeadersType, CopySectionType, ApplyDir64Type,
       RelocsDoneType, BindThunkType, NextDescriptorType, ProtectType, RegisterType,
       SetupTlsType, ImageLookupType, EntryType
       DEF Next, LoadStep, CodeStep, Done

(* The loader's variables keep their types, whatever files the paths lead   *)
(* to: load_pe never leaves its image, its tables or its counters.          *)
THEOREM TypeCorrect == Spec => []TypeOK
  <1>1. Init => TypeOK
    BY InitType
  <1>2. TypeOK /\ [Next]_vars => TypeOK'
    BY NextType
  <1> QED
    BY <1>1, <1>2, PTL DEF Spec

-----------------------------------------------------------------------------
(* The module table                                                         *)

(* A stopped process remembers a step of load_pe.                           *)
StopRemembered == pc \in Ended => why \in Working

LEMMA StopRememberedStep == TypeOK /\ StopRemembered /\ [Next]_vars => StopRemembered'
  <1> SUFFICES ASSUME TypeOK, StopRemembered, [Next]_vars PROVE StopRemembered'
    OBVIOUS
  <1> USE DEF StopRemembered, Working, Ended
  <1>1. CASE UNCHANGED vars
    BY <1>1 DEF vars, control
  <1>2. CASE LoadStep
    BY <1>2 DEF LoadStep, OpenFails, MapFails, HeadersFail, AllocFails, CopyHeaders,
      CopySection, SectionMisplaced, SectionsDone, SkipAbsolute, ApplyDir64, UnknownReloc,
      AtReloc, NextRelocBlock, RelocsDone, BindThunk, NextDescriptor, ProtectHeaders,
      ProtectSection, ProtectFails, Register, NoTls, SetupTls, InstallTls, TlsAllocFails, RunCallback,
      CallbacksDone, Abort, Fault, Stop, Goto
  <1>3. CASE CodeStep
    BY <1>3 DEF CodeStep, ImageLookup, CodeRuns, EntryReturns, EntryTerminates,
      Abort, Stop, control
  <1> QED
    BY <1>1, <1>2, <1>3 DEF Next, Done

(* Every step but Register leaves the table, and what should be in it, as   *)
(* they are: a stopping step because why takes over from pc, a returning    *)
(* entry point because the next load starts unregistered.                   *)
LEMMA OnlyRegisterRegisters ==
  ASSUME TypeOK, StopRemembered, [Next]_vars, ~Register
  PROVE  /\ modules' = modules /\ file' = file
         /\ \A l \in Loads : Registered(l)' = Registered(l)
  <1> USE DEF Registered, Step, Ended
  <1>1. CASE UNCHANGED vars
    BY <1>1 DEF vars, control
  <1>2. CASE Abort /\ pc \in Working
    BY <1>2 DEF Abort, Stop, Working
  <1>3. CASE Fault /\ pc \in Working
    BY <1>3 DEF Fault, Stop, Working
  <1>4. CASE LoadStep /\ ~Abort /\ ~Fault
    BY <1>4 DEF LoadStep, OpenFails, MapFails, HeadersFail, AllocFails, CopyHeaders,
      CopySection, SectionMisplaced, SectionsDone, SkipAbsolute, ApplyDir64, UnknownReloc,
      AtReloc, NextRelocBlock, RelocsDone, BindThunk, NextDescriptor, ProtectHeaders,
      ProtectSection, ProtectFails, NoTls, SetupTls, InstallTls, TlsAllocFails, RunCallback,
      CallbacksDone, Goto
  <1>5. CASE CodeStep /\ ~Abort
    <2>1. CASE EntryReturns /\ load' = load + 1
      BY <1>5, <2>1 DEF EntryReturns, TypeOK, Loads, Stop
    <2>2. CASE Stop("exited") /\ pc = "entry" /\ UNCHANGED <<file, space, modules, tls, procs>>
      BY <2>2 DEF Stop
    <2>3. CASE \E l \in Loads : \E q \in file[l].lookups : ImageLookup(l, q)
      BY <1>5, <2>3 DEF ImageLookup, control
    <2> QED
      BY <1>5, <2>1, <2>2, <2>3 DEF CodeStep, EntryReturns, EntryTerminates
  <1>6. (LoadStep \/ CodeStep) /\ (Abort \/ Fault) => pc \in Working
    BY DEF LoadStep, OpenFails, MapFails, HeadersFail, AllocFails, CopyHeaders,
      CopySection, SectionMisplaced, SectionsDone, SkipAbsolute, ApplyDir64, UnknownReloc,
      AtReloc, NextRelocBlock, RelocsDone, BindThunk, NextDescriptor, ProtectHeaders,
      ProtectSection, ProtectFails, Register, NoTls, SetupTls, InstallTls, TlsAllocFails, RunCallback,
      CallbacksDone, CodeStep, ImageLookup, CodeRuns, EntryReturns, EntryTerminates, Working
  <1> QED
    BY <1>1, <1>2, <1>3, <1>4, <1>5, <1>6 DEF Next, Done

(* The first free entry is the one behind the images loaded before.         *)
LEMMA FirstFreeEntry ==
  ASSUME TypeOK, ModuleTableDense, pc = "protect", NEW m \in FreeEntries,
         \A n \in FreeEntries : m <= n
  PROVE  m = NBuiltins + load
  <1>1. NBuiltins \in Nat /\ m \in 1..MaxModules /\ load \in 1..NLoads /\ MaxModules \in Nat
    BY BuiltinNames, SizeAssumption DEF NBuiltins, TypeOK, FreeEntries, ModuleIdx, Loads
  <1>2. modules[m] = NoModule
    BY DEF FreeEntries
  <1>3. ~(m \in 1..NBuiltins)
    <2> SUFFICES ASSUME m \in 1..NBuiltins PROVE FALSE
      OBVIOUS
    <2>1. modules[m] = [name |-> Builtins[m], load |-> 0]
      BY DEF ModuleTableDense
    <2>2. Builtins[m] # NULL
      BY BuiltinNames, BuiltinAssumption DEF NBuiltins
    <2> QED
      BY <1>2, <2>1, <2>2 DEF NoModule
  <1>4. ~(m - NBuiltins < load)
    <2> SUFFICES ASSUME m - NBuiltins < load PROVE FALSE
      OBVIOUS
    <2> DEFINE l == m - NBuiltins
    <2>1. l \in Loads /\ Registered(l)
      BY <1>1, <1>3, SizeAssumption DEF Registered, Loads
    <2>2. modules[m] = [name |-> file[l].name, load |-> l]
      BY <1>1, <1>3, <2>1 DEF ModuleTableDense
    <2>3. l # 0
      BY <1>1, <1>3
    <2> QED
      BY <1>2, <2>2, <2>3 DEF NoModule
  <1>5. NBuiltins + load \in FreeEntries
    <2> DEFINE p == NBuiltins + load
    <2>1. p \in (NBuiltins + 1)..MaxModules /\ p - NBuiltins = load
      BY <1>1, <1>4
    <2>2. ~Registered(load)
      BY <1>1 DEF Registered, Step, Ended
    <2>3. modules[p] = NoModule
      BY <2>1, <2>2 DEF ModuleTableDense
    <2> QED
      BY <1>1, <2>1, <2>3 DEF FreeEntries, ModuleIdx
  <1> QED
    BY <1>1, <1>4, <1>5

LEMMA RegisterDense ==
  ASSUME TypeOK, ModuleTableDense, Register
  PROVE  ModuleTableDense'
  <1>1. CASE Abort
    BY <1>1 DEF Register, ModuleTableDense, Abort, Stop, Registered, Step, Ended
  <1>2. CASE \E m \in FreeEntries :
               /\ \A n \in FreeEntries : m <= n
               /\ modules' = [modules EXCEPT ![m] = [name |-> img.name, load |-> load]]
               /\ Goto("tls") /\ file' = file
    <2>1. PICK m \in FreeEntries :
               /\ \A n \in FreeEntries : m <= n
               /\ modules' = [modules EXCEPT ![m] = [name |-> img.name, load |-> load]]
               /\ Goto("tls") /\ file' = file
      BY <1>2
    <2>2. m = NBuiltins + load
      BY <2>1, FirstFreeEntry DEF Register
    <2>3. NBuiltins \in Nat /\ load \in 1..NLoads /\ MaxModules \in Nat /\ NBuiltins <= MaxModules
      BY BuiltinNames, SizeAssumption DEF NBuiltins, TypeOK, Loads
    <2>4. ASSUME NEW n \in 1..NBuiltins
          PROVE  modules'[n] = [name |-> Builtins[n], load |-> 0]
      BY <2>1, <2>2, <2>3 DEF ModuleTableDense, TypeOK, ModuleIdx
    <2>5. ASSUME NEW n \in (NBuiltins + 1)..MaxModules, n # m
          PROVE  modules'[n] = modules[n]
      <3>1. n \in ModuleIdx
        BY <2>3 DEF ModuleIdx
      <3>2. DOMAIN modules = ModuleIdx
        BY DEF TypeOK
      <3> QED
        BY <2>1, <2>5, <3>1, <3>2
    <2>6. modules'[m] = [name |-> file[load].name, load |-> load]
      BY <2>1 DEF TypeOK, FreeEntries, img
    <2>7. \A l \in Loads \ {load} : Registered(l)' = Registered(l)
      BY <2>1 DEF Register, Goto, Registered, Step, Ended
    <2>8. ASSUME NEW n \in (NBuiltins + 1)..MaxModules
          PROVE  modules'[n] = IF n - NBuiltins \in Loads /\ Registered(n - NBuiltins)'
                                 THEN [name |-> file'[n - NBuiltins].name, load |-> n - NBuiltins]
                                 ELSE NoModule
      <3>1. CASE n = m
        <4>1. n - NBuiltins = load /\ load \in Loads
          BY <2>2, <2>3, <3>1 DEF Loads
        <4>2. Registered(n - NBuiltins)'
          BY <2>1, <4>1 DEF Registered, Goto, Step, Ended
        <4> QED
          BY <2>1, <2>6, <3>1, <4>1, <4>2
      <3>2. CASE n # m
        <4>1. n - NBuiltins # load
          BY <2>2, <2>3, <3>2
        <4>2. modules[n] = IF n - NBuiltins \in Loads /\ Registered(n - NBuiltins)
                             THEN [name |-> file[n - NBuiltins].name, load |-> n - NBuiltins]
                             ELSE NoModule
          BY DEF ModuleTableDense
        <4> QED
          BY <2>1, <2>5, <2>7, <3>2, <4>1, <4>2
      <3> QED
        BY <3>1, <3>2
    <2> QED
      BY <2>4, <2>8 DEF ModuleTableDense
  <1> QED
    BY <1>1, <1>2 DEF Register

LEMMA InitDense == Init => ModuleTableDense
  <1> SUFFICES ASSUME Init PROVE ModuleTableDense
    OBVIOUS
  <1>1. NBuiltins \in Nat /\ MaxModules \in Nat /\ NBuiltins <= MaxModules
    BY BuiltinNames, SizeAssumption DEF NBuiltins
  <1>2. \A m \in 1..NBuiltins : modules[m] = [name |-> Builtins[m], load |-> 0]
    BY <1>1 DEF Init, ModuleIdx
  <1>3. \A m \in (NBuiltins + 1)..MaxModules : modules[m] = NoModule
    BY <1>1 DEF Init, ModuleIdx
  <1>4. \A l \in Loads : ~Registered(l)
    BY DEF Init, Registered, Step, Ended, Loads
  <1> QED
    BY <1>2, <1>3, <1>4 DEF ModuleTableDense

(* modules[] is dense: built-ins first and untouched, then the registered   *)
(* images in load order, then nothing.  The resolver stops at the first     *)
(* NULL entry, so this is what makes every registered image findable.       *)
THEOREM ModuleTableStaysDense == Spec => []ModuleTableDense
  <1> DEFINE Inv == TypeOK /\ StopRemembered /\ ModuleTableDense
  <1>1. Init => Inv
    BY InitType, InitDense DEF StopRemembered, Init, Ended
  <1>2. Inv /\ [Next]_vars => Inv'
    <2> SUFFICES ASSUME Inv, [Next]_vars PROVE Inv'
      OBVIOUS
    <2>1. CASE Register
      BY <2>1, NextType, StopRememberedStep, RegisterDense
    <2>2. CASE ~Register
      <3>1. ModuleTableDense'
        BY <2>2, OnlyRegisterRegisters DEF ModuleTableDense
      <3> QED
        BY <3>1, NextType, StopRememberedStep
    <2> QED
      BY <2>1, <2>2
  <1>3. Inv => ModuleTableDense
    OBVIOUS
  <1> QED
    BY <1>1, <1>2, <1>3, PTL DEF Spec
=============================================================================
