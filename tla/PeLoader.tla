------------------------------ MODULE PeLoader ------------------------------
(***************************************************************************)
(* The PE loader of src/pe-loader/pe-loader.c, driven by a main that loads *)
(* NLoads images one after the other (two in xdialdr, one in dia2dump).    *)
(* One action per iteration of a loop of load_pe and per straight-line     *)
(* stretch between two loops.  A failing assert leads to pc = "aborted", a *)
(* bad memory access to "faulted", the end of the process to "exited";     *)
(* why remembers the step that stopped.                                    *)
(*                                                                         *)
(* load_pe runs foreign code twice, the image's TLS callbacks and its      *)
(* entry point; that code reaches the loader only through LoadLibraryExA   *)
(* and GetProcAddress (and ends the process with TerminateProcess).        *)
(***************************************************************************)
EXTENDS PeImage, FiniteSets

CONSTANTS
  NLoads,      (* number of load_pe calls of main                          *)
  MaxModules,  (* ARRAYSIZE(modules), 7                                    *)
  MaxTls,      (* ARRAYSIZE(tls_array), 32                                 *)
  MayRunOut    (* TRUE: posix_memalign or mprotect may fail                *)

Loads      == 1..NLoads
ModuleIdx  == 1..MaxModules
TlsSlots   == 0..(MaxTls - 1)
NBuiltins  == Len(Builtins)

ASSUME SizeAssumption ==
  /\ NLoads \in Nat \ {0}
  /\ MaxModules \in Nat
  /\ NBuiltins <= MaxModules
  /\ MaxTls \in Nat \ {0}
  /\ MayRunOut \in BOOLEAN

VARIABLES
  file,      (* file[l]: what the path of the l-th load_pe call leads to    *)
  load,      (* the running load_pe call                                    *)
  pc, why,   (* where load_pe is; where it was when the process stopped     *)
  i, j,      (* the counters of its outer and inner loop                    *)
  secRva,    (* sec_rva                                                     *)
  mem,       (* mem[l]: the cells of idata of the l-th call                 *)
  prot,      (* prot[l]: the protection of these cells                      *)
  modules,   (* modules[]                                                   *)
  tlsIndex, tlsArray, (* tls_index, tls_array[] (<<>>: NULL)                *)
  gs,        (* ARCH_SET_GS has been called                                 *)
  procs      (* the functions image code obtained from GetProcAddress       *)

control == <<load, pc, why, i, j, secRva>>
space   == <<mem, prot>>
tls     == <<tlsIndex, tlsArray, gs>>
vars    == <<file, control, space, modules, tls, procs>>

Working == {"open", "sections", "relocs", "imports", "protect", "tls",
            "callbacks", "entry"}
Ended   == {"aborted", "faulted", "exited"}

(* The file being loaded.                                                   *)
img == file[load]

Goto(step)  == pc' = step /\ i' = 1 /\ j' = 1 /\ UNCHANGED <<load, why, secRva>>
Stop(how)   == pc' = how /\ why' = pc /\ UNCHANGED <<load, i, j, secRva>>
Abort       == /\ Stop("aborted")
               /\ UNCHANGED <<file, space, modules, tls, procs>>
Fault       == /\ Stop("faulted")
               /\ UNCHANGED <<file, space, modules, tls, procs>>

(* A store of the loader to cell r of the image being loaded: it traps      *)
(* unless the page is writable at that moment.                              *)
CanWrite(r)    == "w" \in prot[load][r]
Write(r, cell) == mem' = [mem EXCEPT ![load][r] = cell]

(* resolve_import_by_name_or_ordinal on the current modules[].              *)
Resolve(q) == Answer(modules, file, q)

-----------------------------------------------------------------------------
(* load_pe, in program order                                                *)

(* fopen succeeds or not; mmap of an empty file returns MAP_FAILED, which   *)
(* the assertion on fdata lets through; the header assertions; then         *)
(* posix_memalign and the copy of the headers.                              *)
OpenFails   == pc = "open" /\ img.kind = "absent" /\ Abort
MapFails    == pc = "open" /\ img.kind = "empty"  /\ Fault
HeadersFail == pc = "open" /\ img.kind = "notpe"  /\ Abort
AllocFails  == pc = "open" /\ img.kind = "pe64" /\ MayRunOut /\ Abort

(* Faulty: the header pages are made read-only at once.                     *)
CopyHeadersReadOnly ==
  /\ pc = "open"
  /\ img.kind = "pe64"
  /\ mem' = [mem EXCEPT ![load] =
       [r \in Rva |-> IF r < img.headers THEN FileCell(r) ELSE Junk]]
  /\ prot' = [prot EXCEPT ![load] =
       [r \in Rva |-> IF r \in HeaderPages(img) THEN {"r"} ELSE {"r", "w"}]]
  /\ pc' = "sections" /\ i' = 1 /\ j' = 1
  /\ secRva' = AlignUp(img.headers, img.align)
  /\ UNCHANGED <<file, load, why, modules, tls, procs>>

CopyHeaders ==
  /\ pc = "open"
  /\ img.kind = "pe64"
  /\ mem' = [mem EXCEPT ![load] =
       [r \in Rva |-> IF r < img.headers THEN FileCell(r) ELSE Junk]]
  /\ prot' = [prot EXCEPT ![load] = [r \in Rva |-> {"r", "w"}]]
  /\ pc' = "sections" /\ i' = 1 /\ j' = 1
  /\ secRva' = AlignUp(img.headers, img.align)
  /\ UNCHANGED <<file, load, why, modules, tls, procs>>

(* Faulty: what the file does not provide of a section is not cleared.      *)
CopySectionOnly ==
  /\ pc = "sections"
  /\ i <= Len(img.sections)
  /\ img.sections[i].va = AlignUp(secRva, img.align)
  /\ LET s == img.sections[i]
     IN  /\ mem' = [mem EXCEPT ![load] =
              [r \in Rva |-> IF r \in s.va .. (s.va + Copied(s) - 1) THEN FileCell(r)
                             ELSE mem[load][r]]]
         /\ secRva' = s.va + s.vsize
  /\ i' = i + 1
  /\ UNCHANGED <<file, load, pc, why, j, prot, modules, tls, procs>>

(* One section: its file data lands at the aligned running RVA, which must  *)
(* be its VirtualAddress; what the file does not provide is cleared.        *)
CopySection ==
  /\ pc = "sections"
  /\ i <= Len(img.sections)
  /\ LET s == img.sections[i]
         at == AlignUp(secRva, img.align)
     IN  /\ s.va = at
         /\ mem' = [mem EXCEPT ![load] =
              [r \in Rva |->
                 IF r \in at .. (at + Copied(s) - 1) THEN FileCell(s.va + (r - at))
                 ELSE IF r \in at .. (at + s.vsize - 1) THEN Zero
                 ELSE mem[load][r]]]
         /\ secRva' = at + s.vsize
  /\ i' = i + 1
  /\ UNCHANGED <<file, load, pc, why, j, prot, modules, tls, procs>>

SectionMisplaced ==
  /\ pc = "sections"
  /\ i <= Len(img.sections)
  /\ img.sections[i].va # AlignUp(secRva, img.align)
  /\ Abort

SectionsDone ==
  /\ pc = "sections"
  /\ i > Len(img.sections)
  /\ Goto("relocs")
  /\ UNCHANGED <<file, space, modules, tls, procs>>

(* One TypeOffset entry of the current base relocation block.               *)
AtReloc == pc = "relocs" /\ i <= Len(img.relocs) /\ j <= Len(img.relocs[i].entries)
Entry   == img.relocs[i].entries[j]

SkipAbsolute ==
  /\ AtReloc
  /\ Entry.type = "absolute"
  /\ j' = j + 1
  /\ UNCHANGED <<file, load, pc, why, i, secRva, space, modules, tls, procs>>

ApplyDir64 ==
  /\ AtReloc
  /\ Entry.type = "dir64"
  /\ IF CanWrite(Entry.rva)
       THEN /\ Write(Entry.rva, [mem[load][Entry.rva] EXCEPT !.adj = @ + 1])
            /\ j' = j + 1
            /\ UNCHANGED <<file, load, pc, why, i, secRva, prot, modules, tls, procs>>
       ELSE Fault

UnknownReloc == AtReloc /\ Entry.type = "other" /\ Abort

(* Faulty: the counter of the entries starts at the second one.             *)
NextRelocBlockSkips ==
  /\ pc = "relocs"
  /\ i <= Len(img.relocs)
  /\ j > Len(img.relocs[i].entries)
  /\ i' = i + 1 /\ j' = 2
  /\ UNCHANGED <<file, load, pc, why, secRva, space, modules, tls, procs>>

(* The end of a block: offset must not have run past the directory.         *)
NextRelocBlock ==
  /\ pc = "relocs"
  /\ i <= Len(img.relocs)
  /\ j > Len(img.relocs[i].entries)
  /\ IF img.relocs[i].fits
       THEN /\ i' = i + 1 /\ j' = 1
            /\ UNCHANGED <<file, load, pc, why, secRva, space, modules, tls, procs>>
       ELSE Abort

(* ImageBase, in the header cell 0, becomes the address of idata.           *)
RelocsDone ==
  /\ pc = "relocs"
  /\ i > Len(img.relocs)
  /\ IF CanWrite(0)
       THEN /\ Write(0, [mem[load][0] EXCEPT !.adj = 1])
            /\ Goto("imports")
            /\ UNCHANGED <<file, prot, modules, tls, procs>>
       ELSE Fault

(* One thunk of the current import descriptor.                              *)
BindThunk ==
  /\ pc = "imports"
  /\ i <= Len(img.imports)
  /\ j <= Len(img.imports[i].thunks)
  /\ LET t == img.imports[i].thunks[j]
         q == [dll |-> img.imports[i].dll, sym |-> t.sym, ordinal |-> t.ordinal]
     IN  IF Resolve(q) = {} THEN Abort
         ELSE IF ~CanWrite(t.iat) THEN Fault
         ELSE /\ \E m \in Resolve(q) : Write(t.iat, Import(m))
              /\ j' = j + 1
              /\ UNCHANGED <<file, load, pc, why, i, secRva, prot, modules, tls, procs>>

(* TimeDateStamp marks the descriptor bound; offset must stay inside.       *)
NextDescriptor ==
  /\ pc = "imports"
  /\ i <= Len(img.imports)
  /\ j > Len(img.imports[i].thunks)
  /\ IF ~CanWrite(img.imports[i].at) THEN Fault
     ELSE IF ~img.imports[i].fits THEN Abort
     ELSE /\ Write(img.imports[i].at, BoundMark)
          /\ i' = i + 1 /\ j' = 1
          /\ UNCHANGED <<file, load, pc, why, secRva, prot, modules, tls, procs>>

(* The import loop is over: the header pages become read-only.              *)
ProtectHeaders ==
  /\ pc = "imports"
  /\ i > Len(img.imports)
  /\ prot' = [prot EXCEPT ![load] =
       [r \in Rva |-> IF r \in HeaderPages(img) THEN {"r"} ELSE prot[load][r]]]
  /\ Goto("protect")
  /\ UNCHANGED <<file, mem, modules, tls, procs>>

(* What mprotect gives the pages of a section.                              *)
Protection(s) == {"r"} \cup (IF s.write THEN {"w"} ELSE {})
                       \cup (IF s.exec THEN {"x"} ELSE {})

(* Faulty: the length given to mprotect is not aligned.                     *)
ProtectSectionUnaligned ==
  /\ pc = "protect"
  /\ i <= Len(img.sections)
  /\ LET s == img.sections[i]
     IN  prot' = [prot EXCEPT ![load] =
           [r \in Rva |-> IF r \in SectionCells(s) THEN Protection(s) ELSE prot[load][r]]]
  /\ i' = i + 1
  /\ UNCHANGED <<file, load, pc, why, j, secRva, mem, modules, tls, procs>>

ProtectSection ==
  /\ pc = "protect"
  /\ i <= Len(img.sections)
  /\ LET s == img.sections[i]
     IN  prot' = [prot EXCEPT ![load] =
           [r \in Rva |-> IF r \in SectionPages(img, s) THEN Protection(s)
                          ELSE prot[load][r]]]
  /\ i' = i + 1
  /\ UNCHANGED <<file, load, pc, why, j, secRva, mem, modules, tls, procs>>

ProtectFails ==
  /\ MayRunOut
  /\ \/ pc = "imports" /\ i > Len(img.imports)
     \/ pc = "protect" /\ i <= Len(img.sections)
  /\ Abort

(* Faulty: every entry that is not an image counts as free.                 *)
UnloadedEntries == {m \in ModuleIdx : modules[m].load = 0}

(* The first NULL entry of modules[] becomes this image; there must be one. *)
FreeEntries == {m \in ModuleIdx : modules[m] = NoModule}

(* Faulty: a full table is not noticed.                                     *)
RegisterUnchecked ==
  /\ pc = "protect"
  /\ i > Len(img.sections)
  /\ modules' = [m \in ModuleIdx |->
        IF m \in FreeEntries /\ \A n \in FreeEntries : m <= n
          THEN [name |-> img.name, load |-> load] ELSE modules[m]]
  /\ Goto("tls")
  /\ UNCHANGED <<file, space, tls, procs>>

Register ==
  /\ pc = "protect"
  /\ i > Len(img.sections)
  /\ IF FreeEntries = {} THEN Abort
     ELSE /\ \E m \in FreeEntries :
               /\ \A n \in FreeEntries : m <= n
               /\ modules' = [modules EXCEPT ![m] = [name |-> img.name, load |-> load]]
          /\ Goto("tls")
          /\ UNCHANGED <<file, space, tls, procs>>

NoTls ==
  /\ pc = "tls"
  /\ ~HasTls(img)
  /\ Goto("entry")
  /\ UNCHANGED <<file, space, modules, tls, procs>>

(* The cell holds a pointer of the file, moved to where the image now is.   *)
Relocated(r) == mem[load][r].tag = "file" /\ mem[load][r].adj = 1

(* The template is copied through absolute pointers of the TLS directory,   *)
(* tls_array gets the copy, the image's index cell its place, and GS is set.*)
InstallTls(next) ==
  LET d == img.tls
  IN  /\ tlsArray' = [tlsArray EXCEPT ![tlsIndex] =
                [n \in 1 .. (d.last - d.start + 1) |-> mem[load][d.start + n - 1]]]
      /\ Write(d.index, TlsIndex(tlsIndex))
      /\ tlsIndex' = next
      /\ gs' = TRUE
      /\ Goto("callbacks")
      /\ UNCHANGED <<file, prot, modules, procs>>

(* Faulty: the next image gets the same index.                              *)
SetupTlsSameIndex == pc = "tls" /\ HasTls(img) /\ InstallTls(tlsIndex)

(* A raw data pointer left as the linker wrote it makes the copy start at   *)
(* such an address, or its size one that posix_memalign refuses.            *)
SetupTls ==
  /\ pc = "tls"
  /\ HasTls(img)
  /\ LET d == img.tls
     IN  IF ~d.supported THEN Abort
         ELSE IF ~Relocated(d.dir) \/ ~Relocated(d.dir + 1) THEN Fault \/ Abort
         ELSE IF ~(tlsIndex < MaxTls - 1) THEN Abort
         ELSE IF ~Relocated(d.dir + 2) \/ ~CanWrite(d.index) THEN Fault
         ELSE InstallTls(tlsIndex + 1)

TlsAllocFails ==
  /\ pc = "tls"
  /\ HasTls(img)
  /\ img.tls.supported
  /\ MayRunOut
  /\ Abort

(* Faulty: the index of the callback is not advanced.                       *)
RunCallbackAgain ==
  /\ pc = "callbacks"
  /\ i <= img.tls.calls
  /\ i' = i
  /\ UNCHANGED <<file, load, pc, why, j, secRva, space, modules, tls, procs>>

(* callbacks[i] is called and has returned, but for what ImageLookup adds.  *)
RunCallback ==
  /\ pc = "callbacks"
  /\ i <= img.tls.calls
  /\ IF Relocated(img.tls.dir + 3) /\ Relocated(img.tls.table + i - 1)
       THEN /\ i' = i + 1
            /\ UNCHANGED <<file, load, pc, why, j, secRva, space, modules, tls, procs>>
       ELSE Fault

CallbacksDone ==
  /\ pc = "callbacks"
  /\ i > img.tls.calls
  /\ Goto("entry")
  /\ UNCHANGED <<file, space, modules, tls, procs>>

-----------------------------------------------------------------------------
(* Image code: a TLS callback or the entry point of the current image, or   *)
(* code of an earlier image it calls.                                       *)

CodeRuns == pc = "entry" \/ (pc = "callbacks" /\ i > 1)

(* LoadLibraryExA answers the name of a module, loading nothing, and        *)
(* GetProcAddress asks the resolver for a function of that name.            *)
ImageLookup(l, q) ==
  /\ CodeRuns
  /\ l <= load
  /\ q \in file[l].lookups
  /\ \A p \in procs : p.caller # l \/ p.query # q
  /\ IF \/ q.dll \notin DOMAIN LibraryAlias
        \/ Resolve([q EXCEPT !.dll = LibraryAlias[q.dll]]) = {}
       THEN Abort
       ELSE /\ \E m \in Resolve([q EXCEPT !.dll = LibraryAlias[q.dll]]) :
                  procs' = procs \cup {[caller |-> l, query |-> q, target |-> m]}
            /\ UNCHANGED <<file, control, space, modules, tls>>

(* Faulty: what the entry point returns is ignored.                         *)
EntryReturnsAny ==
  /\ pc = "entry"
  /\ img.ends \in {"true", "false"}
  /\ IF load < NLoads
       THEN /\ load' = load + 1
            /\ pc' = "open" /\ i' = 1 /\ j' = 1 /\ secRva' = 0 /\ UNCHANGED why
       ELSE Stop("exited")
  /\ UNCHANGED <<file, space, modules, tls, procs>>

(* Faulty: one more image is loaded than there are paths.                   *)
EntryReturnsPastLast ==
  /\ pc = "entry"
  /\ img.ends = "true"
  /\ load' = load + 1
  /\ pc' = "open" /\ i' = 1 /\ j' = 1 /\ secRva' = 0
  /\ UNCHANGED <<file, why, space, modules, tls, procs>>

(* load_pe asserts that the entry point returned TRUE; main then loads the  *)
(* next image, or returns after the last one.                               *)
EntryReturns ==
  /\ pc = "entry"
  /\ \/ /\ img.ends = "false"
        /\ Abort
     \/ /\ img.ends = "true"
        /\ load < NLoads
        /\ load' = load + 1
        /\ pc' = "open" /\ i' = 1 /\ j' = 1 /\ secRva' = 0
        /\ UNCHANGED <<file, why, space, modules, tls, procs>>
     \/ /\ img.ends = "true"
        /\ load = NLoads
        /\ Stop("exited")
        /\ UNCHANGED <<file, space, modules, tls, procs>>

(* TerminateProcess: fflush(stdout) and _exit.                              *)
EntryTerminates ==
  /\ pc = "entry"
  /\ img.ends = "terminate"
  /\ Stop("exited")
  /\ UNCHANGED <<file, space, modules, tls, procs>>

-----------------------------------------------------------------------------

Init ==
  /\ file \in [Loads -> Images]
  /\ load = 1 /\ pc = "open" /\ why = "none"
  /\ i = 1 /\ j = 1 /\ secRva = 0
  /\ mem = [l \in Loads |-> [r \in Rva |-> Junk]]
  /\ prot = [l \in Loads |-> [r \in Rva |-> {}]]
  /\ modules = [m \in ModuleIdx |->
       IF m <= NBuiltins THEN [name |-> Builtins[m], load |-> 0] ELSE NoModule]
  /\ tlsIndex = 0
  /\ tlsArray = [x \in TlsSlots |-> <<>>]
  /\ gs = FALSE
  /\ procs = {}

LoadStep ==
  \/ OpenFails \/ MapFails \/ HeadersFail \/ AllocFails \/ CopyHeaders
  \/ CopySection \/ SectionMisplaced \/ SectionsDone
  \/ SkipAbsolute \/ ApplyDir64 \/ UnknownReloc \/ NextRelocBlock \/ RelocsDone
  \/ BindThunk \/ NextDescriptor
  \/ ProtectHeaders \/ ProtectSection \/ ProtectFails \/ Register
  \/ NoTls \/ SetupTls \/ TlsAllocFails \/ RunCallback \/ CallbacksDone

CodeStep ==
  \/ \E l \in Loads : \E q \in file[l].lookups : ImageLookup(l, q)
  \/ EntryReturns \/ EntryTerminates

(* The process has ended.                                                   *)
Done == pc \in Ended /\ UNCHANGED vars

Next == LoadStep \/ CodeStep \/ Done

(* One thread runs, and no image code is taken to loop forever.             *)
Spec     == Init /\ [][Next]_vars
FairSpec == Spec /\ WF_vars(LoadStep \/ CodeStep)

-----------------------------------------------------------------------------
(* Type invariant of the loader's variables.                                *)
TypeOK ==
  /\ file \in [Loads -> Images]
  /\ load \in Loads
  /\ pc \in Working \cup Ended
  /\ why \in Working \cup {"none"}
  /\ i \in Nat \ {0} /\ j \in Nat \ {0} /\ secRva \in Nat
  /\ mem \in [Loads -> [Rva -> Cell]]
  /\ prot \in [Loads -> [Rva -> SUBSET {"r", "w", "x"}]]
  /\ modules \in [ModuleIdx -> [name : STRING \cup {NULL}, load : Loads \cup {0}]]
  /\ tlsIndex \in TlsSlots
  /\ tlsArray \in [TlsSlots -> Seq(Cell)]
  /\ gs \in BOOLEAN
  /\ procs \subseteq [caller : Loads, query : Query, target : ModuleIdx]

(* The step load_pe is in, or was in when the process stopped.              *)
Step == IF pc \in Ended THEN why ELSE pc

Registered(l) == l < load \/ (l = load /\ Step \in {"tls", "callbacks", "entry"})
Prepared(l)   == l < load \/ (l = load /\ Step \in {"callbacks", "entry"})
Initialised(l) == l < load

(* modules[] holds the built-ins, then every registered image in load order *)
(* and nothing behind them: the resolver, which stops at the first NULL     *)
(* entry, reaches them all, and no built-in is ever replaced.               *)
ModuleTableDense ==
  /\ \A m \in 1..NBuiltins : modules[m] = [name |-> Builtins[m], load |-> 0]
  /\ \A m \in (NBuiltins + 1)..MaxModules :
       LET l == m - NBuiltins
       IN  modules[m] = IF l \in Loads /\ Registered(l)
                          THEN [name |-> file[l].name, load |-> l] ELSE NoModule

(* Cells of l the loader itself fills.                                      *)
Patched(l) == IatCells(file[l]) \cup Marks(file[l])
                \cup (IF HasTls(file[l]) THEN {file[l].tls.index} ELSE {})

(* Before any code of an image runs, each cell of each of its sections has  *)
(* the file's bytes for that very RVA, or zero behind them, and each header *)
(* cell the header's.                                                       *)
SectionsFaithful ==
  \A l \in Loads : Prepared(l) =>
    /\ \A n \in DOMAIN file[l].sections :
         \A r \in SectionCells(file[l].sections[n]) \ Patched(l) :
           LET s == file[l].sections[n]
           IN  IF r < s.va + s.raw
                 THEN mem[l][r].tag = "file" /\ mem[l][r].arg = r
                 ELSE mem[l][r].tag = "zero"
    /\ \A r \in 0 .. (file[l].headers - 1) : mem[l][r].tag = "file"

(* ... and base_delta has been added exactly once to every DIR64 target and *)
(* to nothing else; ImageBase says where the image is.                      *)
RebasedOnce ==
  \A l \in Loads : Prepared(l) =>
    \A r \in Rva : mem[l][r].adj = IF r \in Slots(file[l]) \cup {0} THEN 1 ELSE 0

(* ... and every import is bound to what the resolver still answers, now    *)
(* that later images have been registered: a function of a built-in, or of  *)
(* an image whose entry point returned TRUE before this one was opened.     *)
ImportsSettled ==
  \A l \in Loads : Prepared(l) =>
    \A x \in Thunks(file[l]) :
      LET c == mem[l][x.thunk.iat]
          q == [dll |-> x.dll, sym |-> x.thunk.sym, ordinal |-> x.thunk.ordinal]
      IN  /\ c.tag = "import"
          /\ Resolve(q) = {c.arg}
          /\ modules[c.arg].load < l

(* ... and its pages have the protection its section headers ask for.       *)
PagesProtected ==
  \A l \in Loads : Prepared(l) =>
    /\ \A n \in DOMAIN file[l].sections :
         \A r \in SectionPages(file[l], file[l].sections[n]) :
           prot[l][r] = Protection(file[l].sections[n])
    /\ \A r \in HeaderPages(file[l]) : prot[l][r] = {"r"}

(* An image with TLS has an index of its own in its index variable, GS is   *)
(* set before its code runs, and tls_array[] holds under that index its     *)
(* template, with the pointers in it already relocated.                     *)
TlsReady ==
  \A l \in Loads : Prepared(l) /\ HasTls(file[l]) =>
    LET t == file[l].tls
        c == mem[l][t.index]
    IN  /\ gs
        /\ c.tag = "tlsindex"
        /\ \A k \in Loads \ {l} : Prepared(k) /\ HasTls(file[k]) =>
             mem[k][file[k].tls.index].arg # c.arg
        /\ \A r \in (t.start .. t.last) \ {t.index} :
             tlsArray[c.arg][r - t.start + 1] = mem[l][r]

(* What image code has obtained from GetProcAddress stays what it would     *)
(* obtain now, whatever was registered since: a function of a built-in or   *)
(* of an image whose code had already been entered.                         *)
LookupsSettled ==
  \A p \in procs :
    /\ Resolve([p.query EXCEPT !.dll = LibraryAlias[p.query.dll]]) = {p.target}
    /\ modules[p.target].load = 0 \/ Prepared(modules[p.target].load)
                                  \/ Step = "entry"

(* The loader patches the image before it protects it: of all its stores    *)
(* only the one to the TLS index can trap, when the file puts that index in *)
(* a section it does not mark writable.  Its other memory faults are a file *)
(* that could not be mapped and a TLS pointer that has no relocation.       *)
OnlyTlsIndexTraps ==
  pc = "faulted" =>
    \/ why = "open" /\ img.kind = "empty"
    \/ why = "tls" /\ ~InWritable(img, img.tls.index)
    \/ why \in {"tls", "callbacks"} /\ ~TlsPointers(img) \subseteq Slots(img)

(* load_pe implements its promise: which images start, in which order, and  *)
(* on what grounds the process stops, are decided by the files alone.       *)
Promise == INSTANCE LoaderPromise WITH
  started <- IF Step = "entry" \/ (Step = "callbacks" /\ i > 1) THEN load ELSE load - 1,
  outcome <- IF pc \in Ended THEN pc ELSE "running"

KeepsPromise == Promise!Spec

(* The process always ends, and ends well when every image can be loaded,   *)
(* looks up only functions there are, and its entry point returns TRUE or   *)
(* ends the process.                                                        *)
GoodRunsExit ==
  /\ <>(pc \in Ended)
  /\ (\A l \in Loads : Promise!Loadable(l) /\ ~Promise!MayFail(l))
       ~> (pc = "exited")

(* pe-loader.c:272 asserts "mmap" on the mapped file: a file that cannot be *)
(* mapped stops the loader at that assertion.                               *)
MmapFailureAsserted == ~(pc = "faulted" /\ why = "open")
=============================================================================
