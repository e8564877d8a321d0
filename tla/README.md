# A verification of xdia

xdia extracts the publics and globals of a PDB as JSON. `xdia.exe` is a Windows
program that asks Microsoft's `msdia140.dll`; on other systems `xdialdr` loads
both as PE images and gives them a small kernel32; on top of either, the Python
package pyxdia runs the program and parses what it prints. This directory holds
TLA+ modules that model these parts, and DIA2Dump, Microsoft's larger sample of the
same interfaces that the repository builds for the same loader; TLC configurations
that check them on small instances; and TLAPS proofs for every value of their
constants.

## 1. The system

| Component | State it keeps | Operations | Talks to |
|---|---|---|---|
| PE loader (`src/src/pe-loader/pe-loader.c`, `common.h`) | the image being loaded (`idata`), page protections, `modules[]`, `tls_index`, `tls_array[]`, the GS base | `load_pe`: headers, sections, relocations, imports, protection, registration, TLS, callbacks, entry point; `resolve_import_by_name_or_ordinal` | the host (`fopen`, `mmap`, `posix_memalign`, `mprotect`); the images' code, which calls back |
| mains (`xdia-loader/main.c`, `DIA2Dump/main.c`) | the command line | `load_pe` of msdia140.dll, then of xdia.exe | PE loader |
| kernel32: library and process calls | none of its own (reads `modules[]`) | `LoadLibraryExA`, `GetProcAddress`, `TerminateProcess` | image code, resolver |
| kernel32: files and mappings | the FILE objects, `file_mappings[10]`, `last_error` | `CreateFileW`, `GetFileSizeEx`, `SetFilePointerEx`, `ReadFile`, `CloseHandle`, `CreateFileMappingW`, `MapViewOfFileEx`, `UnmapViewOfFile` | msdia140.dll; stdio and mmap of the host |
| kernel32: console output | the stdout buffer of the C library | `GetStdHandle`, `WriteFile`, `TerminateProcess` | xdia.exe; the pipe |
| kernel32: heaps | blocks of `malloc` with a size in front | `HeapAlloc`, `HeapReAlloc`, `HeapFree`, `HeapSize`, `LocalAlloc`, `LocalFree`, `VirtualAlloc`, `VirtualFree` | image code |
| kernel32: fiber-local storage, last error | `fls_slots[]`, `last_error` | `FlsAlloc`, `FlsSetValue`, `FlsGetValue`, `FlsGetValue2`, `SetLastError`, `GetLastError` | the images' C runtimes |
| kernel32: text conversion | none | `MultiByteToWideChar`, `WideCharToMultiByte`, `wc2c`, `c2wc` | everything that passes names |
| oleaut32 | BSTRs, VARIANTs | `SysAllocString...`, `SysFreeString`, `VariantInit`, `VariantClear`, `VariantCopy` | msdia140.dll, xdia.exe |
| stubs (rest of `winapi/`) | none | assert or answer a constant | image code |
| xdia.exe (`src/src/xdia`) | the DIA session, enumerators, two JSON values | `LoadDataFromPdb`, `DumpAllPublics`, `DumpAllGlobals`, `PrintPublicSymbol`, `PrintGlobalSymbol` | DIA; stdout and stderr |
| pyxdia (`pyxdia/pyxdia/pdb.py`) | `_pdb_data` | `_load_pdb`, `globals`, `publics` | xdia.exe through a pipe and an exit status |
| DIA2Dump (`src/src/DIA2Dump`) | the command line left, DIA's data source, session and global scope, the stack of walks | `wmain`, `ParseArg`, about forty dumps, the OMAP lookups | DIA; stdout |

What makes each part correct, in a line. PE loader: an image runs only on bytes
that are its file's, rebased once, bound to images that are done, protected as
asked. Library calls: an answer stays right. Files and views: no call disturbs
another reader. Heaps, strings, slots: what a caller holds is its own and keeps
its size and contents. Text: what goes through a conversion comes back.
xdia.exe, console output, pyxdia: all of the dump or an error, and never a hang.
DIA2Dump: the dumps asked for, once and in order, and all that DIA handed out
given back, whichever call fails.

What is hard here: foreign code runs in the middle of `load_pe` and calls back
into tables the loader is still filling; the order of patching, protecting and
registering matters and only an image's own code would notice a mistake; the tables
are small and fixed; the file calls share one table and one address space and
come in any order; `mmap` may answer something else than was asked; xdia and
pyxdia are two processes joined by a bounded pipe, and three different ways to
end (exit code, assertion, uncaught exception) decide what the Python caller
sees; DIA may fail at any call of DIA2Dump, and each has its own way out. There is one thread in the loader and nothing persistent, so there is no
interleaving of threads and no recovery to model. `PROJECT.json` lists each
hazard at its line, with the property that covers it.

## 2. What models what

| Module | Models | State, actions and the code |
|---|---|---|
| `PeImage` | the data of the loader | an image as a record of what `load_pe` reads of it; `Answer` is `resolve_import_by_name_or_ordinal` |
| `PeLoader` | `load_pe`, `modules[]`, TLS, the calls of image code | `pc` is the stretch of `load_pe`, `i` and `j` its loop counters; one action per loop iteration or straight-line stretch; `ImageLookup` is `LoadLibraryExA` + `GetProcAddress` |
| `LoaderPromise` | abstract specification | which images start, in which order, and on what grounds the process ends, decided by the files alone |
| `FileViews` | files, mappings, views | one action per kernel32 call; `vm` is the host's set of mapped pages, which the code cannot see |
| `XdiaDump` | xdia.exe | one action per DIA call that can fail or hands out an object; a symbol is printed in the action that fetches it |
| `Pipeline` | xdia's writes, the loader's stdout, the pipe, pyxdia | composes `XdiaDump` (EXTENDS) with a consumer process |
| `Memory` | heaps, oleaut32, fiber-local slots | one action per call; `words` is what each block of `malloc` holds, with the size in front where the code puts it; `area`, `loose`, `variant`, `stored` are what the caller knows |
| `Text` | `wc2c`, `c2wc`, `WideCharToMultiByte`, `MultiByteToWideChar` | one text followed through any sequence of conversions; `said` is what it says, `buffer` the memory that holds it; ICU is external |
| `Omap` | `DumpMapToSrc`, `DumpMapFromSrc` | the scan as a function, and the translation it should be |
| `DiaWalk` | every function of DIA2Dump that walks a PDB | a stack of calls; a call is the list of moves it has left, what became of the object it was given, and where its loop is; DIA may fail or run dry at each move; nothing is released but by a move of the table |
| `DiaTable` | what the functions are | `Body[f]`: the moves of `f`, one line per function of `DIA2Dump.cpp` and `PrintSymbol.cpp`, and one for what a function does with an object it gets, with the `Release` calls where the code has them |
| `Dia2Dump` | `wmain`, `ParseArg` | the words of the command line, one action per step of the parsing; composes `DiaWalk` (EXTENDS) |
| `MCPeLoader`, `MCFileViews`, `MCPipeline`, `MCMemory`, `MCText`, `MCDia2Dump` | instances for TLC | images, handles, PDBs, blocks, letters, command lines; `MCDia2Dump` gives `DiaWalk` the table of `DiaTable` |
| `PeLoaderProofs`, `LoaderProofs`, `FileViewsProofs`, `PipelineProofs`, `DumpProofs`, `DiaProofs`, `MemoryProofs`, `TextProofs` | theorems and proofs | section 5 |

Abstractions. An address is a small number that names one *cell*, the bytes one
store of the loader touches; a cell says where its content came from (file,
zero fill, import, TLS index, bound mark, heap) and how often `base_delta` was
added to it. Pages are `SectionAlignment` cells. A failed assertion is the
outcome "aborted", a bad access "faulted", `TerminateProcess` or the return of
main "exited". xdialdr is built without a build type, so its assertions are
compiled in; xdia.exe is built as Release, so its own are not. In `FileViews`
a view counts pages, a position bytes, and the width of `int` is the constant
`IntLimit`, with the wrap-around of the conversion modelled. In `XdiaDump` the
JSON of a symbol keeps which fields are values, null or junk; strings are left
out. An output *piece* stands for the text of one JSON value. In `Memory` a size
counts words of `sizeof(SIZE_T)`, and `malloc` may hand out again any block that
was freed, with its old contents as junk. The caller of `Memory` keeps to the
Windows protocol: it frees what it holds and once. In `Text` a letter is known by
its number of UTF-8 bytes and a unit is one byte or word of a letter. In `DiaWalk`
what is printed is left out; a symbol is known by how deep types and symbols may
still nest below it.

Faulty variants (operators introduced by a comment that begins with "Faulty:")
stand beside the definitions they would break. No specification uses them: each is a
plausible mistake in that code which the properties must notice.

Invariants of the images (`LinkerMade`): the loader trusts its input in places
no assertion guards. Headers and sections lie inside the image; no cell is
relocated twice; each import has a cell of its own; relocation slots, import
cells and bound marks are disjoint and lie where the file has data; the TLS index
is a word of a section and nothing else is stored there, and the pointers of the
TLS directory are not the cell of `ImageBase`. These are assumed, as the two images it is
for are made by a linker. The instances satisfy them, and TLC evaluates them on every run. Everything the loader does check is not assumed, and
the instances contain images that fail each check.

## 3. The runs

| Run | Instance | What it shows |
|---|---|---|
| `PeLoader` | 28 images (6 that load, a namesake, 21 that fail in one way each), any two of them in a row, the real table sizes | before any code of an image runs its sections are the file's (`SectionsFaithful`), each DIR64 target is rebased exactly once (`RebasedOnce`), its imports are what the resolver answers now and belong to an image that is done (`ImportsSettled`), its pages are protected as asked (`PagesProtected`), its TLS block is ready (`TlsReady`); `modules[]` has no hole (`ModuleTableDense`); of the loader's own stores only one can trap (`OnlyTlsIndexTraps`); the loader implements `LoaderPromise` (`KeepsPromise`), always ends, and ends well for good images (`GoodRunsExit`) |
| `PeLoaderLimits` | three images, room for two; one usable TLS slot; allocation and protection may fail | the full tables stop the loader at their assertions and no image is taken or refused but for what the promise names (`KeepsPromise`); what image code got from `GetProcAddress` stays right as images are registered (`LookupsSettled`) |
| `PeLoaderMmap` | as `PeLoader` | **violated**: finding 1 |
| `FileViews` | 2 files, 3 entries, 4 pages, views of 1 or 2 pages, positions on both sides of the range of the scaled `int`, `mmap` failing or ignoring the hint | mapped pages are exactly those of recorded views (`ViewsAccounted`), no two views overlap (`ViewsDisjoint`), asking for the size keeps the position below 2 GiB (`SizeQueryKeepsPosition`); beyond, the model shows it lost, as the code's `int` loses it |
| `Pipeline` | 26 PDBs (each way to fail once, a `Next` that fails at the start and in the middle of a listing among them), on Windows and under the loader, stdio buffer and pipe of two pieces for dumps of up to nine | what pyxdia returns is what DIA handed out, once and in order, and all that the PDB has if no call of DIA fails (`DataIsWhole`; findings 3 and 4 are what the code loses otherwise), it raises only if what is at the path xdia gets cannot be dumped (`RaisesForCause`), exactly the enumerator being read is held (`EnumeratorsReleased`), and it always returns or raises (`Answered`) |
| `ThunksDumped` | as `Pipeline` | **violated**: finding 2 |
| `AllListed` | three PDBs: a `findChildren` and a `Next` that fail, a `Next` alone, a path with a blank beside them | **violated**: findings 3 and 4, both in the behaviour reported; the other PDBs violate it too |
| `Dia2Dump` | 446 command lines: each option with every arrangement of its words, alone and before others; DIA failing or running dry at any call; enumerations of at most one item, types nested once and symbols twice | the dumps the help text promises are run, each once and in order, and exit status 0 means all of them and a line the help text has (`HelpHonoured`, but on five kinds of line it names), exit status -1 has a cause: DIA failed, the line is none by the help text, or it is of a kind known to be misread or refused (`FailsForCause`), the recursion of `PrintTypeInDetail` stops (`DetailBounded`), a lookup in a sorted OMAP stream is the translation (`LookupsRight`), every object but the eight kinds listed below is released exactly once, on every way out, and not used afterwards (`ReleasedOnce`), and the program ends (`Ends`) |
| `DiaCompiland` | `-compiland` with other options behind it | **violated**: finding 5 |
| `Memory` | 2 blocks, sizes of 0 to 2 words, 2 variants, 2 slots, every order of calls | `HeapSize` answers what was last asked for (`HeapSizeTrue`), contents survive (`ContentsKept`), every string has one owner (`StringsOwnedOnce`), a slot reads what was stored behind its index (`FlsReadsBack`) |
| `HeapReAlloc` | as `Memory` | **violated**: finding 6 |
| `Text` | texts of up to two letters of 1 to 4 bytes, buffers of 0 to 9 units, any sequence of conversions | nothing is cut or added (`TextSurvives`), nothing is read or written past a buffer (`NoOverrun`), a size that was asked for is enough (`AskedIsEnough`), a wide text stops the program only where image code cut a surrogate pair in two (`OnlyCutPairsAbort`) |

Why the bounds are enough. `load_pe` treats the images one after the other and
the resolver only looks back, so two images show every relation between an
earlier and a later one and the third the effect of a full table. The images
have three sections (a raw size above, equal to and below the virtual size),
two relocation blocks with a padding entry, a name and an ordinal import and a
TLS directory, so every loop runs zero, one and several times. For the views,
three entries let two live views meet a third that is mapped or unmapped
between them. Position arithmetic is linear in `IntLimit`: the positions reach
both sides of both of its wraps. Buffers of two pieces fill and drain several
times in every dump. Two blocks are what a move of `realloc` needs, and freeing
and allocating again meets every old content; two variants are what
`VariantCopy` has; slots are symmetric but for their order, and two already let
one be freed below one in use. Two letters put a wide one before and after a
narrow one, and buffers go up to one unit more than the longest text with its
NUL. In `DiaWalk` no function looks at how many items an enumerator had but for
none or some, and none counts its depth except `PrintTypeInDetail`, whose limit
is met by types that refer to each other, whatever `TypeDepth`. All runs but
those of `PeLoader` switch the deadlock check off: there the program, or its
caller, really may stop (`PeLoader` has an explicit `Done` step instead).

Fairness. `PeLoader`: weak fairness of the loader and the image code together,
which is one thread that the operating system runs, with the assumption that
image code does not loop forever by itself. `Pipeline`: weak fairness of each of the two
processes, which the operating system schedules independently. `Dia2Dump`: weak fairness of
its single thread, with the assumption that a call of DIA returns. The others
need none: their next step is the choice of image code, which may make none.

## 4. Findings

1. `pe-loader.c:272` asserts `fdata && "mmap"`, but `mmap` fails with
   `MAP_FAILED`, which is not NULL: an empty file gets past it and the loader
   faults on the DOS header. `kernel32.c:734` has the same assertion, and
   `MapViewOfFileEx` then hands `MAP_FAILED` out as a view.
2. `main.cpp:162` says that thunks are dumped. `PrintTargetInfo` returns null
   for a thunk with a name (`PrintSymbol.cpp:535`, marked FIXME) and
   `j.update(null)` at line 601 throws; the process ends and pyxdia raises.
3. `pdb.py:53` says "List all globals." and line 51 declares a list of dicts.
   When `findChildren` fails for a tag, `main.cpp:188` drops the globals collected
   before it; the exit status is 0 and, on Windows, pyxdia hands out `False`.
4. `pdb.py:60` says "List all publics.". A `Next` that fails ends the loop of
   `main.cpp:150` as the end of the list does: xdia prints what it has and exits
   with 0, and pyxdia returns a list that is cut short. Line 176 does the same to the
   globals of a tag.
5. The help of DIA2Dump lists `-compiland [name]` as an option like the others. The
   code takes its two words from the count and not from the list
   (`DIA2Dump.cpp:400`), so the compiland is dumped again in place of the options
   behind it, or the program ends with "missing argument".
6. `kernel32.c:555` declares that `HeapReAlloc` returns an area of its fourth
   argument. The block it allocates has room for the size word or for the last
   word of the area, not for both (`kernel32.c:562`), and with
   `HEAP_ZERO_MEMORY` it clears a word too early.

Met while modelling, without a run of their own. `xdia-loader/main.c:13` does not
quote the path it was given, so xdia opens the first word of one with a blank: if a
PDB is there, its dump is returned for the other (`Split` of `XdiaDump`; an instance of
`AllListed` has such a pair). A PDB without symbols of a kind gives `None` where
`pdb.py` declares a list. By the help text of DIA2Dump the name of `-compiland [name]`
may be left out (`DIA2Dump.cpp:701`) and `-all` is an option like the others (686);
ParseArg reports a missing argument for the one (403-407), knows the other only as the
first word (71, 669), and the program ends with -1: `WantsName` and `RefusesAll`, which
`FailsForCause` names among its causes. `-sym <rva>` and `-sym <regex>`
without a child's name call `c2wc` on NULL (`DIA2Dump.cpp:1582`, `:1625`; the two
NoChild walks of `DiaTable`). An empty narrow text stops the loader at the
assertion of `wc.c:33`, which takes the length 0 for a failure of ICU
(`LoaderC2wc` of `Text`). `MultiByteToWideChar` answers the length it would need
when the buffer is too small, where Windows answers 0, and
`WideCharToMultiByte` answers one more than its buffer has when just the NUL does
not fit (`Text`). Options behind `-?` or
behind a leading `-all` are not looked at, `-n` of `-ps` takes an option for its
number, and `-lsrc` reads its line from the file name (`HelpHonoured` names these
lines). `DumpSymbolsWithRegEx` keeps the result of the last symbol only
(`DIA2Dump.cpp:1630`). DIA2Dump never releases the type of a function type
(`PrintSymbol.cpp:1943`), the case of a tagged union and the type of its tag
(1961), the enumerator of an array without custom dimensions (1500), a property
that is an object (2413) and the symbols `-psr` prints (`DIA2Dump.cpp:1818`), and
loses a line and the compiland of a contribution when DIA fails for an attribute
of theirs (`PrintSymbol.cpp:2207`, 2251); `NeverReleased` and `LostWhenCut` of
`DiaWalk` name them.

## 5. What is proved

For every value of the constants that satisfies the named assumptions
(`DataAssumption`, `BuiltinNames`, `BuiltinAssumption`, `SizeAssumption`,
`ViewsAssumption`, `DumpAssumption`, `PipelineAssumption`, `WalkAssumption`,
`CommandLineAssumption`, `DumpsAssumption`, `MemoryAssumption`, `TextAssumption`):

- `PeLoaderProofs!TypeCorrect`: `Spec => []TypeOK`. The interesting part is that
  `load_pe` never leaves its image, `tls_array[]` or `modules[]`: it uses
  `LinkerMade` for the image and the two assertions on the tables for the rest.
  One lemma per action that writes.
- `PeLoaderProofs!ModuleTableStaysDense`: `Spec => []ModuleTableDense`. Not
  inductive alone: whether an image counts as registered depends, once the
  process has stopped, on the step it stopped in, so the invariant is
  `TypeOK /\ StopRemembered /\ ModuleTableDense`. `OnlyRegisterRegisters` shows
  that every other step keeps both sides, `FirstFreeEntry` that the first free
  entry is the one right behind the images loaded so far, `RegisterDense` puts
  them together.
- `LoaderProofs`: what an image is before any code of it runs, for any images,
  any number of `load_pe` calls and tables of any size. `Step` is the stretch
  `load_pe` is in, or was stopped in, and `Past(l, steps)` says that image `l` is behind
  a stretch, so a stop disturbs nothing. `LoadInv` is the conjunction of one
  part per concern, each telling the progress of the loop that is running and what
  it leaves behind:
  `LayoutInv` (the sections so far are where they belong, none over another),
  `ContentInv` (each holds its file's bytes, then zeroes, apart from the cells the
  loader patches), `RebaseInv` (`adj` is 1 on the sites reached and 0
  elsewhere), `BoundInv` (a bound cell is what the resolver answers, and the
  module is an earlier image's), `ProtectInv`, `TlsInv` (indices differ, the block
  of each is its template), `LookupInv`. From it follow
  `SectionsAreFaithful`, `RebasesOnce`, `ImportsStaySettled`, `PagesAreProtected`,
  `TlsIsReady`, `LookupsStaySettled` and `OnlyTheTlsIndexTraps`.
  `ImportsStaySettled` needs `ModuleTableDense`: a binding stays right as images are
  registered because they go behind those there, and the resolver
  takes the first name that matches. `PagesAreProtected` needs `LayoutInv`, or
  protecting one section would undo another.
- `LoaderProofs!LoaderKeepsPromise`: `Spec => KeepsPromise`, the simulation of
  `LoaderPromise` step by step. `LoadInv` says what `load_pe` did; `AcceptInv` adds what
  it has accepted: the blocks, the descriptors and the TLS directory behind which it is
  satisfy the parts of `Loadable`, and `WithTls` counts as `tls_index` does.
  With both (`KeepInv`) the code of an image starts only when it is loadable
  (`StartsLoadable`), a stop before that refutes one part of `Loadable`, or memory
  ran out (`Refuses`), a stop in image code is that code's (`CodeFailures`), and
  every other step changes nothing the promise sees (`PromiseSteps`). So no
  image starts that is not loadable, and none that is loadable is refused but
  for want of memory.
- `FileViewsProofs!TypeCorrect` and `FileViewsProofs!ViewsStaySound`:
  `Spec => [](ViewsAccounted /\ ViewsDisjoint)`, by `TypeOK /\ ViewsAccounted /\
  ViewsDisjoint`: neither of the last two is inductive without the other, because
  giving back a view's pages keeps the rest mapped only if no other view has
  them. `OneViewReplaced` is the set-theoretic core of both calls.
- `FileViewsProofs!ViewsAreDisjoint` and `!SizeQueriesKeepPositions` state the
  run's other properties: the second by `SmallIntsAreKept`, that the conversion to `int` keeps what is below its range.
- `PipelineProofs!TypeCorrect` and `PipelineProofs!EnumeratorsAreReleased`:
  `Spec => []TypeOK` and `Spec => []EnumeratorsReleased`, by their conjunction:
  the count of held enumerators stays a natural number only because a release
  comes with one held. `TypeOK` includes that the two buffers stay within their
  capacities; JSON values and printed pieces are typed by lemmas of their own.
- `DumpProofs!DumpIsWhole` and `DumpProofs!RaisesOnlyForCause`: for every set of
  PDBs and every size of the stdio buffer and the pipe, pyxdia returns what DIA handed
  out, and all the PDB has if no `findChildren` and no `Next` fails, or raises for a
  cause. That the code drops what is behind a failing `Next` and the globals before a
  failing tag is in the statement, not assumed away. The invariant has five parts. `PublicsInv` and
  `GlobalsInv` say what is collected at each step: a prefix of the listing, and
  before a tag all of the tags before it. `FlowInv` is a conservation law: what
  pyxdia has read, the pipe, the stdio buffer and what is left to write are
  together one text, the one of the two JSON values. `BufferInv` says that nothing
  is left in a buffer that can no longer be written, `EndInv` how xdia ends and
  what was wrong with the PDB when it does not end well. `TextIsJson` shows that
  parsing that text gives the two values back. The proof does not use fairness,
  and holds for buffers of one piece.
- `DumpProofs!WorkRunsOut`: every step of the two processes makes `Left` smaller, and
  `Left` is a natural number. A piece costs one for each place it has yet to leave, an
  item not printed yet what its piece will cost, a symbol not fetched yet one more.
  It holds by the same invariant, which keeps the counters within the listings.
- `DumpProofs!NobodyIsStuck`: until pyxdia has its answer, one of the two processes
  can go on. `XdiaMoves` and `PyxdiaMoves` are the guards of their actions, as the
  prover has no `ENABLED`. The argument is about the two buffers: when pyxdia finds
  nothing to read, the pipe has room, and a write that finds the stdio
  buffer full finds it ready to be written on (`EmptyPipeLetsXdiaMove`). With
  `WorkRunsOut` this is what `Answered` rests on besides fairness: there is only so
  much to do, and someone can always do it.
- `DiaProofs!LookupIsTranslation`: the scan of `DumpMapToSrc` finds, for every
  sorted stream and every address inside it, the block that holds the address.
- `DiaProofs`: `TypesHold`, `DetailIsBounded`, `LookupsAreRight`, for every
  table of functions (`WalkAssumption`) and every command line. The frames below the
  innermost call have called what is above them (`StackInv`), and what was looked up is
  what `Translate` answers (`LookedUp`).
- `DiaProofs!FailuresHaveCause`: `Spec => []FailsForCause`. A result FALSE is blamed
  on a failure of DIA (`Blamed`). For the words, `Legal` is not the test of ParseArg
  but a grammar of its own: some set of places has the first word, and each of them
  holds an option with the words it must have, followed by another of them.
  `LineInv` says that, unless one of the exceptions holds, the word ParseArg is at is in every
  such set (`Needed`), so that refusing it refutes every one (`RefusedForCause`).
- `DiaProofs!HelpIsHonoured`: `Spec => []HelpHonoured`, for command lines of any
  length, by the same grammar of the help text and the exceptions `HelpHonoured` names. The invariant (`PartsInv`) splits the command line at the words `ParseArg` has left:
  the dumps so far followed by those the rest asks for are the dumps the whole line asks
  for. `AskedFrom` is a recursive function on the positions of a command line.
  That there is one that satisfies its equation (`AskedDefined`, `AskedIs`)
  is shown by taking the least number of words for which there is none
  (`LeastNumber`), which needs no induction theorem.
- `DiaProofs!OptionsAreConsumed`: after each dump `ParseArg` goes on with fewer words,
  and nothing gives one back. It needs `InFront` (the option being dumped is still the first
  word, and has the words it takes), as the words are removed only
  when the dump is over; for `-compiland`, which cuts its words from the wrong end, that it took
  two (`CompilandTakesTwo`).
- `MemoryProofs`: `TypesHold`, `HeapSizeIsTrue`, `ContentsAreKept`,
  `StringsHaveOneOwner`, `SlotsReadBack`, for any number of blocks, sizes,
  variants and slots. The invariant has a part for each store: `HeapInv` relates
  each area to the words behind it, with `torn` for a header that `HeapReAlloc`
  has cleared, `StringInv` gives each live string one owner, `FlsInv` each index
  handed out a slot of its own.

- `TextProofs`: `TypesHold`, `TextsSurvive`, `NothingOverruns`,
  `OnlyCutPairsStop`, `AskedSizesAreEnough`, for letters of any widths, texts of
  any length and buffers of any size. `TextInv` says that the buffer holds the
  encoding of what was said, a NUL and then anything (`HeldInv`), and that what was
  asked for is the room the text needs in the other encoding, NUL included
  (`AskedInv`): without the second, `XdiaWc2c`, which does not look at its second answer,
  would not keep the first. The lemmas below it are about the encodings:
  `DecodeEncode` (a text is its encoding decoded, so ICU accepts it and converts
  it whole, `IcuConverts`), `StartOfHeld` and `CStringOfHeld` (what image code reads with a
  count and up to the NUL), `NarrowStartIsWhole` (without surrogate pairs, every start
  of a wide text is a text). They are inductions on the length of a text: the set of
  lengths a claim holds for has 0 and each successor, so all numbers are in
  it (`AllNumbers`), as there would be a least one missing. What `FlattenSeq` makes of an
  empty sequence and of one with an element more is proved from its definition
  (`FlattenIs`, `FlattenEmpty`, `FlattenAppend`, `FlattenConcat`).

Proving told us something the runs had not: `DataIsWhole` first failed to follow
because `SymbolsOf` counted symbols of tags behind a missing one, which xdia never
asks for. The definition was corrected, and the instance got a PDB of that shape.
The loader's proofs showed which clauses `LinkerMade` lacked: an import cell in the gap
between two sections is bound although no file byte is there, two thunks
on one cell leave only the later one settled, and a TLS pointer in the cell of
`ImageBase` counts as rebased without a relocation. A linker makes none of
these, and `load_pe` asserts none of them.

Only model-checked: liveness (`GoodRunsExit`, `Answered`, `Ends`), which the
prover does not reach; `ReleasedOnce`, which is a fact about the table of
`DiaTable`, not about every table, so there is nothing to generalise; and the five
violations. Of `Answered`, `WorkRunsOut` and
`NobodyIsStuck` leave to TLC only the step from fair scheduling; of `Ends`,
`OptionsAreConsumed` leaves that a walk comes to its end, and fairness.

## 6. What is not modelled

- `log_*` dumps of DEBUG builds, usage messages, formats and wording.
- Blink: it runs xdialdr as it is; the host "loader" stands for both.
- msdia140.dll, the Wine and DIA headers, `json.hpp`, the C libraries:
  external, modelled by what the code uses of them.
- `setup.py` and the release script: downloads and archives, no state of the program.
- Stubs of `winapi/` that assert, answer a constant, or keep no state (locks of
  a single thread, time, code pages).
- In `Memory`: the text of strings and a NUL inside one; `VirtualAlloc` at an
  address, which the code answers without looking at; `malloc` running out,
  which the code does not test. `MEM_DECOMMIT` gives up an area as the code does;
  whether the DLL uses it afterwards is its own matter.
- `GetModuleHandleW`, `GetCommandLineW`, `GetFullPathNameW` and the usage messages.
- In `DiaTable`: what is printed, and the register names, two tables of 2093 lines.

The sources in the repository are some 177,700 lines, of which about 165,000 are
the headers of Wine and of DIA and `json.hpp`, third-party declarations without
behaviour of the program; another 4,200 are the register names. The map covers
about 3,700 of the remaining 8,500: the rest are stubs, prototypes and printing.

## 7. What is left

The refusals of stubs as the loader's answer, should an image come to use one.
