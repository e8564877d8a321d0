------------------------------- MODULE PeImage -------------------------------
(***************************************************************************)
(* The data the PE loader works on: the images a path can lead to, the     *)
(* cells of a loaded image, the built-in modules, and the vocabulary the   *)
(* loader and its abstract promise share.                                  *)
(*                                                                         *)
(* An address is an RVA, a small natural number naming one cell of an      *)
(* image; a cell stands for the bytes one store of the loader touches (a   *)
(* relocation target, an IAT entry, the TLS index).  SectionAlignment is a *)
(* number of cells and is also the granularity of mprotect.                *)
(***************************************************************************)
EXTENDS Integers, Sequences

CONSTANTS
  MaxRva,         (* RVAs are 0..MaxRva                                     *)
  Images,         (* what the file at a path may hold, see ImageSet         *)
  Builtins,       (* names of the built-in modules, in modules[] order      *)
  BuiltinExports, (* per built-in module, its set of [sym, ordinal]         *)
  NULL,           (* the name of an empty entry of modules[]                *)
  LibraryAlias    (* the module name LoadLibraryExA answers for a name      *)

Rva == 0..MaxRva

(***************************************************************************)
(* What a cell of a loaded image holds: uninitialised heap memory, zero,   *)
(* the bytes of the file meant for RVA arg, an import bound to modules[    *)
(* arg], the TLS index arg, or the bound mark of an import descriptor.     *)
(* adj counts the times base_delta was added to it.                        *)
(***************************************************************************)
Cell == [tag : {"junk", "zero", "file", "import", "tlsindex", "bound"},
         arg : Nat, adj : Nat]

Junk        == [tag |-> "junk",     arg |-> 0, adj |-> 0]
Zero        == [tag |-> "zero",     arg |-> 0, adj |-> 0]
FileCell(r) == [tag |-> "file",     arg |-> r, adj |-> 0]
Import(m)   == [tag |-> "import",   arg |-> m, adj |-> 0]
TlsIndex(x) == [tag |-> "tlsindex", arg |-> x, adj |-> 0]
BoundMark   == [tag |-> "bound",    arg |-> 0, adj |-> 0]

(* A lookup by name has ordinal -1, as resolve_import_by_name passes it.   *)
Query == [dll : STRING, sym : STRING, ordinal : Nat \cup {-1}]

Section    == [va : Rva, vsize : Nat, raw : Nat,
               write : BOOLEAN, exec : BOOLEAN]
Reloc      == [type : {"absolute", "dir64", "other"}, rva : Rva]
RelocBlock == [entries : Seq(Reloc), fits : BOOLEAN]
Thunk      == [iat : Rva, sym : STRING, ordinal : Nat \cup {-1}]
Descriptor == [dll : STRING, at : Rva, thunks : Seq(Thunk), fits : BOOLEAN]
Exports    == [dir : BOOLEAN, parallel : BOOLEAN, names : Seq(STRING)]

(***************************************************************************)
(* The TLS directory: dir is the first cell of its four absolute pointers  *)
(* (StartAddressOfRawData, EndAddressOfRawData, AddressOfIndex and         *)
(* AddressOfCallBacks), start..last the cells the copy reads, index the    *)
(* cell AddressOfIndex points to, table the first cell of the callback     *)
(* array, calls its length (0: no callbacks).                              *)
(***************************************************************************)
Tls == [size : Nat, supported : BOOLEAN, dir : Rva, start : Rva, last : Rva,
        index : Rva, table : Rva, calls : Nat]

(***************************************************************************)
(* The file at a path: kind says how far the opening steps get (fopen      *)
(* fails, an empty file cannot be mmapped, the header assertions fail, or  *)
(* a 64-bit PE image); ends is what its entry point does.                  *)
(***************************************************************************)
Image == [kind : {"absent", "empty", "notpe", "pe64"}, name : STRING,
          align : Nat \ {0}, headers : Nat, sections : Seq(Section),
          relocs : Seq(RelocBlock), imports : Seq(Descriptor),
          exports : Exports, tls : Tls, lookups : SUBSET Query,
          ends : {"true", "false", "terminate"}]

AlignUp(x, a) == ((x + a - 1) \div a) * a

Copied(s) == IF s.vsize < s.raw THEN s.vsize ELSE s.raw

SectionCells(s)  == s.va .. (s.va + s.vsize - 1)
SectionPages(f, s) == s.va .. (s.va + AlignUp(s.vsize, f.align) - 1)
HeaderPages(f)   == 0 .. (AlignUp(f.headers, f.align) - 1)

(* The RVA at which the copying loop expects section n of f.               *)
ExpectedVa(f, n) ==
  IF n = 1 THEN AlignUp(f.headers, f.align)
  ELSE AlignUp(f.sections[n-1].va + f.sections[n-1].vsize, f.align)

Contiguous(f) == \A n \in DOMAIN f.sections : f.sections[n].va = ExpectedVa(f, n)

(* The places of f's relocation table that name cell r as a DIR64 target.  *)
RelocSites(f, r) ==
  {p \in (DOMAIN f.relocs) \X (1..MaxRva + 1) :
     /\ p[2] \in DOMAIN f.relocs[p[1]].entries
     /\ f.relocs[p[1]].entries[p[2]].type = "dir64"
     /\ f.relocs[p[1]].entries[p[2]].rva = r}

Slots(f)    == {r \in Rva : RelocSites(f, r) # {}}
Thunks(f)   == UNION {{[dll |-> f.imports[d].dll, thunk |-> f.imports[d].thunks[t]] :
                         t \in DOMAIN f.imports[d].thunks} : d \in DOMAIN f.imports}
IatCells(f) == {x.thunk.iat : x \in Thunks(f)}
Marks(f)    == {f.imports[d].at : d \in DOMAIN f.imports}

HasTls(f) == f.tls.size # 0

(* The absolute pointers the TLS step follows.                             *)
TlsPointers(f) ==
  {f.tls.dir, f.tls.dir + 1, f.tls.dir + 2}
    \cup IF f.tls.calls = 0 THEN {}
         ELSE {f.tls.dir + 3} \cup (f.tls.table .. f.tls.table + f.tls.calls - 1)

(* The cell is in a section mapped writable.                               *)
InWritable(f, r) ==
  \E n \in DOMAIN f.sections : /\ r \in SectionPages(f, f.sections[n])
                               /\ f.sections[n].write

(* The cells the file has bytes for, in any of its sections.               *)
FileData(f) ==
  UNION {f.sections[n].va .. (f.sections[n].va + Copied(f.sections[n]) - 1) :
           n \in DOMAIN f.sections}

(***************************************************************************)
(* Images a PE linker emits, as far as the loader trusts its input without *)
(* a check: everything it addresses is inside the image, no cell is        *)
(* relocated twice or is the IAT entry of two imports; imports,            *)
(* descriptors and relocated pointers are cells of sections with file      *)
(* data, the TLS index is one of any section, and all these are different. *)
(***************************************************************************)
LinkerMade(f) ==
  /\ f.name # NULL
  /\ f.headers \in 1..MaxRva
  /\ HeaderPages(f) \subseteq Rva
  /\ \A n \in DOMAIN f.sections : SectionPages(f, f.sections[n]) \subseteq Rva
  /\ \A r \in Slots(f) : \A p, q \in RelocSites(f, r) : p = q
  /\ \A b \in DOMAIN f.relocs : Len(f.relocs[b].entries) <= MaxRva + 1
  /\ IatCells(f) \cap Marks(f) = {}
  /\ (Slots(f) \cup {0}) \cap (IatCells(f) \cup Marks(f)) = {}
  /\ 0 \notin Slots(f)
  /\ Slots(f) \cup IatCells(f) \cup Marks(f) \subseteq FileData(f)
  /\ \A x, y \in Thunks(f) : x.thunk.iat = y.thunk.iat => x = y
  /\ HasTls(f) =>
       /\ f.tls.index \notin Slots(f) \cup IatCells(f) \cup Marks(f) \cup {0}
       /\ f.tls.start <= f.tls.last
       /\ f.tls.dir + 3 <= MaxRva
       /\ f.tls.table + f.tls.calls <= MaxRva + 1
       /\ \E n \in DOMAIN f.sections : f.tls.index \in SectionCells(f.sections[n])
       /\ TlsPointers(f) \cap (IatCells(f) \cup Marks(f) \cup {0, f.tls.index}) = {}

-----------------------------------------------------------------------------
(* modules[] and resolve_import_by_name_or_ordinal                          *)

(* An entry of modules[]: load = 0 is a built-in, else the l-th image.      *)
NoModule == [name |-> NULL, load |-> 0]

(* The search stops at the first NULL entry of the table.                   *)
Named(table, q) ==
  {m \in DOMAIN table : /\ table[m].name = q.dll
                        /\ \A n \in 1..m : table[n] # NoModule}

(* The entry exports what q asks for.  An image is searched by name only.   *)
HasExport(entry, files, q) ==
  IF entry.load = 0
    THEN \E e \in BuiltinExports[entry.name] :
           \/ q.ordinal < 0 /\ e.sym = q.sym
           \/ q.ordinal >= 0 /\ e.ordinal = q.ordinal
    ELSE \E n \in DOMAIN files[entry.load].exports.names :
           files[entry.load].exports.names[n] = q.sym

(* An image of the right name that ends the search with no answer: it is    *)
(* asked by ordinal, has no export directory, or has more functions than    *)
(* names.                                                                   *)
GivesUp(entry, files, q) ==
  /\ entry.load # 0
  /\ \/ q.ordinal >= 0
     \/ ~files[entry.load].exports.dir
     \/ ~files[entry.load].exports.parallel

(* Faulty: the search goes on and the last answer counts.                   *)
LastAnswer(table, files, q) ==
  {m \in Named(table, q) :
     /\ HasExport(table[m], files, q)
     /\ \A n \in Named(table, q) : n > m => ~HasExport(table[n], files, q)}

(* The entry that answers q, as a set of at most one index.                 *)
Answer(table, files, q) ==
  {m \in Named(table, q) :
     /\ ~GivesUp(table[m], files, q)
     /\ HasExport(table[m], files, q)
     /\ \A n \in Named(table, q) : n < m =>
          ~GivesUp(table[n], files, q) /\ ~HasExport(table[n], files, q)}

-----------------------------------------------------------------------------

ASSUME DataAssumption ==
  /\ MaxRva \in Nat
  /\ \A f \in Images : f \in Image
  /\ \A f \in Images : LinkerMade(f)

ASSUME BuiltinNames == Builtins \in Seq(STRING)

ASSUME BuiltinAssumption ==
  /\ \A m, n \in DOMAIN Builtins : Builtins[m] = Builtins[n] => m = n
  /\ \A m \in DOMAIN Builtins : Builtins[m] # NULL
  /\ DOMAIN BuiltinExports = {Builtins[m] : m \in DOMAIN Builtins}
  /\ \A b \in DOMAIN BuiltinExports :
       \A e \in BuiltinExports[b] : e.sym \in STRING /\ e.ordinal \in Nat \cup {-1}
=============================================================================
