---------------------------- MODULE LoaderPromise ----------------------------
(***************************************************************************)
(* What main may expect of load_pe, without its loops, memory or tables:   *)
(* images start one after the other, image n only when it is loadable on   *)
(* top of the first n - 1 and those have finished their entry points; the  *)
(* loader gives up only on an image that is not loadable (or when memory   *)
(* runs out), and the process ends well only through the last entry point  *)
(* or a TerminateProcess.                                                  *)
(*                                                                         *)
(* Loadable says, on the files alone, which images the loader accepts.     *)
(***************************************************************************)
EXTENDS PeImage, FiniteSets

CONSTANTS NLoads, MaxModules, MaxTls, MayRunOut

VARIABLES
  file,     (* file[n]: what the n-th path leads to                         *)
  started,  (* how many images have run code of theirs                      *)
  outcome   (* "running", or how the process ended                          *)

avars == <<file, started, outcome>>

(* modules[] once the first n images are registered.                        *)
Table(n) == [m \in 1 .. (Len(Builtins) + n) |->
              IF m <= Len(Builtins) THEN [name |-> Builtins[m], load |-> 0]
              ELSE [name |-> file[m - Len(Builtins)].name, load |-> m - Len(Builtins)]]

Entries(f) == UNION {{f.relocs[b].entries[e] : e \in DOMAIN f.relocs[b].entries} :
                       b \in DOMAIN f.relocs}

(* A cell with bytes of the file, and a relocation.                         *)
FilePointer(f, r) == r \in Slots(f) \cap FileData(f)

Relocatable(f) == /\ \A e \in Entries(f) : e.type \in {"absolute", "dir64"}
                  /\ \A b \in DOMAIN f.relocs : f.relocs[b].fits

Linkable(n) ==
  /\ \A x \in Thunks(file[n]) :
       Answer(Table(n - 1), file,
              [dll |-> x.dll, sym |-> x.thunk.sym, ordinal |-> x.thunk.ordinal]) # {}
  /\ \A d \in DOMAIN file[n].imports : file[n].imports[d].fits

TlsLoadable(n) ==
  LET f == file[n]
  IN  HasTls(f) =>
        /\ f.tls.supported
        /\ Cardinality({m \in 1..n-1 : HasTls(file[m])}) < MaxTls - 1
        /\ \A p \in {f.tls.dir, f.tls.dir + 1, f.tls.dir + 2} : FilePointer(f, p)
        /\ InWritable(f, f.tls.index)
        /\ f.tls.calls > 0 => FilePointer(f, f.tls.dir + 3) /\ FilePointer(f, f.tls.table)

Loadable(n) ==
  /\ file[n].kind = "pe64"
  /\ Contiguous(file[n])
  /\ Relocatable(file[n])
  /\ Linkable(n)
  /\ Len(Builtins) + n <= MaxModules
  /\ TlsLoadable(n)

(* Code of image n may stop the process: its entry point does not return    *)
(* TRUE, a later callback pointer is not relocated, or it, or code of an    *)
(* earlier image, asks for a function that is not there.                    *)
MayFail(n) ==
  \/ file[n].ends = "false"
  \/ \E c \in 2 .. file[n].tls.calls : ~FilePointer(file[n], file[n].tls.table + c - 1)
  \/ \E m \in 1..n : \E q \in file[m].lookups :
       \/ q.dll \notin DOMAIN LibraryAlias
       \/ Answer(Table(n), file, [q EXCEPT !.dll = LibraryAlias[q.dll]]) = {}

InTurn == started < NLoads /\ (started = 0 \/ file[started].ends = "true")

Start ==
  /\ outcome = "running"
  /\ InTurn
  /\ Loadable(started + 1)
  /\ started' = started + 1
  /\ UNCHANGED <<file, outcome>>

Refuse ==
  /\ outcome = "running"
  /\ InTurn
  /\ MayRunOut \/ ~Loadable(started + 1)
  /\ outcome' \in {"aborted", "faulted"}
  /\ UNCHANGED <<file, started>>

CodeFails ==
  /\ outcome = "running"
  /\ started > 0
  /\ MayFail(started)
  /\ outcome' \in {"aborted", "faulted"}
  /\ UNCHANGED <<file, started>>

Exit ==
  /\ outcome = "running"
  /\ started > 0
  /\ \/ file[started].ends = "terminate"
     \/ file[started].ends = "true" /\ started = NLoads
  /\ outcome' = "exited"
  /\ UNCHANGED <<file, started>>

Init == /\ file \in [1..NLoads -> Images]
        /\ started = 0
        /\ outcome = "running"

Next == Start \/ Refuse \/ CodeFails \/ Exit

Spec == Init /\ [][Next]_avars
=============================================================================
