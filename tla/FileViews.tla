------------------------------ MODULE FileViews ------------------------------
(***************************************************************************)
(* The file half of src/pe-loader/winapi/kernel32.c: files opened by       *)
(* CreateFileW, file_mappings[] filled by CreateFileMappingW, the views    *)
(* MapViewOfFileEx and UnmapViewOfFile keep in it, and the position calls  *)
(* on a FILE.  msdia140.dll makes these calls in any order to read a PDB.  *)
(*                                                                         *)
(* The host's mmap and munmap are external: mmap gives free pages of its   *)
(* choice (the hint if it likes) or, with MmapMayFail, MAP_FAILED.         *)
(* Sizes count pages for views and bytes for positions; int and DWORD are  *)
(* scaled down to IntLimit (2^31 in the code) and 2 * IntLimit.            *)
(***************************************************************************)
EXTENDS Integers, FiniteSets

CONSTANTS
  Handles,       (* FILE objects there may be: the bound on CreateFileW     *)
  Sizes,         (* sizes a file may have                                   *)
  MaxMappings,   (* ARRAYSIZE(file_mappings), 10                            *)
  MaxPage,       (* the pages mmap may use are 1..MaxPage                   *)
  Lengths,       (* view lengths asked for                                  *)
  Distances,     (* distances and counts asked for                          *)
  IntLimit,      (* 2^31                                                    *)
  MmapMayFail    (* TRUE: mmap may return MAP_FAILED                        *)

ASSUME ViewsAssumption ==
  /\ MaxMappings \in Nat
  /\ MaxPage \in Nat
  /\ Lengths \subseteq Nat \ {0}
  /\ Sizes \subseteq Nat
  /\ Distances \subseteq Nat
  /\ IntLimit \in Nat \ {0}
  /\ MmapMayFail \in BOOLEAN

Slots     == 1..MaxMappings
Pages     == 1..MaxPage
NULL      == 0
MapFailed == -1

VARIABLES
  open,      (* the FILE objects in use                                     *)
  size, pos, (* their size and position                                     *)
  used,      (* the entries of file_mappings[] that are not NULL            *)
  view,      (* view[s]: mapped and mapped_len of entry s                   *)
  vm,        (* the pages the host has mapped for this process              *)
  lastError, (* last_error                                                  *)
  status     (* "running" or "aborted"                                      *)

fileVars == <<open, size, pos>>
vars     == <<fileVars, used, view, vm, lastError, status>>

NoView == [at |-> NULL, len |-> 0]

PagesOf(a, n) == a .. (a + n - 1)

ToDword(x) == x % (2 * IntLimit)
ToInt(x)   == IF ToDword(x) < IntLimit THEN ToDword(x) ELSE ToDword(x) - 2 * IntLimit

Abort == /\ status' = "aborted"
         /\ UNCHANGED <<fileVars, used, view, vm, lastError>>

-----------------------------------------------------------------------------
(* Files                                                                    *)

CreateFileW(h, n) ==
  /\ h \notin open
  /\ open' = open \cup {h}
  /\ size' = [size EXCEPT ![h] = n]
  /\ pos' = [pos EXCEPT ![h] = 0]
  /\ UNCHANGED <<used, view, vm, lastError, status>>

(* Access other than GENERIC_READ, or a file that fopen does not open.      *)
CreateFileFails == Abort

(* Faulty: the position is not restored.                                    *)
GetFileSizeAtEnd(h) ==
  /\ h \in open
  /\ pos' = [pos EXCEPT ![h] = size[h]]
  /\ UNCHANGED <<open, size, used, view, vm, lastError, status>>

(* The end is sought, then the position an int has kept is sought again;    *)
(* fseek rejects a negative one and leaves the file at its end.             *)
GetFileSizeEx(h) ==
  /\ h \in open
  /\ pos' = [pos EXCEPT ![h] = IF ToInt(pos[h]) >= 0 THEN ToInt(pos[h]) ELSE size[h]]
  /\ UNCHANGED <<open, size, used, view, vm, lastError, status>>

(* distance.LowPart from the start, the position or the end; a distance     *)
(* with a high part, as every negative one has, is an assertion.            *)
SetFilePointerEx(h, method, d) ==
  /\ h \in open
  /\ pos' = [pos EXCEPT ![h] =
               CASE method = "begin"   -> d
                 [] method = "current" -> pos[h] + d
                 [] method = "end"     -> size[h] + d]
  /\ UNCHANGED <<open, size, used, view, vm, lastError, status>>

SetFilePointerHigh(h) == h \in open /\ Abort

ReadFile(h, n) ==
  /\ h \in open
  /\ LET left == IF pos[h] < size[h] THEN size[h] - pos[h] ELSE 0
     IN  pos' = [pos EXCEPT ![h] = @ + IF n < left THEN n ELSE left]
  /\ UNCHANGED <<open, size, used, view, vm, lastError, status>>

(* CloseHandle is assert(0): no file, and no mapping, is ever given back.   *)
CloseHandle(h) == h \in open /\ Abort

-----------------------------------------------------------------------------
(* Mappings and views                                                       *)

(* Faulty: the search for a free entry runs one past the end.               *)
CreateFileMappingPastEnd(h) ==
  /\ h \in open
  /\ \E s \in (1 .. MaxMappings + 1) \ used : used' = used \cup {s}
  /\ UNCHANGED <<fileVars, view, vm, lastError, status>>

(* The first NULL entry is taken; a full table is an assertion.             *)
CreateFileMappingW(h) ==
  /\ h \in open
  /\ IF Slots \subseteq used THEN Abort
     ELSE /\ \E s \in Slots \ used :
               /\ \A t \in Slots \ used : s <= t
               /\ used' = used \cup {s}
               /\ view' = [view EXCEPT ![s] = NoView]
          /\ UNCHANGED <<fileVars, vm, lastError, status>>

(* What mmap(hint, n) may answer.                                           *)
MmapAnswers(n) ==
  {a \in Pages : PagesOf(a, n) \subseteq Pages \ vm}
    \cup (IF MmapMayFail THEN {MapFailed} ELSE {})

(* Faulty: pages that are not at the hint are not given back.               *)
MapViewLeaks(s, hint, n) ==
  /\ s \in used
  /\ view[s].at = NULL
  /\ \E a \in MmapAnswers(n) \ {MapFailed} :
       /\ vm' = vm \cup PagesOf(a, n)
       /\ IF hint \in {NULL, a}
            THEN view' = [view EXCEPT ![s] = [at |-> a, len |-> n]] /\ UNCHANGED lastError
            ELSE lastError' = "ERROR_INVALID_ADDRESS" /\ UNCHANGED view
  /\ UNCHANGED <<fileVars, used, status>>

(* A view is asked for anywhere (hint NULL) or at a given address.  mmap's  *)
(* answer is accepted unless it differs from the hint; then the pages go    *)
(* back and the call fails with ERROR_INVALID_ADDRESS.                      *)
MapViewOfFileEx(s, hint, n) ==
  /\ s \in used
  /\ IF view[s].at # NULL THEN Abort
     ELSE \E a \in MmapAnswers(n) :
            \/ /\ hint \in {NULL, a}
               /\ view' = [view EXCEPT ![s] = [at |-> a, len |-> n]]
               /\ vm' = IF a = MapFailed THEN vm ELSE vm \cup PagesOf(a, n)
               /\ UNCHANGED <<fileVars, used, lastError, status>>
            \/ /\ hint \notin {NULL, a}
               /\ vm' = vm \* mmap, then munmap of the same pages
               /\ lastError' = "ERROR_INVALID_ADDRESS"
               /\ UNCHANGED <<fileVars, used, view, status>>

(* The last entry whose view begins at a; one must, and be mapped.          *)
Matching(a) == {s \in used : view[s].at = a}

(* Faulty: the entry still names the pages it has lost.                     *)
UnmapKeepsEntry(a) ==
  \E s \in Matching(a) \ Matching(NULL) :
    /\ vm' = vm \ PagesOf(view[s].at, view[s].len)
    /\ UNCHANGED <<fileVars, used, view, lastError, status>>

UnmapViewOfFile(a) ==
  IF a = NULL \/ Matching(a) = {} THEN Abort
  ELSE \E s \in Matching(a) :
         /\ \A t \in Matching(a) : t <= s
         /\ vm' = IF a = MapFailed THEN vm ELSE vm \ PagesOf(view[s].at, view[s].len)
         /\ view' = [view EXCEPT ![s] = NoView]
         /\ UNCHANGED <<fileVars, used, lastError, status>>

-----------------------------------------------------------------------------
Init ==
  /\ open = {}
  /\ size = [h \in Handles |-> 0]
  /\ pos = [h \in Handles |-> 0]
  /\ used = {}
  /\ view = [s \in Slots |-> NoView]
  /\ vm = {}
  /\ lastError = "ERROR_SUCCESS"
  /\ status = "running"

FileCall ==
  \/ \E h \in Handles, n \in Sizes : CreateFileW(h, n)
  \/ CreateFileFails
  \/ \E h \in Handles : GetFileSizeEx(h) \/ SetFilePointerHigh(h) \/ CloseHandle(h)
  \/ \E h \in Handles, d \in Distances, m \in {"begin", "current", "end"} :
       pos[h] + d <= 4 * IntLimit /\ SetFilePointerEx(h, m, d) \* bound of the model
  \/ \E h \in Handles, n \in Distances : ReadFile(h, n)

ViewCall ==
  \/ \E h \in Handles : CreateFileMappingW(h)
  \/ \E s \in Slots, hint \in Pages \cup {NULL}, n \in Lengths : MapViewOfFileEx(s, hint, n)
  \/ \E a \in Pages \cup {NULL, MapFailed} : UnmapViewOfFile(a)

Next == status = "running" /\ (FileCall \/ ViewCall)

Spec == Init /\ [][Next]_vars

-----------------------------------------------------------------------------
TypeOK ==
  /\ open \subseteq Handles
  /\ size \in [Handles -> Nat] /\ pos \in [Handles -> Nat]
  /\ used \subseteq Slots
  /\ view \in [Slots -> [at : Pages \cup {NULL, MapFailed}, len : Nat]]
  /\ vm \subseteq Pages
  /\ lastError \in {"ERROR_SUCCESS", "ERROR_INVALID_ADDRESS"}
  /\ status \in {"running", "aborted"}

Mapped(s) == view[s].at \notin {NULL, MapFailed}

ViewPages(s) == IF Mapped(s) THEN PagesOf(view[s].at, view[s].len) ELSE {}

(* Every page the host still has mapped belongs to the view of some entry   *)
(* of file_mappings[], and every view recorded there is really mapped: no   *)
(* call leaks a mapping or leaves a stale one behind, a failed              *)
(* MapViewOfFileEx and a view at a hint included.                           *)
ViewsAccounted ==
  /\ vm = UNION {ViewPages(s) : s \in Slots}
  /\ \A s \in Slots : Mapped(s) => s \in used

(* No two views share a page, so the address an UnmapViewOfFile names is    *)
(* that of one entry, and taking the last match takes the right one.        *)
ViewsDisjoint ==
  \A s, t \in Slots : s # t => ViewPages(s) \cap ViewPages(t) = {}

(* Asking for the size of a file leaves its position alone, below 2 GiB.    *)
SizeQueryKeepsPosition ==
  [][\A h \in open : pos[h] < IntLimit /\ GetFileSizeEx(h) => pos'[h] = pos[h]]_vars
=============================================================================
