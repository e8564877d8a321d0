--------------------------- MODULE FileViewsProofs ---------------------------
(***************************************************************************)
(* Theorems about file views, for any number of mappings, pages and files. *)
(***************************************************************************)
EXTENDS FileViews, TLAPS

(* What is known of an answer of mmap.                                      *)
LEMMA AnswerFree ==
  ASSUME NEW n \in Lengths, NEW a \in MmapAnswers(n)
  PROVE  a = MapFailed \/ (a \in Pages /\ PagesOf(a, n) \subseteq Pages /\ PagesOf(a, n) \cap vm = {})
  BY DEF MmapAnswers

(* A call that leaves views, entries and pages alone.                       *)
LEMMA FileCallLeavesViews == FileCall => UNCHANGED <<used, view, vm>>
  BY DEF FileCall, CreateFileW, CreateFileFails, GetFileSizeEx, SetFilePointerHigh,
     CloseHandle, SetFilePointerEx, ReadFile, Abort

-----------------------------------------------------------------------------
(* Type correctness                                                         *)

LEMMA PositionType ==
  ASSUME TypeOK, FileCall
  PROVE  size' \in [Handles -> Nat] /\ pos' \in [Handles -> Nat] /\ open' \subseteq Handles
  <1>1. ASSUME NEW h \in Handles, NEW n \in Sizes, CreateFileW(h, n)
        PROVE  size' \in [Handles -> Nat] /\ pos' \in [Handles -> Nat] /\ open' \subseteq Handles
    BY <1>1, ViewsAssumption DEF CreateFileW, TypeOK
  <1>2. ASSUME NEW h \in Handles, GetFileSizeEx(h)
        PROVE  size' \in [Handles -> Nat] /\ pos' \in [Handles -> Nat] /\ open' \subseteq Handles
    <2>1. ToInt(pos[h]) \in Int
      <3>1. pos[h] \in Nat /\ 2 * IntLimit \in Nat \ {0}
        BY ViewsAssumption DEF TypeOK
      <3>2. ToDword(pos[h]) \in Nat
        BY <3>1 DEF ToDword
      <3> QED
        BY <3>2, ViewsAssumption DEF ToInt
    <2>2. (IF ToInt(pos[h]) >= 0 THEN ToInt(pos[h]) ELSE size[h]) \in Nat
      BY <2>1 DEF TypeOK
    <2> QED
      BY <1>2, <2>2 DEF GetFileSizeEx, TypeOK
  <1>3. ASSUME NEW h \in Handles, NEW d \in Distances, NEW m \in {"begin", "current", "end"},
               SetFilePointerEx(h, m, d)
        PROVE  size' \in [Handles -> Nat] /\ pos' \in [Handles -> Nat] /\ open' \subseteq Handles
    <2>1. d \in Nat /\ pos[h] + d \in Nat /\ size[h] + d \in Nat
      BY ViewsAssumption DEF TypeOK
    <2>2. \/ pos' = [pos EXCEPT ![h] = d]
          \/ pos' = [pos EXCEPT ![h] = pos[h] + d]
          \/ pos' = [pos EXCEPT ![h] = size[h] + d]
      BY <1>3 DEF SetFilePointerEx
    <2> QED
      BY <1>3, <2>1, <2>2 DEF SetFilePointerEx, TypeOK
  <1>4. ASSUME NEW h \in Handles, NEW n \in Distances, ReadFile(h, n)
        PROVE  size' \in [Handles -> Nat] /\ pos' \in [Handles -> Nat] /\ open' \subseteq Handles
    BY <1>4, ViewsAssumption DEF ReadFile, TypeOK
  <1>5. CASE Abort
    BY <1>5 DEF Abort, fileVars, TypeOK
  <1> QED
    BY <1>1, <1>2, <1>3, <1>4, <1>5 DEF FileCall, CreateFileFails, SetFilePointerHigh, CloseHandle

LEMMA ViewType == TypeOK /\ ViewCall => TypeOK'
  <1> SUFFICES ASSUME TypeOK, ViewCall PROVE TypeOK'
    OBVIOUS
  <1>1. CASE Abort
    BY <1>1 DEF Abort, fileVars, TypeOK
  <1>2. ASSUME NEW h \in Handles, CreateFileMappingW(h), ~Abort PROVE TypeOK'
    <2>1. NoView \in [at : Pages \cup {NULL, MapFailed}, len : Nat]
      BY DEF NoView
    <2> QED
      BY <1>2, <2>1 DEF CreateFileMappingW, fileVars, TypeOK
  <1>3. ASSUME NEW s \in Slots, NEW hint \in Pages \cup {NULL}, NEW n \in Lengths,
               MapViewOfFileEx(s, hint, n), ~Abort
        PROVE  TypeOK'
    <2>1. PICK a \in MmapAnswers(n) :
            \/ /\ view' = [view EXCEPT ![s] = [at |-> a, len |-> n]]
               /\ vm' = IF a = MapFailed THEN vm ELSE vm \cup PagesOf(a, n)
               /\ UNCHANGED <<fileVars, used, lastError, status>>
            \/ /\ vm' = vm
               /\ lastError' = "ERROR_INVALID_ADDRESS"
               /\ UNCHANGED <<fileVars, used, view, status>>
      BY <1>3 DEF MapViewOfFileEx
    <2>2. [at |-> a, len |-> n] \in [at : Pages \cup {NULL, MapFailed}, len : Nat]
      BY AnswerFree, ViewsAssumption
    <2>3. vm' \subseteq Pages
      BY <2>1, AnswerFree DEF TypeOK
    <2> QED
      BY <2>1, <2>2, <2>3 DEF fileVars, TypeOK
  <1>4. ASSUME NEW a \in Pages \cup {NULL, MapFailed}, UnmapViewOfFile(a), ~Abort PROVE TypeOK'
    <2>1. NoView \in [at : Pages \cup {NULL, MapFailed}, len : Nat]
      BY DEF NoView
    <2> QED
      BY <1>4, <2>1 DEF UnmapViewOfFile, Matching, fileVars, TypeOK
  <1> QED
    BY <1>1, <1>2, <1>3, <1>4 DEF ViewCall

LEMMA NextType == TypeOK /\ [Next]_vars => TypeOK'
  <1> SUFFICES ASSUME TypeOK, [Next]_vars PROVE TypeOK'
    OBVIOUS
  <1>1. CASE FileCall
    <2>1. lastError' = lastError /\ status' \in {"running", "aborted"}
      BY <1>1 DEF FileCall, CreateFileW, CreateFileFails, GetFileSizeEx, SetFilePointerHigh,
         CloseHandle, SetFilePointerEx, ReadFile, Abort, TypeOK
    <2> QED
      BY <1>1, <2>1, PositionType, FileCallLeavesViews DEF TypeOK
  <1>2. CASE UNCHANGED vars
    BY <1>2 DEF vars, fileVars, TypeOK
  <1> QED
    BY <1>1, <1>2, ViewType DEF Next

(* The tables and positions of the file calls keep their types.             *)
THEOREM TypeCorrect == Spec => []TypeOK
  <1>1. Init => TypeOK
    BY DEF Init, TypeOK, NoView
  <1>2. TypeOK /\ [Next]_vars => TypeOK'
    BY NextType
  <1> QED
    BY <1>1, <1>2, PTL DEF Spec

-----------------------------------------------------------------------------
(* The views and the pages of the host                                      *)

(* A step that replaces the pages of one view by pages no other view has,   *)
(* and the same pages in vm, keeps every page with exactly one view.        *)
LEMMA OneViewReplaced ==
  ASSUME NEW s \in Slots, NEW N,
         vm = UNION {ViewPages(t) : t \in Slots}, ViewsDisjoint,
         \A t \in Slots \ {s} : ViewPages(t)' = ViewPages(t),
         ViewPages(s)' = N,
         N \cap (vm \ ViewPages(s)) = {},
         vm' = (vm \ ViewPages(s)) \cup N
  PROVE  /\ vm' = UNION {ViewPages(t)' : t \in Slots}
         /\ ViewsDisjoint'
  <1>1. ASSUME NEW t \in Slots, t # s
        PROVE  ViewPages(t) \cap ViewPages(s) = {} /\ ViewPages(t) \subseteq vm
    BY <1>1 DEF ViewsDisjoint
  <1>2. ASSUME NEW t \in Slots, t # s
        PROVE  ViewPages(t)' = ViewPages(t) /\ ViewPages(t)' \cap N = {}
    <2>1. ViewPages(t)' = ViewPages(t)
      BY <1>2
    <2> QED
      BY <1>1, <1>2, <2>1
  <1>3. ASSUME NEW p \in vm' PROVE \E t \in Slots : p \in ViewPages(t)'
    <2>1. CASE p \in N
      BY <2>1
    <2>2. CASE p \notin N
      <3>1. PICK t \in Slots : p \in ViewPages(t)
        BY <1>3, <2>2
      <3>2. t # s
        BY <1>3, <2>2, <3>1
      <3> QED
        BY <1>2, <3>1, <3>2
    <2> QED
      BY <2>1, <2>2
  <1>4. ASSUME NEW t \in Slots PROVE ViewPages(t)' \subseteq vm'
    <2>1. CASE t = s
      BY <2>1
    <2>2. CASE t # s
      <3>1. ViewPages(t)' = ViewPages(t)
        BY <1>2, <2>2
      <3> QED
        BY <1>1, <2>2, <3>1
    <2> QED
      BY <2>1, <2>2
  <1>5. vm' = UNION {ViewPages(t)' : t \in Slots}
    BY <1>3, <1>4
  <1>6. ASSUME NEW t \in Slots, NEW u \in Slots, t # u
        PROVE  ViewPages(t)' \cap ViewPages(u)' = {}
    <2>1. CASE t # s /\ u # s
      <3>1. ViewPages(t)' = ViewPages(t) /\ ViewPages(u)' = ViewPages(u)
        BY <1>2, <2>1
      <3> QED
        BY <1>6, <3>1 DEF ViewsDisjoint
    <2>2. CASE t = s
      BY <1>2, <1>6, <2>2
    <2>3. CASE u = s
      BY <1>2, <1>6, <2>3
    <2> QED
      BY <2>1, <2>2, <2>3
  <1>7. ViewsDisjoint'
    BY <1>6 DEF ViewsDisjoint
  <1> QED
    BY <1>5, <1>7

Inv == TypeOK /\ ViewsAccounted /\ ViewsDisjoint

(* An entry keeps its pages when it keeps its view.                         *)
LEMMA SameView ==
  ASSUME TypeOK, NEW s \in Slots, NEW v, view' = [view EXCEPT ![s] = v]
  PROVE  /\ view'[s] = v
         /\ \A t \in Slots \ {s} : ViewPages(t)' = ViewPages(t) /\ Mapped(t)' = Mapped(t)
  BY DEF TypeOK, ViewPages, Mapped

LEMMA MapKeepsViews ==
  ASSUME Inv, NEW s \in Slots, NEW hint \in Pages \cup {NULL}, NEW n \in Lengths,
         MapViewOfFileEx(s, hint, n)
  PROVE  (ViewsAccounted /\ ViewsDisjoint)'
  <1> USE DEF Inv
  <1>1. CASE UNCHANGED <<view, vm, used>>
    BY <1>1 DEF ViewsAccounted, ViewsDisjoint, ViewPages, Mapped
  <1>2. ASSUME NEW a \in MmapAnswers(n), view[s].at = NULL,
               view' = [view EXCEPT ![s] = [at |-> a, len |-> n]],
               vm' = IF a = MapFailed THEN vm ELSE vm \cup PagesOf(a, n),
               used' = used
        PROVE  (ViewsAccounted /\ ViewsDisjoint)'
    <2> DEFINE N == IF a = MapFailed THEN {} ELSE PagesOf(a, n)
    <2>1. ViewPages(s) = {}
      BY <1>2 DEF ViewPages, Mapped
    <2>2. a = MapFailed \/ (a \in Pages /\ PagesOf(a, n) \cap vm = {})
      BY AnswerFree
    <2>3. view'[s] = [at |-> a, len |-> n]
      BY <1>2, SameView
    <2>4. ViewPages(s)' = N
      BY <2>2, <2>3, ViewsAssumption DEF ViewPages, Mapped, Pages, NULL, MapFailed
    <2>5. N \cap (vm \ ViewPages(s)) = {} /\ vm' = (vm \ ViewPages(s)) \cup N
      BY <1>2, <2>1, <2>2
    <2>6. \A t \in Slots \ {s} : ViewPages(t)' = ViewPages(t) /\ Mapped(t)' = Mapped(t)
      BY <1>2, SameView
    <2>7. vm' = UNION {ViewPages(t)' : t \in Slots} /\ ViewsDisjoint'
      <3> HIDE DEF N
      <3> QED
        BY <2>4, <2>5, <2>6, OneViewReplaced DEF ViewsAccounted
    <2>8. s \in used
      BY DEF MapViewOfFileEx
    <2>9. \A t \in Slots : Mapped(t)' => t \in used'
      BY <1>2, <2>6, <2>8 DEF ViewsAccounted
    <2> QED
      BY <2>7, <2>9 DEF ViewsAccounted
  <1>3. CASE Abort
    BY <1>3, <1>1 DEF Abort
  <1> QED
    BY <1>1, <1>2, <1>3 DEF MapViewOfFileEx, vars

LEMMA UnmapKeepsViews ==
  ASSUME Inv, NEW a \in Pages \cup {NULL, MapFailed}, UnmapViewOfFile(a)
  PROVE  (ViewsAccounted /\ ViewsDisjoint)'
  <1> USE DEF Inv
  <1>1. CASE Abort
    BY <1>1 DEF Abort, ViewsAccounted, ViewsDisjoint, ViewPages, Mapped
  <1>2. ASSUME NEW s \in Matching(a), a # NULL,
               vm' = IF a = MapFailed THEN vm ELSE vm \ PagesOf(view[s].at, view[s].len),
               view' = [view EXCEPT ![s] = NoView],
               used' = used
        PROVE  (ViewsAccounted /\ ViewsDisjoint)'
    <2>1. s \in Slots /\ view[s].at = a
      BY DEF Matching, TypeOK
    <2>2. view'[s] = NoView /\ ~Mapped(s)'
      <3>1. view'[s] = NoView
        BY <1>2, <2>1, SameView
      <3> QED
        BY <3>1 DEF NoView, Mapped
    <2>3. ViewPages(s)' = {}
      BY <2>2 DEF ViewPages
    <2>4. vm' = (vm \ ViewPages(s)) \cup {}
      BY <1>2, <2>1 DEF ViewPages, Mapped
    <2>5. \A t \in Slots \ {s} : ViewPages(t)' = ViewPages(t) /\ Mapped(t)' = Mapped(t)
      BY <1>2, <2>1, SameView
    <2>6. vm' = UNION {ViewPages(t)' : t \in Slots} /\ ViewsDisjoint'
      BY <2>1, <2>3, <2>4, <2>5, OneViewReplaced DEF ViewsAccounted
    <2>7. \A t \in Slots : Mapped(t)' => t \in used'
      BY <1>2, <2>2, <2>5 DEF ViewsAccounted
    <2> QED
      BY <2>6, <2>7 DEF ViewsAccounted
  <1> QED
    BY <1>1, <1>2 DEF UnmapViewOfFile

(* A new entry takes the place of one that had no view.                     *)
LEMMA CreateKeepsViews ==
  ASSUME Inv, NEW h \in Handles, CreateFileMappingW(h)
  PROVE  (ViewsAccounted /\ ViewsDisjoint)'
  <1> USE DEF Inv
  <1>1. CASE Abort
    BY <1>1 DEF Abort, ViewsAccounted, ViewsDisjoint, ViewPages, Mapped
  <1>2. ASSUME NEW s \in Slots \ used, used' = used \cup {s},
               view' = [view EXCEPT ![s] = NoView], vm' = vm
        PROVE  (ViewsAccounted /\ ViewsDisjoint)'
    <2>1. view'[s] = NoView /\ ~Mapped(s)'
      <3>1. view'[s] = NoView
        BY <1>2, SameView
      <3> QED
        BY <3>1 DEF NoView, Mapped
    <2>2. ViewPages(s) = {} /\ ViewPages(s)' = {}
      BY <2>1 DEF ViewPages, ViewsAccounted
    <2>3. \A t \in Slots \ {s} : ViewPages(t)' = ViewPages(t) /\ Mapped(t)' = Mapped(t)
      BY <1>2, SameView
    <2>4. vm' = UNION {ViewPages(t)' : t \in Slots} /\ ViewsDisjoint'
      BY <1>2, <2>2, <2>3, OneViewReplaced DEF ViewsAccounted
    <2>5. \A t \in Slots : Mapped(t)' => t \in used'
      BY <1>2, <2>1, <2>3 DEF ViewsAccounted
    <2> QED
      BY <2>4, <2>5 DEF ViewsAccounted
  <1> QED
    BY <1>1, <1>2 DEF CreateFileMappingW

(* The views stay sound from one call to the next.                          *)
LEMMA AlwaysInv == Spec => []Inv
  <1>1. Init => Inv
    <2> SUFFICES ASSUME Init PROVE ViewsAccounted /\ ViewsDisjoint
      BY DEF Inv, Init, TypeOK, NoView
    <2>1. \A s \in Slots : ~Mapped(s) /\ ViewPages(s) = {}
      BY DEF Init, Mapped, ViewPages, NoView
    <2> QED
      BY <2>1 DEF Init, ViewsAccounted, ViewsDisjoint
  <1>2. Inv /\ [Next]_vars => Inv'
    <2> SUFFICES ASSUME Inv, [Next]_vars PROVE (ViewsAccounted /\ ViewsDisjoint)'
      BY NextType DEF Inv
    <2>1. CASE FileCall \/ UNCHANGED vars
      <3>1. UNCHANGED <<used, view, vm>>
        BY <2>1, FileCallLeavesViews DEF vars
      <3> QED
        BY <3>1 DEF Inv, ViewsAccounted, ViewsDisjoint, ViewPages, Mapped
    <2>2. CASE ViewCall
      BY <2>2, CreateKeepsViews, MapKeepsViews, UnmapKeepsViews DEF ViewCall
    <2> QED
      BY <2>1, <2>2 DEF Next
  <1> QED
    BY <1>1, <1>2, PTL DEF Spec

(* Whatever order the mapping calls come in and whatever mmap answers, the  *)
(* pages the host holds for the process are those of the recorded views,    *)
(* each in one view: nothing leaks, nothing is unmapped under a reader.     *)
THEOREM ViewsStaySound == Spec => [](ViewsAccounted /\ ViewsDisjoint)
  <1>1. Inv => ViewsAccounted /\ ViewsDisjoint
    BY DEF Inv
  <1> QED
    BY <1>1, AlwaysInv, PTL

(* No two views have a page in common.                                      *)
THEOREM ViewsAreDisjoint == Spec => []ViewsDisjoint
  <1>1. Inv => ViewsDisjoint
    BY DEF Inv
  <1> QED
    BY <1>1, AlwaysInv, PTL

(* The two conversions of GetFileSizeEx lose nothing of a small position.   *)
LEMMA SmallIntsAreKept ==
  ASSUME NEW n \in Nat, n < IntLimit
  PROVE  ToInt(n) = n
  <1> DEFINE m == 2 * IntLimit
  <1>1. IntLimit \in Nat /\ m \in Nat /\ m > 0 /\ n < m
    BY ViewsAssumption
  <1>2. n % m = n
    <2> HIDE DEF m
    <2> QED
      BY <1>1
  <1> QED
    BY <1>2 DEF ToInt, ToDword

(* GetFileSizeEx leaves the position where it was, while it fits an int.    *)
THEOREM SizeQueriesKeepPositions == Spec => SizeQueryKeepsPosition
  <1> DEFINE Kept == \A h \in open : pos[h] < IntLimit /\ GetFileSizeEx(h) => pos'[h] = pos[h]
  <1>1. Inv => Kept
    <2> SUFFICES ASSUME Inv, NEW h \in open, pos[h] < IntLimit, GetFileSizeEx(h)
                 PROVE  pos'[h] = pos[h]
      OBVIOUS
    <2>1. pos \in [Handles -> Nat] /\ h \in Handles /\ pos[h] \in Nat
      BY DEF Inv, TypeOK
    <2>2. ToInt(pos[h]) = pos[h]
      BY <2>1, SmallIntsAreKept
    <2> QED
      BY <2>1, <2>2 DEF GetFileSizeEx
  <1>2. Inv /\ [Next]_vars => [Kept]_vars
    BY <1>1
  <1>3. [][Kept]_vars => SizeQueryKeepsPosition
    BY PTL DEF SizeQueryKeepsPosition
  <1> HIDE DEF Kept
  <1> QED
    BY <1>2, <1>3, AlwaysInv, PTL DEF Spec
=============================================================================
