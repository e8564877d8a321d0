------------------------------- MODULE Memory -------------------------------
(***************************************************************************)
(* The memory that kernel32.c and oleaut32.c hand to image code: areas of  *)
(* the three heaps, strings (BSTR), the variants that own strings, and the *)
(* fiber-local slots.  All of it is the host's malloc: a heap area keeps   *)
(* its size in a word of its own in front, the others have nothing but     *)
(* their address.  The caller is one that keeps to the Windows protocol:   *)
(* it frees what it holds, once, and overwrites only what it has cleared.  *)
(*                                                                         *)
(* Sizes are counted in words of sizeof(SIZE_T); a fresh word holds Junk.  *)
(* Left out: the text of strings; out of memory (no result of malloc is    *)
(* tested); VirtualAlloc at an address, which returns it unread.           *)
(***************************************************************************)
EXTENDS Naturals, Sequences

CONSTANTS
  Blocks,      \* what malloc may hand out
  Sizes,       \* sizes asked for, in words
  Variables,   \* the caller's VARIANTs
  FlsSlots     \* entries of fls_slots (256)

ASSUME MemoryAssumption ==
  /\ Sizes \subseteq Nat
  /\ Blocks \cap {"null", "object"} = {}
  /\ FlsSlots \in Nat

VARIABLES
  words,       \* contents of each block malloc has handed out
  live,        \* blocks malloc has handed out
  area,        \* what the caller knows of the areas it holds
  loose,       \* the BSTRs it holds outside variants
  variant,     \* its VARIANTs
  handed,      \* the indices FlsAlloc returned, in order
  slots,       \* fls_slots: the occupied ones, and their data
  stored,      \* what the caller last stored behind each of them
  status       \* "running"; "abort" is an assertion, "fault" a bad access

heapVars    == <<words, area>>
stringVars  == <<loose, variant>>
flsVars     == <<handed, slots, stored>>
vars        == <<heapVars, live, stringVars, flsVars, status>>

Junk == 2
Mark == 1
Unknown == 3   \* an expectation: the word may hold anything
Null == "null"
None == [kind |-> "none"]

Word   == {0, Mark, Junk} \cup Sizes
Kinds  == {"heap", "local", "virtual"}
Area   == [kind : Kinds, size : Sizes, expect : Seq({0, Mark, Unknown}), torn : BOOLEAN]
\* EMPTY stands for every value that owns nothing, ARRAY also for RECORD.
VTypes == {"EMPTY", "BSTR", "BSTR|BYREF", "ARRAY", "UNKNOWN", "CLSID", "BAD"}
Variant(vt, val) == [vt |-> vt, val |-> val]

Init ==
  /\ words = [b \in Blocks |-> <<>>] /\ live = {}
  /\ area = [b \in Blocks |-> None]
  /\ loose = {}
  /\ variant = [v \in Variables |-> Variant("EMPTY", Null)]
  /\ handed = <<>> /\ stored = <<>>
  /\ slots = [occupied |-> {}, data |-> [i \in 1 .. FlsSlots |-> Null]]
  /\ status = "running"

Stop(how) ==
  /\ status' = how
  /\ UNCHANGED <<heapVars, live, stringVars, flsVars>>

-----------------------------------------------------------------------------
(* Areas.  The user's words follow the header, where there is one.         *)
Offset(kind) == IF kind = "heap" THEN 1 ELSE 0
Fill(n, w)   == [i \in 1 .. n |-> w]

Hold(kind, n, zero) ==
  [kind |-> kind, size |-> n, expect |-> Fill(n, IF zero THEN 0 ELSE Unknown), torn |-> FALSE]

Allocate(b, contents, held) ==
  /\ b \notin live
  /\ live' = live \cup {b}
  /\ words' = [words EXCEPT ![b] = contents]
  /\ area' = [area EXCEPT ![b] = held]
  /\ UNCHANGED <<stringVars, flsVars, status>>

Release(b) ==
  /\ live' = live \ {b}
  /\ words' = [words EXCEPT ![b] = <<>>]
  /\ area' = [area EXCEPT ![b] = None]
  /\ UNCHANGED <<stringVars, flsVars, status>>

\* Faulty: the clearing starts at the header.
HeapAllocFromHeader(b, n, zero) ==
  Allocate(b, IF zero /\ n > 0 THEN Fill(n, 0) \o <<Junk>> ELSE <<n>> \o Fill(n, Junk),
           Hold("heap", n, zero))

HeapAlloc(b, n, zero) ==
  Allocate(b, <<n>> \o Fill(n, IF zero THEN 0 ELSE Junk), Hold("heap", n, zero))

LocalAlloc(b, n, zero) ==
  Allocate(b, Fill(n, IF zero THEN 0 ELSE Junk), Hold("local", n, zero))

\* A protection other than PAGE_READWRITE is an assertion.
VirtualAlloc(b, n) == Allocate(b, Fill(n, 0), Hold("virtual", n, TRUE))
VirtualAllocElse == Stop("abort")

HeapFree(b)    == area[b].kind = "heap" /\ Release(b)
LocalFree(b)   == area[b].kind = "local" /\ Release(b)
\* Whatever its type says, MEM_DECOMMIT as well as MEM_RELEASE.
VirtualFree(b) == area[b].kind = "virtual" /\ Release(b)

\* Faulty: the header keeps the size of before.
ReallocatedOldSize(old, n, zero) ==
  [i \in 1 .. n |-> IF zero /\ n > old[1] /\ i > old[1] THEN 0
                    ELSE IF i <= Len(old) THEN old[i] ELSE Junk]

(* The block of n words realloc makes of an old one, with the new header;  *)
(* clearing starts at the old size counted from the header on.             *)
Reallocated(old, n, zero) ==
  [i \in 1 .. n |-> IF zero /\ n > old[1] /\ i > old[1] THEN 0
                    ELSE IF i = 1 THEN n
                    ELSE IF i <= Len(old) THEN old[i] ELSE Junk]

(* What the caller may still expect: what it had, and zeros if it asked;   *)
(* but for the last word, which is not reserved, the one that was last     *)
(* when clearing starts there, and all when it starts at a torn header.    *)
Regrown(held, n, zero) ==
  LET clears == zero /\ (n > held.size \/ held.torn)
      lost(i) == i = n \/ (clears /\ (i = held.size \/ held.torn))
  IN [held EXCEPT
        !.size = n,
        !.expect = [i \in 1 .. n |-> IF lost(i) THEN Unknown
                                     ELSE IF i <= held.size THEN held.expect[i]
                                     ELSE IF zero THEN 0 ELSE Unknown],
        !.torn = zero /\ (held.torn \/ held.size = 0)]

(* The block moves to c or stays; of no words at all realloc returns NULL, *)
(* which the header is then written through.                               *)
HeapReAlloc(b, c, n, zero) ==
  /\ area[b].kind = "heap" /\ (c = b \/ c \notin live)
  /\ IF n = 0 THEN Stop("fault")
     ELSE /\ live' = (live \ {b}) \cup {c}
          /\ words' = [words EXCEPT ![b] = <<>>,
                                    ![c] = Reallocated(words[b], n, zero)]
          /\ area' = [area EXCEPT ![b] = None, ![c] = Regrown(area[b], n, zero)]
          /\ UNCHANGED <<stringVars, flsVars, status>>

HeapSize(b) == words[b][1]

(* The caller writes a word of an area: one that malloc reserved.  Where   *)
(* HeapReAlloc left the area short of a word, see UserAreaIsAllocated.     *)
Write(b) ==
  /\ area[b] # None
  /\ \E i \in 1 .. area[b].size :
       /\ i + Offset(area[b].kind) <= Len(words[b])
       /\ words' = [words EXCEPT ![b][i + Offset(area[b].kind)] = Mark]
       /\ area' = [area EXCEPT ![b].expect[i] = Mark]
  /\ UNCHANGED <<live, stringVars, flsVars, status>>

-----------------------------------------------------------------------------
(* Strings, and the variants that own them.                                *)
SysAllocString(b) ==
  /\ b \notin live
  /\ live' = live \cup {b} /\ loose' = loose \cup {b}
  /\ UNCHANGED <<heapVars, variant, flsVars, status>>

SysFreeString(b) ==
  /\ b \in loose
  /\ live' = live \ {b} /\ loose' = loose \ {b}
  /\ UNCHANGED <<heapVars, variant, flsVars, status>>

(* A callee fills in an empty variant, or one it may overwrite.            *)
Fillable(v) == variant[v].vt \in {"EMPTY", "BSTR|BYREF", "CLSID", "BAD"}

PutString(v, b) ==
  /\ Fillable(v) /\ b \in loose
  /\ loose' = loose \ {b}
  /\ variant' = [variant EXCEPT ![v] = Variant("BSTR", b)]
  /\ UNCHANGED <<heapVars, live, flsVars, status>>

PutOther(v, vt, val) ==
  /\ Fillable(v)
  /\ \/ vt \in VTypes \ {"BSTR", "BSTR|BYREF", "UNKNOWN"} /\ val = Null
     \/ vt = "BSTR|BYREF" /\ val \in loose
     \/ vt = "BSTR" /\ val = Null
     \/ vt = "UNKNOWN" /\ val \in {Null, "object"}
  /\ variant' = [variant EXCEPT ![v] = Variant(vt, val)]
  /\ UNCHANGED <<heapVars, live, loose, flsVars, status>>

Valid(vt) == vt # "BAD"

\* The string a variant owns, if it does.
Owned(value) == IF value.vt = "BSTR" THEN {value.val} \ {Null} ELSE {}
Trapped(vt)  == vt = "ARRAY"

(* An object is not released; what is passed by reference is not owned.    *)
VariantClear(v) ==
  IF ~Valid(variant[v].vt) THEN UNCHANGED vars
  ELSE IF Trapped(variant[v].vt) THEN Stop("abort")
  ELSE /\ live' = live \ Owned(variant[v])
       /\ variant' = [variant EXCEPT ![v] = Variant("EMPTY", Null)]
       /\ UNCHANGED <<heapVars, loose, flsVars, status>>

Uncopyable(vt) == vt = "CLSID" \/ ~Valid(vt)

\* Faulty: the destination gets the source's own string.
VariantCopyShallow(d, s, b) ==
  IF Uncopyable(variant[s].vt) \/ d = s \/ ~Valid(variant[d].vt) THEN UNCHANGED vars
  ELSE IF Trapped(variant[d].vt) \/ Trapped(variant[s].vt) THEN Stop("abort")
  ELSE /\ live' = live \ Owned(variant[d])
       /\ variant' = [variant EXCEPT ![d] = variant[s]]
       /\ UNCHANGED <<heapVars, loose, flsVars, status>>

(* The destination is cleared, the value copied as it is, and a string of  *)
(* its own made for it, b; a NULL string is read, and an object asserted   *)
(* not to be there.                                                        *)
VariantCopy(d, s, b) ==
  LET src == variant[s]
      left == live \ Owned(variant[d])
  IN IF Uncopyable(src.vt) \/ d = s \/ ~Valid(variant[d].vt) THEN UNCHANGED vars
     ELSE IF Trapped(variant[d].vt) \/ Trapped(src.vt)
             \/ (src.vt = "UNKNOWN" /\ src.val # Null) THEN Stop("abort")
     ELSE IF src.vt = "BSTR" /\ src.val = Null THEN Stop("fault")
     ELSE /\ IF src.vt = "BSTR"
             THEN /\ b \notin left
                  /\ live' = left \cup {b}
                  /\ variant' = [variant EXCEPT ![d] = Variant("BSTR", b)]
             ELSE live' = left /\ variant' = [variant EXCEPT ![d] = src]
          /\ UNCHANGED <<heapVars, loose, flsVars, status>>

-----------------------------------------------------------------------------
(* Fiber-local slots: the first free one is taken, a full table is an      *)
(* assertion, and so is FlsFree.                                           *)
Free(i) == i \notin slots.occupied

\* Faulty: the slot is not marked.
FlsAllocUnmarked ==
  IF \E i \in 1 .. FlsSlots : Free(i)
  THEN \E i \in 1 .. FlsSlots :
         /\ Free(i) /\ \A j \in 1 .. i - 1 : ~Free(j)
         /\ handed' = Append(handed, i) /\ stored' = Append(stored, Null)
         /\ UNCHANGED <<heapVars, live, stringVars, slots, status>>
  ELSE Stop("abort")

\* Faulty: the search runs one past the end.
FlsAllocPastEnd ==
  IF \E i \in 1 .. FlsSlots + 1 : Free(i)
  THEN \E i \in 1 .. FlsSlots + 1 :
         /\ Free(i) /\ \A j \in 1 .. i - 1 : ~Free(j)
         /\ slots' = [slots EXCEPT !.occupied = @ \cup {i}]
         /\ handed' = Append(handed, i) /\ stored' = Append(stored, Null)
         /\ UNCHANGED <<heapVars, live, stringVars, status>>
  ELSE Stop("abort")

FlsAlloc ==
  IF \E i \in 1 .. FlsSlots : Free(i)
  THEN \E i \in 1 .. FlsSlots :
         /\ Free(i) /\ \A j \in 1 .. i - 1 : ~Free(j)
         /\ slots' = [slots EXCEPT !.occupied = @ \cup {i}]
         /\ handed' = Append(handed, i) /\ stored' = Append(stored, Null)
         /\ UNCHANGED <<heapVars, live, stringVars, status>>
  ELSE Stop("abort")

FlsSetValue(k, value) ==
  /\ k \in DOMAIN handed
  /\ slots' = [slots EXCEPT !.data[handed[k]] = value]
  /\ stored' = [stored EXCEPT ![k] = value]
  /\ UNCHANGED <<heapVars, live, stringVars, handed, status>>

FlsGetValue(k) == slots.data[handed[k]]
FlsFree == Stop("abort")

-----------------------------------------------------------------------------
Next ==
  /\ status = "running"
  /\ \/ \E b \in Blocks, n \in Sizes, zero \in BOOLEAN :
          HeapAlloc(b, n, zero) \/ LocalAlloc(b, n, zero)
     \/ \E b \in Blocks, n \in Sizes : VirtualAlloc(b, n)
     \/ VirtualAllocElse
     \/ \E b \in Blocks : HeapFree(b) \/ LocalFree(b) \/ VirtualFree(b)
     \/ \E b, c \in Blocks, n \in Sizes, zero \in BOOLEAN : HeapReAlloc(b, c, n, zero)
     \/ \E b \in Blocks : Write(b)
     \/ \E b \in Blocks : SysAllocString(b) \/ SysFreeString(b)
     \/ \E v \in Variables, b \in Blocks : PutString(v, b)
     \/ \E v \in Variables, vt \in VTypes, val \in Blocks \cup {Null, "object"} :
          PutOther(v, vt, val)
     \/ \E v \in Variables : VariantClear(v)
     \/ \E d, s \in Variables, b \in Blocks : VariantCopy(d, s, b)
     \/ FlsAlloc \/ FlsFree
     \/ \E k \in DOMAIN handed, value \in {Null, "data"} : FlsSetValue(k, value)

Spec == Init /\ [][Next]_vars

-----------------------------------------------------------------------------
TypeOK ==
  /\ words \in [Blocks -> Seq(Word)] /\ live \subseteq Blocks
  /\ area \in [Blocks -> Area \cup {None}]
  /\ loose \subseteq Blocks
  /\ variant \in [Variables -> [vt : VTypes, val : Blocks \cup {Null, "object"}]]
  /\ handed \in Seq(1 .. FlsSlots) /\ stored \in Seq({Null, "data"})
  /\ slots \in [occupied : SUBSET (1 .. FlsSlots), data : [1 .. FlsSlots -> {Null, "data"}]]
  /\ status \in {"running", "abort", "fault"}

(* HeapSize answers the size last asked for, through every move of the     *)
(* block; but for an area HeapReAlloc grew from nothing with zeros, whose  *)
(* header it clears.                                                       *)
HeapSizeTrue ==
  \A b \in Blocks :
    area[b].kind = "heap" => area[b].torn \/ HeapSize(b) = area[b].size

(* What is written, or promised to be zero, is read back, whatever else is *)
(* allocated, reallocated or freed meanwhile; what HeapReAlloc loses is    *)
(* not expected (Regrown).                                                 *)
ContentsKept ==
  \A b \in Blocks :
    area[b] # None =>
      \A i \in 1 .. area[b].size :
        \/ area[b].expect[i] = Unknown
        \/ words[b][i + Offset(area[b].kind)] = area[b].expect[i]

(* Every string has one owner, the caller or one variant, and every owned  *)
(* string is there: copying and clearing variants in any order frees none  *)
(* twice, too early or never.                                              *)
IsString(b) == b \in live /\ area[b] = None
StringsOwnedOnce ==
  /\ \A b \in Blocks : IsString(b) <=> b \in loose \/ \E v \in Variables : b \in Owned(variant[v])
  /\ \A v \in Variables : Owned(variant[v]) \cap loose = {}
  /\ \A v, w \in Variables : Owned(variant[v]) \cap Owned(variant[w]) # {} => v = w

(* A slot reads what was last stored behind its index, NULL at first: no   *)
(* index is handed out twice.                                              *)
FlsReadsBack == \A k \in DOMAIN handed : FlsGetValue(k) = stored[k]

(* An area has the size that was asked for.  Violated by HeapReAlloc, which *)
(* reallocates without the header's word.                                  *)
UserAreaIsAllocated ==
  \A b \in Blocks :
    area[b] # None => area[b].size + Offset(area[b].kind) <= Len(words[b])
=============================================================================
