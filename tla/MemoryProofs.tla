---------------------------- MODULE MemoryProofs ----------------------------
(***************************************************************************)
(* The memory handed to image code, for any number of blocks, sizes,       *)
(* variants and slots: types, what HeapSize answers, what an area keeps,   *)
(* who owns a string, and what a slot reads.                               *)
(***************************************************************************)
EXTENDS Memory, TLAPS

-----------------------------------------------------------------------------
(* Areas.  What is expected of an area and its words: a header that is not *)
(* torn holds the size, and whatever is expected lies inside the block.    *)
Hopes == {0, Mark, Unknown}

AreaSound(held, w) ==
  /\ held \in Area /\ w \in Seq(Word) /\ Len(held.expect) = held.size
  /\ held.kind = "heap" => Len(w) >= 1 /\ (held.torn \/ w[1] = held.size)
  /\ \A i \in 1 .. held.size :
       \/ held.expect[i] = Unknown
       \/ /\ i + Offset(held.kind) <= Len(w)
          /\ w[i + Offset(held.kind)] = held.expect[i]

(* The sorts of words.                                                     *)
LEMMA WordType ==
  /\ Word \subseteq Nat /\ Sizes \subseteq Word /\ Sizes \subseteq Nat
  /\ 0 \in Word /\ Mark \in Word /\ Junk \in Word
BY MemoryAssumption DEF Word, Mark, Junk

(* A sequence of one word.                                                 *)
LEMMA FillType ==
  ASSUME NEW S, NEW x \in S, NEW n \in Nat
  PROVE  /\ Fill(n, x) \in Seq(S) /\ Len(Fill(n, x)) = n
         /\ \A i \in 1 .. n : Fill(n, x)[i] = x
BY DEF Fill

(* An area is not None.                                                    *)
LEMMA AreaIsHeld ==
  ASSUME NEW held \in Area
  PROVE  held # None /\ held.kind \in Kinds
<1>1. held.kind \in Kinds
  BY DEF Area
<1>2. held.kind # None.kind
  BY <1>1 DEF Kinds, None
<1> QED BY <1>1, <1>2

(* A new area: zeros where they were asked for.                            *)
LEMMA HoldType ==
  ASSUME NEW kind \in Kinds, NEW n \in Sizes, NEW zero \in BOOLEAN
  PROVE  LET held == Hold(kind, n, zero)
         IN /\ held \in Area /\ Len(held.expect) = n /\ held.size = n
            /\ held.kind = kind
            /\ \A i \in 1 .. n : held.expect[i] = IF zero THEN 0 ELSE Unknown
<1> DEFINE x == IF zero THEN 0 ELSE Unknown
<1>1. x \in Hopes /\ n \in Nat
  BY MemoryAssumption DEF Hopes
<1> HIDE DEF x
<1>2. /\ Fill(n, x) \in Seq(Hopes) /\ Len(Fill(n, x)) = n
      /\ \A i \in 1 .. n : Fill(n, x)[i] = x
  BY <1>1, FillType
<1>3. Hold(kind, n, zero) = [kind |-> kind, size |-> n, expect |-> Fill(n, x), torn |-> FALSE]
  BY DEF Hold, x
<1> HIDE DEF x
<1> QED BY <1>2, <1>3 DEF Area, Hopes, x

(* A new area without a header.                                            *)
LEMMA PlainSound ==
  ASSUME NEW kind \in {"local", "virtual"}, NEW n \in Sizes, NEW zero \in BOOLEAN,
         NEW x \in Word, zero => x = 0
  PROVE  AreaSound(Hold(kind, n, zero), Fill(n, x))
<1>1. LET held == Hold(kind, n, zero)
      IN /\ held \in Area /\ Len(held.expect) = n /\ held.size = n
         /\ held.kind = kind
         /\ \A i \in 1 .. n : held.expect[i] = IF zero THEN 0 ELSE Unknown
  BY HoldType DEF Kinds
<1>2. /\ Fill(n, x) \in Seq(Word) /\ Len(Fill(n, x)) = n
      /\ \A i \in 1 .. n : Fill(n, x)[i] = x
  BY WordType, FillType
<1>3. n \in Nat /\ Offset(kind) = 0 /\ kind # "heap"
  BY MemoryAssumption DEF Offset
<1> QED BY <1>1, <1>2, <1>3 DEF AreaSound

(* A new area of a heap, with its size in front.                           *)
LEMMA HeapSound ==
  ASSUME NEW n \in Sizes, NEW zero \in BOOLEAN
  PROVE  AreaSound(Hold("heap", n, zero), <<n>> \o Fill(n, IF zero THEN 0 ELSE Junk))
<1> DEFINE x == IF zero THEN 0 ELSE Junk
           w == <<n>> \o Fill(n, x)
<1>1. LET held == Hold("heap", n, zero)
      IN /\ held \in Area /\ Len(held.expect) = n /\ held.size = n
         /\ held.kind = "heap"
         /\ \A i \in 1 .. n : held.expect[i] = IF zero THEN 0 ELSE Unknown
  BY HoldType DEF Kinds
<1>2. n \in Nat /\ n \in Word /\ x \in Word /\ (zero => x = 0)
  BY WordType
<1> HIDE DEF x
<1>3. /\ Fill(n, x) \in Seq(Word) /\ Len(Fill(n, x)) = n
      /\ \A i \in 1 .. n : Fill(n, x)[i] = x
  BY <1>2, FillType
<1>4. /\ w \in Seq(Word) /\ Len(w) = n + 1 /\ w[1] = n
      /\ \A i \in 1 .. n : w[i + 1] = x
  BY <1>2, <1>3
<1> HIDE DEF w
<1>5. Offset("heap") = 1
  BY DEF Offset
<1>6. AreaSound(Hold("heap", n, zero), w)
  BY <1>1, <1>2, <1>4, <1>5 DEF AreaSound
<1> QED BY <1>6 DEF w, x

(* HeapReAlloc: what the header says, what is cleared, and what the caller *)
(* may still expect.                                                       *)
LEMMA RegrownSound ==
  ASSUME NEW held, NEW w, AreaSound(held, w), held.kind = "heap",
         NEW n \in Sizes, n # 0, NEW zero \in BOOLEAN
  PROVE  AreaSound(Regrown(held, n, zero), Reallocated(w, n, zero))
<1> DEFINE u == Reallocated(w, n, zero)
           g == Regrown(held, n, zero)
           clears == zero /\ (n > held.size \/ held.torn)
           lost(i) == i = n \/ (clears /\ (i = held.size \/ held.torn))
           hope(i) == IF lost(i) THEN Unknown
                      ELSE IF i <= held.size THEN held.expect[i]
                      ELSE IF zero THEN 0 ELSE Unknown
           hopes == [i \in 1 .. n |-> hope(i)]
           torn == zero /\ (held.torn \/ held.size = 0)
           cell(i) == IF zero /\ n > w[1] /\ i > w[1] THEN 0
                      ELSE IF i = 1 THEN n
                      ELSE IF i <= Len(w) THEN w[i] ELSE Junk
<1>1. /\ held \in Area /\ w \in Seq(Word) /\ held.size \in Nat /\ held.torn \in BOOLEAN
      /\ held.expect \in Seq(Hopes) /\ Len(held.expect) = held.size
      /\ Len(w) \in Nat /\ Len(w) >= 1 /\ (held.torn \/ w[1] = held.size)
      /\ w[1] \in Nat /\ n \in Nat
  <2>1. /\ held \in Area /\ w \in Seq(Word) /\ Len(held.expect) = held.size
        /\ Len(w) >= 1 /\ (held.torn \/ w[1] = held.size)
    BY DEF AreaSound
  <2>2. held.size \in Sizes /\ held.torn \in BOOLEAN /\ held.expect \in Seq(Hopes)
    BY <2>1 DEF Area, Hopes
  <2>3. Len(w) \in Nat /\ w[1] \in Word
    BY <2>1
  <2> QED BY <2>1, <2>2, <2>3, WordType
<1>2. \A i \in 1 .. held.size :
        \/ held.expect[i] = Unknown
        \/ i + 1 <= Len(w) /\ w[i + 1] = held.expect[i]
  BY DEF AreaSound, Offset
<1>3. \A i \in 1 .. n : cell(i) \in Word
  <2> TAKE i \in 1 .. n
  <2>1. i <= Len(w) => w[i] \in Word
    BY <1>1
  <2> QED BY <2>1, WordType
<1>4. u = [i \in 1 .. n |-> cell(i)]
  BY DEF Reallocated
<1> HIDE DEF u
<1>5. u \in Seq(Word) /\ Len(u) = n /\ \A i \in 1 .. n : u[i] = cell(i)
  <2> HIDE DEF cell
  <2> QED BY <1>1, <1>3, <1>4
<1>6. \A i \in 1 .. n : hope(i) \in Hopes
  <2> TAKE i \in 1 .. n
  <2>1. i <= held.size => held.expect[i] \in Hopes
    BY <1>1
  <2> QED BY <2>1 DEF Hopes
<1>7. hopes \in Seq(Hopes) /\ Len(hopes) = n /\ \A i \in 1 .. n : hopes[i] = hope(i)
  <2> HIDE DEF hope
  <2> QED BY <1>1, <1>6
<1>8. g = [held EXCEPT !.size = n, !.expect = hopes, !.torn = torn]
  BY DEF Regrown
<1>9. torn \in BOOLEAN
  BY <1>1
<1> HIDE DEF hopes, torn, g
<1>10. /\ g \in Area /\ g.size = n /\ g.expect = hopes /\ g.torn = torn
       /\ g.kind = "heap"
  BY <1>1, <1>7, <1>8, <1>9 DEF Area, Hopes
<1>11. torn \/ u[1] = n
  <2> SUFFICES ASSUME ~torn PROVE u[1] = n
    OBVIOUS
  <2>1. u[1] = cell(1)
    BY <1>1, <1>5
  <2>2. ~(zero /\ n > w[1] /\ 1 > w[1])
    BY <1>1 DEF torn
  <2> QED BY <2>1, <2>2
<1>12. ASSUME NEW i \in 1 .. n, hope(i) # Unknown
       PROVE  i + 1 <= n /\ u[i + 1] = hope(i)
  <2>1. ~lost(i) /\ i # n /\ i + 1 \in 1 .. n /\ i + 1 # 1
    BY <1>1, <1>12
  <2>2. u[i + 1] = cell(i + 1)
    BY <1>5, <2>1
  <2>3. CASE i <= held.size
    <3>1. i + 1 <= Len(w) /\ w[i + 1] = held.expect[i] /\ hope(i) = held.expect[i]
      BY <1>1, <1>2, <1>12, <2>1, <2>3
    <3>2. ~(zero /\ n > w[1] /\ i + 1 > w[1])
      BY <1>1, <2>1, <2>3
    <3> QED BY <2>1, <2>2, <3>1, <3>2
  <2>4. CASE ~(i <= held.size)
    <3>1. zero /\ hope(i) = 0
      BY <1>12, <2>1, <2>4
    <3>2. n > w[1] /\ i + 1 > w[1]
      BY <1>1, <2>1, <2>4, <3>1
    <3> QED BY <2>1, <2>2, <3>1, <3>2
  <2> QED BY <2>3, <2>4
<1>13. Offset("heap") = 1
  BY DEF Offset
<1> HIDE DEF hope
<1>14. AreaSound(g, u)
  BY <1>1, <1>5, <1>7, <1>10, <1>11, <1>12, <1>13 DEF AreaSound
<1> QED BY <1>14 DEF g, u

(* The caller writes a word of an area it holds: the header stays.         *)
LEMMA WrittenSound ==
  ASSUME NEW held, NEW w, AreaSound(held, w), NEW i \in 1 .. held.size,
         i + Offset(held.kind) <= Len(w)
  PROVE  AreaSound([held EXCEPT !.expect[i] = Mark],
                   [w EXCEPT ![i + Offset(held.kind)] = Mark])
<1> DEFINE k == Offset(held.kind)
           u == [w EXCEPT ![i + k] = Mark]
           hopes == [held.expect EXCEPT ![i] = Mark]
           g == [held EXCEPT !.expect = hopes]
<1>1. /\ held \in Area /\ w \in Seq(Word) /\ held.size \in Nat
      /\ held.expect \in Seq(Hopes) /\ Len(held.expect) = held.size
      /\ k \in {0, 1} /\ (held.kind = "heap" => k = 1)
  BY WordType DEF AreaSound, Area, Hopes, Offset
<1>2. held.kind = "heap" => Len(w) >= 1 /\ (held.torn \/ w[1] = held.size)
  BY DEF AreaSound
<1>3. \A j \in 1 .. held.size :
        held.expect[j] = Unknown \/ (j + k <= Len(w) /\ w[j + k] = held.expect[j])
  BY DEF AreaSound
<1>4. i + k <= Len(w) /\ Mark \in Hopes /\ Mark \in Word
  BY WordType DEF Hopes
<1>5. [held EXCEPT !.expect[i] = Mark] = g
  BY <1>1 DEF Area
<1> HIDE DEF k
<1>6. /\ u \in Seq(Word) /\ Len(u) = Len(w) /\ u[i + k] = Mark
      /\ \A j \in 1 .. Len(w) : j # i + k => u[j] = w[j]
  BY <1>1, <1>4
<1>7. /\ hopes \in Seq(Hopes) /\ Len(hopes) = held.size /\ hopes[i] = Mark
      /\ \A j \in 1 .. held.size : j # i => hopes[j] = held.expect[j]
  BY <1>1, <1>4
<1> HIDE DEF u, hopes
<1>8. /\ g \in Area /\ g.size = held.size /\ g.expect = hopes /\ g.torn = held.torn
      /\ g.kind = held.kind
  BY <1>1, <1>7 DEF Area, Hopes
<1>9. held.kind = "heap" => Len(u) >= 1 /\ (held.torn \/ u[1] = held.size)
  BY <1>1, <1>2, <1>4, <1>6
<1>10. \A j \in 1 .. held.size :
         hopes[j] = Unknown \/ (j + k <= Len(u) /\ u[j + k] = hopes[j])
  <2> TAKE j \in 1 .. held.size
  <2>1. CASE j = i
    BY <1>1, <1>4, <1>6, <1>7, <2>1
  <2>2. CASE j # i
    <3>1. hopes[j] = held.expect[j]
      BY <1>7, <2>2
    <3>2. j + k <= Len(w) => u[j + k] = w[j + k]
      BY <1>1, <1>6, <2>2
    <3> QED BY <1>3, <1>6, <3>1, <3>2
  <2> QED BY <2>1, <2>2
<1> HIDE DEF g
<1>11. AreaSound(g, u)
  BY <1>6, <1>7, <1>8, <1>9, <1>10 DEF AreaSound, k
<1> QED BY <1>5, <1>11 DEF u, k

-----------------------------------------------------------------------------
(* The invariant, in three parts: areas are live and sound; strings have   *)
(* one owner, and no variant owns an object as if it were a string; the    *)
(* indices of slots differ, and what was not handed out is NULL.           *)
Values == Blocks \cup {Null, "object"}
VariantRecord == [vt : VTypes, val : Values]

HeapInv ==
  /\ words \in [Blocks -> Seq(Word)] /\ live \subseteq Blocks
  /\ area \in [Blocks -> Area \cup {None}]
  /\ \A b \in Blocks : area[b] # None => b \in live /\ AreaSound(area[b], words[b])

StringInv ==
  /\ loose \subseteq Blocks
  /\ variant \in [Variables -> VariantRecord]
  /\ \A v \in Variables : Owned(variant[v]) \subseteq Blocks
  /\ StringsOwnedOnce

FlsInv ==
  /\ slots \in [occupied : SUBSET (1 .. FlsSlots), data : [1 .. FlsSlots -> {Null, "data"}]]
  /\ handed \in Seq(1 .. FlsSlots) /\ stored \in Seq({Null, "data"})
  /\ Len(handed) = Len(stored)
  /\ \A k \in 1 .. Len(handed) : handed[k] \in slots.occupied
  /\ \A j, k \in 1 .. Len(handed) : handed[j] = handed[k] => j = k
  /\ \A i \in 1 .. FlsSlots : i \notin slots.occupied => slots.data[i] = Null
  /\ \A k \in 1 .. Len(handed) : slots.data[handed[k]] = stored[k]

Stopped == status \in {"running", "abort", "fault"}

Inv == HeapInv /\ StringInv /\ FlsInv /\ Stopped

(* What a step on areas leaves alone.                                      *)
SameStrings == \A b \in Blocks : IsString(b) <=> (b \in live' /\ area'[b] = None)

LEMMA StringsKept ==
  ASSUME StringInv, SameStrings, UNCHANGED stringVars
  PROVE  StringInv'
<1>1. loose' = loose /\ variant' = variant
  BY DEF stringVars
<1> QED BY <1>1 DEF StringInv, StringsOwnedOnce, SameStrings, IsString

(* malloc for a new area.                                                  *)
LEMMA AllocateSound ==
  ASSUME HeapInv, NEW b \in Blocks, NEW contents, NEW held,
         AreaSound(held, contents), Allocate(b, contents, held)
  PROVE  HeapInv' /\ SameStrings /\ UNCHANGED <<stringVars, flsVars, status>>
<1>1. /\ b \notin live /\ live' = live \cup {b}
      /\ words' = [words EXCEPT ![b] = contents]
      /\ area' = [area EXCEPT ![b] = held]
      /\ UNCHANGED <<stringVars, flsVars, status>>
  BY DEF Allocate
<1>2. held \in Area /\ contents \in Seq(Word) /\ held # None
  BY AreaIsHeld DEF AreaSound
<1>3. /\ words' \in [Blocks -> Seq(Word)] /\ area' \in [Blocks -> Area \cup {None}]
      /\ words'[b] = contents /\ area'[b] = held
      /\ \A x \in Blocks : x # b => words'[x] = words[x] /\ area'[x] = area[x]
  BY <1>1, <1>2 DEF HeapInv
<1>4. HeapInv'
  BY <1>1, <1>3 DEF HeapInv
<1>5. SameStrings
  BY <1>1, <1>2, <1>3 DEF SameStrings, IsString
<1> QED BY <1>1, <1>4, <1>5

(* free of an area.                                                        *)
LEMMA ReleaseSound ==
  ASSUME HeapInv, NEW b \in Blocks, area[b] # None, Release(b)
  PROVE  HeapInv' /\ SameStrings /\ UNCHANGED <<stringVars, flsVars, status>>
<1>1. /\ live' = live \ {b}
      /\ words' = [words EXCEPT ![b] = <<>>]
      /\ area' = [area EXCEPT ![b] = None]
      /\ UNCHANGED <<stringVars, flsVars, status>>
  BY DEF Release
<1>2. <<>> \in Seq(Word)
  OBVIOUS
<1>3. /\ words' \in [Blocks -> Seq(Word)] /\ area' \in [Blocks -> Area \cup {None}]
      /\ area'[b] = None
      /\ \A x \in Blocks : x # b => words'[x] = words[x] /\ area'[x] = area[x]
  BY <1>1, <1>2 DEF HeapInv
<1>4. HeapInv'
  BY <1>1, <1>3 DEF HeapInv
<1>5. SameStrings
  BY <1>1, <1>3 DEF SameStrings, IsString
<1> QED BY <1>1, <1>4, <1>5

(* A stop changes nothing else.                                            *)
LEMMA StopSound ==
  ASSUME Inv, NEW how \in {"abort", "fault"}, Stop(how)
  PROVE  Inv'
<1>1. /\ words' = words /\ area' = area /\ live' = live /\ loose' = loose
      /\ variant' = variant /\ handed' = handed /\ slots' = slots /\ stored' = stored
      /\ status' = how
  BY DEF Stop, heapVars, stringVars, flsVars
<1>2. HeapInv'
  BY <1>1 DEF Inv, HeapInv
<1>3. StringInv'
  BY <1>1 DEF Inv, StringInv, StringsOwnedOnce, IsString
<1>4. FlsInv'
  BY <1>1 DEF Inv, FlsInv
<1> QED BY <1>1, <1>2, <1>3, <1>4 DEF Inv, Stopped

(* realloc of a heap area, to a block of some words.                       *)
LEMMA ReAllocSound ==
  ASSUME HeapInv, NEW b \in Blocks, NEW c \in Blocks, NEW n \in Sizes,
         NEW zero \in BOOLEAN, HeapReAlloc(b, c, n, zero), n # 0
  PROVE  HeapInv' /\ SameStrings /\ UNCHANGED <<stringVars, flsVars, status>>
<1> DEFINE w == Reallocated(words[b], n, zero)
           held == Regrown(area[b], n, zero)
<1>1. /\ area[b].kind = "heap" /\ (c = b \/ c \notin live)
      /\ live' = (live \ {b}) \cup {c}
      /\ words' = [words EXCEPT ![b] = <<>>, ![c] = w]
      /\ area' = [area EXCEPT ![b] = None, ![c] = held]
      /\ UNCHANGED <<stringVars, flsVars, status>>
  BY DEF HeapReAlloc
<1>2. area[b] # None
  BY <1>1 DEF None
<1>3. AreaSound(held, w)
  BY <1>1, <1>2, RegrownSound DEF HeapInv
<1> HIDE DEF w, held
<1>4. held \in Area /\ w \in Seq(Word) /\ held # None /\ <<>> \in Seq(Word)
  BY <1>3, AreaIsHeld DEF AreaSound
<1>5. /\ words' \in [Blocks -> Seq(Word)] /\ area' \in [Blocks -> Area \cup {None}]
      /\ words'[c] = w /\ area'[c] = held
      /\ \A x \in Blocks : x # b /\ x # c => words'[x] = words[x] /\ area'[x] = area[x]
      /\ b # c => area'[b] = None
  BY <1>1, <1>4 DEF HeapInv
<1>6. HeapInv'
  BY <1>1, <1>3, <1>5 DEF HeapInv
<1>7. SameStrings
  BY <1>1, <1>2, <1>4, <1>5 DEF SameStrings, IsString, HeapInv
<1> QED BY <1>1, <1>6, <1>7

(* A write of the caller.                                                  *)
LEMMA WriteSound ==
  ASSUME HeapInv, NEW b \in Blocks, Write(b)
  PROVE  HeapInv' /\ SameStrings /\ UNCHANGED <<stringVars, flsVars, status>>
<1>1. PICK i \in 1 .. area[b].size :
        /\ i + Offset(area[b].kind) <= Len(words[b])
        /\ words' = [words EXCEPT ![b][i + Offset(area[b].kind)] = Mark]
        /\ area' = [area EXCEPT ![b].expect[i] = Mark]
  BY DEF Write
<1> DEFINE w == [words[b] EXCEPT ![i + Offset(area[b].kind)] = Mark]
           held == [area[b] EXCEPT !.expect[i] = Mark]
<1>2. area[b] # None /\ live' = live /\ UNCHANGED <<stringVars, flsVars, status>>
  BY DEF Write
<1>3. AreaSound(held, w)
  BY <1>1, <1>2, WrittenSound DEF HeapInv
<1>4. words' = [words EXCEPT ![b] = w] /\ area' = [area EXCEPT ![b] = held]
  BY <1>1 DEF HeapInv
<1> HIDE DEF w, held
<1>5. held \in Area /\ w \in Seq(Word) /\ held # None
  BY <1>3, AreaIsHeld DEF AreaSound
<1>6. /\ words' \in [Blocks -> Seq(Word)] /\ area' \in [Blocks -> Area \cup {None}]
      /\ words'[b] = w /\ area'[b] = held
      /\ \A x \in Blocks : x # b => words'[x] = words[x] /\ area'[x] = area[x]
  BY <1>4, <1>5 DEF HeapInv
<1>7. HeapInv'
  BY <1>2, <1>3, <1>6 DEF HeapInv
<1>8. SameStrings
  BY <1>2, <1>5, <1>6 DEF SameStrings, IsString
<1> QED BY <1>2, <1>7, <1>8

-----------------------------------------------------------------------------
(* Strings.  A step on strings leaves every area where it is.              *)
LEMMA AreasKept ==
  ASSUME HeapInv, UNCHANGED heapVars, live' \subseteq Blocks,
         \A b \in Blocks : b \in live /\ area[b] # None => b \in live'
  PROVE  HeapInv'
<1>1. words' = words /\ area' = area
  BY DEF heapVars
<1> QED BY <1>1 DEF HeapInv

(* A new string belongs to the caller.                                     *)
LEMMA SysAllocSound ==
  ASSUME HeapInv, StringInv, NEW b \in Blocks, SysAllocString(b)
  PROVE  HeapInv' /\ StringInv' /\ UNCHANGED <<flsVars, status>>
<1>1. /\ b \notin live /\ live' = live \cup {b} /\ loose' = loose \cup {b}
      /\ variant' = variant /\ words' = words /\ area' = area
      /\ UNCHANGED <<heapVars, flsVars, status>>
  BY DEF SysAllocString, heapVars
<1>2. HeapInv'
  BY <1>1, AreasKept DEF HeapInv
<1>3. area[b] = None /\ ~IsString(b)
  BY <1>1 DEF HeapInv, IsString
<1>4. b \notin loose /\ \A v \in Variables : b \notin Owned(variant[v])
  BY <1>3 DEF StringInv, StringsOwnedOnce
<1>5. \A x \in Blocks : IsString(x)' <=> IsString(x) \/ x = b
  BY <1>1, <1>3 DEF IsString
<1>6. StringsOwnedOnce'
  BY <1>1, <1>4, <1>5 DEF StringInv, StringsOwnedOnce
<1>7. StringInv'
  BY <1>1, <1>6 DEF StringInv
<1> QED BY <1>1, <1>2, <1>7

(* The caller frees one it holds.                                          *)
LEMMA SysFreeSound ==
  ASSUME HeapInv, StringInv, NEW b \in Blocks, SysFreeString(b)
  PROVE  HeapInv' /\ StringInv' /\ UNCHANGED <<flsVars, status>>
<1>1. /\ b \in loose /\ live' = live \ {b} /\ loose' = loose \ {b}
      /\ variant' = variant /\ words' = words /\ area' = area
      /\ UNCHANGED <<heapVars, flsVars, status>>
  BY DEF SysFreeString, heapVars
<1>2. IsString(b) /\ \A v \in Variables : b \notin Owned(variant[v])
  BY <1>1 DEF StringInv, StringsOwnedOnce
<1>3. HeapInv'
  BY <1>1, <1>2, AreasKept DEF HeapInv, IsString
<1>4. \A x \in Blocks : IsString(x)' <=> IsString(x) /\ x # b
  BY <1>1 DEF IsString
<1>5. StringsOwnedOnce'
  BY <1>1, <1>2, <1>4 DEF StringInv, StringsOwnedOnce
<1>6. StringInv'
  BY <1>1, <1>5 DEF StringInv
<1> QED BY <1>1, <1>3, <1>6

(* What a variant that is filled, cleared or copied owns.                  *)
LEMMA OwnedByKind ==
  ASSUME NEW value \in VariantRecord
  PROVE  /\ value.vt # "BSTR" => Owned(value) = {}
         /\ value.vt = "BSTR" => Owned(value) = {value.val} \ {Null}
         /\ Owned(value) \cap {Null} = {}
BY DEF Owned

(* malloc hands out neither.                                               *)
LEMMA NullIsNoBlock == Null \notin Blocks /\ "object" \notin Blocks
BY MemoryAssumption DEF Null

(* One variant is assigned.                                                *)
LEMMA SetVariant ==
  ASSUME variant \in [Variables -> VariantRecord], NEW d \in Variables,
         NEW value \in VariantRecord, variant' = [variant EXCEPT ![d] = value]
  PROVE  /\ variant' \in [Variables -> VariantRecord] /\ variant'[d] = value
         /\ \A v \in Variables : v # d => variant'[v] = variant[v]
OBVIOUS

(* The fields of a variant.                                                *)
LEMMA RecordType ==
  ASSUME NEW vt \in VTypes, NEW val \in Values
  PROVE  /\ Variant(vt, val) \in VariantRecord
         /\ Variant(vt, val).vt = vt /\ Variant(vt, val).val = val
BY DEF Variant, VariantRecord

(* The heart of it: d is given a value that owns the strings fresh, what   *)
(* it owned before is freed, and nobody else owned what is fresh.          *)
LEMMA ReownedSound ==
  ASSUME HeapInv, StringInv, NEW d \in Variables, NEW value \in VariantRecord,
         variant' = [variant EXCEPT ![d] = value],
         UNCHANGED <<heapVars, flsVars, status>>,
         loose' = loose \ Owned(value),
         live' = (live \ Owned(variant[d])) \cup Owned(value),
         Owned(value) \subseteq Blocks,
         \A b \in Owned(value) :
           b \in loose \/ b \notin live \/ b \in Owned(variant[d])
  PROVE  HeapInv' /\ StringInv' /\ UNCHANGED <<flsVars, status>>
<1> DEFINE fresh == Owned(value)
           old == Owned(variant[d])
<1>1. /\ variant' \in [Variables -> VariantRecord] /\ variant'[d] = value
      /\ \A v \in Variables : v # d => variant'[v] = variant[v]
  BY SetVariant DEF StringInv
<1>2. /\ \A v \in Variables : v # d => Owned(variant'[v]) = Owned(variant[v])
      /\ Owned(variant'[d]) = fresh
  BY <1>1
<1> HIDE DEF fresh, old
<1>3. words' = words /\ area' = area /\ UNCHANGED <<flsVars, status>>
  BY DEF heapVars
<1>4. \A b \in Blocks : b \in old => IsString(b)
  BY DEF StringInv, StringsOwnedOnce, old
<1>5. \A b \in fresh : b \in Blocks /\ area[b] = None
  <2> TAKE b \in fresh
  <2>1. b \in Blocks /\ (b \in loose \/ b \notin live \/ b \in old)
    BY DEF fresh, old
  <2>2. b \in loose => IsString(b)
    BY <2>1 DEF StringInv, StringsOwnedOnce
  <2> QED BY <1>4, <2>1, <2>2 DEF IsString, HeapInv
<1>6. live' = (live \ old) \cup fresh /\ loose' = loose \ fresh
  BY DEF fresh, old
<1>7. HeapInv'
  <2>1. live' \subseteq Blocks
    BY <1>5, <1>6 DEF HeapInv
  <2>2. \A b \in Blocks : b \in live /\ area[b] # None => b \in live'
    BY <1>4, <1>6 DEF IsString
  <2> QED BY <2>1, <2>2, AreasKept
<1>8. \A b \in Blocks : IsString(b)' <=> (IsString(b) /\ b \notin old) \/ b \in fresh
  BY <1>3, <1>5, <1>6 DEF IsString
<1>9. \A v \in Variables : v # d => Owned(variant[v]) \cap fresh = {}
  <2> TAKE v \in Variables
  <2> SUFFICES ASSUME v # d, NEW b \in Owned(variant[v]), b \in fresh PROVE FALSE
    OBVIOUS
  <2>1. b \in Blocks /\ IsString(b)
    BY DEF StringInv, StringsOwnedOnce
  <2>2. b \notin loose /\ b \notin old
    BY <2>1 DEF StringInv, StringsOwnedOnce, old
  <2> QED BY <2>1, <2>2 DEF IsString, fresh, old
<1>10. \A b \in Blocks :
         IsString(b)' <=> (b \in loose' \/ \E v \in Variables : b \in Owned(variant'[v]))
  <2> TAKE b \in Blocks
  <2>1. IsString(b) <=> b \in loose \/ \E v \in Variables : b \in Owned(variant[v])
    BY DEF StringInv, StringsOwnedOnce
  <2>2. b \in old => b \notin loose /\ \A v \in Variables : v # d => b \notin Owned(variant[v])
    BY DEF StringInv, StringsOwnedOnce, old
  <2>3. CASE b \in fresh
    BY <1>2, <1>8, <2>3
  <2>4. CASE b \notin fresh
    <3>1. b \in loose' <=> b \in loose
      BY <1>6, <2>4
    <3>2. (\E v \in Variables : b \in Owned(variant'[v])) <=>
          (\E v \in Variables : v # d /\ b \in Owned(variant[v]))
      BY <1>2, <2>4
    <3>3. (\E v \in Variables : b \in Owned(variant[v])) <=>
          (b \in old \/ \E v \in Variables : v # d /\ b \in Owned(variant[v]))
      BY DEF old
    <3> QED BY <1>8, <2>1, <2>2, <2>4, <3>1, <3>2, <3>3
  <2> QED BY <2>3, <2>4
<1>11. \A v \in Variables : Owned(variant'[v]) \cap loose' = {}
  BY <1>2, <1>6 DEF StringInv, StringsOwnedOnce
<1>12. \A v, u \in Variables : Owned(variant'[v]) \cap Owned(variant'[u]) # {} => v = u
  BY <1>2, <1>9 DEF StringInv, StringsOwnedOnce
<1>13. StringInv'
  <2>1. \A v \in Variables : Owned(variant'[v]) \subseteq Blocks
    BY <1>2, <1>5 DEF StringInv
  <2>2. loose' \subseteq Blocks
    BY <1>6 DEF StringInv
  <2> QED BY <1>1, <1>10, <1>11, <1>12, <2>1, <2>2 DEF StringInv, StringsOwnedOnce
<1> QED BY <1>3, <1>7, <1>13

(* A call that does nothing.                                               *)
LEMMA StutterSound ==
  ASSUME Inv, UNCHANGED vars
  PROVE  Inv'
<1>1. /\ words' = words /\ area' = area /\ live' = live /\ loose' = loose
      /\ variant' = variant /\ handed' = handed /\ slots' = slots /\ stored' = stored
      /\ status' = status
  BY DEF vars, heapVars, stringVars, flsVars
<1>2. HeapInv'
  BY <1>1 DEF Inv, HeapInv
<1>3. StringInv'
  BY <1>1 DEF Inv, StringInv, StringsOwnedOnce, IsString
<1>4. FlsInv'
  BY <1>1 DEF Inv, FlsInv
<1> QED BY <1>1, <1>2, <1>3, <1>4 DEF Inv, Stopped

(* A callee hands its string over in a variant.                            *)
LEMMA PutStringSound ==
  ASSUME HeapInv, StringInv, NEW v \in Variables, NEW b \in Blocks, PutString(v, b)
  PROVE  HeapInv' /\ StringInv' /\ UNCHANGED <<flsVars, status>>
<1> DEFINE value == Variant("BSTR", b)
<1>1. /\ Fillable(v) /\ b \in loose /\ loose' = loose \ {b}
      /\ variant' = [variant EXCEPT ![v] = value]
      /\ UNCHANGED <<heapVars, live, flsVars, status>>
  BY DEF PutString
<1>2. value \in VariantRecord /\ value.vt = "BSTR" /\ value.val = b
  BY RecordType DEF Values, VTypes
<1>3. Owned(value) = {b}
  BY <1>2, NullIsNoBlock DEF Owned
<1>4. Owned(variant[v]) = {}
  BY <1>1 DEF Fillable, Owned
<1>5. b \in live
  BY <1>1 DEF StringInv, StringsOwnedOnce, IsString
<1> HIDE DEF value
<1>6. /\ live' = (live \ Owned(variant[v])) \cup Owned(value)
      /\ loose' = loose \ Owned(value)
      /\ Owned(value) \subseteq Blocks /\ \A x \in Owned(value) : x \in loose
  BY <1>1, <1>3, <1>4, <1>5
<1> QED BY <1>1, <1>2, <1>6, ReownedSound

(* A value that owns nothing, in place of whatever d owned.                *)
LEMMA DisownedSound ==
  ASSUME HeapInv, StringInv, NEW d \in Variables, NEW value \in VariantRecord,
         Owned(value) = {},
         variant' = [variant EXCEPT ![d] = value],
         live' = live \ Owned(variant[d]),
         UNCHANGED <<heapVars, loose, flsVars, status>>
  PROVE  HeapInv' /\ StringInv' /\ UNCHANGED <<flsVars, status>>
<1>1. /\ live' = (live \ Owned(variant[d])) \cup Owned(value)
      /\ loose' = loose \ Owned(value)
      /\ Owned(value) \subseteq Blocks /\ \A x \in Owned(value) : x \in loose
  OBVIOUS
<1> QED BY <1>1, ReownedSound

(* Or something that owns nothing.                                         *)
LEMMA PutOtherSound ==
  ASSUME HeapInv, StringInv, NEW v \in Variables, NEW vt \in VTypes,
         NEW val \in Blocks \cup {Null, "object"}, PutOther(v, vt, val)
  PROVE  HeapInv' /\ StringInv' /\ UNCHANGED <<flsVars, status>>
<1> DEFINE value == Variant(vt, val)
<1>1. /\ Fillable(v) /\ (vt = "BSTR" => val = Null)
      /\ variant' = [variant EXCEPT ![v] = value]
      /\ UNCHANGED <<heapVars, live, loose, flsVars, status>>
  BY DEF PutOther
<1>2. value \in VariantRecord /\ value.vt = vt /\ value.val = val
  BY RecordType DEF Values
<1> HIDE DEF value
<1>3. Owned(value) = {}
  BY <1>1, <1>2 DEF Owned
<1>4. live' = live \ Owned(variant[v])
  BY <1>1 DEF Fillable, Owned
<1> QED BY <1>1, <1>2, <1>3, <1>4, DisownedSound

(* VariantClear frees what the variant owned.                              *)
LEMMA VariantClearSound ==
  ASSUME Inv, NEW v \in Variables, VariantClear(v)
  PROVE  Inv'
<1>1. CASE UNCHANGED vars
  BY <1>1, StutterSound
<1>2. CASE Stop("abort")
  BY <1>2, StopSound
<1>3. CASE /\ live' = live \ Owned(variant[v])
           /\ variant' = [variant EXCEPT ![v] = Variant("EMPTY", Null)]
           /\ UNCHANGED <<heapVars, loose, flsVars, status>>
  <2>1. /\ Variant("EMPTY", Null) \in VariantRecord
        /\ Variant("EMPTY", Null).vt = "EMPTY"
    BY RecordType DEF Values, VTypes
  <2>2. Owned(Variant("EMPTY", Null)) = {}
    BY <2>1 DEF Owned
  <2>3. HeapInv' /\ StringInv' /\ UNCHANGED <<flsVars, status>>
    BY <1>3, <2>1, <2>2, DisownedSound DEF Inv
  <2> QED BY <2>3 DEF Inv, FlsInv, Stopped, flsVars
<1> QED BY <1>1, <1>2, <1>3 DEF VariantClear

(* VariantCopy does, and makes a string of its own.                        *)
LEMMA VariantCopySound ==
  ASSUME Inv, NEW d \in Variables, NEW s \in Variables, NEW b \in Blocks,
         VariantCopy(d, s, b)
  PROVE  Inv'
<1> DEFINE src == variant[s]
           left == live \ Owned(variant[d])
           value == Variant("BSTR", b)
<1>1. CASE UNCHANGED vars
  BY <1>1, StutterSound
<1>2. CASE Stop("abort") \/ Stop("fault")
  BY <1>2, StopSound
<1>3. CASE /\ src.vt = "BSTR" /\ b \notin left /\ live' = left \cup {b}
           /\ variant' = [variant EXCEPT ![d] = value]
           /\ UNCHANGED <<heapVars, loose, flsVars, status>>
  <2>1. value \in VariantRecord /\ value.vt = "BSTR" /\ value.val = b
    BY RecordType DEF Values, VTypes
  <2>2. Owned(value) = {b}
    BY <2>1, NullIsNoBlock DEF Owned
  <2>3. b \notin loose
    BY <1>3 DEF Inv, StringInv, StringsOwnedOnce, IsString
  <2>4. /\ live' = (live \ Owned(variant[d])) \cup Owned(value)
        /\ loose' = loose \ Owned(value)
        /\ Owned(value) \subseteq Blocks
        /\ \A x \in Owned(value) : x \notin live \/ x \in Owned(variant[d])
    BY <1>3, <2>2, <2>3
  <2> HIDE DEF value
  <2>5. HeapInv' /\ StringInv' /\ UNCHANGED <<flsVars, status>>
    BY <1>3, <2>1, <2>4, ReownedSound DEF Inv
  <2> QED BY <2>5 DEF Inv, FlsInv, Stopped, flsVars
<1>4. CASE /\ src.vt # "BSTR" /\ live' = left
           /\ variant' = [variant EXCEPT ![d] = src]
           /\ UNCHANGED <<heapVars, loose, flsVars, status>>
  <2>1. src \in VariantRecord /\ Owned(src) = {}
    BY <1>4 DEF Inv, StringInv, Owned
  <2>2. HeapInv' /\ StringInv' /\ UNCHANGED <<flsVars, status>>
    BY <1>4, <2>1, DisownedSound DEF Inv
  <2> QED BY <2>2 DEF Inv, FlsInv, Stopped, flsVars
<1> QED BY <1>1, <1>2, <1>3, <1>4 DEF VariantCopy

-----------------------------------------------------------------------------
(* Slots.                                                                  *)
SlotRecord == [occupied : SUBSET (1 .. FlsSlots), data : [1 .. FlsSlots -> {Null, "data"}]]

(* A slot handed out for the first time.                                   *)
LEMMA FlsAllocSound ==
  ASSUME FlsInv, NEW i \in 1 .. FlsSlots, Free(i),
         slots' = [slots EXCEPT !.occupied = @ \cup {i}],
         handed' = Append(handed, i), stored' = Append(stored, Null)
  PROVE  FlsInv'
<1>1. /\ slots \in SlotRecord /\ handed \in Seq(1 .. FlsSlots)
      /\ stored \in Seq({Null, "data"}) /\ Len(handed) = Len(stored)
      /\ i \notin slots.occupied
  BY DEF FlsInv, SlotRecord, Free
<1>2. /\ slots' \in SlotRecord /\ slots'.occupied = slots.occupied \cup {i}
      /\ slots'.data = slots.data
  BY <1>1 DEF SlotRecord
<1>3. /\ handed' \in Seq(1 .. FlsSlots) /\ Len(handed') = Len(handed) + 1
      /\ handed'[Len(handed) + 1] = i
      /\ \A k \in 1 .. Len(handed) : handed'[k] = handed[k]
  BY <1>1
<1>4. /\ stored' \in Seq({Null, "data"}) /\ Len(stored') = Len(handed) + 1
      /\ stored'[Len(handed) + 1] = Null
      /\ \A k \in 1 .. Len(handed) : stored'[k] = stored[k]
  BY <1>1
<1>5. \A k \in 1 .. Len(handed') : k \in 1 .. Len(handed) \/ k = Len(handed) + 1
  BY <1>1, <1>3
<1>6. \A k \in 1 .. Len(handed) : handed[k] \in slots.occupied /\ handed[k] # i
  BY <1>1 DEF FlsInv
<1>7. \A j, k \in 1 .. Len(handed') : handed'[j] = handed'[k] => j = k
  BY <1>3, <1>5, <1>6 DEF FlsInv
<1>8. \A k \in 1 .. Len(handed') : handed'[k] \in slots'.occupied
  BY <1>2, <1>3, <1>5, <1>6
<1>9. \A k \in 1 .. Len(handed') : slots'.data[handed'[k]] = stored'[k]
  BY <1>1, <1>2, <1>3, <1>4, <1>5 DEF FlsInv
<1>10. \A j \in 1 .. FlsSlots : j \notin slots'.occupied => slots'.data[j] = Null
  BY <1>2 DEF FlsInv
<1> QED BY <1>2, <1>3, <1>4, <1>7, <1>8, <1>9, <1>10 DEF FlsInv, SlotRecord

(* A value stored behind an index changes no other.                        *)
LEMMA FlsSetSound ==
  ASSUME FlsInv, NEW k \in DOMAIN handed, NEW value \in {Null, "data"},
         slots' = [slots EXCEPT !.data[handed[k]] = value],
         stored' = [stored EXCEPT ![k] = value], handed' = handed
  PROVE  FlsInv'
<1>1. /\ slots \in SlotRecord /\ handed \in Seq(1 .. FlsSlots)
      /\ stored \in Seq({Null, "data"}) /\ Len(handed) = Len(stored)
      /\ k \in 1 .. Len(handed) /\ handed[k] \in 1 .. FlsSlots
      /\ handed[k] \in slots.occupied
  BY DEF FlsInv, SlotRecord
<1> DEFINE data == [slots.data EXCEPT ![handed[k]] = value]
<1>2. slots.data \in [1 .. FlsSlots -> {Null, "data"}]
  BY <1>1 DEF SlotRecord
<1>3. /\ data \in [1 .. FlsSlots -> {Null, "data"}] /\ data[handed[k]] = value
      /\ \A i \in 1 .. FlsSlots : i # handed[k] => data[i] = slots.data[i]
  BY <1>1, <1>2
<1>4. slots' = [slots EXCEPT !.data = data]
  BY <1>1 DEF SlotRecord
<1> HIDE DEF data
<1>5. slots' \in SlotRecord /\ slots'.occupied = slots.occupied /\ slots'.data = data
  BY <1>1, <1>3, <1>4 DEF SlotRecord
<1>6. /\ stored' \in Seq({Null, "data"}) /\ Len(stored') = Len(stored)
      /\ stored'[k] = value
      /\ \A j \in 1 .. Len(stored) : j # k => stored'[j] = stored[j]
  BY <1>1
<1>7. \A j \in 1 .. Len(handed) : slots'.data[handed[j]] = stored'[j]
  <2> TAKE j \in 1 .. Len(handed)
  <2>1. CASE j = k
    BY <1>3, <1>5, <1>6, <2>1
  <2>2. CASE j # k
    <3>1. handed[j] # handed[k] /\ handed[j] \in 1 .. FlsSlots
      BY <1>1, <2>2 DEF FlsInv
    <3>2. slots'.data[handed[j]] = slots.data[handed[j]]
      BY <1>3, <1>5, <3>1
    <3>3. stored'[j] = stored[j] /\ slots.data[handed[j]] = stored[j]
      BY <1>1, <1>6, <2>2 DEF FlsInv
    <3> QED BY <3>2, <3>3
  <2> QED BY <2>1, <2>2
<1>8. \A i \in 1 .. FlsSlots : i \notin slots'.occupied => slots'.data[i] = Null
  BY <1>1, <1>3, <1>5 DEF FlsInv
<1>9. /\ \A j \in 1 .. Len(handed') : handed'[j] \in slots'.occupied
      /\ \A i, j \in 1 .. Len(handed') : handed'[i] = handed'[j] => i = j
  BY <1>5 DEF FlsInv
<1> QED BY <1>1, <1>5, <1>6, <1>7, <1>8, <1>9 DEF FlsInv, SlotRecord

-----------------------------------------------------------------------------
(* The invariant holds at first.                                           *)
LEMMA InitInv == Init => Inv
<1> SUFFICES ASSUME Init PROVE Inv
  OBVIOUS
<1>1. HeapInv
  <2>1. <<>> \in Seq(Word)
    OBVIOUS
  <2> QED BY <2>1 DEF Init, HeapInv
<1>2. StringInv
  <2>1. /\ Variant("EMPTY", Null) \in VariantRecord
        /\ Variant("EMPTY", Null).vt = "EMPTY"
    BY RecordType DEF Values, VTypes
  <2>2. Owned(Variant("EMPTY", Null)) = {}
    BY <2>1 DEF Owned
  <2>3. \A v \in Variables : variant[v] = Variant("EMPTY", Null)
    BY DEF Init
  <2>4. variant \in [Variables -> VariantRecord]
    BY <2>1 DEF Init
  <2>5. StringsOwnedOnce
    BY <2>2, <2>3 DEF StringsOwnedOnce, Init, IsString
  <2> QED BY <2>2, <2>3, <2>4, <2>5 DEF StringInv, Init
<1>3. FlsInv
  <2>1. /\ slots \in SlotRecord /\ slots.data = [i \in 1 .. FlsSlots |-> Null]
    BY DEF Init, SlotRecord
  <2>2. /\ handed = <<>> /\ stored = <<>>
    BY DEF Init
  <2>3. /\ handed \in Seq(1 .. FlsSlots) /\ stored \in Seq({Null, "data"})
        /\ Len(handed) = 0 /\ Len(stored) = 0
    BY <2>2
  <2> QED BY <2>1, <2>3 DEF FlsInv, SlotRecord
<1> QED BY <1>1, <1>2, <1>3 DEF Inv, Init, Stopped

(* A step on areas alone keeps it.                                         *)
LEMMA AreaStep ==
  ASSUME Inv, HeapInv', SameStrings, UNCHANGED <<stringVars, flsVars, status>>
  PROVE  Inv'
<1>1. StringInv'
  BY StringsKept DEF Inv
<1> QED BY <1>1 DEF Inv, FlsInv, Stopped, flsVars

(* And so does a step on strings.                                          *)
LEMMA StringStep ==
  ASSUME Inv, HeapInv', StringInv', UNCHANGED <<flsVars, status>>
  PROVE  Inv'
BY DEF Inv, FlsInv, Stopped, flsVars

(* And so does a step on slots.                                            *)
LEMMA SlotStep ==
  ASSUME Inv, FlsInv', UNCHANGED <<heapVars, live, stringVars, status>>
  PROVE  Inv'
<1>1. /\ words' = words /\ area' = area /\ live' = live /\ loose' = loose
      /\ variant' = variant /\ status' = status
  BY DEF heapVars, stringVars
<1> QED BY <1>1 DEF Inv, HeapInv, StringInv, StringsOwnedOnce, IsString, Stopped

(* Every step keeps it.                                                    *)
LEMMA NextInv == Inv /\ [Next]_vars => Inv'
<1> SUFFICES ASSUME Inv, [Next]_vars PROVE Inv'
  OBVIOUS
<1>0. HeapInv /\ StringInv /\ FlsInv
  BY DEF Inv
<1>1. CASE UNCHANGED vars
  BY <1>1, StutterSound
<1>2. ASSUME NEW b \in Blocks, NEW n \in Sizes, NEW zero \in BOOLEAN,
             HeapAlloc(b, n, zero) \/ LocalAlloc(b, n, zero)
      PROVE  Inv'
  <2>1. (IF zero THEN 0 ELSE Junk) \in Word
    BY WordType
  <2>2. CASE HeapAlloc(b, n, zero)
    BY <1>0, <2>2, HeapSound, AllocateSound, AreaStep DEF HeapAlloc
  <2>3. CASE LocalAlloc(b, n, zero)
    <3> DEFINE x == IF zero THEN 0 ELSE Junk
    <3>1. AreaSound(Hold("local", n, zero), Fill(n, x))
      <4>1. x \in Word /\ (zero => x = 0)
        BY <2>1
      <4> HIDE DEF x
      <4> QED BY <4>1, PlainSound
    <3> QED BY <1>0, <2>3, <3>1, AllocateSound, AreaStep DEF LocalAlloc
  <2> QED BY <1>2, <2>2, <2>3
<1>3. ASSUME NEW b \in Blocks, NEW n \in Sizes, VirtualAlloc(b, n) PROVE Inv'
  <2>1. AreaSound(Hold("virtual", n, TRUE), Fill(n, 0))
    BY WordType, PlainSound
  <2> QED BY <1>0, <1>3, <2>1, AllocateSound, AreaStep DEF VirtualAlloc
<1>4. CASE VirtualAllocElse \/ FlsFree
  BY <1>4, StopSound DEF VirtualAllocElse, FlsFree
<1>5. ASSUME NEW b \in Blocks, HeapFree(b) \/ LocalFree(b) \/ VirtualFree(b) PROVE Inv'
  <2>1. Release(b) /\ area[b] # None
    BY <1>5 DEF HeapFree, LocalFree, VirtualFree, None
  <2> QED BY <1>0, <2>1, ReleaseSound, AreaStep
<1>6. ASSUME NEW b \in Blocks, NEW c \in Blocks, NEW n \in Sizes, NEW zero \in BOOLEAN,
             HeapReAlloc(b, c, n, zero)
      PROVE  Inv'
  <2>1. CASE n = 0
    BY <1>6, <2>1, StopSound DEF HeapReAlloc
  <2>2. CASE n # 0
    BY <1>0, <1>6, <2>2, ReAllocSound, AreaStep
  <2> QED BY <2>1, <2>2
<1>7. ASSUME NEW b \in Blocks, Write(b) PROVE Inv'
  BY <1>0, <1>7, WriteSound, AreaStep
<1>8. ASSUME NEW b \in Blocks, SysAllocString(b) \/ SysFreeString(b) PROVE Inv'
  BY <1>0, <1>8, SysAllocSound, SysFreeSound, StringStep
<1>9. ASSUME NEW v \in Variables, NEW b \in Blocks, PutString(v, b) PROVE Inv'
  BY <1>0, <1>9, PutStringSound, StringStep
<1>10. ASSUME NEW v \in Variables, NEW vt \in VTypes,
              NEW val \in Blocks \cup {Null, "object"}, PutOther(v, vt, val)
       PROVE  Inv'
  BY <1>0, <1>10, PutOtherSound, StringStep
<1>11. ASSUME NEW v \in Variables, VariantClear(v) PROVE Inv'
  BY <1>11, VariantClearSound
<1>12. ASSUME NEW d \in Variables, NEW s \in Variables, NEW b \in Blocks,
              VariantCopy(d, s, b)
       PROVE  Inv'
  BY <1>12, VariantCopySound
<1>13. CASE FlsAlloc
  <2>1. CASE \E i \in 1 .. FlsSlots : Free(i)
    <3>1. PICK i \in 1 .. FlsSlots :
            /\ Free(i)
            /\ slots' = [slots EXCEPT !.occupied = @ \cup {i}]
            /\ handed' = Append(handed, i) /\ stored' = Append(stored, Null)
            /\ UNCHANGED <<heapVars, live, stringVars, status>>
      BY <1>13, <2>1 DEF FlsAlloc
    <3>2. FlsInv'
      BY <1>0, <3>1, FlsAllocSound
    <3> QED BY <3>1, <3>2, SlotStep
  <2>2. CASE ~\E i \in 1 .. FlsSlots : Free(i)
    BY <1>13, <2>2, StopSound DEF FlsAlloc
  <2> QED BY <2>1, <2>2
<1>14. ASSUME NEW k \in DOMAIN handed, NEW value \in {Null, "data"}, FlsSetValue(k, value)
       PROVE  Inv'
  <2>1. /\ slots' = [slots EXCEPT !.data[handed[k]] = value]
        /\ stored' = [stored EXCEPT ![k] = value] /\ handed' = handed
        /\ UNCHANGED <<heapVars, live, stringVars, status>>
    BY <1>14 DEF FlsSetValue
  <2>2. FlsInv'
    BY <1>0, <2>1, FlsSetSound
  <2> QED BY <2>1, <2>2, SlotStep
<1> QED BY <1>1, <1>2, <1>3, <1>4, <1>5, <1>6, <1>7, <1>8, <1>9, <1>10, <1>11, <1>12,
           <1>13, <1>14 DEF Next

(* So it holds of every state of every behaviour.                          *)
LEMMA AlwaysInv == Spec => []Inv
<1> QED BY InitInv, NextInv, PTL DEF Spec

-----------------------------------------------------------------------------
(* Every variable keeps its type.                                          *)
THEOREM TypesHold == Spec => []TypeOK
<1>1. Inv => TypeOK
  BY DEF Inv, HeapInv, StringInv, FlsInv, Stopped, TypeOK, VariantRecord, Values
<1> QED BY <1>1, AlwaysInv, PTL

(* HeapSize answers the size last asked for, through every move of the     *)
(* block, unless HeapReAlloc cleared the header.                           *)
THEOREM HeapSizeIsTrue == Spec => []HeapSizeTrue
<1>1. Inv => HeapSizeTrue
  <2> SUFFICES ASSUME Inv, NEW b \in Blocks, area[b].kind = "heap"
               PROVE  area[b].torn \/ HeapSize(b) = area[b].size
    BY DEF HeapSizeTrue
  <2>1. area[b] # None
    BY DEF None
  <2> QED BY <2>1 DEF Inv, HeapInv, AreaSound, HeapSize
<1> QED BY <1>1, AlwaysInv, PTL

(* What is written, or promised to be zero, is read back, whatever else is *)
(* allocated, reallocated or freed meanwhile.                              *)
THEOREM ContentsAreKept == Spec => []ContentsKept
<1>1. Inv => ContentsKept
  BY DEF Inv, HeapInv, AreaSound, ContentsKept
<1> QED BY <1>1, AlwaysInv, PTL

(* Every string has one owner, and every owned string is there: SysFree,   *)
(* VariantClear and VariantCopy in any order free none twice, too early or *)
(* never.                                                                  *)
THEOREM StringsHaveOneOwner == Spec => []StringsOwnedOnce
<1>1. Inv => StringsOwnedOnce
  BY DEF Inv, StringInv
<1> QED BY <1>1, AlwaysInv, PTL

(* A slot reads what was last stored behind its index: FlsAlloc hands out  *)
(* no index twice.                                                         *)
THEOREM SlotsReadBack == Spec => []FlsReadsBack
<1>1. Inv => FlsReadsBack
  BY DEF Inv, FlsInv, FlsReadsBack, FlsGetValue
<1> QED BY <1>1, AlwaysInv, PTL
=============================================================================
