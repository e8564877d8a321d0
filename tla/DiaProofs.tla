------------------------------ MODULE DiaProofs ------------------------------
(***************************************************************************)
(* DIA2Dump, for every table of functions, every command line and every    *)
(* PDB: types, the depth of PrintTypeInDetail, the cause of a failure, the *)
(* OMAP lookups, and the dumps that a command line asks for.  The table    *)
(* enters only with what WalkAssumption and DumpsAssumption say of it.     *)
(***************************************************************************)
EXTENDS Dia2Dump, WellFoundedInduction, FiniteSetTheorems, SequenceTheorems, TLAPS

-----------------------------------------------------------------------------
(* The scan of an OMAP stream                                              *)

(* A set of numbers that is not empty has a least one.                     *)
LEMMA LeastNumber ==
  ASSUME NEW T, T \subseteq Nat, T # {}
  PROVE  \E x \in T : \A y \in T : x <= y
<1>1. PICK x \in T : \A y \in T : <<y, x>> \notin OpToRel(<, Nat)
  BY WFMin, NatLessThanWellFounded, Zenon
<1>2. \A y \in T : ~(y < x)
  <2> TAKE y \in T
  <2>1. <<y, x>> \in Nat \X Nat
    OBVIOUS
  <2>2. y < x => <<y, x>> \in OpToRel(<, Nat)
    BY <2>1 DEF OpToRel
  <2> QED BY <1>1, <2>2
<1> QED BY <1>2

(* Entries have numbers in both fields.                                    *)
LEMMA EntryType ==
  ASSUME NEW omap \in Seq(Entry), NEW i \in 1 .. Len(omap)
  PROVE  omap[i].rva \in Nat /\ omap[i].to \in Nat
<1>1. omap[i] \in Entry
  OBVIOUS
<1> QED BY <1>1 DEF Entry

(* Inside the table the scan stops, at the entry Translate chooses.        *)
LEMMA Stops ==
  ASSUME NEW omap \in Seq(Entry), NEW rva \in Nat, InTable(omap, rva)
  PROVE  \E i \in 1 .. Len(omap) :
           IsStop(omap, rva, i) /\ Translate(omap, rva) = AnswerAt(omap, rva, i)
<1>1. \E i \in NotBelow(omap, rva) : \A j \in NotBelow(omap, rva) : i <= j
  <2>1. NotBelow(omap, rva) \subseteq Nat /\ NotBelow(omap, rva) # {}
    BY DEF InTable, NotBelow
  <2> QED BY <2>1, LeastNumber
<1>2. \E i \in 1 .. Len(omap) : IsStop(omap, rva, i)
  BY <1>1 DEF IsStop, NotBelow
<1> DEFINE c == CHOOSE i \in 1 .. Len(omap) : IsStop(omap, rva, i)
<1>3. c \in 1 .. Len(omap) /\ IsStop(omap, rva, c)
  BY <1>2, Zenon
<1>4. Translate(omap, rva) = AnswerAt(omap, rva, c)
  BY DEF Translate, InTable
<1> QED BY <1>3, <1>4

(* Whatever the stream, the answer is an address.                          *)
LEMMA TranslateType ==
  ASSUME NEW omap \in Seq(Entry), NEW rva \in Nat
  PROVE  Translate(omap, rva) \in Nat
<1>1. CASE NotBelow(omap, rva) = {}
  BY <1>1 DEF Translate
<1>2. CASE NotBelow(omap, rva) # {}
  <2>1. PICK i \in 1 .. Len(omap) : /\ IsStop(omap, rva, i)
                                    /\ Translate(omap, rva) = AnswerAt(omap, rva, i)
    BY <1>2, Stops DEF InTable
  <2>2. omap[i].rva \in Nat /\ omap[i].to \in Nat
    BY EntryType
  <2>3. CASE i = 1
    BY <2>1, <2>2, <2>3 DEF AnswerAt
  <2>4. CASE i # 1
    <3>1. i - 1 \in 1 .. Len(omap)
      BY <2>4
    <3>2. omap[i - 1].rva \in Nat /\ omap[i - 1].to \in Nat
      BY <3>1, EntryType
    <3>3. i - 1 \notin NotBelow(omap, rva)
      BY <2>1, <3>1 DEF IsStop, NotBelow
    <3>4. omap[i - 1].rva < rva
      BY <3>1, <3>2, <3>3 DEF NotBelow
    <3> QED BY <2>1, <2>2, <3>2, <3>4 DEF AnswerAt
  <2> QED BY <2>3, <2>4
<1> QED BY <1>1, <1>2

(* The block before the stop holds the address, or the stop itself begins  *)
(* at it: the answer of DumpMapToSrc and DumpMapFromSrc is the translation *)
(* of the address by the block that holds it, and 0 before the first block *)
(* and in one that was eliminated.                                         *)
THEOREM LookupIsTranslation ==
  ASSUME NEW omap \in Seq(Entry), NEW rva \in Nat,
         Sorted(omap), InTable(omap, rva)
  PROVE  IsTranslation(omap, rva, Translate(omap, rva))
<1>1. PICK i \in 1 .. Len(omap) : /\ IsStop(omap, rva, i)
                                  /\ Translate(omap, rva) = AnswerAt(omap, rva, i)
  BY Stops
<1>2. /\ rva <= omap[i].rva
      /\ \A j \in 1 .. Len(omap) : rva <= omap[j].rva => i <= j
  BY <1>1 DEF IsStop, NotBelow
<1>3. \A j \in 1 .. Len(omap) : omap[j].rva \in Nat /\ omap[j].to \in Nat
  BY EntryType
<1>4. \A j \in 1 .. i - 1 : omap[j].rva < rva
  BY <1>2, <1>3
<1>5. \A j \in i + 1 .. Len(omap) : rva < omap[j].rva
  <2> TAKE j \in i + 1 .. Len(omap)
  <2>1. omap[i].rva < omap[j].rva
    BY DEF Sorted
  <2> QED BY <1>2, <1>3, <2>1
<1>6. ASSUME Below(omap, rva + 1) = {} PROVE Translate(omap, rva) = 0
  <2>1. \A j \in 1 .. Len(omap) : ~(omap[j].rva < rva + 1)
    BY <1>6 DEF Below
  <2>2. rva # omap[i].rva
    BY <1>3, <2>1
  <2>3. i = 1
    <3> SUFFICES ASSUME i # 1 PROVE FALSE
      OBVIOUS
    <3>1. i - 1 \in 1 .. i - 1 /\ i - 1 \in 1 .. Len(omap)
      OBVIOUS
    <3> QED BY <1>3, <1>4, <2>1, <3>1
  <2> QED BY <1>1, <2>2, <2>3 DEF AnswerAt
<1>7. ASSUME NEW h \in 1 .. Len(omap), Holds(omap, rva, h)
      PROVE  Translate(omap, rva) = IF omap[h].to = 0 THEN 0
                                    ELSE omap[h].to + (rva - omap[h].rva)
  <2>1. /\ omap[h].rva <= rva
        /\ \A j \in 1 .. Len(omap) : omap[j].rva <= rva => j <= h
    BY <1>7 DEF Holds
  <2>2. CASE rva = omap[i].rva
    <3>1. h = i
      BY <1>3, <1>5, <2>1, <2>2
    <3> QED BY <1>1, <1>3, <2>2, <3>1 DEF AnswerAt
  <2>3. CASE rva # omap[i].rva
    <3>1. h < i
      BY <1>2, <1>3, <1>5, <2>1, <2>3
    <3>2. i - 1 \in 1 .. Len(omap) /\ i - 1 \in 1 .. i - 1
      BY <3>1
    <3>3. omap[i - 1].rva <= rva
      BY <1>3, <1>4, <3>2
    <3>4. h = i - 1
      BY <2>1, <3>1, <3>2, <3>3
    <3> QED BY <1>1, <2>3, <3>1, <3>4 DEF AnswerAt
  <2> QED BY <2>2, <2>3
<1> QED BY <1>6, <1>7 DEF IsTranslation

-----------------------------------------------------------------------------
(* Sequences                                                               *)
LEMMA ElementType ==
  ASSUME NEW S, NEW s \in Seq(S), NEW n \in 1 .. Len(s)
  PROVE  s[n] \in S
  OBVIOUS

LEMMA TakeType ==
  ASSUME NEW S, NEW s \in Seq(S), s # <<>>
  PROVE  /\ Head(s) \in S /\ Head(s) = s[1] /\ 1 \in 1 .. Len(s)
         /\ Tail(s) \in Seq(S) /\ Len(Tail(s)) = Len(s) - 1
         /\ \A i \in 1 .. Len(Tail(s)) : Tail(s)[i] = s[i + 1] /\ i + 1 \in 1 .. Len(s)
  OBVIOUS

LEMMA PushType ==
  ASSUME NEW S, NEW s \in Seq(S), NEW f \in S
  PROVE  /\ Append(s, f) \in Seq(S) /\ Len(Append(s, f)) = Len(s) + 1
         /\ Append(s, f)[Len(s) + 1] = f
         /\ \A i \in 1 .. Len(s) : Append(s, f)[i] = s[i]
  OBVIOUS

LEMMA PopType ==
  ASSUME NEW S, NEW s \in Seq(S), NEW n \in 0 .. Len(s)
  PROVE  /\ SubSeq(s, 1, n) \in Seq(S) /\ Len(SubSeq(s, 1, n)) = n
         /\ \A i \in 1 .. n : SubSeq(s, 1, n)[i] = s[i]
  OBVIOUS

(* The last element replaced, and one more behind it.                      *)
Swap(s, n, f) == Append(SubSeq(s, 1, n), f)

LEMMA SwapType ==
  ASSUME NEW S, NEW s \in Seq(S), NEW n \in 0 .. Len(s), NEW f \in S
  PROVE  /\ Swap(s, n, f) \in Seq(S) /\ Len(Swap(s, n, f)) = n + 1
         /\ Swap(s, n, f)[n + 1] = f
         /\ \A i \in 1 .. n : Swap(s, n, f)[i] = s[i]
<1>1. /\ SubSeq(s, 1, n) \in Seq(S) /\ Len(SubSeq(s, 1, n)) = n
      /\ \A i \in 1 .. n : SubSeq(s, 1, n)[i] = s[i]
  BY PopType
<1>2. /\ Append(SubSeq(s, 1, n), f) \in Seq(S)
      /\ Len(Append(SubSeq(s, 1, n), f)) = Len(SubSeq(s, 1, n)) + 1
      /\ Append(SubSeq(s, 1, n), f)[Len(SubSeq(s, 1, n)) + 1] = f
      /\ \A i \in 1 .. Len(SubSeq(s, 1, n)) :
           Append(SubSeq(s, 1, n), f)[i] = SubSeq(s, 1, n)[i]
  BY <1>1, PushType
<1> QED BY <1>1, <1>2 DEF Swap

-----------------------------------------------------------------------------
(* The invariant.  A call in a loop, and one that made another, has a move *)
(* left; a failure is remembered.                                          *)
Sound(f) == f.loop => f.todo # <<>>

Stacked(s) ==
  /\ s \in Seq(Frame)
  /\ \A i \in 1 .. Len(s) : Sound(s[i])
  /\ \A i \in 1 .. Len(s) - 1 : s[i].todo # <<>>

AllOk(s) == \A i \in 1 .. Len(s) : s[i].ok

Blamed == missed \/ (result /\ AllOk(stack))

(* At the fourth level of PrintTypeInDetail nothing is left to be done.    *)
Levels(s) == {i \in 1 .. Len(s) : s[i].fn = "PrintTypeInDetail"}

DetailOK(s) ==
  /\ Cardinality(Levels(s)) <= 4
  /\ Cardinality(Levels(s)) = 4 =>
       s[Len(s)].fn = "PrintTypeInDetail" /\ s[Len(s)].todo = <<>>

LookedUp ==
  mapped = <<>> \/ \E o \in Omaps, r \in Rvas : mapped = <<o, r, Translate(o, r)>>

Idle == pc \in {"main", "parse"} => stack = <<>>

Types ==
  /\ result \in BOOLEAN /\ missed \in BOOLEAN
  /\ words \in Seq(Words) /\ argv \in Seq(Words)
  /\ pc \in {"main", "parse", "dump", "done"}
  /\ exit \in {"running", "0", "-1", "abort"}
  /\ globals \in SUBSET {"source", "session", "global"}

-----------------------------------------------------------------------------
(* New frames                                                              *)
LEMMA ChoicesType ==
  ASSUME NEW fn \in DOMAIN Body, NEW todo \in Choices(fn)
  PROVE  todo \in Seq(Moves)
<1>1. CASE todo = <<>>
  BY <1>1
<1>2. CASE todo # <<>>
  <2>1. todo \in Body[fn]
    BY <1>2 DEF Choices
  <2>2. Body[fn] \in SUBSET Seq(Moves)
    BY WalkAssumption
  <2> QED BY <2>1, <2>2
<1> QED BY <1>1, <1>2

LEMMA NewFrameSound ==
  ASSUME NEW fn \in DOMAIN Body, NEW todo \in Choices(fn), NEW obj \in {"callers", "held"}
  PROVE  LET g == NewFrame(fn, todo, obj)
         IN g \in Frame /\ Sound(g) /\ g.ok /\ g.fn = fn /\ g.todo = todo
<1>1. todo \in Seq(Moves)
  BY ChoicesType
<1>2. 0 \in 0 .. MaxItems
  BY WalkAssumption
<1> QED BY <1>1, <1>2 DEF NewFrame, Frame, Sound

(* A function that gives up has nothing left to do.                        *)
LEMMA GiveUpSound ==
  ASSUME NEW f \in Frame, NEW b \in BOOLEAN
  PROVE  /\ GiveUp(f, b) \in Frame /\ Sound(GiveUp(f, b))
         /\ GiveUp(f, b).fn = f.fn /\ GiveUp(f, b).ok = b
<1> DEFINE o == IF Head(f.todo).frees THEN "released" ELSE f.obj
           g == [f EXCEPT !.todo = <<>>, !.loop = FALSE, !.ok = b, !.obj = o]
<1>1. o \in {"callers", "held", "released"} /\ <<>> \in Seq(Moves)
  BY DEF Frame
<1>2. GiveUp(f, b) = g
  BY DEF GiveUp, Frame
<1> HIDE DEF o
<1>3. g \in Frame
  BY <1>1, Zenon DEF Frame
<1>4. g.fn = f.fn /\ g.ok = b /\ g.loop = FALSE
  BY Zenon DEF Frame
<1> HIDE DEF g
<1> QED BY <1>2, <1>3, <1>4 DEF Sound

(* The caller, when a call it made is over.                                *)
LEMMA ResumeSound ==
  ASSUME NEW f \in Frame, Sound(f), f.todo # <<>>, NEW r \in BOOLEAN
  PROVE  /\ Resume(f, r) \in Frame /\ Sound(Resume(f, r))
         /\ Resume(f, r).fn = f.fn
         /\ f.ok /\ r => Resume(f, r).ok
<1> DEFINE m == Head(f.todo)
           fine == IF m.then = "last" THEN r ELSE f.ok /\ (m.then = "all" => r)
           rest == IF f.loop THEN f.todo ELSE Tail(f.todo)
<1>1. f.todo \in Seq(Moves) /\ f.loop \in BOOLEAN /\ f.ok \in BOOLEAN
  BY DEF Frame
<1>2. Tail(f.todo) \in Seq(Moves)
  BY <1>1, TakeType
<1>3. fine \in BOOLEAN /\ (f.ok /\ r => fine)
  BY <1>1
<1>4. rest \in Seq(Moves) /\ (f.loop => rest # <<>>)
  BY <1>1, <1>2
<1>5. CASE m.then = "stop" /\ ~r
  <2>1. Resume(f, r) = GiveUp(f, FALSE)
    BY <1>5 DEF Resume
  <2> QED BY <1>5, <2>1, GiveUpSound
<1>6. CASE ~(m.then = "stop" /\ ~r)
  <2> DEFINE g == [f EXCEPT !.todo = rest, !.ok = fine]
  <2>1. Resume(f, r) = g
    BY <1>6 DEF Resume, Frame
  <2> HIDE DEF fine, rest
  <2>2. g \in Frame
    BY <1>3, <1>4, Zenon DEF Frame
  <2>3. g.fn = f.fn /\ g.loop = f.loop /\ g.todo = rest /\ g.ok = fine
    BY Zenon DEF Frame
  <2> HIDE DEF g
  <2> QED BY <1>3, <1>4, <2>1, <2>2, <2>3 DEF Sound
<1> QED BY <1>5, <1>6

-----------------------------------------------------------------------------
(* What a step does to a stack: some calls at the bottom stay, and one is  *)
(* put on top of them.                                                     *)
LEMMA SwapStacked ==
  ASSUME NEW s, Stacked(s), NEW n \in 0 .. Len(s),
         \A i \in 1 .. n : s[i].todo # <<>>,
         NEW g \in Frame, Sound(g)
  PROVE  /\ Stacked(Swap(s, n, g))
         /\ Len(Swap(s, n, g)) = n + 1 /\ Swap(s, n, g)[n + 1] = g
         /\ AllOk(s) /\ g.ok => AllOk(Swap(s, n, g))
         /\ Levels(Swap(s, n, g)) =
              (Levels(s) \cap 1 .. n) \cup
              (IF g.fn = "PrintTypeInDetail" THEN {n + 1} ELSE {})
<1> DEFINE t == Swap(s, n, g)
<1>1. s \in Seq(Frame)
  BY DEF Stacked
<1>2. /\ t \in Seq(Frame) /\ Len(t) = n + 1 /\ t[n + 1] = g
      /\ \A i \in 1 .. n : t[i] = s[i]
  BY <1>1, SwapType
<1> HIDE DEF t
<1>3. \A i \in 1 .. Len(t) : i = n + 1 \/ (i \in 1 .. n /\ i \in 1 .. Len(s))
  BY <1>2
<1>4. Stacked(t)
  <2>1. \A i \in 1 .. Len(t) : Sound(t[i])
    BY <1>2, <1>3 DEF Stacked
  <2>2. \A i \in 1 .. Len(t) - 1 : t[i].todo # <<>>
    BY <1>2
  <2> QED BY <1>2, <2>1, <2>2 DEF Stacked
<1>5. AllOk(s) /\ g.ok => AllOk(t)
  BY <1>2, <1>3 DEF AllOk
<1>6. Levels(t) = (Levels(s) \cap 1 .. n) \cup
                  (IF g.fn = "PrintTypeInDetail" THEN {n + 1} ELSE {})
  BY <1>2, <1>3 DEF Levels
<1> QED BY <1>2, <1>4, <1>5, <1>6 DEF t

(* A call put on top of all the others.                                    *)
LEMMA PushIsSwap ==
  ASSUME NEW S, NEW s \in Seq(S), NEW g
  PROVE  Append(s, g) = Swap(s, Len(s), g)
<1>1. SubSeq(s, 1, Len(s)) = s
  OBVIOUS
<1> QED BY <1>1 DEF Swap

(* The levels can be counted.                                             *)
LEMMA LevelsFinite ==
  ASSUME NEW s, Stacked(s)
  PROVE  IsFiniteSet(Levels(s)) /\ Cardinality(Levels(s)) \in Nat
<1>1. Len(s) \in Nat
  BY DEF Stacked
<1>2. IsFiniteSet(1 .. Len(s))
  BY <1>1, FS_Interval
<1>3. Levels(s) \subseteq 1 .. Len(s)
  BY DEF Levels
<1> QED BY <1>2, <1>3, FS_Subset, FS_CardinalityType

(* How many of the n calls at the bottom are PrintTypeInDetail.            *)
Depth(s, n) == Cardinality(Levels(s) \cap 1 .. n)

LEMMA DepthGrows ==
  ASSUME NEW s, Stacked(s), NEW m \in 0 .. Len(s), NEW n \in 0 .. m
  PROVE  /\ Depth(s, n) \in Nat /\ Depth(s, m) \in Nat
         /\ Depth(s, n) <= Depth(s, m)
         /\ m \in Levels(s) /\ n < m => Depth(s, n) < Depth(s, m)
         /\ Cardinality((Levels(s) \cap 1 .. n) \cup {n + 1}) = Depth(s, n) + 1
         /\ Depth(s, Len(s)) = Cardinality(Levels(s))
<1> DEFINE T == Levels(s) \cap 1 .. n
           U == Levels(s) \cap 1 .. m
<1>1. IsFiniteSet(Levels(s)) /\ Len(s) \in Nat /\ m \in Nat /\ n \in Nat
  BY LevelsFinite DEF Stacked
<1>2. T \subseteq U /\ U \subseteq Levels(s) /\ n + 1 \notin T
  BY <1>1
<1>3. IsFiniteSet(U) /\ Cardinality(U) \in Nat
  BY <1>1, <1>2, FS_Subset, FS_CardinalityType
<1>4. /\ IsFiniteSet(T) /\ Cardinality(T) \in Nat
      /\ Cardinality(T) <= Cardinality(U)
      /\ Cardinality(T) = Cardinality(U) => T = U
  BY <1>2, <1>3, FS_Subset, FS_CardinalityType
<1>6. m \in Levels(s) /\ n < m => T # U
  BY <1>1
<1>7. Levels(s) \cap 1 .. Len(s) = Levels(s)
  BY DEF Levels
<1> HIDE DEF T, U
<1>5. Cardinality(T \cup {n + 1}) = Cardinality(T) + 1
  BY <1>2, <1>4, FS_AddElement
<1>8. m \in Levels(s) /\ n < m => Cardinality(T) < Cardinality(U)
  BY <1>3, <1>4, <1>6
<1> QED BY <1>3, <1>4, <1>5, <1>7, <1>8 DEF T, U, Depth

(* Three levels may stand below a call; a fourth has nothing left to do.   *)
LEMMA SwapDetail ==
  ASSUME NEW s, Stacked(s), NEW n \in 0 .. Len(s),
         \A i \in 1 .. n : s[i].todo # <<>>,
         NEW g \in Frame, Sound(g), Depth(s, n) <= 3,
         g.fn = "PrintTypeInDetail" /\ Depth(s, n) = 3 => g.todo = <<>>
  PROVE  DetailOK(Swap(s, n, g))
<1>1. /\ Len(Swap(s, n, g)) = n + 1 /\ Swap(s, n, g)[n + 1] = g
      /\ Levels(Swap(s, n, g)) =
           (Levels(s) \cap 1 .. n) \cup
           (IF g.fn = "PrintTypeInDetail" THEN {n + 1} ELSE {})
  BY SwapStacked
<1>2. /\ Depth(s, n) \in Nat
      /\ Cardinality((Levels(s) \cap 1 .. n) \cup {n + 1}) = Depth(s, n) + 1
  <2>1. n \in 0 .. n
    BY DEF Stacked
  <2> QED BY <2>1, DepthGrows
<1>3. CASE g.fn = "PrintTypeInDetail"
  <2>1. Cardinality(Levels(Swap(s, n, g))) = Depth(s, n) + 1
    BY <1>1, <1>2, <1>3
  <2> QED BY <1>1, <1>2, <1>3, <2>1 DEF DetailOK
<1>4. CASE g.fn # "PrintTypeInDetail"
  <2>1. Levels(Swap(s, n, g)) = Levels(s) \cap 1 .. n
    BY <1>1, <1>4
  <2>2. Cardinality(Levels(Swap(s, n, g))) = Depth(s, n)
    BY <2>1 DEF Depth
  <2> QED BY <1>2, <2>2 DEF DetailOK
<1> QED BY <1>3, <1>4

-----------------------------------------------------------------------------
(* The four things a step can do to the stack.                             *)
Pushed ==
  /\ stack = <<>> \/ Top.todo # <<>>
  /\ \E fn \in DOMAIN Body, obj \in {"callers", "held"} : Enter(fn, obj)

Changes(f) ==
  f \in Frame /\ Sound(f) /\ f.fn = Top.fn /\ (Top.ok /\ ~missed' => f.ok)

Replaced ==
  /\ stack # <<>> /\ Top.todo # <<>>
  /\ \E f \in Frame : Changes(f) /\ stack' = SetTop(f)

Opened ==
  /\ stack # <<>> /\ Top.todo # <<>>
  /\ \E f \in Frame, fn \in DOMAIN Body : \E todo \in Choices(fn) :
       /\ Changes(f) /\ f.todo # <<>>
       /\ stack' = Append(SetTop(f), NewFrame(fn, todo, "held"))

Returned ==
  stack # <<>> /\ \E r \in BOOLEAN : Return(r) /\ (~r => missed')

(* The top of a stack and the first move it has left.                      *)
LEMMA TopSound ==
  ASSUME Stacked(stack), stack # <<>>
  PROVE  Top \in Frame /\ Sound(Top) /\ Len(stack) \in 1 .. Len(stack)
<1>1. stack \in Seq(Frame) /\ Len(stack) \in 1 .. Len(stack)
  BY DEF Stacked
<1>2. Top \in Frame
  BY <1>1 DEF Top
<1> QED BY <1>1, <1>2 DEF Stacked, Top

LEMMA HereType ==
  ASSUME Stacked(stack), stack # <<>>, Top.todo # <<>>
  PROVE  Here \in Moves /\ Here.do \in DOMAIN Body /\ Tail(Top.todo) \in Seq(Moves)
<1>1. Top.todo \in Seq(Moves)
  BY TopSound DEF Frame
<1>2. Here \in Moves /\ Tail(Top.todo) \in Seq(Moves)
  BY <1>1, TakeType DEF Here
<1> QED BY <1>2 DEF Moves

(* The frames the moves leave on top.                                      *)
Past      == [Top EXCEPT !.todo = Tail(@)]
Freed     == [Top EXCEPT !.todo = Tail(@), !.obj = "released"]
Looping   == [Top EXCEPT !.loop = TRUE, !.left = MaxItems]
Took      == [Top EXCEPT !.left = @ - 1]
Ended     == [Top EXCEPT !.loop = FALSE, !.todo = Tail(@)]

(* A move done, and an item taken, leave a sound frame.                    *)
LEMMA ChangesSound ==
  ASSUME Stacked(stack), stack # <<>>, Top.todo # <<>>
  PROVE  /\ ~Top.loop => Changes(Past) /\ Changes(Freed) /\ Changes(Looping)
         /\ Top.left > 0 => Changes(Took) /\ Took.todo # <<>>
         /\ Changes(Ended)
         /\ \A b \in BOOLEAN : missed' => Changes(GiveUp(Top, b))
<1> DEFINE f == Top
<1>1. f \in Frame /\ Sound(f)
  BY TopSound
<1>2. Tail(f.todo) \in Seq(Moves)
  BY HereType
<1>3. MaxItems \in 0 .. MaxItems /\ f.left \in 0 .. MaxItems /\ MaxItems \in Nat
  BY <1>1, WalkAssumption DEF Frame
<1>4. f.todo # <<>>
  OBVIOUS
<1>5. \A b \in BOOLEAN : missed' => Changes(GiveUp(Top, b))
  BY <1>1, GiveUpSound DEF Changes
<1> HIDE DEF f
<1>6. LET g == [f EXCEPT !.todo = Tail(f.todo)]
      IN g \in Frame /\ g.fn = f.fn /\ g.ok = f.ok /\ (~f.loop => Sound(g))
  BY <1>1, <1>2 DEF Frame, Sound
<1>7. LET g == [f EXCEPT !.todo = Tail(f.todo), !.obj = "released"]
      IN g \in Frame /\ g.fn = f.fn /\ g.ok = f.ok /\ (~f.loop => Sound(g))
  BY <1>1, <1>2 DEF Frame, Sound
<1>8. LET g == [f EXCEPT !.loop = TRUE, !.left = MaxItems]
      IN g \in Frame /\ Sound(g) /\ g.fn = f.fn /\ g.ok = f.ok
  BY <1>1, <1>3, <1>4 DEF Frame, Sound
<1>9. ASSUME f.left > 0
      PROVE  LET g == [f EXCEPT !.left = f.left - 1]
             IN g \in Frame /\ Sound(g) /\ g.fn = f.fn /\ g.ok = f.ok /\ g.todo = f.todo
  <2>1. f.left - 1 \in 0 .. MaxItems
    BY <1>3, <1>9
  <2> QED BY <1>1, <2>1 DEF Frame, Sound
<1>10. LET g == [f EXCEPT !.loop = FALSE, !.todo = Tail(f.todo)]
       IN g \in Frame /\ Sound(g) /\ g.fn = f.fn /\ g.ok = f.ok
  BY <1>1, <1>2 DEF Frame, Sound
<1>11. ~f.loop => Changes(Past)
  BY <1>6 DEF Changes, Past, f
<1>12. ~f.loop => Changes(Freed)
  BY <1>7 DEF Changes, Freed, f
<1>13. Changes(Looping)
  BY <1>8 DEF Changes, Looping, f
<1>14. f.left > 0 => Changes(Took) /\ Took.todo # <<>>
  BY <1>4, <1>9 DEF Changes, Took, f
<1>15. Changes(Ended)
  BY <1>10 DEF Changes, Ended, f
<1> QED BY <1>5, <1>11, <1>12, <1>13, <1>14, <1>15 DEF f

Moved == Pushed \/ Replaced \/ Opened \/ Returned

(* Every step of a walk is one of them, and forgets no failure.            *)
LEMMA WalkMoves ==
  ASSUME Stacked(stack), Blamed, missed \in BOOLEAN, WalkStep
  PROVE  /\ Moved /\ (missed => missed') /\ missed' \in BOOLEAN
         /\ Returned \/ result' = result
<1> USE DEF AtMove
<1>1. stack # <<>>
  BY DEF WalkStep, Miss, GetOne, Open, NextItem, EndOfItems, Call, ReleaseObject,
         ReadAttributes, LookUp, Finish
<1>2. Top \in Frame /\ Sound(Top) /\ Len(stack) \in 1 .. Len(stack)
  BY <1>1, TopSound
<1>3. Top.loop \in BOOLEAN /\ Top.ok \in BOOLEAN
  BY <1>2 DEF Frame
<1>4. ASSUME NEW f, Changes(f), Top.todo # <<>>, stack' = SetTop(f)
      PROVE  Moved
  BY <1>1, <1>4 DEF Moved, Replaced, Changes
<1>5. CASE Miss
  <2>1. Top.todo # <<>> /\ ~Top.loop /\ missed' /\ missed' = TRUE /\ result' = result
    BY <1>5 DEF Miss
  <2>2. CASE stack' = SetTop(Past)
    BY <1>1, <1>4, <2>1, <2>2, ChangesSound
  <2>3. CASE \E b \in BOOLEAN : stack' = SetTop(GiveUp(Top, b))
    BY <1>1, <1>4, <2>1, <2>3, ChangesSound
  <2>4. (Here.miss = "leave") \in BOOLEAN
    OBVIOUS
  <2> QED BY <1>5, <2>1, <2>2, <2>3, <2>4 DEF Miss, Past
<1>6. CASE GetOne \/ Call
  <2>1. Here.do \in DOMAIN Body /\ Top.todo # <<>>
    BY <1>1, <1>6, HereType DEF GetOne, Call
  <2> QED BY <1>6, <2>1 DEF GetOne, Call, Pushed, Moved
<1>7. CASE Open
  <2>1. Top.todo # <<>> /\ ~Top.loop /\ stack' = SetTop(Looping)
    BY <1>7 DEF Open, Looping
  <2> QED BY <1>1, <1>4, <1>7, <2>1, ChangesSound DEF Open
<1>8. CASE NextItem
  <2>1. Top.todo # <<>> /\ Top.left > 0 /\ result' = result /\ missed' = missed
    BY <1>8 DEF NextItem
  <2>2. Changes(Took) /\ Took.todo # <<>> /\ Took \in Frame
    BY <1>1, <2>1, ChangesSound DEF Changes
  <2>3. Here.do \in DOMAIN Body
    BY <1>1, <2>1, HereType
  <2>4. \E todo \in Choices(Here.do) :
          stack' = Append(SetTop(Took), NewFrame(Here.do, todo, "held"))
    BY <1>8 DEF NextItem, Took
  <2>5. Opened
    BY <1>1, <2>1, <2>2, <2>3, <2>4 DEF Opened
  <2> QED BY <2>1, <2>5 DEF Moved
<1>9. CASE EndOfItems
  <2>1. Top.todo # <<>> /\ stack' = SetTop(Ended)
    BY <1>9 DEF EndOfItems, Ended
  <2> QED BY <1>1, <1>4, <1>9, <2>1, ChangesSound DEF EndOfItems
<1>10. CASE ReleaseObject
  <2>1. Top.todo # <<>> /\ ~Top.loop /\ stack' = SetTop(Freed)
    BY <1>10 DEF ReleaseObject, Freed
  <2> QED BY <1>1, <1>4, <1>10, <2>1, ChangesSound DEF ReleaseObject
<1>11. CASE ReadAttributes \/ LookUp
  <2>1. /\ Top.todo # <<>> /\ ~Top.loop /\ result' = result /\ missed' = missed
        /\ stack' = SetTop(Past)
    BY <1>11 DEF ReadAttributes, LookUp, Past
  <2> QED BY <1>1, <1>4, <2>1, ChangesSound
<1>12. CASE Finish
  <2>1. Return(Top.ok) /\ Top.todo = <<>> /\ missed' = missed
    BY <1>12 DEF Finish
  <2>2. ~Top.ok => missed'
    BY <1>2, <2>1 DEF Blamed, AllOk, Top
  <2> QED BY <1>1, <1>3, <2>1, <2>2 DEF Returned, Moved
<1> QED BY <1>5, <1>6, <1>7, <1>8, <1>9, <1>10, <1>11, <1>12 DEF WalkStep

-----------------------------------------------------------------------------
(* The stack stays sound.                                                  *)
StackInv(s) == Stacked(s) /\ DetailOK(s)

(* No call in progress.                                                    *)
LEMMA EmptySound ==
  StackInv(<<>>) /\ AllOk(<<>>)
<1>1. Levels(<<>>) = {}
  BY DEF Levels
<1>2. Cardinality({}) = 0
  BY FS_EmptySet
<1>3. Cardinality(Levels(<<>>)) = 0
  BY <1>1, <1>2
<1>4. DetailOK(<<>>)
  BY <1>3 DEF DetailOK
<1>5. /\ <<>> \in Seq(Frame)
      /\ \A i \in 1 .. Len(<<>>) : i \notin 1 .. Len(<<>>)
      /\ \A i \in 1 .. Len(<<>>) - 1 : i \notin 1 .. Len(<<>>) - 1
  OBVIOUS
<1>6. Stacked(<<>>) /\ AllOk(<<>>)
  BY <1>5, Zenon DEF Stacked, AllOk
<1> QED BY <1>4, <1>6 DEF StackInv

(* A call on top of the others.                                            *)
LEMMA PushedSound ==
  ASSUME StackInv(stack), Pushed
  PROVE  StackInv(stack') /\ (AllOk(stack) => AllOk(stack'))
<1>1. PICK fn \in DOMAIN Body, obj \in {"callers", "held"} :
        \E todo \in Choices(fn) : stack' = Append(stack, NewFrame(fn, todo, obj))
  BY DEF Pushed, Enter
<1>2. PICK todo \in Choices(fn) : stack' = Append(stack, NewFrame(fn, todo, obj))
  BY <1>1
<1> DEFINE g == NewFrame(fn, todo, obj)
           n == Len(stack)
<1>3. g \in Frame /\ Sound(g) /\ g.ok /\ g.fn = fn /\ g.todo = todo
  BY NewFrameSound
<1>4. Stacked(stack) /\ stack \in Seq(Frame) /\ n \in Nat /\ n \in 0 .. n
      /\ DetailOK(stack)
  BY DEF StackInv, Stacked
<1> HIDE DEF g
<1>5. stack' = Swap(stack, n, g)
  BY <1>2, <1>4, PushIsSwap DEF g
<1>6. \A i \in 1 .. n : stack[i].todo # <<>>
  BY <1>4 DEF Pushed, Stacked, Top
<1>7. Depth(stack, n) \in Nat /\ Depth(stack, n) = Cardinality(Levels(stack))
  BY <1>4, DepthGrows
<1>8. Depth(stack, n) <= 3
  <2>1. CASE stack = <<>>
    <3>1. Cardinality(Levels(<<>>)) = 0
      <4>1. Levels(<<>>) = {}
        BY DEF Levels
      <4> QED BY <4>1, FS_EmptySet
    <3> QED BY <1>7, <2>1, <3>1
  <2>2. CASE stack # <<>>
    BY <1>4, <1>7, <2>2 DEF DetailOK, Pushed, Top
  <2> QED BY <2>1, <2>2
<1>9. fn = "PrintTypeInDetail" /\ Depth(stack, n) = 3 => todo = <<>>
  <2> SUFFICES ASSUME fn = "PrintTypeInDetail", Depth(stack, n) = 3 PROVE todo = <<>>
    OBVIOUS
  <2>1. {i \in DOMAIN stack : stack[i].fn = fn} = Levels(stack)
    BY <1>4 DEF Levels
  <2>2. Active(fn) = 3
    BY <1>7, <2>1 DEF Active
  <2>3. TooDeep(fn)
    BY <2>2 DEF TooDeep, MaxTypeInDetail
  <2> QED BY <2>3 DEF Choices
<1> HIDE DEF n
<1>10. /\ Stacked(stack') /\ Len(stack') = n + 1 /\ stack'[n + 1] = g
       /\ AllOk(stack) => AllOk(stack')
  <2>1. n \in 0 .. Len(stack)
    BY <1>4 DEF n
  <2> QED BY <1>3, <1>4, <1>5, <1>6, <2>1, SwapStacked
<1>11. DetailOK(stack')
  <2>1. n \in 0 .. Len(stack)
    BY <1>4 DEF n
  <2> QED BY <1>3, <1>4, <1>5, <1>6, <1>8, <1>9, <2>1, SwapDetail
<1> QED BY <1>3, <1>10, <1>11 DEF StackInv

(* The frame on top replaced by one of the same function.                  *)
LEMMA SetTopSound ==
  ASSUME StackInv(stack), stack # <<>>, Top.todo # <<>>, NEW f \in Frame, Changes(f)
  PROVE  /\ Stacked(SetTop(f)) /\ DetailOK(SetTop(f)) /\ SetTop(f) # <<>>
         /\ Len(SetTop(f)) = Len(stack) /\ SetTop(f)[Len(stack)] = f
         /\ AllOk(stack) /\ ~missed' => AllOk(SetTop(f))
         /\ Levels(SetTop(f)) = Levels(stack)
         /\ Cardinality(Levels(stack)) <= 3
<1> DEFINE n == Len(stack) - 1
           u == SetTop(f)
<1>1. /\ Stacked(stack) /\ stack \in Seq(Frame) /\ Len(stack) \in Nat
      /\ n \in 0 .. Len(stack) /\ n + 1 = Len(stack) /\ DetailOK(stack)
      /\ Len(stack) \in 0 .. Len(stack) /\ n \in 0 .. Len(stack)
  BY DEF StackInv, Stacked
<1>2. u = Swap(stack, n, f)
  BY DEF SetTop, Below1, Swap
<1>3. \A i \in 1 .. n : stack[i].todo # <<>>
  BY DEF StackInv, Stacked
<1>4. /\ f.fn = stack[Len(stack)].fn /\ Sound(f)
      /\ stack[Len(stack)].ok /\ ~missed' => f.ok
  BY DEF Changes, Top
<1> HIDE DEF n, u
<1>5. /\ Stacked(u) /\ Len(u) = n + 1 /\ u[n + 1] = f
      /\ AllOk(stack) /\ f.ok => AllOk(u)
      /\ Levels(u) = (Levels(stack) \cap 1 .. n) \cup
                     (IF f.fn = "PrintTypeInDetail" THEN {n + 1} ELSE {})
  BY <1>1, <1>2, <1>3, <1>4, SwapStacked
<1>6. AllOk(stack) /\ ~missed' => f.ok
  BY <1>1, <1>4 DEF AllOk
<1>7. Levels(u) = Levels(stack)
  BY <1>1, <1>4, <1>5 DEF Levels
<1>8. Cardinality(Levels(stack)) \in Nat /\ Cardinality(Levels(stack)) <= 3
  BY <1>1, LevelsFinite DEF DetailOK, Top
<1>9. DetailOK(u)
  BY <1>7, <1>8 DEF DetailOK
<1>10. u # <<>>
  BY <1>1, <1>5
<1> QED BY <1>1, <1>5, <1>6, <1>7, <1>8, <1>9, <1>10 DEF u

(* A move that only changes the frame on top.                              *)
LEMMA ReplacedSound ==
  ASSUME StackInv(stack), Replaced
  PROVE  StackInv(stack') /\ (AllOk(stack) /\ ~missed' => AllOk(stack'))
<1>1. PICK f \in Frame : Changes(f) /\ stack' = SetTop(f)
  BY DEF Replaced
<1>2. /\ Stacked(SetTop(f)) /\ DetailOK(SetTop(f)) /\ SetTop(f) # <<>>
      /\ Len(SetTop(f)) = Len(stack) /\ SetTop(f)[Len(stack)] = f
      /\ AllOk(stack) /\ ~missed' => AllOk(SetTop(f))
  BY <1>1, SetTopSound DEF Replaced
<1> QED BY <1>1, <1>2 DEF StackInv

(* A move that changes it and makes a call.                                *)
LEMMA OpenedSound ==
  ASSUME StackInv(stack), Opened
  PROVE  StackInv(stack') /\ (AllOk(stack) /\ ~missed' => AllOk(stack'))
<1>1. PICK f \in Frame, fn \in DOMAIN Body : \E todo \in Choices(fn) :
        /\ Changes(f) /\ f.todo # <<>>
        /\ stack' = Append(SetTop(f), NewFrame(fn, todo, "held"))
  BY DEF Opened
<1>2. PICK todo \in Choices(fn) :
        /\ Changes(f) /\ f.todo # <<>>
        /\ stack' = Append(SetTop(f), NewFrame(fn, todo, "held"))
  BY <1>1
<1> DEFINE g == NewFrame(fn, todo, "held")
           u == SetTop(f)
           n == Len(stack)
<1>3. g \in Frame /\ Sound(g) /\ g.ok /\ g.fn = fn /\ g.todo = todo
  BY NewFrameSound
<1>4. /\ Stacked(u) /\ Len(u) = n /\ u[n] = f /\ (AllOk(stack) /\ ~missed' => AllOk(u))
      /\ Levels(u) = Levels(stack) /\ Cardinality(Levels(stack)) <= 3
  BY <1>2, SetTopSound DEF Opened
<1>5. u \in Seq(Frame) /\ n \in Nat /\ n \in 0 .. n /\ stack \in Seq(Frame)
  BY <1>4 DEF Stacked, StackInv
<1>6. fn = "PrintTypeInDetail" /\ Cardinality(Levels(stack)) = 3 => todo = <<>>
  <2> SUFFICES ASSUME fn = "PrintTypeInDetail", Cardinality(Levels(stack)) = 3
               PROVE  todo = <<>>
    OBVIOUS
  <2>1. {i \in DOMAIN stack : stack[i].fn = fn} = Levels(stack)
    BY <1>5 DEF Levels
  <2>2. Active(fn) = 3
    BY <2>1 DEF Active
  <2>3. TooDeep(fn)
    BY <2>2 DEF TooDeep, MaxTypeInDetail
  <2> QED BY <2>3 DEF Choices
<1>7. stack' = Append(u, g)
  BY <1>2
<1> HIDE DEF g, u, n
<1>8. stack' = Swap(u, n, g)
  BY <1>4, <1>5, <1>7, PushIsSwap
<1>9. \A i \in 1 .. n : u[i].todo # <<>>
  BY <1>2, <1>4, <1>5 DEF Stacked
<1>10. Depth(u, n) = Cardinality(Levels(stack)) /\ Depth(u, n) \in Nat
  BY <1>4, <1>5, DepthGrows
<1>11. /\ Stacked(stack') /\ Len(stack') = n + 1 /\ stack'[n + 1] = g
       /\ AllOk(u) => AllOk(stack')
  BY <1>3, <1>4, <1>5, <1>8, <1>9, SwapStacked
<1>12. DetailOK(stack')
  BY <1>3, <1>4, <1>5, <1>6, <1>8, <1>9, <1>10, SwapDetail
<1> QED BY <1>3, <1>4, <1>11, <1>12 DEF StackInv

(* A call returns: the caller's frame is on top.                           *)
LEMMA ReturnSound ==
  ASSUME StackInv(stack), stack # <<>>, NEW r \in BOOLEAN, Return(r)
  PROVE  /\ StackInv(stack') /\ result' \in BOOLEAN
         /\ AllOk(stack) /\ r => AllOk(stack') /\ result'
<1>1. /\ Stacked(stack) /\ stack \in Seq(Frame) /\ Len(stack) \in Nat /\ DetailOK(stack)
      /\ Len(stack) > 0
  BY DEF StackInv, Stacked
<1>2. result' \in BOOLEAN /\ (r => result')
  BY DEF Return
<1>3. CASE Len(stack) = 1
  <2>1. stack' = <<>>
    BY <1>3 DEF Return
  <2> QED BY <1>2, <1>3, <2>1, EmptySound
<1>4. CASE Len(stack) # 1
  <2> DEFINE m == Len(stack) - 1
             n == Len(stack) - 2
             g == Resume(stack[m], r)
  <2>1. /\ m \in 1 .. Len(stack) /\ m \in 0 .. Len(stack) /\ n \in 0 .. m
        /\ n \in 0 .. Len(stack) /\ n + 1 = m /\ n < m /\ m < Len(stack)
        /\ Len(stack) \in 0 .. Len(stack) /\ m \in 0 .. Len(stack)
        /\ m \in Nat /\ n \in Nat /\ m = Len(stack) - 1
    <3>1. \A k \in Nat : k > 0 /\ k # 1 =>
            /\ k - 1 \in 1 .. k /\ k - 2 \in 0 .. k - 1 /\ k - 2 \in 0 .. k
            /\ k - 1 \in 0 .. k /\ k \in 0 .. k /\ k - 2 + 1 = k - 1
            /\ k - 2 < k - 1 /\ k - 1 < k /\ k - 1 \in Nat /\ k - 2 \in Nat
      OBVIOUS
    <3> QED BY <1>1, <1>4, <3>1, Zenon
  <2>2. stack' = Swap(stack, n, g)
    BY <1>4 DEF Return, Swap
  <2>3. stack[m] \in Frame /\ Sound(stack[m]) /\ stack[m].todo # <<>>
    BY <1>1, <2>1 DEF Stacked
  <2>4. /\ g \in Frame /\ Sound(g) /\ g.fn = stack[m].fn
        /\ stack[m].ok /\ r => g.ok
    BY <2>3, ResumeSound
  <2>5. \A i \in 1 .. n : stack[i].todo # <<>>
    BY <1>1 DEF Stacked
  <2> HIDE DEF m, n, g
  <2>6. /\ Stacked(stack') /\ Len(stack') = n + 1 /\ stack'[n + 1] = g
        /\ AllOk(stack) /\ g.ok => AllOk(stack')
    BY <1>1, <2>1, <2>2, <2>4, <2>5, SwapStacked
  <2>7. /\ Depth(stack, n) \in Nat /\ Depth(stack, m) \in Nat
        /\ Depth(stack, n) <= Depth(stack, m)
        /\ m \in Levels(stack) => Depth(stack, n) < Depth(stack, m)
    BY <1>1, <2>1, DepthGrows
  <2>8. Depth(stack, m) <= 3
    <3>1. /\ Depth(stack, m) <= Cardinality(Levels(stack))
          /\ Len(stack) \in Levels(stack) =>
               Depth(stack, m) < Cardinality(Levels(stack))
          /\ Cardinality(Levels(stack)) \in Nat
      BY <1>1, <2>1, DepthGrows, LevelsFinite
    <3>2. Cardinality(Levels(stack)) = 4 => Len(stack) \in Levels(stack)
      BY <1>1 DEF DetailOK, Levels
    <3> QED BY <1>1, <2>7, <3>1, <3>2 DEF DetailOK
  <2>9. g.fn = "PrintTypeInDetail" => m \in Levels(stack)
    BY <2>1, <2>4 DEF Levels
  <2>10. DetailOK(stack')
    BY <1>1, <2>1, <2>2, <2>4, <2>5, <2>7, <2>8, <2>9, SwapDetail
  <2>11. AllOk(stack) => stack[m].ok
    BY <2>1 DEF AllOk
  <2> QED BY <1>2, <2>1, <2>4, <2>6, <2>10, <2>11 DEF StackInv
<1> QED BY <1>3, <1>4

-----------------------------------------------------------------------------
(* The command line: the words ParseArg takes are there, so that what it   *)
(* calls is a function of the table and what it leaves is a command line.  *)
LEMMA TakenIsThere ==
  ASSUME NEW ws \in Seq(Words), ws # <<>>
  PROVE  Taken(ws) \in 0 .. 4 /\ Taken(ws) <= Len(ws)
<1>1. Len(ws) \in Nat /\ Len(ws) >= 1
  OBVIOUS
<1>2. Given(ws, 2) => Len(ws) >= 2
  BY <1>1 DEF Given
<1>3. Given(ws, 3) => Len(ws) >= 3
  BY <1>1 DEF Given
<1> QED BY <1>1, <1>2, <1>3 DEF Taken

LEMMA RequestedInTable ==
  ASSUME NEW ws \in Seq(Words), ws # <<>>, ws[1] \in Options
  PROVE  Requested(ws, Taken(ws)).walk \in DOMAIN Body
<1> DEFINE n == Taken(ws)
           on == IF n > 1 THEN ws[2] ELSE None
           more == IF n = 4 THEN ws[4]
                   ELSE IF n = 3 THEN (IF ws[1] = "-lsrc" THEN ws[2] ELSE ws[3]) ELSE None
<1>1. n \in 0 .. 4 /\ n <= Len(ws) /\ Len(ws) \in Nat
  BY TakenIsThere
<1> HIDE DEF n
<1>2. \A i \in 1 .. Len(ws) : ws[i] \in Words
  BY ElementType
<1>3. on \in Words \cup {None}
  BY <1>1, <1>2
<1>4. more \in Words \cup {None}
  BY <1>1, <1>2
<1> HIDE DEF on, more
<1>5. Walk(ws[1], on, more) \in DOMAIN Body
  BY <1>3, <1>4, DumpsAssumption
<1>6. Requested(ws, n) = Dump(Walk(ws[1], on, more), on, more)
  BY DEF Requested, on, more
<1> QED BY <1>5, <1>6 DEF Dump, n

LEMMA RestType ==
  ASSUME NEW ws \in Seq(Words), ws # <<>>
  PROVE  Rest(ws, Taken(ws)) \in Seq(Words)
<1>1. Taken(ws) \in 0 .. 4 /\ Taken(ws) <= Len(ws) /\ Len(ws) \in Nat
  BY TakenIsThere
<1>2. SubSeq(ws, 1, Len(ws) - 2) \in Seq(Words)
  BY <1>1
<1>3. SubSeq(ws, Taken(ws) + 1, Len(ws)) \in Seq(Words)
  BY <1>1
<1> QED BY <1>2, <1>3 DEF Rest

(* Nothing but a lookup changes what was looked up.                        *)
LEMMA WalkLookedUp ==
  ASSUME LookedUp, WalkStep
  PROVE  LookedUp'
<1>1. mapped' = mapped \/ \E o \in Omaps, r \in Rvas : mapped' = <<o, r, Translate(o, r)>>
  BY DEF WalkStep, Miss, GetOne, Open, NextItem, EndOfItems, Call, ReleaseObject,
         ReadAttributes, LookUp, Finish
<1> QED BY <1>1 DEF LookedUp

-----------------------------------------------------------------------------
(* The invariant of the whole program.                                     *)
Stopped == exit # "running" => pc = "done"

Inv == StackInv(stack) /\ Blamed /\ LookedUp /\ Types /\ Idle /\ Stopped

(* The program starts in it.                                               *)
LEMMA InitInv == Init => Inv
<1> SUFFICES ASSUME Init PROVE Inv
  OBVIOUS
<1>1. /\ words \in Seq(Words) /\ argv = <<>> /\ pc = "main" /\ exit = "running"
      /\ globals = {} /\ stack = <<>> /\ result = TRUE /\ missed = FALSE /\ mapped = <<>>
  BY CommandLineAssumption DEF Init
<1>2. StackInv(stack) /\ AllOk(stack)
  BY <1>1, EmptySound
<1>3. Blamed
  BY <1>1, <1>2 DEF Blamed
<1>4. Types
  <2>1. argv \in Seq(Words) /\ globals \in SUBSET {"source", "session", "global"}
    BY <1>1
  <2>2. result \in BOOLEAN /\ missed \in BOOLEAN
    BY <1>1
  <2> QED BY <1>1, <2>1, <2>2 DEF Types
<1> QED BY <1>1, <1>2, <1>3, <1>4 DEF Inv, LookedUp, Idle, Stopped

(* A walk's step keeps what is said of walks.                              *)
LEMMA MovedInv ==
  ASSUME StackInv(stack), Blamed, missed \in BOOLEAN, result \in BOOLEAN, Moved,
         missed => missed', missed' \in BOOLEAN, Returned \/ result' = result
  PROVE  StackInv(stack') /\ Blamed' /\ result' \in BOOLEAN
<1>1. CASE Returned
  <2>1. PICK r \in BOOLEAN : Return(r) /\ (~r => missed')
    BY <1>1 DEF Returned
  <2>2. /\ StackInv(stack') /\ result' \in BOOLEAN
        /\ AllOk(stack) /\ r => AllOk(stack') /\ result'
    BY <1>1, <2>1, ReturnSound DEF Returned
  <2> QED BY <2>1, <2>2 DEF Blamed, AllOk
<1>2. CASE ~Returned
  <2>1. StackInv(stack') /\ (AllOk(stack) /\ ~missed' => AllOk(stack'))
    BY <1>2, PushedSound, ReplacedSound, OpenedSound DEF Moved
  <2> QED BY <1>2, <2>1 DEF Blamed, AllOk
<1> QED BY <1>1, <1>2

(* Every step of the program keeps the invariant.                          *)
LEMMA NextInv == Inv /\ [Next]_vars => Inv'
<1> SUFFICES ASSUME Inv, [Next]_vars PROVE Inv'
  OBVIOUS
<1> USE DEF Inv
<1>1. CASE UNCHANGED vars
  BY <1>1 DEF vars, walkVars, StackInv, Stacked, DetailOK, Levels, Blamed,
              AllOk, LookedUp, Types, Idle, Stopped, Sound
<1>2. CASE Start
  <2>1. pc = "main" /\ stack = <<>> /\ exit = "running"
    BY <1>2 DEF Start, Idle, Stopped
  <2>2. words' = words /\ result' = result /\ mapped' = mapped
    BY <1>2 DEF Start
  <2>3. LookedUp'
    BY <2>2 DEF LookedUp
  <2>4. ASSUME stack' = stack, globals' \in SUBSET {"source", "session", "global"},
               exit' = "-1", pc' = "done", missed', missed' = TRUE, argv' = argv
        PROVE  Inv'
    BY <2>2, <2>3, <2>4 DEF Blamed, Types, Idle, Stopped
  <2>5. ASSUME globals' = {"source", "session", "global"}, exit' = exit, missed' = missed,
               pc' = "dump", argv' = <<>>, Enter("DumpAllPdbInfo", "callers")
        PROVE  Inv'
    <3>1. Pushed
      BY <2>1, <2>5, DumpsAssumption DEF Pushed
    <3>2. StackInv(stack') /\ Blamed' /\ result' \in BOOLEAN
      BY <2>2, <2>5, <3>1, MovedInv DEF Moved, Types
    <3>3. argv' \in Seq(Words)
      BY <2>5
    <3> QED BY <2>1, <2>2, <2>3, <2>5, <3>2, <3>3 DEF Types, Idle, Stopped
  <2>6. ASSUME globals' = {"source", "session", "global"}, exit' = exit, missed' = missed,
               pc' = "parse", argv' = words, stack' = stack
        PROVE  Inv'
    BY <2>1, <2>2, <2>3, <2>6 DEF Blamed, Types, Idle, Stopped
  <2>7. \A k \in 0 .. 2 : {Loaded[i] : i \in 1 .. k} \subseteq {"source", "session", "global"}
    BY DEF Loaded
  <2>8. missed' = TRUE => missed'
    OBVIOUS
  <2> QED BY <1>2, <2>4, <2>5, <2>6, <2>7, <2>8 DEF Start
<1>3. ASSUME NEW status \in {"0", "-1"}, End(status)
      PROVE  Inv'
  <2>1. /\ pc' = "done" /\ exit' = status /\ globals' = globals \ {"session", "global"}
        /\ words' = words /\ argv' = argv /\ dumps' = dumps
        /\ stack' = stack /\ result' = result /\ missed' = missed /\ mapped' = mapped
    BY <1>3 DEF End, walkVars
  <2>2. LookedUp' /\ Blamed' /\ StackInv(stack')
    BY <2>1 DEF LookedUp, Blamed
  <2> QED BY <1>3, <2>1, <2>2 DEF Types, Idle, Stopped
<1>4. CASE ParseEnd
  BY <1>3, <1>4 DEF ParseEnd
<1>5. CASE ParseOption
  <2>1. /\ pc = "parse" /\ argv # <<>> /\ argv[1] \in Options
        /\ Enter(Requested(argv, Taken(argv)).walk, "callers")
        /\ pc' = "dump" /\ words' = words /\ argv' = argv /\ exit' = exit
        /\ globals' = globals /\ result' = result /\ missed' = missed /\ mapped' = mapped
    BY <1>5 DEF ParseOption
  <2>2. Pushed
    BY <2>1, RequestedInTable DEF Pushed, Idle, Types
  <2>3. StackInv(stack') /\ Blamed'
    BY <2>1, <2>2, MovedInv DEF Moved, Types
  <2> QED BY <2>1, <2>3 DEF LookedUp, Types, Idle, Stopped
<1>6. CASE Step
  <2>1. /\ pc = "dump" /\ WalkStep /\ words' = words /\ argv' = argv /\ pc' = pc
        /\ exit' = exit /\ globals' = globals
    BY <1>6 DEF Step
  <2>2. /\ Moved /\ (missed => missed') /\ missed' \in BOOLEAN
        /\ Returned \/ result' = result
    BY <2>1, WalkMoves DEF StackInv, Types
  <2>3. StackInv(stack') /\ Blamed' /\ result' \in BOOLEAN
    BY <2>2, MovedInv DEF Types
  <2>4. LookedUp'
    BY <2>1, WalkLookedUp
  <2> QED BY <2>1, <2>2, <2>3, <2>4 DEF Types, Idle, Stopped
<1>7. CASE DumpEnd
  <2>2. CASE End("0") \/ End("-1")
    BY <1>3, <2>2
  <2>3. CASE /\ argv # <<>> /\ argv' = Rest(argv, Taken(argv)) /\ pc' = "parse"
             /\ UNCHANGED <<words, exit, dumps, globals, walkVars>>
    <3>1. argv' \in Seq(Words)
      BY <2>3, RestType DEF Types
    <3>2. exit = "running" /\ stack = <<>>
      BY <1>7 DEF DumpEnd, Stopped
    <3>3. /\ words' = words /\ exit' = exit /\ globals' = globals /\ stack' = stack
          /\ result' = result /\ missed' = missed /\ mapped' = mapped
      BY <2>3 DEF walkVars
    <3>4. LookedUp' /\ Blamed' /\ StackInv(stack')
      BY <3>3 DEF LookedUp, Blamed
    <3> QED BY <2>3, <3>1, <3>2, <3>3, <3>4 DEF Types, Idle, Stopped
  <2> QED BY <1>7, <2>2, <2>3 DEF DumpEnd
<1>8. CASE Abort
  <2>1. /\ pc' = "done" /\ exit' = "abort" /\ globals' = globals
        /\ words' = words /\ argv' = argv /\ stack' = stack /\ result' = result
        /\ missed' = missed /\ mapped' = mapped
    BY <1>8 DEF Abort, walkVars
  <2>2. LookedUp' /\ Blamed' /\ StackInv(stack')
    BY <2>1 DEF LookedUp, Blamed
  <2> QED BY <2>1, <2>2 DEF Types, Idle, Stopped
<1> QED BY <1>1, <1>2, <1>4, <1>5, <1>6, <1>7, <1>8 DEF Next

(* So it holds of every state of every behaviour.                          *)
LEMMA AlwaysInv == Spec => []Inv
<1> QED BY InitInv, NextInv, PTL DEF Spec

-----------------------------------------------------------------------------
(* Every variable of the program and of its walks keeps its type.          *)
THEOREM TypesHold == Spec => []TypeOK
<1>1. Inv => TypeOK
  <2> SUFFICES ASSUME Inv PROVE TypeOK
    OBVIOUS
  <2>1. mapped \in {<<>>} \cup (Omaps \X Rvas \X Nat)
    <3>1. \A o \in Omaps, r \in Rvas : Translate(o, r) \in Nat
      BY WalkAssumption, TranslateType
    <3>2. CASE mapped = <<>>
      BY <3>2
    <3>3. CASE mapped # <<>>
      <4>1. PICK o \in Omaps, r \in Rvas : mapped = <<o, r, Translate(o, r)>>
        BY <3>3 DEF Inv, LookedUp
      <4> QED BY <3>1, <4>1
    <3> QED BY <3>2, <3>3
  <2>2. WalkTypeOK
    BY <2>1 DEF Inv, WalkTypeOK, StackInv, Stacked, Types
  <2> QED BY <2>2 DEF Inv, TypeOK, Types
<1> QED BY <1>1, AlwaysInv, PTL

(* PrintTypeInDetail nests four deep at most: MAX_TYPE_IN_DETAIL stops the *)
(* recursion whatever the types of the PDB refer to.                       *)
THEOREM DetailIsBounded == Spec => []DetailBounded
<1>1. Inv => DetailBounded
  <2> SUFFICES ASSUME Inv PROVE DetailBounded
    OBVIOUS
  <2>1. stack \in Seq(Frame) /\ Cardinality(Levels(stack)) <= 4
    BY DEF Inv, StackInv, Stacked, DetailOK
  <2>2. {i \in DOMAIN stack : stack[i].fn = "PrintTypeInDetail"} = Levels(stack)
    BY <2>1 DEF Levels
  <2> QED BY <2>1, <2>2 DEF DetailBounded, Active
<1> QED BY <1>1, AlwaysInv, PTL

(* An address inside a sorted OMAP table is moved with the block that      *)
(* holds it.                                                               *)
THEOREM LookupsAreRight == Spec => []LookupsRight
<1>1. Inv => LookupsRight
  <2> SUFFICES ASSUME Inv, mapped # <<>>, Sorted(mapped[1]), InTable(mapped[1], mapped[2])
               PROVE  IsTranslation(mapped[1], mapped[2], mapped[3])
    BY DEF LookupsRight
  <2>1. PICK o \in Omaps, r \in Rvas : mapped = <<o, r, Translate(o, r)>>
    BY DEF Inv, LookedUp
  <2>2. o \in Seq(Entry) /\ r \in Nat
    BY WalkAssumption
  <2> QED BY <2>1, <2>2, LookupIsTranslation
<1> QED BY <1>1, AlwaysInv, PTL

-----------------------------------------------------------------------------
(* The help text.  The words still to be parsed are the last words of the  *)
(* command line, and the dumps so far with those the rest asks for are all *)
(* the dumps asked for.                                                    *)
Honest == /\ ~RereadsCompiland(words) /\ ~LosesLine(words) /\ ~TakesOption(words)
          /\ ~StopsAtHelp(words) /\ ~StopsAtAll(words)

Whole == words = <<>> \/ words[1] = "-all"

(* What is left of the words from the i-th on.                             *)
From(ws, i) == SubSeq(ws, i, Len(ws))

(* Options with their words lead from the first word to the i-th.          *)
Reached(ws, i) ==
  \E starts \in SUBSET (1 .. Len(ws) + 1) :
    /\ 1 \in starts /\ i \in starts
    /\ \A j \in starts \ {i} : StandsAt(ws, j) /\ j + HelpTaken(ws, j) \in starts

Dumps == [walk : DOMAIN Body, on : Words \cup {None}, more : Words \cup {None}]

WholeInv ==
  /\ argv = <<>>
  /\ pc \in {"main", "dump", "done"}
  /\ pc = "main" => dumps = <<>>
  /\ pc = "dump" => dumps = PdbInfo
  /\ pc = "done" => dumps = PdbInfo \/ (dumps = <<>> /\ exit # "0")

PartsInv ==
  LET asked == AskedFrom(words)
  IN /\ pc = "main" => dumps = <<>>
     /\ pc = "parse" => \E i \in 1 .. Len(words) + 1 :
                          /\ argv = From(words, i) /\ Reached(words, i)
                          /\ asked[1] = dumps \o asked[i]
     /\ pc = "dump" => /\ argv # <<>> /\ argv[1] \in Options /\ Taken(argv) > 0
                       /\ \E i \in 1 .. Len(words) :
                            /\ argv = From(words, i) /\ Reached(words, i)
                            /\ asked[1] = dumps \o asked[i + Taken(argv)]
     /\ pc = "done" => \E i \in 1 .. Len(words) + 1 :
                         /\ asked[1] = dumps \o asked[i]
                         /\ exit = "0" => asked[i] = <<>> /\ Legal(words)

HelpInv ==
  /\ dumps \in Seq(Dumps)
  /\ Honest => IF Whole THEN WholeInv ELSE PartsInv

(* The words from the i-th on, as ParseArg gets them.                      *)
LEMMA FromWords ==
  ASSUME NEW ws \in Seq(Words), NEW i \in 1 .. Len(ws) + 1
  PROVE  /\ From(ws, i) \in Seq(Words) /\ Len(From(ws, i)) = Len(ws) - i + 1
         /\ \A k \in 1 .. Len(ws) - i + 1 : From(ws, i)[k] = ws[i + k - 1]
         /\ \A k \in Nat \ {0} : Given(From(ws, i), k) <=> Given(ws, i + k - 1)
<1> DEFINE t == From(ws, i)
<1>1. /\ t \in Seq(Words) /\ Len(t) = Len(ws) - i + 1
      /\ \A k \in 1 .. Len(ws) - i + 1 : t[k] = ws[i + k - 1]
  BY DEF From
<1> HIDE DEF t
<1>2. ASSUME NEW k \in Nat \ {0}
      PROVE  Given(t, k) <=> Given(ws, i + k - 1)
  <2>1. k <= Len(t) <=> i + k - 1 <= Len(ws)
    BY <1>1
  <2>2. k <= Len(t) => t[k] = ws[i + k - 1]
    BY <1>1
  <2> QED BY <2>1, <2>2 DEF Given
<1> QED BY <1>1, <1>2 DEF t

LEMMA FromFrom ==
  ASSUME NEW ws \in Seq(Words), NEW i \in 1 .. Len(ws) + 1, NEW k \in 0 .. Len(ws) - i + 1
  PROVE  SubSeq(From(ws, i), k + 1, Len(From(ws, i))) = From(ws, i + k)
<1> DEFINE t == From(ws, i)
           u == SubSeq(t, k + 1, Len(t))
           v == From(ws, i + k)
<1>1. /\ t \in Seq(Words) /\ Len(t) = Len(ws) - i + 1
      /\ \A j \in 1 .. Len(ws) - i + 1 : t[j] = ws[i + j - 1]
  BY FromWords
<1>2. /\ v \in Seq(Words) /\ Len(v) = Len(ws) - i - k + 1
      /\ \A j \in 1 .. Len(ws) - i - k + 1 : v[j] = ws[i + k + j - 1]
  <2>1. i + k \in 1 .. Len(ws) + 1
    OBVIOUS
  <2> HIDE DEF v
  <2>2. /\ v \in Seq(Words) /\ Len(v) = Len(ws) - (i + k) + 1
        /\ \A j \in 1 .. Len(ws) - (i + k) + 1 : v[j] = ws[(i + k) + j - 1]
    BY <2>1, FromWords DEF v
  <2> QED BY <2>2
<1> HIDE DEF t, v
<1>3. /\ u \in Seq(Words) /\ Len(u) = Len(t) - k
      /\ \A j \in 1 .. Len(t) - k : u[j] = t[k + j]
  BY <1>1
<1> HIDE DEF u
<1>4. Len(u) = Len(v)
  BY <1>1, <1>2, <1>3
<1>5. \A j \in 1 .. Len(u) : u[j] = v[j]
  BY <1>1, <1>2, <1>3
<1>6. u = v
  BY <1>2, <1>3, <1>4, <1>5, SeqEqual
<1> QED BY <1>6 DEF t, u, v

-----------------------------------------------------------------------------
(* The words the help text gives an option are those ParseArg takes, but   *)
(* for an option taken for a number; a -compiland without a name is left.  *)
BadNumber(ws, i) == Numbered(ws, i) /\ ~Given(ws, i + 3)
NoName(ws, i)    == ws[i] = "-compiland" /\ ~Given(ws, i + 1)

(* Of at most m words that may be given behind the b-th, those that are.   *)
Most(ws, b, m) ==
  LET may == {k \in 0 .. m : \A j \in 1 .. k : Given(ws, b + j)}
  IN  CHOOSE k \in may : \A j \in may : j <= k

LEMMA MostIs ==
  ASSUME NEW ws, NEW b, NEW m \in 0 .. 2
  PROVE  Most(ws, b, m) = IF m = 0 \/ ~Given(ws, b + 1) THEN 0
                          ELSE IF m = 1 \/ ~Given(ws, b + 2) THEN 1 ELSE 2
<1> DEFINE G(k) == \A j \in 1 .. k : Given(ws, b + j)
           may == {k \in 0 .. m : G(k)}
           most == IF m = 0 \/ ~Given(ws, b + 1) THEN 0
                   ELSE IF m = 1 \/ ~Given(ws, b + 2) THEN 1 ELSE 2
<1>1. G(0) /\ (G(1) <=> Given(ws, b + 1)) /\ (G(2) <=> Given(ws, b + 1) /\ Given(ws, b + 2))
  <2>1. 1 .. 0 = {} /\ 1 .. 1 = {1} /\ 1 .. 2 = {1, 2}
    OBVIOUS
  <2> QED BY <2>1
<1> HIDE DEF G
<1>2. most \in may /\ \A j \in may : j <= most
  BY <1>1
<1>3. \A k \in may : (\A j \in may : j <= k) => k = most
  BY <1>2
<1>4. Most(ws, b, m) = CHOOSE k \in may : \A j \in may : j <= k
  BY DEF Most, G
<1> HIDE DEF may, most
<1>5. Most(ws, b, m) = most
  BY <1>2, <1>3, <1>4
<1> QED BY <1>5 DEF most

LEMMA HelpTakenIs ==
  ASSUME NEW ws \in Seq(Words), NEW i \in 1 .. Len(ws), StandsAt(ws, i)
  PROVE  HelpTaken(ws, i) =
           IF Numbered(ws, i) /\ Given(ws, i + 3) THEN 4
           ELSE IF ws[i] \in {"-ps", "-psr", "-lines", "-type", "-label",
                              "-annotations", "-maptosrc", "-mapfromsrc"} THEN 2
           ELSE IF ws[i] \in {"-sym", "-lsrc"} THEN (IF Given(ws, i + 2) THEN 3 ELSE 2)
           ELSE IF ws[i] \in {"-injsrc", "-fpo", "-compiland"}
                THEN (IF Given(ws, i + 1) THEN 2 ELSE 1)
           ELSE IF ws[i] = "-l" THEN (IF ~Given(ws, i + 1) THEN 1
                                      ELSE IF ~Given(ws, i + 2) THEN 2 ELSE 3)
           ELSE 1
<1> DEFINE need == IF ws[i] \in Must1 THEN 1 ELSE 0
<1>1. HelpTaken(ws, i) =
        IF Numbered(ws, i) /\ Given(ws, i + 3) THEN 4
        ELSE 1 + need + Most(ws, i + need, May(ws[i]))
  BY DEF HelpTaken, Most
<1>2. May(ws[i]) = IF ws[i] = "-l" THEN 2
                   ELSE IF ws[i] \in {"-injsrc", "-fpo", "-compiland", "-sym", "-lsrc"}
                        THEN 1 ELSE 0
  BY DEF May
<1>3. need \in {0, 1} /\ i \in Nat /\ i + 1 + 1 = i + 2 /\ i + 0 + 1 = i + 1 /\ i + 0 + 2 = i + 2
  OBVIOUS
<1>4. May(ws[i]) \in 0 .. 2
  BY <1>2
<1>5. Most(ws, i + need, May(ws[i])) =
        IF May(ws[i]) = 0 \/ ~Given(ws, i + need + 1) THEN 0
        ELSE IF May(ws[i]) = 1 \/ ~Given(ws, i + need + 2) THEN 1 ELSE 2
  BY <1>4, MostIs
<1>6. CASE ws[i] \in Must1
  BY <1>1, <1>2, <1>3, <1>5, <1>6 DEF Must1
<1>7. CASE ws[i] \notin Must1
  BY <1>1, <1>2, <1>3, <1>5, <1>7 DEF Must1
<1> QED BY <1>6, <1>7

(* They are there.                                                         *)
LEMMA HelpTakenFits ==
  ASSUME NEW ws \in Seq(Words), NEW i \in 1 .. Len(ws) + 1, StandsAt(ws, i)
  PROVE  /\ i \in 1 .. Len(ws)
         /\ HelpTaken(ws, i) \in 1 .. 4 /\ i + HelpTaken(ws, i) \in i + 1 .. Len(ws) + 1
<1>1. i \in 1 .. Len(ws) /\ Len(ws) \in Nat
  BY DEF StandsAt
<1>2. /\ Given(ws, i + 1) => i + 2 <= Len(ws) + 1
      /\ Given(ws, i + 2) => i + 3 <= Len(ws) + 1
      /\ Given(ws, i + 3) => i + 4 <= Len(ws) + 1
  BY <1>1 DEF Given
<1>3. ws[i] \in {"-ps", "-psr", "-lines", "-type", "-label", "-annotations", "-maptosrc",
                "-mapfromsrc", "-sym", "-lsrc"} => Given(ws, i + 1)
  BY DEF StandsAt, Must1
<1> QED BY <1>1, <1>2, <1>3, HelpTakenIs

LEMMA TakenIs ==
  ASSUME NEW ws \in Seq(Words), NEW i \in 1 .. Len(ws), ws[i] \in Options, ~BadNumber(ws, i)
  PROVE  Taken(From(ws, i)) = IF StandsAt(ws, i) /\ ~NoName(ws, i)
                              THEN HelpTaken(ws, i) ELSE 0
<1> DEFINE t == From(ws, i)
<1>1. /\ t[1] = ws[i] /\ (Given(t, 2) <=> Given(ws, i + 1)) /\ (Given(t, 3) <=> Given(ws, i + 2))
      /\ Len(t) > 3 <=> i + 3 <= Len(ws)
      /\ i + 2 <= Len(ws) => t[3] = ws[i + 2]
  <2>1. /\ Len(t) = Len(ws) - i + 1
        /\ \A k \in 1 .. Len(ws) - i + 1 : t[k] = ws[i + k - 1]
        /\ \A k \in Nat \ {0} : Given(t, k) <=> Given(ws, i + k - 1)
    <3>1. i \in 1 .. Len(ws) + 1
      OBVIOUS
    <3> QED BY <3>1, FromWords
  <2> HIDE DEF t
  <2>2. 1 \in 1 .. Len(ws) - i + 1 /\ i + 1 - 1 = i /\ i + 2 - 1 = i + 1 /\ i + 3 - 1 = i + 2
    OBVIOUS
  <2>3. i + 2 <= Len(ws) => 3 \in 1 .. Len(ws) - i + 1
    OBVIOUS
  <2>4. Len(t) > 3 <=> i + 3 <= Len(ws)
    <3>1. Len(t) = Len(ws) - i + 1
      BY <2>1
    <3>2. \A n, k \in Int : n - k + 1 > 3 <=> k + 3 <= n
      OBVIOUS
    <3>3. Len(ws) \in Int /\ i \in Int
      OBVIOUS
    <3> QED BY <3>1, <3>2, <3>3
  <2>5. (Given(t, 2) <=> Given(ws, i + 1)) /\ (Given(t, 3) <=> Given(ws, i + 2))
    <3>1. 2 \in Nat \ {0} /\ 3 \in Nat \ {0}
      OBVIOUS
    <3>2. (Given(t, 2) <=> Given(ws, i + 2 - 1)) /\ (Given(t, 3) <=> Given(ws, i + 3 - 1))
      BY <2>1, <3>1
    <3> QED BY <2>2, <3>2
  <2> QED BY <2>1, <2>2, <2>3, <2>4, <2>5
<1>2. i + 3 <= Len(ws) => i + 2 <= Len(ws)
  OBVIOUS
<1>3. /\ StandsAt(ws, i) <=> (ws[i] \in Must1 => Given(ws, i + 1))
      /\ Numbered(ws, i) <=>
           ws[i] \in {"-ps", "-psr"} /\ i + 3 <= Len(ws) /\ ws[i + 2] = "-n"
      /\ Numbered(ws, i) => Given(ws, i + 3)
  BY DEF StandsAt, HelpOptions, Numbered, BadNumber
<1> HIDE DEF t
<1>4. CASE ~StandsAt(ws, i) \/ NoName(ws, i)
  BY <1>1, <1>3, <1>4 DEF Taken, NoName, Must1, Flags, t
<1>5. CASE StandsAt(ws, i) /\ ~NoName(ws, i)
  <2>1. CASE ws[i] \in Flags
    BY <1>1, <1>3, <1>5, <2>1, HelpTakenIs DEF Taken, Flags, t
  <2>2. CASE ws[i] \in Must1
    <3>1. Given(ws, i + 1)
      BY <1>3, <1>5, <2>2
    <3> QED BY <1>1, <1>2, <1>3, <1>5, <2>2, <3>1, HelpTakenIs DEF Taken, Must1, Flags, t
  <2>3. CASE ws[i] \in {"-l", "-injsrc", "-fpo"}
    BY <1>1, <1>3, <1>5, <2>3, HelpTakenIs DEF Taken, Flags, t
  <2>4. CASE ws[i] = "-compiland"
    <3>1. Given(ws, i + 1)
      BY <1>5, <2>4 DEF NoName
    <3> QED BY <1>1, <1>3, <1>5, <2>4, <3>1, HelpTakenIs DEF Taken, Flags, t
  <2>5. ws[i] \in Flags \cup Must1 \cup {"-l", "-injsrc", "-fpo", "-compiland"}
    BY DEF Options, Flags, Must1
  <2> QED BY <2>1, <2>2, <2>3, <2>4, <2>5
<1> QED BY <1>4, <1>5

(* An option of which ParseArg takes a word stands there.                  *)
LEMMA TakenStands ==
  ASSUME NEW ws \in Seq(Words), NEW i \in 1 .. Len(ws), ws[i] \in Options,
         ~BadNumber(ws, i), Taken(From(ws, i)) > 0
  PROVE  /\ StandsAt(ws, i) /\ Taken(From(ws, i)) = HelpTaken(ws, i)
         /\ i + Taken(From(ws, i)) \in i + 1 .. Len(ws) + 1
<1>1. StandsAt(ws, i) /\ Taken(From(ws, i)) = HelpTaken(ws, i)
  BY TakenIs
<1>2. i \in 1 .. Len(ws) + 1
  OBVIOUS
<1> QED BY <1>1, <1>2, HelpTakenFits

-----------------------------------------------------------------------------
(* The dumps asked for, as the recursive function it is meant to be: by    *)
(* induction on how many words are left there is such a function.          *)
AskStep(ws, f, i) ==
  IF StandsAt(ws, i) THEN HelpAsk(ws, i) \o f[i + HelpTaken(ws, i)] ELSE <<>>

(* f answers for the last k words and for the end of the line.             *)
AsksLast(ws, k, f) ==
  f = [i \in (Len(ws) + 1 - k) .. (Len(ws) + 1) |-> AskStep(ws, f, i)]

LEMMA AskStepLocal ==
  ASSUME NEW ws \in Seq(Words), NEW i \in 1 .. Len(ws) + 1, NEW f, NEW g,
         \A j \in i + 1 .. Len(ws) + 1 : f[j] = g[j]
  PROVE  AskStep(ws, f, i) = AskStep(ws, g, i)
<1>1. CASE ~StandsAt(ws, i)
  BY <1>1 DEF AskStep
<1>2. CASE StandsAt(ws, i)
  <2>1. i + HelpTaken(ws, i) \in i + 1 .. Len(ws) + 1
    BY <1>2, HelpTakenFits
  <2>2. f[i + HelpTaken(ws, i)] = g[i + HelpTaken(ws, i)]
    BY <2>1
  <2> QED BY <1>2, <2>2 DEF AskStep
<1> QED BY <1>1, <1>2

LEMMA OneMoreWord ==
  ASSUME NEW ws \in Seq(Words), NEW k \in 1 .. Len(ws), NEW f, AsksLast(ws, k - 1, f)
  PROVE  \E g : AsksLast(ws, k, g)
<1> DEFINE n == Len(ws)
           first == n + 1 - k
           g == [i \in first .. n + 1 |-> IF i = first THEN AskStep(ws, f, i) ELSE f[i]]
<1>1. n \in Nat /\ first \in 1 .. n /\ n + 1 - (k - 1) = first + 1 /\ k \in Nat
  OBVIOUS
<1>2. f = [i \in first + 1 .. n + 1 |-> AskStep(ws, f, i)]
  BY <1>1 DEF AsksLast
<1>3. \A j \in first + 1 .. n + 1 : g[j] = f[j]
  BY <1>1
<1>4. ASSUME NEW i \in first .. n + 1
      PROVE  g[i] = AskStep(ws, g, i)
  <2>1. i \in 1 .. Len(ws) + 1
    BY <1>1
  <2>2. \A j \in i + 1 .. Len(ws) + 1 : f[j] = g[j]
    BY <1>1, <1>3
  <2> HIDE DEF g
  <2>3. AskStep(ws, f, i) = AskStep(ws, g, i)
    BY <2>1, <2>2, AskStepLocal
  <2>4. g[i] = AskStep(ws, f, i)
    <3>1. CASE i = first
      BY <3>1 DEF g
    <3>2. CASE i # first
      <4>1. i \in first + 1 .. n + 1
        BY <1>1, <3>2
      <4> QED BY <1>2, <1>3, <4>1
    <3> QED BY <3>1, <3>2
  <2> QED BY <2>3, <2>4
<1>5. g = [i \in first .. n + 1 |-> g[i]]
  OBVIOUS
<1> HIDE DEF g
<1>6. g = [i \in first .. n + 1 |-> AskStep(ws, g, i)]
  BY <1>4, <1>5
<1>7. AsksLast(ws, k, g)
  BY <1>6 DEF AsksLast
<1> QED BY <1>7

LEMMA AskedDefined ==
  ASSUME NEW ws \in Seq(Words)
  PROVE  AsksLast(ws, Len(ws), AskedFrom(ws))
<1> DEFINE n == Len(ws)
           undefined == {k \in 0 .. n : \A f : ~AsksLast(ws, k, f)}
<1>1. n \in Nat /\ undefined \subseteq Nat
  OBVIOUS
<1>2. undefined = {}
  <2> SUFFICES ASSUME undefined # {} PROVE FALSE
    OBVIOUS
  <2>1. PICK k \in undefined : \A m \in undefined : k <= m
    BY <1>1, LeastNumber
  <2>2. CASE k = 0
    <3> DEFINE e == [i \in (Len(ws) + 1 - 0) .. (Len(ws) + 1) |-> <<>>]
    <3>1. \A f, i : ~StandsAt(ws, i) => AskStep(ws, f, i) = <<>>
      BY DEF AskStep
    <3>2. \A i \in (Len(ws) + 1 - 0) .. (Len(ws) + 1) : ~StandsAt(ws, i)
      BY <1>1 DEF StandsAt
    <3>3. AsksLast(ws, 0, e)
      BY <3>1, <3>2 DEF AsksLast
    <3> QED BY <2>1, <2>2, <3>3
  <2>3. CASE k # 0
    <3>1. k \in 1 .. n /\ k - 1 \in 0 .. n /\ ~(k <= k - 1)
      BY <1>1, <2>1, <2>3
    <3>2. k - 1 \notin undefined
      BY <2>1, <3>1
    <3>3. PICK f : AsksLast(ws, k - 1, f)
      BY <3>1, <3>2
    <3>4. \E g : AsksLast(ws, k, g)
      BY <3>1, <3>3, OneMoreWord
    <3> QED BY <2>1, <3>4
  <2> QED BY <2>2, <2>3
<1>3. \E f : AsksLast(ws, n, f)
  <2>1. n \in 0 .. n
    BY <1>1
  <2> QED BY <1>2, <2>1
<1>4. AskedFrom(ws) = CHOOSE f : f = [i \in 1 .. Len(ws) + 1 |-> AskStep(ws, f, i)]
  BY DEF AskedFrom, AskStep
<1>5. Len(ws) + 1 - Len(ws) = 1
  BY <1>1
<1>6. \A f : AsksLast(ws, n, f) <=> f = [i \in 1 .. Len(ws) + 1 |-> AskStep(ws, f, i)]
  BY <1>5 DEF AsksLast
<1> HIDE DEF n
<1>7. AskedFrom(ws) = [i \in 1 .. Len(ws) + 1 |-> AskStep(ws, AskedFrom(ws), i)]
  BY <1>3, <1>4, <1>6
<1> QED BY <1>6, <1>7 DEF n

LEMMA AskedIs ==
  ASSUME NEW ws \in Seq(Words), NEW i \in 1 .. Len(ws) + 1
  PROVE  AskedFrom(ws)[i] = AskStep(ws, AskedFrom(ws), i)
<1>1. Len(ws) + 1 - Len(ws) = 1
  OBVIOUS
<1> DEFINE f == AskedFrom(ws)
<1>2. f = [k \in 1 .. Len(ws) + 1 |-> AskStep(ws, f, k)]
  BY <1>1, AskedDefined DEF AsksLast
<1> HIDE DEF f
<1>3. f[i] = AskStep(ws, f, i)
  BY <1>2
<1> QED BY <1>3 DEF f

(* What an option asks for is dumps of the table, and what ParseArg        *)
(* requests, but for the line of -lsrc.                                    *)
LEMMA PdbInfoType == PdbInfo \in Seq(Dumps)
<1>1. Dump("DumpAllPdbInfo", None, None) \in Dumps
  BY DumpsAssumption DEF Dump, Dumps
<1> QED BY <1>1 DEF PdbInfo

LEMMA HelpAskIs ==
  ASSUME NEW ws \in Seq(Words), NEW i \in 1 .. Len(ws), StandsAt(ws, i)
  PROVE  /\ HelpAsk(ws, i) \in Seq(Dumps)
         /\ ws[i] \in Options /\ ~LosesLine(ws) =>
              HelpAsk(ws, i) = <<Requested(From(ws, i), HelpTaken(ws, i))>>
<1> DEFINE t == From(ws, i)
           n == HelpTaken(ws, i)
           on == IF n > 1 THEN ws[i + 1] ELSE None
           more == IF n > 2 THEN ws[i + n - 1] ELSE None
           d == Dump(Walk(ws[i], on, more), on, more)
<1>1. i \in 1 .. Len(ws) + 1 /\ n \in 1 .. 4 /\ i + n \in i + 1 .. Len(ws) + 1
  <2>1. i \in 1 .. Len(ws) + 1
    OBVIOUS
  <2> QED BY <2>1, HelpTakenFits
<1>2. \A k \in 1 .. Len(ws) - i + 1 : t[k] = ws[i + k - 1]
  BY <1>1, FromWords
<1>3. n = 3 => Given(ws, i + 2) /\ i \in 1 .. Len(ws) - 2
  BY <1>1, HelpTakenIs
<1>4. HelpAsk(ws, i) = IF ws[i] = "-?" THEN <<>> ELSE IF ws[i] = "-all" THEN PdbInfo
                       ELSE <<d>>
  BY DEF HelpAsk
<1>5. \A k \in 1 .. Len(ws) : ws[k] \in Words
  BY ElementType
<1> HIDE DEF n, t
<1>6. on \in Words \cup {None} /\ more \in Words \cup {None}
  BY <1>1, <1>5
<1>7. n = 3 /\ ~LosesLine(ws) => ws[i] # "-lsrc"
  BY <1>3 DEF LosesLine
<1>8. t[1] = ws[i]
  BY <1>2
<1>9. n > 1 => t[2] = ws[i + 1]
  BY <1>1, <1>2
<1>10. n = 3 => t[3] = ws[i + n - 1]
  BY <1>1, <1>2
<1>11. n = 4 => t[4] = ws[i + n - 1]
  BY <1>1, <1>2
<1>12. ~LosesLine(ws) =>
         /\ on = IF n > 1 THEN t[2] ELSE None
         /\ more = IF n = 4 THEN t[4]
                   ELSE IF n = 3 THEN (IF t[1] = "-lsrc" THEN t[2] ELSE t[3]) ELSE None
  BY <1>1, <1>7, <1>8, <1>9, <1>10, <1>11
<1> HIDE DEF on, more
<1>13. ~LosesLine(ws) => Requested(t, n) = d
  BY <1>8, <1>12 DEF Requested
<1>14. ws[i] \in Options => d \in Dumps
  <2>1. ws[i] \in Options => Walk(ws[i], on, more) \in DOMAIN Body
    BY <1>6, DumpsAssumption
  <2> QED BY <1>6, <2>1 DEF Dump, Dumps
<1>15. /\ "-?" \notin Options /\ "-all" \notin Options
       /\ ws[i] \in Options \/ ws[i] = "-?" \/ ws[i] = "-all"
  BY DEF StandsAt, HelpOptions, Options, Flags
<1> HIDE DEF d
<1>16. <<>> \in Seq(Dumps) /\ (ws[i] \in Options => <<d>> \in Seq(Dumps))
  BY <1>14
<1>17. HelpAsk(ws, i) \in Seq(Dumps)
  BY <1>4, <1>15, <1>16, PdbInfoType
<1>18. ws[i] \in Options /\ ~LosesLine(ws) => HelpAsk(ws, i) = <<Requested(t, n)>>
  BY <1>4, <1>13, <1>15
<1> QED BY <1>17, <1>18 DEF t, n

LEMMA AskedType ==
  ASSUME NEW ws \in Seq(Words), NEW i \in 1 .. Len(ws) + 1
  PROVE  AskedFrom(ws)[i] \in Seq(Dumps)
<1> DEFINE n == Len(ws)
           f == AskedFrom(ws)
           untyped == {k \in 0 .. n : f[n + 1 - k] \notin Seq(Dumps)}
<1>1. n \in Nat /\ untyped \subseteq Nat
  OBVIOUS
<1>2. untyped = {}
  <2> SUFFICES ASSUME untyped # {} PROVE FALSE
    OBVIOUS
  <2>1. PICK k \in untyped : \A m \in untyped : k <= m
    BY <1>1, LeastNumber
  <2> DEFINE j == n + 1 - k
  <2>2. j \in 1 .. n + 1 /\ j \in 1 .. Len(ws) + 1 /\ k \in 0 .. n
    BY <1>1, <2>1
  <2>3. f[j] = AskStep(ws, f, j)
    BY <2>2, AskedIs
  <2>4. <<>> \in Seq(Dumps)
    OBVIOUS
  <2>5. CASE ~StandsAt(ws, j)
    BY <2>1, <2>3, <2>4, <2>5 DEF AskStep
  <2>6. CASE StandsAt(ws, j)
    <3> DEFINE a == HelpAsk(ws, j)
               u == HelpTaken(ws, j)
    <3>1. j \in 1 .. Len(ws) /\ j + u \in j + 1 .. Len(ws) + 1 /\ u \in 1 .. 4
      BY <2>2, <2>6, HelpTakenFits
    <3>2. a \in Seq(Dumps)
      BY <2>6, <3>1, HelpAskIs
    <3>3. f[j] = a \o f[j + u]
      BY <2>3, <2>6 DEF AskStep
    <3> HIDE DEF a, u, f
    <3>4. k - u \in 0 .. n /\ n + 1 - (k - u) = j + u /\ ~(k <= k - u)
      BY <1>1, <2>2, <3>1
    <3>5. f[j + u] \in Seq(Dumps)
      BY <2>1, <3>4
    <3>6. f[j] \in Seq(Dumps)
      BY <3>2, <3>3, <3>5, ConcatProperties
    <3> QED BY <2>1, <3>6
  <2> QED BY <2>5, <2>6
<1>3. n + 1 - i \in 0 .. n /\ n + 1 - (n + 1 - i) = i
  BY <1>1
<1> HIDE DEF n, f
<1>4. f[i] \in Seq(Dumps)
  BY <1>2, <1>3
<1> QED BY <1>4 DEF f

-----------------------------------------------------------------------------
LEMMA Associative ==
  ASSUME NEW D, NEW s \in Seq(D), NEW d \in D, NEW u \in Seq(D), NEW all,
         all = s \o (<<d>> \o u)
  PROVE  all = Append(s, d) \o u
<1>1. <<d>> \in Seq(D)
  OBVIOUS
<1>2. (s \o <<d>>) \o u = s \o (<<d>> \o u)
  BY <1>1, ConcatAssociative
<1>3. Append(s, d) = s \o <<d>>
  OBVIOUS
<1> QED BY <1>2, <1>3

LEMMA OneMoreDump ==
  \A s \in Seq(Dumps) : \A x \in Dumps : \A u \in Seq(Dumps) :
    Append(s, x) \o u = s \o (<<x>> \o u)
<1> SUFFICES ASSUME NEW s \in Seq(Dumps), NEW x \in Dumps, NEW u \in Seq(Dumps)
             PROVE  Append(s, x) \o u = s \o (<<x>> \o u)
  OBVIOUS
<1> QED BY Associative

(* The dumps done and those still asked for make up all that were asked    *)
(* for, at each step of the parsing.                                       *)
LEMMA OptionAsks ==
  ASSUME NEW ws \in Seq(Words), ~LosesLine(ws), NEW i \in 1 .. Len(ws),
         ws[i] \in Options, ~BadNumber(ws, i), Taken(From(ws, i)) > 0,
         NEW done \in Seq(Dumps), AskedFrom(ws)[1] = done \o AskedFrom(ws)[i]
  PROVE  LET t == From(ws, i)
             d == Requested(t, Taken(t))
         IN /\ d \in Dumps
            /\ AskedFrom(ws)[1] = Append(done, d) \o AskedFrom(ws)[i + Taken(t)]
<1> DEFINE t == From(ws, i)
           n == Taken(t)
           d == Requested(t, n)
           f == AskedFrom(ws)
<1>1. StandsAt(ws, i) /\ n = HelpTaken(ws, i) /\ i + n \in i + 1 .. Len(ws) + 1
  BY TakenStands
<1>2. HelpAsk(ws, i) = <<d>> /\ <<d>> \in Seq(Dumps)
  BY <1>1, HelpAskIs
<1>3. i \in 1 .. Len(ws) + 1 /\ i + n \in 1 .. Len(ws) + 1
  BY <1>1
<1>4. f[i] = AskStep(ws, f, i)
  BY <1>3, AskedIs
<1>5. f[i] = <<d>> \o f[i + n]
  BY <1>1, <1>2, <1>4 DEF AskStep
<1>6. f[i + n] \in Seq(Dumps)
  BY <1>3, AskedType
<1> HIDE DEF t, f, d, n
<1>7. d \in Dumps
  <2>1. <<d>>[1] \in Dumps
    BY <1>2
  <2> QED BY <2>1
<1>8. f[1] = done \o f[i]
  BY DEF f
<1>9. f[1] = done \o (<<d>> \o f[i + n])
  BY <1>5, <1>8
<1>10. \A x \in Dumps : \A u \in Seq(Dumps) :
         Append(done, x) \o u = done \o (<<x>> \o u)
  BY OneMoreDump
<1>11. Append(done, d) \o f[i + n] = done \o (<<d>> \o f[i + n])
  BY <1>6, <1>7, <1>10
<1>12. f[1] = Append(done, d) \o f[i + n]
  BY <1>9, <1>11
<1> QED BY <1>7, <1>12 DEF t, f, d, n

(* -? and -all take nothing but themselves.                                *)
LEMMA TakesItself ==
  ASSUME NEW ws \in Seq(Words), NEW i \in 1 .. Len(ws), ws[i] \in {"-?", "-all"}
  PROVE  StandsAt(ws, i) /\ HelpTaken(ws, i) = 1
<1>1. StandsAt(ws, i)
  BY DEF StandsAt, HelpOptions, Must1
<1> QED BY <1>1, HelpTakenIs DEF Numbered

(* Nothing is asked for behind the last word, and by a -? that is the last.*)
LEMMA NothingAsked ==
  ASSUME NEW ws \in Seq(Words), NEW i \in 1 .. Len(ws) + 1,
         i > Len(ws) \/ (ws[i] = "-?" /\ i = Len(ws))
  PROVE  AskedFrom(ws)[i] = <<>>
<1>1. ASSUME NEW j \in 1 .. Len(ws) + 1, j > Len(ws)
      PROVE  AskedFrom(ws)[j] = <<>>
  <2>1. ~StandsAt(ws, j)
    BY <1>1 DEF StandsAt
  <2> QED BY <2>1, AskedIs DEF AskStep
<1>2. ASSUME ws[i] = "-?", i = Len(ws)
      PROVE  AskedFrom(ws)[i] = <<>>
  <2>1. i \in 1 .. Len(ws) /\ i + 1 \in 1 .. Len(ws) + 1 /\ i + 1 > Len(ws)
    BY <1>2
  <2>2. StandsAt(ws, i) /\ HelpTaken(ws, i) = 1
    BY <1>2, <2>1, TakesItself
  <2>3. HelpAsk(ws, i) = <<>>
    BY <1>2 DEF HelpAsk
  <2>4. AskedFrom(ws)[i] = <<>> \o AskedFrom(ws)[i + 1]
    BY <2>2, <2>3, AskedIs DEF AskStep
  <2>5. AskedFrom(ws)[i + 1] = <<>>
    BY <1>1, <2>1
  <2> QED BY <2>4, <2>5
<1> QED BY <1>1, <1>2

(* From a word that is reached the next option is, and from the end of the *)
(* line, or a -? that ends it, the line is one of the help text.           *)
LEMMA ReachedNext ==
  ASSUME NEW ws \in Seq(Words), NEW i \in 1 .. Len(ws) + 1, Reached(ws, i), StandsAt(ws, i)
  PROVE  Reached(ws, i + HelpTaken(ws, i))
<1> DEFINE k == i + HelpTaken(ws, i)
<1>1. k \in 1 .. Len(ws) + 1
  BY HelpTakenFits
<1>2. PICK starts \in SUBSET (1 .. Len(ws) + 1) :
        /\ 1 \in starts /\ i \in starts
        /\ \A j \in starts \ {i} : StandsAt(ws, j) /\ j + HelpTaken(ws, j) \in starts
  BY DEF Reached
<1> HIDE DEF k
<1> DEFINE more == starts \cup {k}
<1>3. more \in SUBSET (1 .. Len(ws) + 1) /\ 1 \in more /\ k \in more
  BY <1>1, <1>2
<1>4. \A j \in more \ {k} : StandsAt(ws, j) /\ j + HelpTaken(ws, j) \in more
  BY <1>2 DEF k
<1>5. Reached(ws, k)
  BY <1>3, <1>4 DEF Reached
<1> QED BY <1>5 DEF k

LEMMA ReachedEnd ==
  ASSUME NEW ws \in Seq(Words), NEW i \in 1 .. Len(ws) + 1, Reached(ws, i),
         i > Len(ws) \/ (ws[i] = "-?" /\ i = Len(ws))
  PROVE  Legal(ws)
<1>1. ASSUME NEW j \in 1 .. Len(ws) + 1, Reached(ws, j), j > Len(ws)
      PROVE  Legal(ws)
  <2>1. PICK starts \in SUBSET (1 .. Len(ws) + 1) :
          /\ 1 \in starts /\ j \in starts
          /\ \A k \in starts \ {j} : StandsAt(ws, k) /\ k + HelpTaken(ws, k) \in starts
    BY <1>1 DEF Reached
  <2>2. Follows(ws, starts)
    BY <1>1, <2>1 DEF Follows
  <2> QED BY <2>1, <2>2 DEF Legal
<1>2. ASSUME ws[i] = "-?", i = Len(ws)
      PROVE  Legal(ws)
  <2>1. i \in 1 .. Len(ws) /\ i + 1 \in 1 .. Len(ws) + 1 /\ i + 1 > Len(ws)
    BY <1>2
  <2>2. StandsAt(ws, i) /\ HelpTaken(ws, i) = 1
    BY <1>2, <2>1, TakesItself
  <2>3. Reached(ws, i + 1)
    BY <2>2, ReachedNext
  <2> QED BY <1>1, <2>1, <2>3
<1> QED BY <1>1, <1>2

LEMMA OnlyOne == \A n \in Nat : n # 0 /\ ~(n > 1) => n = 1
  OBVIOUS

(* No option, or a single -all, asks for the whole dump.                   *)
LEMMA WholeAsks ==
  ASSUME NEW ws \in Seq(Words), ws = <<>> \/ ws[1] = "-all", ~StopsAtAll(ws)
  PROVE  Asked(ws) = PdbInfo /\ Legal(ws)
<1>1. CASE ws = <<>>
  <2>1. Follows(ws, {1}) /\ {1} \in SUBSET (1 .. Len(ws) + 1)
    BY <1>1 DEF Follows
  <2> QED BY <1>1, <2>1 DEF Asked, Legal
<1>2. CASE ws # <<>> /\ ws[1] = "-all"
  <2>1. Len(ws) = 1 /\ 1 \in 1 .. Len(ws) /\ 1 \in 1 .. Len(ws) + 1 /\ 2 \in 1 .. Len(ws) + 1
    <3>1. Len(ws) \in Nat /\ Len(ws) # 0
      BY <1>2, EmptySeq
    <3>2. ~(Len(ws) > 1)
      BY <1>2 DEF StopsAtAll
    <3>3. Len(ws) = 1
      BY <3>1, <3>2, OnlyOne, Zenon
    <3>4. 1 \in 1 .. 1 /\ 1 \in 1 .. 1 + 1 /\ 2 \in 1 .. 1 + 1
      OBVIOUS
    <3> QED BY <3>3, <3>4, Zenon
  <2>2. StandsAt(ws, 1) /\ HelpTaken(ws, 1) = 1
    <3>1. 1 \in 1 .. Len(ws) /\ ws[1] \in {"-?", "-all"}
      BY <1>2, <2>1
    <3> QED BY <3>1, TakesItself, Zenon
  <2>4. HelpAsk(ws, 1) = PdbInfo
    BY <1>2 DEF HelpAsk
  <2>5. AskedFrom(ws)[2] = <<>>
    BY <2>1, NothingAsked
  <2>6. AskedFrom(ws)[1] = PdbInfo \o AskedFrom(ws)[2]
    <3>1. AskedFrom(ws)[1] = HelpAsk(ws, 1) \o AskedFrom(ws)[1 + 1]
      BY <2>1, <2>2, AskedIs, Zenon DEF AskStep
    <3>2. 1 + 1 = 2
      OBVIOUS
    <3> QED BY <2>4, <3>1, <3>2, Zenon
  <2>7. AskedFrom(ws)[1] = PdbInfo
    BY <2>5, <2>6, PdbInfoType, ConcatEmptySeq
  <2>8. Follows(ws, {1, 2}) /\ {1, 2} \in SUBSET (1 .. Len(ws) + 1)
    BY <2>1, <2>2 DEF Follows
  <2> QED BY <1>2, <2>7, <2>8 DEF Asked, Legal
<1> QED BY <1>1, <1>2

(* After an honest option the rest is what stands behind its words.        *)
LEMMA RestIsFrom ==
  ASSUME NEW ws \in Seq(Words), ~RereadsCompiland(ws), NEW i \in 1 .. Len(ws),
         ws[i] \in Options, ~BadNumber(ws, i), Taken(From(ws, i)) > 0
  PROVE  Rest(From(ws, i), Taken(From(ws, i))) = From(ws, i + Taken(From(ws, i)))
<1> DEFINE t == From(ws, i)
           n == Taken(t)
<1>1. StandsAt(ws, i) /\ n = HelpTaken(ws, i) /\ ~NoName(ws, i)
  BY TakenIs, TakenStands
<1>2. n \in Nat /\ n > 0 /\ i + n \in i + 1 .. Len(ws) + 1
  <2>1. i + n \in i + 1 .. Len(ws) + 1 /\ n \in 1 .. 4
    <3>1. i \in 1 .. Len(ws) + 1
      OBVIOUS
    <3> QED BY <1>1, <3>1, HelpTakenFits
  <2> QED BY <2>1
<1>3. i \in 1 .. Len(ws) + 1 /\ n \in 0 .. Len(ws) - i + 1
  BY <1>2
<1>4. SubSeq(t, n + 1, Len(t)) = From(ws, i + n)
  BY <1>3, FromFrom
<1>5. /\ t \in Seq(Words) /\ Len(t) = Len(ws) - i + 1 /\ t[1] = ws[i]
  <2>1. /\ t \in Seq(Words) /\ Len(t) = Len(ws) - i + 1
        /\ \A k \in 1 .. Len(ws) - i + 1 : t[k] = ws[i + k - 1]
    BY <1>3, FromWords
  <2>2. 1 \in 1 .. Len(ws) - i + 1 /\ i + 1 - 1 = i
    BY <1>2
  <2> HIDE DEF t
  <2> QED BY <2>1, <2>2
<1>6. CASE ws[i] # "-compiland"
  BY <1>4, <1>5, <1>6 DEF Rest
<1>7. CASE ws[i] = "-compiland"
  <2>1. ~(i \in 1 .. Len(ws) - 2)
    BY <1>7 DEF RereadsCompiland
  <2>2. n = 2
    BY <1>1, <1>7, HelpTakenIs DEF Numbered, NoName
  <2> HIDE DEF n, t
  <2>3. Len(t) = 2 /\ i + n = Len(ws) + 1
    BY <1>2, <1>5, <2>1, <2>2
  <2>4. SubSeq(t, 1, Len(t) - 2) = <<>> /\ SubSeq(t, n + 1, Len(t)) = <<>>
    BY <1>5, <2>2, <2>3
  <2>5. Rest(t, n) = SubSeq(t, 1, Len(t) - 2)
    BY <1>5, <1>7 DEF Rest
  <2> QED BY <1>4, <2>4, <2>5 DEF n, t
<1> QED BY <1>6, <1>7

-----------------------------------------------------------------------------
(* These parts of the invariant speak of nothing but the command line.     *)
LEMMA HelpInvUnchanged ==
  ASSUME HelpInv, UNCHANGED <<words, argv, pc, exit, dumps>>
  PROVE  HelpInv'
BY DEF HelpInv, Honest, Whole, WholeInv, PartsInv

LEMMA InitHelp == Init => HelpInv
<1> SUFFICES ASSUME Init PROVE HelpInv
  OBVIOUS
<1>1. dumps = <<>> /\ pc = "main" /\ argv = <<>>
  BY DEF Init
<1>2. dumps \in Seq(Dumps)
  BY <1>1
<1> QED BY <1>1, <1>2 DEF HelpInv, WholeInv, PartsInv

LEMMA StartHelp ==
  ASSUME Inv, HelpInv, Start
  PROVE  HelpInv'
<1>1. words \in Seq(Words) /\ pc = "main" /\ words' = words /\ exit = "running"
  BY DEF Inv, Types, Start, Stopped
<1>2. (Honest' <=> Honest) /\ (Whole' <=> Whole)
  BY <1>1 DEF Honest, Whole
<1>3. 1 \in 1 .. Len(words) + 1 /\ AskedFrom(words') = AskedFrom(words)
  BY <1>1
<1>4. AskedFrom(words)[1] \in Seq(Dumps)
  BY <1>1, <1>3, AskedType
<1>5. \A s \in Seq(Dumps) : <<>> \o s = s
  BY ConcatEmptySeq
<1>6. Honest => dumps = <<>> /\ (Whole => argv = <<>>)
  BY <1>1 DEF HelpInv, WholeInv, PartsInv
<1>7. CASE pc' = "done"
  <2>1. dumps' = dumps /\ exit' = "-1" /\ argv' = argv
    BY <1>7 DEF Start
  <2>2. dumps' \in Seq(Dumps)
    BY <2>1 DEF HelpInv
  <2>3. Honest /\ Whole => WholeInv'
    BY <1>1, <1>2, <1>6, <1>7, <2>1 DEF WholeInv, Start
  <2>4. Honest => PartsInv'
    BY <1>1, <1>3, <1>4, <1>5, <1>6, <1>7, <2>1 DEF PartsInv
  <2> QED BY <1>2, <2>2, <2>3, <2>4 DEF HelpInv
<1>8. CASE pc' = "dump"
  <2>1. Whole /\ argv' = <<>> /\ dumps' = PdbInfo
    BY <1>8 DEF Start, Whole, PdbInfo
  <2>2. dumps' \in Seq(Dumps)
    BY <2>1, PdbInfoType
  <2>3. WholeInv'
    BY <1>8, <2>1 DEF WholeInv, PdbInfo
  <2> QED BY <1>2, <2>1, <2>2, <2>3 DEF HelpInv
<1>9. CASE pc' = "parse"
  <2>1. ~Whole /\ argv' = words /\ dumps' = dumps
    BY <1>9 DEF Start, Whole
  <2>2. From(words, 1) = words
    BY <1>1 DEF From
  <2>3. Reached(words, 1)
    <3>1. {1} \in SUBSET (1 .. Len(words) + 1)
      BY <1>3
    <3> QED BY <3>1 DEF Reached
  <2>4. Honest => PartsInv'
    BY <1>1, <1>3, <1>4, <1>5, <1>6, <1>9, <2>1, <2>2, <2>3 DEF PartsInv
  <2>5. dumps' \in Seq(Dumps)
    BY <2>1 DEF HelpInv
  <2> QED BY <1>2, <2>1, <2>4, <2>5 DEF HelpInv
<1> QED BY <1>7, <1>8, <1>9 DEF Start

LEMMA FirstWord ==
  ASSUME NEW ws \in Seq(Words), NEW i \in 1 .. Len(ws) + 1, From(ws, i) # <<>>
  PROVE  i \in 1 .. Len(ws) /\ From(ws, i)[1] = ws[i]
<1> DEFINE t == From(ws, i)
<1>1. /\ t \in Seq(Words) /\ Len(t) = Len(ws) - i + 1
      /\ \A k \in 1 .. Len(ws) - i + 1 : t[k] = ws[i + k - 1]
  BY FromWords
<1> HIDE DEF t
<1>2. t # <<>>
  BY DEF t
<1>3. Len(t) > 0
  BY <1>1, <1>2
<1>4. i \in 1 .. Len(ws) /\ 1 \in 1 .. Len(ws) - i + 1 /\ i + 1 - 1 = i
  BY <1>1, <1>3
<1> QED BY <1>1, <1>4 DEF t

LEMMA RequestedIsDump ==
  ASSUME NEW ws \in Seq(Words), ws # <<>>, ws[1] \in Options
  PROVE  Requested(ws, Taken(ws)) \in Dumps
<1> DEFINE n == Taken(ws)
           on == IF n > 1 THEN ws[2] ELSE None
           more == IF n = 4 THEN ws[4]
                   ELSE IF n = 3 THEN (IF ws[1] = "-lsrc" THEN ws[2] ELSE ws[3]) ELSE None
<1>1. n \in 0 .. 4 /\ n <= Len(ws) /\ Len(ws) \in Nat
  BY TakenIsThere
<1> HIDE DEF n
<1>2. \A i \in 1 .. Len(ws) : ws[i] \in Words
  BY ElementType
<1>3. on \in Words \cup {None} /\ more \in Words \cup {None}
  BY <1>1, <1>2
<1>4. Requested(ws, n).walk \in DOMAIN Body
  BY RequestedInTable DEF n
<1> HIDE DEF on, more
<1>5. Requested(ws, n) = Dump(Walk(ws[1], on, more), on, more)
  BY DEF Requested, on, more
<1> QED BY <1>3, <1>4, <1>5 DEF Dump, Dumps, n

LEMMA ParseEndHelp ==
  ASSUME Inv, HelpInv, ParseEnd
  PROVE  HelpInv'
<1>1. /\ words \in Seq(Words) /\ pc = "parse" /\ pc' = "done" /\ words' = words
      /\ argv' = argv /\ dumps' = dumps
  BY DEF Inv, Types, ParseEnd, End
<1>2. (Honest' <=> Honest) /\ (Whole' <=> Whole) /\ AskedFrom(words') = AskedFrom(words)
  BY <1>1 DEF Honest, Whole
<1>3. dumps' \in Seq(Dumps)
  BY <1>1 DEF HelpInv
<1>4. Honest => ~Whole
  BY <1>1 DEF HelpInv, WholeInv
<1>5. ASSUME Honest
      PROVE  PartsInv'
  <2>1. PICK i \in 1 .. Len(words) + 1 :
          /\ argv = From(words, i) /\ Reached(words, i)
          /\ AskedFrom(words)[1] = dumps \o AskedFrom(words)[i]
    BY <1>1, <1>4, <1>5 DEF HelpInv, PartsInv
  <2>2. exit' = "0" => argv = <<>> \/ argv[1] = "-?"
    BY DEF ParseEnd, End
  <2>3. exit' = "0" => i > Len(words) \/ (words[i] = "-?" /\ i = Len(words))
    <3>1. CASE argv = <<>>
      <4>1. Len(argv) = Len(words) - i + 1
        BY <1>1, <2>1, FromWords
      <4> QED BY <1>1, <3>1, <4>1
    <3>2. CASE argv # <<>>
      <4>1. i \in 1 .. Len(words) /\ argv[1] = words[i]
        BY <1>1, <2>1, <3>2, FirstWord
      <4>2. words[i] = "-?" => ~(i \in 1 .. Len(words) - 1)
        BY <1>5 DEF Honest, StopsAtHelp
      <4> QED BY <1>1, <2>2, <3>2, <4>1, <4>2
    <3> QED BY <3>1, <3>2
  <2>4. exit' = "0" => AskedFrom(words)[i] = <<>> /\ Legal(words)
    BY <1>1, <2>1, <2>3, NothingAsked, ReachedEnd
  <2> QED BY <1>1, <1>2, <2>1, <2>4 DEF PartsInv
<1> QED BY <1>2, <1>3, <1>4, <1>5 DEF HelpInv

LEMMA ParseOptionHelp ==
  ASSUME Inv, HelpInv, ParseOption
  PROVE  HelpInv'
<1>1. /\ words \in Seq(Words) /\ argv \in Seq(Words) /\ pc = "parse" /\ pc' = "dump"
      /\ words' = words /\ argv' = argv /\ argv # <<>> /\ argv[1] \in Options
      /\ Taken(argv) > 0 /\ dumps' = Append(dumps, Requested(argv, Taken(argv)))
      /\ dumps \in Seq(Dumps)
  BY DEF Inv, Types, ParseOption, HelpInv
<1>2. (Honest' <=> Honest) /\ (Whole' <=> Whole) /\ AskedFrom(words') = AskedFrom(words)
  BY <1>1 DEF Honest, Whole
<1>3. dumps' \in Seq(Dumps)
  <2>1. Requested(argv, Taken(argv)) \in Dumps
    BY <1>1, RequestedIsDump
  <2> QED BY <1>1, <2>1
<1>4. Honest => ~Whole
  BY <1>1 DEF HelpInv, WholeInv
<1>5. ASSUME Honest
      PROVE  PartsInv'
  <2>1. PICK i \in 1 .. Len(words) + 1 :
          /\ argv = From(words, i) /\ Reached(words, i)
          /\ AskedFrom(words)[1] = dumps \o AskedFrom(words)[i]
    BY <1>1, <1>4, <1>5 DEF HelpInv, PartsInv
  <2>2. i \in 1 .. Len(words) /\ argv[1] = words[i]
    BY <1>1, <2>1, FirstWord
  <2>3. AskedFrom(words)[1] = dumps' \o AskedFrom(words)[i + Taken(argv)]
    BY <1>1, <1>5, <2>1, <2>2, OptionAsks DEF Honest, TakesOption, BadNumber
  <2> QED BY <1>1, <1>2, <2>1, <2>2, <2>3 DEF PartsInv
<1> QED BY <1>2, <1>3, <1>4, <1>5 DEF HelpInv

LEMMA DumpEndHelp ==
  ASSUME Inv, HelpInv, DumpEnd
  PROVE  HelpInv'
<1>1. /\ words \in Seq(Words) /\ pc = "dump" /\ words' = words /\ dumps' = dumps
      /\ argv \in Seq(Words)
  BY DEF Inv, Types, DumpEnd, End
<1>2. (Honest' <=> Honest) /\ (Whole' <=> Whole) /\ AskedFrom(words') = AskedFrom(words)
  BY <1>1 DEF Honest, Whole
<1>3. dumps' \in Seq(Dumps)
  BY <1>1 DEF HelpInv
<1>4. ASSUME Honest, Whole
      PROVE  WholeInv'
  <2>1. argv = <<>> /\ dumps = PdbInfo
    BY <1>1, <1>4 DEF HelpInv, WholeInv
  <2>2. pc' = "done" /\ argv' = argv
    BY <2>1 DEF DumpEnd, End
  <2> QED BY <1>1, <2>1, <2>2 DEF WholeInv, PdbInfo
<1>5. ASSUME Honest, ~Whole
      PROVE  PartsInv'
  <2>1. argv # <<>> /\ argv[1] \in Options /\ Taken(argv) > 0
    BY <1>1, <1>5 DEF HelpInv, PartsInv
  <2>2. PICK i \in 1 .. Len(words) :
          /\ argv = From(words, i) /\ Reached(words, i)
          /\ AskedFrom(words)[1] = dumps \o AskedFrom(words)[i + Taken(argv)]
    BY <1>1, <1>5 DEF HelpInv, PartsInv
  <2>3. words[i] = argv[1] /\ i \in 1 .. Len(words) + 1
    BY <1>1, <2>1, <2>2, FirstWord
  <2>4. /\ StandsAt(words, i) /\ Taken(argv) = HelpTaken(words, i) /\ ~BadNumber(words, i)
        /\ i + Taken(argv) \in 1 .. Len(words) + 1
    <3>1. ~BadNumber(words, i)
      BY <1>5 DEF Honest, TakesOption, BadNumber
    <3> QED BY <1>1, <2>1, <2>2, <2>3, <3>1, TakenStands
  <2>5. CASE pc' = "done" /\ exit' = "-1"
    BY <1>1, <1>2, <2>2, <2>4, <2>5 DEF PartsInv
  <2>6. CASE pc' = "parse" /\ argv' = Rest(argv, Taken(argv))
    <3>1. argv' = From(words, i + Taken(argv))
      BY <1>1, <1>5, <2>1, <2>2, <2>3, <2>4, <2>6, RestIsFrom DEF Honest
    <3>2. Reached(words, i + Taken(argv))
      BY <1>1, <2>2, <2>3, <2>4, ReachedNext
    <3> QED BY <1>1, <1>2, <2>2, <2>4, <2>6, <3>1, <3>2 DEF PartsInv
  <2> QED BY <2>1, <2>5, <2>6 DEF DumpEnd, End
<1> QED BY <1>2, <1>3, <1>4, <1>5 DEF HelpInv

LEMMA AbortHelp ==
  ASSUME Inv, HelpInv, Abort
  PROVE  HelpInv'
<1>1. /\ words \in Seq(Words) /\ pc = "dump" /\ pc' = "done" /\ exit' = "abort"
      /\ words' = words /\ argv' = argv /\ dumps' = dumps /\ argv \in Seq(Words)
  BY DEF Inv, Types, Abort
<1>2. (Honest' <=> Honest) /\ (Whole' <=> Whole) /\ AskedFrom(words') = AskedFrom(words)
  BY <1>1 DEF Honest, Whole
<1>3. dumps' \in Seq(Dumps)
  BY <1>1 DEF HelpInv
<1>4. Honest /\ Whole => WholeInv'
  BY <1>1 DEF HelpInv, WholeInv, PdbInfo
<1>5. ASSUME Honest, ~Whole
      PROVE  PartsInv'
  <2>1. argv # <<>> /\ argv[1] \in Options /\ Taken(argv) > 0
    BY <1>1, <1>5 DEF HelpInv, PartsInv
  <2>2. PICK i \in 1 .. Len(words) :
          /\ argv = From(words, i) /\ Reached(words, i)
          /\ AskedFrom(words)[1] = dumps \o AskedFrom(words)[i + Taken(argv)]
    BY <1>1, <1>5 DEF HelpInv, PartsInv
  <2>3. words[i] = argv[1]
    BY <1>1, <2>1, <2>2, FirstWord
  <2>4. /\ StandsAt(words, i) /\ Taken(argv) = HelpTaken(words, i) /\ ~BadNumber(words, i)
        /\ i + Taken(argv) \in 1 .. Len(words) + 1
    <3>1. ~BadNumber(words, i)
      BY <1>5 DEF Honest, TakesOption, BadNumber
    <3> QED BY <1>1, <2>1, <2>2, <2>3, <3>1, TakenStands
  <2> QED BY <1>1, <1>2, <2>2, <2>4 DEF PartsInv
<1> QED BY <1>2, <1>3, <1>4, <1>5 DEF HelpInv

LEMMA NextHelp == Inv /\ HelpInv /\ [Next]_vars => HelpInv'
<1> SUFFICES ASSUME Inv, HelpInv, [Next]_vars PROVE HelpInv'
  OBVIOUS
<1>1. CASE UNCHANGED vars \/ Step
  BY <1>1, HelpInvUnchanged DEF vars, Step
<1> QED
  BY <1>1, StartHelp, ParseEndHelp, ParseOptionHelp, DumpEndHelp, AbortHelp DEF Next

(* The dumps are the first of those asked for, and all of them in the end. *)
LEMMA FirstOfAll ==
  ASSUME NEW done \in Seq(Dumps), NEW rest \in Seq(Dumps)
  PROVE  Len(done) <= Len(done \o rest) /\ done = SubSeq(done \o rest, 1, Len(done))
<1> DEFINE all == done \o rest
<1>1. /\ all \in Seq(Dumps) /\ Len(all) = Len(done) + Len(rest)
      /\ \A i \in 1 .. Len(done) + Len(rest) :
           all[i] = IF i <= Len(done) THEN done[i] ELSE rest[i - Len(done)]
  BY ConcatProperties
<1> HIDE DEF all
<1>2. Len(done) \in 0 .. Len(all)
  BY <1>1
<1>3. /\ SubSeq(all, 1, Len(done)) \in Seq(Dumps) /\ Len(SubSeq(all, 1, Len(done))) = Len(done)
      /\ \A i \in 1 .. Len(done) : SubSeq(all, 1, Len(done))[i] = all[i]
  BY <1>1, <1>2, PopType
<1>4. \A i \in 1 .. Len(done) : SubSeq(all, 1, Len(done))[i] = done[i]
  BY <1>1, <1>3
<1>5. done = SubSeq(all, 1, Len(done))
  BY <1>3, <1>4, SeqEqual
<1> QED BY <1>2, <1>5 DEF all

LEMMA HelpFollows ==
  ASSUME Inv, HelpInv
  PROVE  HelpHonoured
<1> SUFFICES ASSUME Honest PROVE DoneAsAsked(words)
  BY DEF HelpHonoured, Honest
<1>1. /\ words \in Seq(Words) /\ dumps \in Seq(Dumps) /\ (exit # "running" => pc = "done")
      /\ pc \in {"main", "parse", "dump", "done"} /\ argv \in Seq(Words)
  BY DEF Inv, Types, Stopped, HelpInv
<1>2. ASSUME NEW rest \in Seq(Dumps), Asked(words) = dumps \o rest,
             exit = "0" => rest = <<>> /\ Legal(words)
      PROVE  DoneAsAsked(words)
  <2>1. Len(dumps) <= Len(Asked(words)) /\ dumps = SubSeq(Asked(words), 1, Len(dumps))
    BY <1>1, <1>2, FirstOfAll
  <2>2. exit = "0" => dumps = Asked(words)
    BY <1>1, <1>2, ConcatEmptySeq
  <2> QED BY <1>2, <2>1, <2>2 DEF DoneAsAsked
<1>3. <<>> \in Seq(Dumps) /\ PdbInfo \in Seq(Dumps)
  BY PdbInfoType
<1>4. CASE Whole
  <2>1. Asked(words) = PdbInfo /\ Legal(words) /\ WholeInv
    BY <1>1, <1>4, WholeAsks DEF Whole, Honest, HelpInv
  <2>2. CASE dumps = PdbInfo
    <3>1. PdbInfo = PdbInfo \o <<>>
      BY <1>3, ConcatEmptySeq
    <3> QED BY <1>2, <1>3, <2>1, <2>2, <3>1
  <2>3. CASE dumps = <<>> /\ exit # "0"
    <3>1. PdbInfo = <<>> \o PdbInfo
      BY <1>3, ConcatEmptySeq
    <3> QED BY <1>2, <1>3, <2>1, <2>3, <3>1
  <2> QED BY <1>1, <2>1, <2>2, <2>3 DEF WholeInv
<1>5. CASE ~Whole
  <2> DEFINE f == AskedFrom(words)
  <2>1. Asked(words) = f[1] /\ PartsInv
    BY <1>5 DEF Asked, Whole, HelpInv
  <2>2. \A i \in 1 .. Len(words) + 1 : f[i] \in Seq(Dumps)
    BY <1>1, AskedType
  <2>3. 1 \in 1 .. Len(words) + 1
    BY <1>1
  <2>4. CASE pc = "main"
    <3>1. dumps = <<>> /\ f[1] = <<>> \o f[1]
      BY <2>1, <2>2, <2>3, <2>4, ConcatEmptySeq DEF PartsInv
    <3> QED BY <1>1, <1>2, <2>1, <2>2, <2>3, <2>4, <3>1
  <2>5. CASE pc = "parse"
    <3>1. PICK i \in 1 .. Len(words) + 1 : f[1] = dumps \o f[i]
      BY <2>1, <2>5 DEF PartsInv
    <3> QED BY <1>1, <1>2, <2>1, <2>2, <2>5, <3>1
  <2>6. CASE pc = "dump"
    <3>1. PICK i \in 1 .. Len(words) :
            argv = From(words, i) /\ f[1] = dumps \o f[i + Taken(argv)]
      BY <2>1, <2>6 DEF PartsInv
    <3>2. argv # <<>> /\ argv[1] \in Options /\ Taken(argv) > 0
      BY <2>1, <2>6 DEF PartsInv
    <3>3. words[i] = argv[1] /\ i \in 1 .. Len(words) + 1
      BY <1>1, <3>1, <3>2, FirstWord
    <3>4. ~BadNumber(words, i)
      BY DEF Honest, TakesOption, BadNumber
    <3>5. i + Taken(argv) \in 1 .. Len(words) + 1
      BY <1>1, <3>1, <3>2, <3>3, <3>4, TakenStands
    <3> QED BY <1>1, <1>2, <2>1, <2>2, <2>6, <3>1, <3>5
  <2>7. CASE pc = "done"
    <3>1. PICK i \in 1 .. Len(words) + 1 :
            f[1] = dumps \o f[i] /\ (exit = "0" => f[i] = <<>> /\ Legal(words))
      BY <2>1, <2>7 DEF PartsInv
    <3> QED BY <1>2, <2>1, <2>2, <3>1
  <2> QED BY <1>1, <2>4, <2>5, <2>6, <2>7
<1> QED BY <1>4, <1>5

(* For every command line the dumps run are those the help text promises,  *)
(* each once and in order, and exit status 0 means all of them, of a line  *)
(* the help text has; but on lines with words behind those of -compiland,  *)
(* behind -? or a leading -all, the line of -lsrc, or an option for the    *)
(* number of -n.                                                           *)
THEOREM HelpIsHonoured == Spec => []HelpHonoured
<1>1. Init => Inv /\ HelpInv
  BY InitInv, InitHelp
<1>2. (Inv /\ HelpInv) /\ [Next]_vars => (Inv /\ HelpInv)'
  BY NextInv, NextHelp
<1>3. Inv /\ HelpInv => HelpHonoured
  BY HelpFollows
<1> QED BY <1>1, <1>2, <1>3, PTL DEF Spec
-----------------------------------------------------------------------------
(* While a dump of an option runs, the option and its words are still in   *)
(* front: Rest takes them away only when the dump is over.                 *)
InFront ==
  pc = "dump" /\ argv # <<>> =>
    argv[1] \in Options /\ Taken(argv) > 0

(* An option that takes two words finds two.                               *)
LEMMA CompilandTakesTwo ==
  ASSUME NEW ws \in Seq(Words), ws # <<>>, ws[1] = "-compiland", Taken(ws) > 0
  PROVE  Len(ws) >= 2
<1>1. "-compiland" \notin Flags /\ "-compiland" \notin {"-l", "-injsrc", "-fpo"}
  BY DEF Flags
<1>2. Given(ws, 2)
  BY <1>1 DEF Taken
<1> QED BY <1>2 DEF Given

(* How long a part of a sequence is, when it lies within.                  *)
LEMMA SubSeqLength ==
  ASSUME NEW S, NEW s \in Seq(S), NEW m \in Nat, NEW n \in Nat,
         m >= 1, m <= n + 1, n <= Len(s)
  PROVE  Len(SubSeq(s, m, n)) = n - m + 1
<1>1. \A i \in m .. n : s[i] \in S
  <2> SUFFICES ASSUME NEW i \in m .. n PROVE s[i] \in S
    OBVIOUS
  <2>1. i \in 1 .. Len(s)
    OBVIOUS
  <2> QED BY <2>1
<1>2. Len(SubSeq(s, m, n)) = IF m <= n THEN n - m + 1 ELSE 0
  BY <1>1, SubSeqProperties
<1> QED BY <1>2

(* What is left of the words is shorter, for -compiland too.               *)
LEMMA RestIsShorter ==
  ASSUME NEW ws \in Seq(Words), ws # <<>>, Taken(ws) > 0
  PROVE  Len(Rest(ws, Taken(ws))) < Len(ws)
<1>1. Taken(ws) \in 1 .. Len(ws) /\ Len(ws) \in Nat
  BY TakenIsThere
<1>2. CASE ws[1] = "-compiland"
  <2>1. Len(ws) >= 2
    BY <1>2, CompilandTakesTwo
  <2>2. /\ 1 \in Nat /\ Len(ws) - 2 \in Nat /\ 1 >= 1
        /\ 1 <= Len(ws) - 2 + 1 /\ Len(ws) - 2 <= Len(ws)
    BY <1>1, <2>1
  <2>3. Len(SubSeq(ws, 1, Len(ws) - 2)) = Len(ws) - 2 - 1 + 1
    BY <2>2, SubSeqLength
  <2>4. Len(ws) - 2 - 1 + 1 < Len(ws)
    BY <1>1
  <2> QED BY <1>2, <2>3, <2>4 DEF Rest
<1>3. CASE ws[1] # "-compiland"
  <2>1. /\ Taken(ws) + 1 \in Nat /\ Taken(ws) + 1 >= 1
        /\ Taken(ws) + 1 <= Len(ws) + 1 /\ Len(ws) <= Len(ws)
    BY <1>1
  <2>2. Len(SubSeq(ws, Taken(ws) + 1, Len(ws))) = Len(ws) - (Taken(ws) + 1) + 1
    BY <1>1, <2>1, SubSeqLength
  <2>3. Len(ws) - (Taken(ws) + 1) + 1 < Len(ws)
    BY <1>1
  <2> QED BY <1>3, <2>2, <2>3 DEF Rest
<1> QED BY <1>2, <1>3

(* No step takes them away while the dump runs.                            *)
LEMMA InFrontKept == ASSUME InFront, [Next]_vars PROVE InFront'
<1>1. CASE UNCHANGED vars
  BY <1>1 DEF InFront, vars
<1>2. CASE Start
  BY <1>2 DEF Start, InFront
<1>3. CASE ParseEnd
  BY <1>3 DEF ParseEnd, End, InFront
<1>4. CASE ParseOption
  BY <1>4 DEF ParseOption, InFront
<1>5. CASE Step
  BY <1>5 DEF Step, InFront
<1>6. CASE DumpEnd
  BY <1>6 DEF DumpEnd, End, InFront
<1>7. CASE Abort
  BY <1>7 DEF Abort, InFront
<1> QED BY <1>1, <1>2, <1>3, <1>4, <1>5, <1>6, <1>7 DEF Next

(* A word at which an option must stand, whatever way the line is cut.     *)
Needed(ws, i) ==
  \A starts \in SUBSET (1 .. Len(ws) + 1) : 1 \in starts /\ Follows(ws, starts) => i \in starts

Parsing == pc = "parse" \/ (pc = "dump" /\ argv # <<>>)

LineInv ==
  /\ FailsForCause
  /\ Parsing => ~Whole
  /\ Parsing /\ Legal(words) /\ ~RereadsCompiland(words) =>
       \E i \in 1 .. Len(words) + 1 : argv = From(words, i) /\ Needed(words, i)

(* On a line of the help text an option stands there, and ParseArg takes   *)
(* its words and the next option follows, unless a name is wanting.        *)
LEMMA NeededStands ==
  ASSUME NEW ws \in Seq(Words), NEW i \in 1 .. Len(ws), Legal(ws), Needed(ws, i)
  PROVE  /\ StandsAt(ws, i) /\ ~BadNumber(ws, i)
         /\ Needed(ws, i + HelpTaken(ws, i))
<1>1. PICK starts \in SUBSET (1 .. Len(ws) + 1) : 1 \in starts /\ Follows(ws, starts)
  BY DEF Legal
<1>2. i \in starts
  BY <1>1 DEF Needed
<1>3. StandsAt(ws, i) /\ i + HelpTaken(ws, i) \in starts
  BY <1>1, <1>2 DEF Follows
<1>4. ASSUME BadNumber(ws, i) PROVE FALSE
  <2>1. /\ ws[i] \in {"-ps", "-psr"} /\ i + 2 \in 1 .. Len(ws) /\ ws[i + 2] = "-n"
        /\ ~Given(ws, i + 3)
    BY <1>4 DEF BadNumber, Numbered
  <2>2. HelpTaken(ws, i) = 2
    BY <1>3, <2>1, HelpTakenIs
  <2>3. StandsAt(ws, i + 2)
    BY <1>1, <1>3, <2>1, <2>2 DEF Follows
  <2> QED BY <2>1, <2>3 DEF StandsAt, HelpOptions, Options, Flags
<1>5. Needed(ws, i + HelpTaken(ws, i))
  <2> SUFFICES ASSUME NEW any \in SUBSET (1 .. Len(ws) + 1), 1 \in any, Follows(ws, any)
               PROVE  i + HelpTaken(ws, i) \in any
    BY DEF Needed
  <2>1. i \in any
    BY DEF Needed
  <2> QED BY <2>1 DEF Follows
<1> QED BY <1>3, <1>4, <1>5

(* What ParseArg refuses is no line of the help text, or one of the known. *)
LEMMA RefusedForCause ==
  ASSUME Inv, LineInv, pc = "parse", argv # <<>>, Legal(words), ~RereadsCompiland(words),
         \/ argv[1] \notin Options \cup {"-?"}
         \/ argv[1] \in Options /\ Taken(argv) = 0
  PROVE  WantsName(words) \/ RefusesAll(words)
<1>1. words \in Seq(Words) /\ ~Whole
  BY DEF Inv, Types, LineInv, Parsing
<1>2. PICK i \in 1 .. Len(words) + 1 : argv = From(words, i) /\ Needed(words, i)
  BY DEF LineInv, Parsing
<1>3. i \in 1 .. Len(words) /\ argv[1] = words[i]
  BY <1>1, <1>2, FirstWord
<1>4. StandsAt(words, i) /\ ~BadNumber(words, i)
  BY <1>1, <1>2, <1>3, NeededStands
<1>5. CASE argv[1] \notin Options \cup {"-?"}
  <2>1. words[i] = "-all"
    BY <1>3, <1>4, <1>5 DEF StandsAt, HelpOptions
  <2>2. i # 1
    BY <1>1, <2>1 DEF Whole
  <2> QED BY <1>3, <2>1, <2>2 DEF RefusesAll
<1>6. CASE argv[1] \in Options /\ Taken(argv) = 0
  <2>1. HelpTaken(words, i) \in 1 .. 4
    BY <1>1, <1>2, <1>4, HelpTakenFits
  <2>2. NoName(words, i)
    BY <1>1, <1>2, <1>3, <1>4, <1>6, <2>1, TakenIs
  <2> QED BY <1>3, <2>2 DEF NoName, WantsName
<1> QED BY <1>5, <1>6

(* The program ends with -1 only for a cause.                              *)
LEMMA EndsForCause ==
  ASSUME Inv, LineInv, [Next]_vars
  PROVE  FailsForCause'
<1> SUFFICES ASSUME exit' = "-1", ~missed', Legal(words'), ~RereadsCompiland(words')
             PROVE  WantsName(words') \/ RefusesAll(words')
  BY DEF FailsForCause
<1>1. words' = words
  BY DEF Next, Start, ParseEnd, ParseOption, Step, DumpEnd, Abort, End, vars
<1>2. CASE exit' = exit
  <2>1. pc = "done"
    BY <1>2 DEF Inv, Stopped
  <2>2. UNCHANGED vars
    BY <2>1 DEF Next, Start, ParseEnd, ParseOption, Step, DumpEnd, Abort
  <2>3. missed' = missed
    BY <2>2 DEF vars, walkVars
  <2> QED BY <1>1, <1>2, <2>3 DEF LineInv, FailsForCause
<1>3. CASE Start
  BY <1>2, <1>3 DEF Start
<1>4. CASE ParseEnd
  <2>1. /\ pc = "parse" /\ argv # <<>>
        /\ \/ argv[1] \notin Options \cup {"-?"}
           \/ argv[1] \in Options /\ Taken(argv) = 0
    BY <1>4 DEF ParseEnd, End
  <2> QED BY <1>1, <2>1, RefusedForCause
<1>5. CASE DumpEnd
  <2>1. (End("-1") /\ ~result) \/ exit' = exit \/ exit' = "0"
    BY <1>5 DEF DumpEnd, End
  <2>2. End("-1") => missed' = missed
    BY DEF End, walkVars
  <2> QED BY <1>2, <2>1, <2>2 DEF Inv, Blamed
<1>6. CASE ParseOption \/ Step \/ Abort
  BY <1>2, <1>6 DEF ParseOption, Step, Abort
<1>7. CASE UNCHANGED vars
  BY <1>2, <1>7 DEF vars
<1> QED BY <1>3, <1>4, <1>5, <1>6, <1>7 DEF Next

LEMMA InitLine == Init => LineInv
  BY DEF Init, LineInv, FailsForCause, Parsing

LEMMA NextLine ==
  ASSUME Inv, InFront, LineInv, [Next]_vars
  PROVE  LineInv'
<1>1. words \in Seq(Words) /\ argv \in Seq(Words)
  BY DEF Inv, Types
<1>2. words' = words
  BY DEF Next, Start, ParseEnd, ParseOption, Step, DumpEnd, Abort, End, vars
<1>3. FailsForCause'
  BY EndsForCause
<1>4. CASE argv' = argv /\ Parsing
  BY <1>2, <1>3, <1>4 DEF LineInv, Whole
<1>5. CASE ~Parsing'
  BY <1>3, <1>5 DEF LineInv
<1>6. CASE Start
  <2>1. SUFFICES ASSUME argv' = words, ~Whole PROVE LineInv'
    BY <1>5, <1>6 DEF Start, Whole, Parsing
  <2>2. From(words, 1) = words /\ 1 \in 1 .. Len(words) + 1
    BY <1>1 DEF From
  <2>3. Needed(words, 1)
    BY DEF Needed
  <2> QED BY <1>2, <1>3, <2>1, <2>2, <2>3 DEF LineInv, Whole
<1>7. CASE DumpEnd
  <2>1. SUFFICES ASSUME argv # <<>>, argv' = Rest(argv, Taken(argv)), pc = "dump" PROVE LineInv'
    BY <1>5, <1>7 DEF DumpEnd, End, Parsing
  <2>2. argv[1] \in Options /\ Taken(argv) > 0 /\ ~Whole
    BY <2>1 DEF InFront, LineInv, Parsing
  <2>3. ASSUME Legal(words), ~RereadsCompiland(words)
        PROVE  \E i \in 1 .. Len(words) + 1 : argv' = From(words, i) /\ Needed(words, i)
    <3>1. PICK i \in 1 .. Len(words) + 1 : argv = From(words, i) /\ Needed(words, i)
      BY <2>1, <2>3 DEF LineInv, Parsing
    <3>2. i \in 1 .. Len(words) /\ argv[1] = words[i]
      BY <1>1, <2>1, <3>1, FirstWord
    <3>3. /\ StandsAt(words, i) /\ ~BadNumber(words, i)
          /\ Needed(words, i + HelpTaken(words, i))
      BY <1>1, <2>3, <3>1, <3>2, NeededStands
    <3>4. Taken(argv) = HelpTaken(words, i) /\ i + Taken(argv) \in 1 .. Len(words) + 1
      BY <1>1, <2>2, <3>1, <3>2, <3>3, TakenStands
    <3>5. argv' = From(words, i + Taken(argv))
      BY <1>1, <2>1, <2>2, <2>3, <3>1, <3>2, <3>3, RestIsFrom
    <3> QED BY <3>3, <3>4, <3>5
  <2> QED BY <1>2, <1>3, <2>2, <2>3 DEF LineInv, Whole
<1>8. CASE ParseEnd \/ Abort
  BY <1>5, <1>8 DEF ParseEnd, Abort, End, Parsing
<1>9. CASE ParseOption
  BY <1>4, <1>9 DEF ParseOption, Parsing
<1>10. CASE Step \/ UNCHANGED vars
  <2>1. argv' = argv /\ pc' = pc
    BY <1>10 DEF Step, vars
  <2> QED BY <1>4, <1>5, <2>1 DEF Parsing
<1> QED BY <1>6, <1>7, <1>8, <1>9, <1>10 DEF Next

(* A status of -1 has a cause, for every command line: a call of DIA       *)
(* failed, the words are no command line by the help text, or they are of  *)
(* those that ParseArg is known to misread or refuse.                      *)
THEOREM FailuresHaveCause == Spec => []FailsForCause
<1>1. Init => Inv /\ InFront /\ LineInv
  BY InitInv, InitLine DEF Init, InFront
<1>2. (Inv /\ InFront /\ LineInv) /\ [Next]_vars => (Inv /\ InFront /\ LineInv)'
  BY NextInv, InFrontKept, NextLine
<1>3. Inv /\ InFront /\ LineInv => FailsForCause
  BY DEF LineInv
<1> QED BY <1>1, <1>2, <1>3, PTL DEF Spec

(* ParseArg goes back to the command line with fewer words than it had,    *)
(* and nothing gives a word back, whatever was given and whatever the dump *)
(* did: it cannot parse forever.                                           *)
THEOREM OptionsAreConsumed ==
  Spec => [][pc # "main" => \/ argv' = argv /\ ~(pc = "dump" /\ pc' = "parse")
                            \/ Len(argv') < Len(argv)]_vars
<1>1. Init => InFront
  BY DEF Init, InFront
<1>2. InFront /\ [Next]_vars => InFront'
  BY InFrontKept
<1>3. Inv /\ InFront /\ [Next]_vars
        => [pc # "main" => \/ argv' = argv /\ ~(pc = "dump" /\ pc' = "parse")
                           \/ Len(argv') < Len(argv)]_vars
  <2> SUFFICES ASSUME Inv, InFront, Next, pc # "main"
               PROVE  \/ argv' = argv /\ ~(pc = "dump" /\ pc' = "parse")
                      \/ Len(argv') < Len(argv)
    OBVIOUS
  <2>1. CASE ParseEnd \/ ParseOption \/ Step \/ Abort
    BY <2>1 DEF ParseEnd, ParseOption, Step, Abort, End
  <2>2. CASE DumpEnd
    <3>1. CASE argv' = argv /\ pc' = "done"
      BY <3>1
    <3>2. CASE argv # <<>> /\ argv' = Rest(argv, Taken(argv))
      <4>1. argv \in Seq(Words) /\ Taken(argv) > 0
        BY <2>2, <3>2 DEF Inv, Types, InFront, DumpEnd
      <4> QED BY <3>2, <4>1, RestIsShorter
    <3> QED BY <2>2, <3>1, <3>2 DEF DumpEnd, End
  <2> QED BY <2>1, <2>2 DEF Next, Start
<1> QED BY <1>1, <1>2, <1>3, AlwaysInv, PTL DEF Spec
=============================================================================
