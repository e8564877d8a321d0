----------------------------- MODULE TextProofs -----------------------------
(***************************************************************************)
(* The conversions of Text, for every set of letters, every width of them, *)
(* texts and buffers of every length: types, that a text keeps saying what *)
(* it said, that nothing is written past its buffer, what stops the        *)
(* program over a wide text, and that the room asked for is enough.        *)
(*                                                                         *)
(* What FlattenSeq makes of a sequence is proved from its definition: its  *)
(* equations for the empty and for a longer sequence come first.           *)
(***************************************************************************)
EXTENDS Text, WellFoundedInduction, SequenceTheorems, TLAPS

-----------------------------------------------------------------------------
(* Numbers and sequences                                                   *)

(* A set of numbers that is not empty has a least one.                     *)
LEMMA LeastNumber ==
  ASSUME NEW T, T \subseteq Nat, T # {}
  PROVE  \E x \in T : \A y \in T : x <= y
<1>1. PICK x \in T : \A y \in T : <<y, x>> \notin OpToRel(<, Nat)
  BY WFMin, NatLessThanWellFounded, Zenon
<1>2. \A y \in T : ~(y < x)
  <2> TAKE y \in T
  <2>1. <<y, x>> \in Nat \X Nat
    OBVIOUS
  <2>2. y < x => <<y, x>> \in OpToRel(<, Nat)
    BY <2>1 DEF OpToRel
  <2> QED BY <1>1, <2>2
<1> QED BY <1>2

(* Induction, on the set of the numbers that have a property.              *)
LEMMA AllNumbers ==
  ASSUME NEW S, 0 \in S, \A n \in Nat : n \in S => n + 1 \in S
  PROVE  \A n \in Nat : n \in S
<1> DEFINE T == Nat \ S
<1> SUFFICES ASSUME T # {} PROVE FALSE
  OBVIOUS
<1>1. PICK x \in T : \A y \in T : x <= y
  <2>1. T \subseteq Nat
    OBVIOUS
  <2> HIDE DEF T
  <2> QED BY <2>1, LeastNumber
<1>2. x - 1 \in Nat /\ ~(x <= x - 1) /\ x - 1 + 1 = x
  BY <1>1
<1> QED BY <1>1, <1>2

(* A longer sequence is one with an element more.                          *)
LEMMA LastElement ==
  ASSUME NEW X, NEW s \in Seq(X), NEW n \in Nat, Len(s) = n + 1
  PROVE  /\ SubSeq(s, 1, n) \in Seq(X) /\ Len(SubSeq(s, 1, n)) = n
         /\ s[n + 1] \in X
         /\ s = Append(SubSeq(s, 1, n), s[n + 1])
<1>1. n + 1 \in 1 .. Len(s)
  OBVIOUS
<1>2. s[n + 1] \in X
  BY <1>1
<1>3. SubSeq(s, 1, n) \in Seq(X) /\ Len(SubSeq(s, 1, n)) = n
  BY SMT
<1>4. Append(SubSeq(s, 1, n), s[n + 1]) \in Seq(X)
  BY <1>2, <1>3
<1>5. \A k \in 1 .. n + 1 : Append(SubSeq(s, 1, n), s[n + 1])[k] = s[k]
  BY <1>3
<1>6. Len(Append(SubSeq(s, 1, n), s[n + 1])) = n + 1
  BY <1>3
<1> QED BY <1>2, <1>3, <1>4, <1>5, <1>6, SeqEqual

(* Concatenation, of which only what these lemmas say is used below.       *)
s ++ t == s \o t

LEMMA CatType ==
  ASSUME NEW X, NEW s \in Seq(X), NEW t \in Seq(X)
  PROVE  s ++ t \in Seq(X) /\ Len(s ++ t) = Len(s) + Len(t)
BY DEF ++

LEMMA CatAt ==
  ASSUME NEW X, NEW s \in Seq(X), NEW t \in Seq(X), NEW p \in 1 .. Len(s) + Len(t)
  PROVE  (s ++ t)[p] = IF p <= Len(s) THEN s[p] ELSE t[p - Len(s)]
BY DEF ++

LEMMA CatEmpty ==
  ASSUME NEW X, NEW s \in Seq(X)
  PROVE  s ++ <<>> = s /\ <<>> ++ s = s
BY ConcatEmptySeq DEF ++

LEMMA CatAssociative ==
  ASSUME NEW X, NEW s \in Seq(X), NEW t \in Seq(X), NEW u \in Seq(X)
  PROVE  (s ++ t) ++ u = s ++ (t ++ u)
BY ConcatAssociative DEF ++

LEMMA CatAppend ==
  ASSUME NEW X, NEW s \in Seq(X), NEW t \in Seq(X), NEW x \in X
  PROVE  s ++ Append(t, x) = Append(s ++ t, x)
BY DEF ++

-----------------------------------------------------------------------------
(* FlattenSeq is a recursive function: there is one with its equation, and *)
(* on a common prefix only one.                                            *)
Flat(ss, f, n) == f = [i \in 1 .. n |-> IF i = 1 THEN ss[i] ELSE f[i - 1] ++ ss[i]]

LEMMA FlatAt ==
  ASSUME NEW ss, NEW f, NEW n \in Nat, Flat(ss, f, n), NEW i \in 1 .. n
  PROVE  f[i] = IF i = 1 THEN ss[i] ELSE f[i - 1] ++ ss[i]
BY DEF Flat

LEMMA FlatExists ==
  ASSUME NEW ss, NEW n \in Nat
  PROVE  \E f : Flat(ss, f, n)
<1> DEFINE S == {k \in Nat : \E f : Flat(ss, f, k)}
<1>1. 0 \in S
  <2>1. Flat(ss, <<>>, 0)
    BY DEF Flat
  <2> QED BY <2>1
<1>2. ASSUME NEW k \in Nat, k \in S
      PROVE  k + 1 \in S
  <2>1. PICK f : Flat(ss, f, k)
    BY <1>2
  <2> DEFINE g == [i \in 1 .. k + 1 |-> IF i = 1 THEN ss[i] ELSE f[i - 1] ++ ss[i]]
  <2>2. \A i \in 1 .. k : g[i] = f[i]
    BY <2>1, FlatAt
  <2>3. \A i \in 1 .. k + 1 : i = 1 \/ i - 1 \in 1 .. k
    OBVIOUS
  <2>4. \A i \in 1 .. k + 1 : i # 1 => g[i - 1] = f[i - 1]
    BY <2>2, <2>3
  <2>5. Flat(ss, g, k + 1)
    BY <2>4 DEF Flat
  <2> HIDE DEF g
  <2> QED BY <2>5
<1>3. \A k \in Nat : k \in S
  <2> HIDE DEF S
  <2> QED BY <1>1, <1>2, AllNumbers
<1> QED BY <1>3

(* What is flattened of the first k sequences.                             *)
FlatTo(ss, k) == (CHOOSE f : Flat(ss, f, Len(ss)))[k]

LEMMA FlatToIs ==
  ASSUME NEW X, NEW ss \in Seq(X), NEW k \in 1 .. Len(ss)
  PROVE  FlatTo(ss, k) = IF k = 1 THEN ss[1] ELSE FlatTo(ss, k - 1) ++ ss[k]
<1> DEFINE c == CHOOSE f : Flat(ss, f, Len(ss))
<1>1. Len(ss) \in Nat
  OBVIOUS
<1>2. Flat(ss, c, Len(ss))
  BY <1>1, FlatExists
<1>3. c[k] = IF k = 1 THEN ss[k] ELSE c[k - 1] ++ ss[k]
  <2> HIDE DEF c
  <2> QED BY <1>1, <1>2, FlatAt
<1> QED BY <1>3 DEF FlatTo

LEMMA FlattenIs ==
  ASSUME NEW X, NEW ss \in Seq(X), ss # <<>>
  PROVE  FlattenSeq(ss) = FlatTo(ss, Len(ss))
<1>1. Len(ss) # 0
  OBVIOUS
<1> QED BY <1>1 DEF FlattenSeq, FlatTo, Flat, ++

LEMMA FlatToAgrees ==
  ASSUME NEW X, NEW ss \in Seq(X), NEW tt \in Seq(X), Len(ss) <= Len(tt),
         \A k \in 1 .. Len(ss) : tt[k] = ss[k]
  PROVE  \A k \in 1 .. Len(ss) : FlatTo(tt, k) = FlatTo(ss, k)
<1> DEFINE S == {k \in Nat : k \in 1 .. Len(ss) => FlatTo(tt, k) = FlatTo(ss, k)}
<1>1. 0 \in S
  OBVIOUS
<1>2. ASSUME NEW k \in Nat, k \in S
      PROVE  k + 1 \in S
  <2> SUFFICES ASSUME k + 1 \in 1 .. Len(ss) PROVE FlatTo(tt, k + 1) = FlatTo(ss, k + 1)
    OBVIOUS
  <2>1. k + 1 \in 1 .. Len(tt) /\ k + 1 - 1 = k /\ tt[k + 1] = ss[k + 1]
    OBVIOUS
  <2>2. FlatTo(ss, k + 1) = IF k + 1 = 1 THEN ss[1] ELSE FlatTo(ss, k) ++ ss[k + 1]
    BY <2>1, FlatToIs
  <2>3. FlatTo(tt, k + 1) = IF k + 1 = 1 THEN tt[1] ELSE FlatTo(tt, k) ++ tt[k + 1]
    BY <2>1, FlatToIs
  <2>4. CASE k = 0
    BY <2>1, <2>2, <2>3, <2>4
  <2>5. CASE k # 0
    <3>1. FlatTo(tt, k) = FlatTo(ss, k) /\ k + 1 # 1
      BY <1>2, <2>5
    <3> QED BY <2>1, <2>2, <2>3, <3>1
  <2> QED BY <2>4, <2>5
<1>3. \A k \in Nat : k \in S
  <2> HIDE DEF S
  <2> QED BY <1>1, <1>2, AllNumbers
<1> QED BY <1>3

(* The two equations of FlattenSeq, and its type.                          *)
LEMMA FlattenEmpty == FlattenSeq(<<>>) = <<>>
BY DEF FlattenSeq

LEMMA FlattenAppend ==
  ASSUME NEW X, NEW ss \in Seq(Seq(X)), NEW s \in Seq(X)
  PROVE  FlattenSeq(Append(ss, s)) = FlattenSeq(ss) ++ s
<1> DEFINE tt == Append(ss, s)
           n == Len(ss)
<1>1. /\ tt \in Seq(Seq(X)) /\ tt # <<>> /\ Len(tt) = n + 1 /\ n \in Nat /\ tt[n + 1] = s
      /\ \A i \in 1 .. n : tt[i] = ss[i]
  BY AppendProperties
<1> HIDE DEF tt
<1>2. FlattenSeq(tt) = FlatTo(tt, n + 1)
  BY <1>1, FlattenIs
<1>3. n + 1 \in 1 .. Len(tt) /\ n + 1 - 1 = n
  BY <1>1
<1>4. FlatTo(tt, n + 1) = IF n + 1 = 1 THEN tt[1] ELSE FlatTo(tt, n) ++ tt[n + 1]
  BY <1>1, <1>3, FlatToIs
<1>5. CASE ss = <<>>
  <2>1. FlattenSeq(tt) = s
    BY <1>1, <1>2, <1>4, <1>5
  <2>2. FlattenSeq(ss) ++ s = s
    BY <1>5, FlattenEmpty, CatEmpty
  <2> QED BY <2>1, <2>2 DEF tt
<1>6. CASE ss # <<>>
  <2>1. FlattenSeq(ss) = FlatTo(ss, n)
    BY <1>6, FlattenIs
  <2>2. n # 0 /\ n \in 1 .. n /\ n + 1 # 1
    BY <1>1, <1>6
  <2>3. FlatTo(tt, n) = FlatTo(ss, n)
    <3>1. Len(ss) <= Len(tt) /\ tt \in Seq(Seq(X))
      BY <1>1
    <3>2. \A i \in 1 .. Len(ss) : tt[i] = ss[i]
      BY <1>1
    <3>3. \A i \in 1 .. Len(ss) : FlatTo(tt, i) = FlatTo(ss, i)
      BY <3>1, <3>2, FlatToAgrees
    <3> QED BY <2>2, <3>3
  <2>4. FlattenSeq(tt) = FlattenSeq(ss) ++ s
    BY <1>1, <1>2, <1>4, <2>1, <2>2, <2>3
  <2> QED BY <2>4 DEF tt
<1> QED BY <1>5, <1>6

LEMMA FlattenType ==
  ASSUME NEW X, NEW ss \in Seq(Seq(X))
  PROVE  FlattenSeq(ss) \in Seq(X)
<1> DEFINE S == {n \in Nat : \A tt \in Seq(Seq(X)) : Len(tt) = n => FlattenSeq(tt) \in Seq(X)}
<1>1. 0 \in S
  <2>1. \A tt \in Seq(Seq(X)) : Len(tt) = 0 => tt = <<>>
    OBVIOUS
  <2>2. <<>> \in Seq(X)
    OBVIOUS
  <2> QED BY <2>1, <2>2, FlattenEmpty
<1>2. ASSUME NEW n \in Nat, n \in S
      PROVE  n + 1 \in S
  <2> SUFFICES ASSUME NEW tt \in Seq(Seq(X)), Len(tt) = n + 1
               PROVE  FlattenSeq(tt) \in Seq(X)
    OBVIOUS
  <2> DEFINE uu == SubSeq(tt, 1, n)
  <2>1. uu \in Seq(Seq(X)) /\ Len(uu) = n /\ tt[n + 1] \in Seq(X) /\ tt = Append(uu, tt[n + 1])
    BY LastElement
  <2> HIDE DEF uu
  <2>2. FlattenSeq(tt) = FlattenSeq(uu) ++ tt[n + 1]
    BY <2>1, FlattenAppend
  <2>3. FlattenSeq(uu) \in Seq(X)
    BY <1>2, <2>1
  <2> QED BY <2>1, <2>2, <2>3, CatType
<1>3. \A n \in Nat : n \in S
  <2> HIDE DEF S
  <2> QED BY <1>1, <1>2, AllNumbers
<1> QED BY <1>3

LEMMA FlattenConcat ==
  ASSUME NEW X, NEW ss \in Seq(Seq(X)), NEW tt \in Seq(Seq(X))
  PROVE  FlattenSeq(ss ++ tt) = FlattenSeq(ss) ++ FlattenSeq(tt)
<1> DEFINE S == {n \in Nat : \A uu \in Seq(Seq(X)) :
                   Len(uu) = n => FlattenSeq(ss ++ uu) = FlattenSeq(ss) ++ FlattenSeq(uu)}
<1>1. 0 \in S
  <2>1. \A uu \in Seq(Seq(X)) : Len(uu) = 0 => uu = <<>>
    OBVIOUS
  <2>2. ss ++ <<>> = ss
    BY CatEmpty
  <2>3. FlattenSeq(ss) ++ <<>> = FlattenSeq(ss)
    BY FlattenType, CatEmpty
  <2> QED BY <2>1, <2>2, <2>3, FlattenEmpty
<1>2. ASSUME NEW n \in Nat, n \in S
      PROVE  n + 1 \in S
  <2> SUFFICES ASSUME NEW uu \in Seq(Seq(X)), Len(uu) = n + 1
               PROVE  FlattenSeq(ss ++ uu) = FlattenSeq(ss) ++ FlattenSeq(uu)
    OBVIOUS
  <2> HIDE DEF S
  <2> DEFINE vv == SubSeq(uu, 1, n)
             v == uu[n + 1]
  <2>1. vv \in Seq(Seq(X)) /\ Len(vv) = n /\ v \in Seq(X) /\ uu = Append(vv, v)
    BY LastElement
  <2> HIDE DEF vv, v
  <2>2. ss ++ uu = Append(ss ++ vv, v) /\ ss ++ vv \in Seq(Seq(X))
    BY <2>1, CatAppend, CatType
  <2>3. FlattenSeq(ss ++ uu) = FlattenSeq(ss ++ vv) ++ v
    BY <2>1, <2>2, FlattenAppend
  <2>4. FlattenSeq(ss ++ vv) = FlattenSeq(ss) ++ FlattenSeq(vv)
    BY <1>2, <2>1 DEF S
  <2>5. FlattenSeq(uu) = FlattenSeq(vv) ++ v
    BY <2>1, FlattenAppend
  <2>6. FlattenSeq(ss) \in Seq(X) /\ FlattenSeq(vv) \in Seq(X)
    BY <2>1, FlattenType
  <2>7. (FlattenSeq(ss) ++ FlattenSeq(vv)) ++ v = FlattenSeq(ss) ++ (FlattenSeq(vv) ++ v)
    BY <2>1, <2>6, CatAssociative
  <2> QED BY <2>1, <2>3, <2>4, <2>5, <2>6, <2>7
<1>3. \A n \in Nat : n \in S
  <2> HIDE DEF S
  <2> QED BY <1>1, <1>2, AllNumbers
<1> QED BY <1>3

-----------------------------------------------------------------------------
(* Encoding and decoding                                                   *)
LetterUnits == {<<c, i>> : c \in Letters, i \in 1 .. 4}

Run(e, c) == [i \in 1 .. Width(e, c) |-> <<c, i>>]

Runs(e, cs) == [k \in DOMAIN cs |-> Run(e, cs[k])]

Heads(us) == [p \in DOMAIN us |-> IF us[p][2] = 1 THEN <<us[p][1]>> ELSE <<>>]

LEMMA EncodeIs ==
  ASSUME NEW e, NEW cs
  PROVE  Encode(e, cs) = FlattenSeq(Runs(e, cs))
BY DEF Encode, Runs, Run

LEMMA DecodeIs ==
  ASSUME NEW us
  PROVE  Decode(us) = FlattenSeq(Heads(us))
BY DEF Decode, Heads

LEMMA WidthType ==
  ASSUME NEW e, NEW c \in Letters
  PROVE  Width(e, c) \in 1 .. 4 /\ Width("utf16", c) \in 1 .. 2
BY TextAssumption DEF Width

LEMMA RunType ==
  ASSUME NEW e, NEW c \in Letters
  PROVE  /\ Run(e, c) \in Seq(LetterUnits) /\ Len(Run(e, c)) = Width(e, c)
         /\ Width(e, c) \in 1 .. 4
<1>1. Width(e, c) \in 1 .. 4
  BY WidthType
<1>2. \A i \in 1 .. Width(e, c) : <<c, i>> \in LetterUnits
  BY <1>1 DEF LetterUnits
<1>3. Run(e, c) \in [1 .. Width(e, c) -> LetterUnits]
  BY <1>2 DEF Run
<1> HIDE DEF LetterUnits
<1> QED BY <1>1, <1>3

LEMMA RunsType ==
  ASSUME NEW e, NEW cs \in Seq(Letters)
  PROVE  Runs(e, cs) \in Seq(Seq(LetterUnits)) /\ Len(Runs(e, cs)) = Len(cs)
<1>1. DOMAIN cs = 1 .. Len(cs) /\ Len(cs) \in Nat
  OBVIOUS
<1>2. \A k \in 1 .. Len(cs) : Run(e, cs[k]) \in Seq(LetterUnits)
  <2> TAKE k \in 1 .. Len(cs)
  <2>1. cs[k] \in Letters
    OBVIOUS
  <2> QED BY <2>1, RunType
<1>3. Runs(e, cs) \in [1 .. Len(cs) -> Seq(LetterUnits)]
  BY <1>1, <1>2 DEF Runs
<1> DEFINE X == Seq(LetterUnits)
<1>4. Runs(e, cs) \in [1 .. Len(cs) -> X]
  BY <1>3
<1> HIDE DEF X
<1>5. Runs(e, cs) \in Seq(X) /\ Len(Runs(e, cs)) = Len(cs)
  BY <1>1, <1>4
<1> QED BY <1>5 DEF X

LEMMA EncodeType ==
  ASSUME NEW e, NEW cs \in Seq(Letters)
  PROVE  Encode(e, cs) \in Seq(LetterUnits)
BY EncodeIs, RunsType, FlattenType

LEMMA EncodeEmpty ==
  ASSUME NEW e
  PROVE  Encode(e, <<>>) = <<>>
<1>1. Runs(e, <<>>) = <<>>
  BY DEF Runs
<1> QED BY <1>1, EncodeIs, FlattenEmpty

LEMMA EncodeAppend ==
  ASSUME NEW e, NEW cs \in Seq(Letters), NEW c \in Letters
  PROVE  Encode(e, Append(cs, c)) = Encode(e, cs) ++ Run(e, c)
<1>1. Append(cs, c) \in Seq(Letters) /\ Len(Append(cs, c)) = Len(cs) + 1
  OBVIOUS
<1>2. /\ Runs(e, cs) \in Seq(Seq(LetterUnits)) /\ Len(Runs(e, cs)) = Len(cs)
      /\ Runs(e, Append(cs, c)) \in Seq(Seq(LetterUnits))
      /\ Len(Runs(e, Append(cs, c))) = Len(cs) + 1
  BY <1>1, RunsType
<1>3. Run(e, c) \in Seq(LetterUnits)
  BY RunType
<1>4. Runs(e, Append(cs, c)) = Append(Runs(e, cs), Run(e, c))
  <2> DEFINE r == Runs(e, Append(cs, c))
             s == Append(Runs(e, cs), Run(e, c))
  <2>1. s \in Seq(Seq(LetterUnits)) /\ Len(s) = Len(cs) + 1
    BY <1>2, <1>3
  <2>2. \A k \in 1 .. Len(cs) + 1 : r[k] = Run(e, Append(cs, c)[k])
    BY <1>1 DEF Runs
  <2>3. \A k \in 1 .. Len(cs) + 1 :
          s[k] = IF k = Len(cs) + 1 THEN Run(e, c) ELSE Runs(e, cs)[k]
    BY <1>2
  <2>4. \A k \in 1 .. Len(cs) : Runs(e, cs)[k] = Run(e, cs[k])
    BY DEF Runs
  <2>5. \A k \in 1 .. Len(cs) + 1 :
          Append(cs, c)[k] = IF k = Len(cs) + 1 THEN c ELSE cs[k]
    OBVIOUS
  <2>6. \A k \in 1 .. Len(cs) + 1 : r[k] = s[k]
    <3> HIDE DEF r, s
    <3> TAKE k \in 1 .. Len(cs) + 1
    <3>1. k = Len(cs) + 1 \/ k \in 1 .. Len(cs)
      OBVIOUS
    <3> QED BY <2>2, <2>3, <2>4, <2>5, <3>1
  <2>7. r \in Seq(Seq(LetterUnits)) /\ Len(r) = Len(cs) + 1
    BY <1>2
  <2> HIDE DEF r, s
  <2>8. r = s
    BY <2>1, <2>6, <2>7, SeqEqual
  <2> QED BY <2>8 DEF r, s
<1> QED BY <1>2, <1>3, <1>4, FlattenAppend, EncodeIs

LEMMA EncodeLength ==
  ASSUME NEW e, NEW cs \in Seq(Letters)
  PROVE  Encode(e, cs) = <<>> <=> cs = <<>>
<1>1. CASE cs = <<>>
  BY <1>1, EncodeEmpty
<1>2. CASE cs # <<>>
  <2> DEFINE n == Len(cs) - 1
             ds == SubSeq(cs, 1, n)
             c == cs[n + 1]
  <2>1. n \in Nat /\ Len(cs) = n + 1
    BY <1>2
  <2> HIDE DEF n
  <2>2. ds \in Seq(Letters) /\ c \in Letters /\ cs = Append(ds, c)
    BY <2>1, LastElement
  <2> HIDE DEF ds, c
  <2>3. Encode(e, cs) = Encode(e, ds) ++ Run(e, c)
    BY <2>2, EncodeAppend
  <2>4. Encode(e, ds) \in Seq(LetterUnits) /\ Run(e, c) \in Seq(LetterUnits)
        /\ Len(Run(e, c)) \in 1 .. 4
    BY <2>2, EncodeType, RunType
  <2>5. Len(Encode(e, cs)) = Len(Encode(e, ds)) + Len(Run(e, c))
    BY <2>3, <2>4, CatType
  <2>6. PICK a \in Nat, b \in 1 .. 4 : Len(Encode(e, cs)) = a + b
    <3>1. Len(Encode(e, ds)) \in Nat
      BY <2>4
    <3> QED BY <2>4, <2>5, <3>1
  <2>7. Len(Encode(e, cs)) # 0
    BY <2>6
  <2> QED BY <1>2, <2>7
<1> QED BY <1>1, <1>2

LEMMA HeadsType ==
  ASSUME NEW us \in Seq(LetterUnits)
  PROVE  Heads(us) \in Seq(Seq(Letters)) /\ Len(Heads(us)) = Len(us)
<1> DEFINE X == Seq(Letters)
<1>1. DOMAIN us = 1 .. Len(us) /\ Len(us) \in Nat
  OBVIOUS
<1>2. \A p \in 1 .. Len(us) : us[p][1] \in Letters
  <2> TAKE p \in 1 .. Len(us)
  <2>1. us[p] \in LetterUnits
    OBVIOUS
  <2> QED BY <2>1 DEF LetterUnits
<1>3. \A p \in 1 .. Len(us) : <<us[p][1]>> \in X /\ <<>> \in X
  BY <1>2
<1> HIDE DEF X
<1>4. Heads(us) \in [1 .. Len(us) -> X]
  BY <1>1, <1>3 DEF Heads
<1>5. Heads(us) \in Seq(X) /\ Len(Heads(us)) = Len(us)
  BY <1>1, <1>4
<1> QED BY <1>5 DEF X

LEMMA DecodeType ==
  ASSUME NEW us \in Seq(LetterUnits)
  PROVE  Decode(us) \in Seq(Letters)
BY DecodeIs, HeadsType, FlattenType

LEMMA HeadsCat ==
  ASSUME NEW us \in Seq(LetterUnits), NEW vs \in Seq(LetterUnits)
  PROVE  Heads(us ++ vs) = Heads(us) ++ Heads(vs)
<1> DEFINE h == Heads(us ++ vs)
           g == Heads(us) ++ Heads(vs)
           n == Len(us) + Len(vs)
<1>1. /\ us ++ vs \in Seq(LetterUnits) /\ Len(us ++ vs) = n /\ n \in Nat
      /\ \A p \in 1 .. n : (us ++ vs)[p] = IF p <= Len(us) THEN us[p] ELSE vs[p - Len(us)]
  BY ConcatProperties DEF ++
<1>2. /\ Heads(us) \in Seq(Seq(Letters)) /\ Len(Heads(us)) = Len(us)
      /\ Heads(vs) \in Seq(Seq(Letters)) /\ Len(Heads(vs)) = Len(vs)
      /\ h \in Seq(Seq(Letters)) /\ Len(h) = n
  BY <1>1, HeadsType
<1>3. /\ g \in Seq(Seq(Letters)) /\ Len(g) = n
      /\ \A p \in 1 .. n : g[p] = IF p <= Len(us) THEN Heads(us)[p] ELSE Heads(vs)[p - Len(us)]
  <2>1. g \in Seq(Seq(Letters)) /\ Len(g) = n
    <3> DEFINE X == Seq(Letters)
               a == Heads(us)
               b == Heads(vs)
    <3>1. a \in Seq(X) /\ b \in Seq(X) /\ Len(a) = Len(us) /\ Len(b) = Len(vs)
      BY <1>2
    <3> HIDE DEF X, a, b
    <3>2. a ++ b \in Seq(X) /\ Len(a ++ b) = Len(a) + Len(b)
      BY <3>1, CatType
    <3> QED BY <3>1, <3>2 DEF X, a, b
  <2>2. \A p \in 1 .. n : p \in 1 .. Len(Heads(us)) + Len(Heads(vs))
    BY <1>2
  <2>3. \A p \in 1 .. n :
          g[p] = IF p <= Len(Heads(us)) THEN Heads(us)[p] ELSE Heads(vs)[p - Len(Heads(us))]
    <3> DEFINE X == Seq(Letters)
               a == Heads(us)
               b == Heads(vs)
    <3>1. a \in Seq(X) /\ b \in Seq(X) /\ \A p \in 1 .. n : p \in 1 .. Len(a) + Len(b)
      BY <1>2, <2>2
    <3> HIDE DEF X, a, b, n
    <3>2. \A p \in 1 .. n : (a ++ b)[p] = IF p <= Len(a) THEN a[p] ELSE b[p - Len(a)]
      BY <3>1, CatAt
    <3> QED BY <3>2 DEF a, b
  <2> QED BY <1>2, <2>1, <2>3
<1>4. \A p \in 1 .. n : h[p] = IF (us ++ vs)[p][2] = 1 THEN <<(us ++ vs)[p][1]>> ELSE <<>>
  BY <1>1 DEF Heads
<1>5. \A p \in 1 .. Len(us) : Heads(us)[p] = IF us[p][2] = 1 THEN <<us[p][1]>> ELSE <<>>
  BY DEF Heads
<1>6. \A p \in 1 .. Len(vs) : Heads(vs)[p] = IF vs[p][2] = 1 THEN <<vs[p][1]>> ELSE <<>>
  BY DEF Heads
<1>7. Len(us) \in Nat /\ Len(vs) \in Nat
  OBVIOUS
<1> HIDE DEF h, g
<1>8. \A p \in 1 .. n : h[p] = g[p]
  <2> TAKE p \in 1 .. n
  <2>1. CASE p <= Len(us)
    <3>1. p \in 1 .. Len(us)
      BY <1>7, <2>1
    <3> QED BY <1>1, <1>3, <1>4, <1>5, <2>1, <3>1
  <2>2. CASE ~(p <= Len(us))
    <3>1. p - Len(us) \in 1 .. Len(vs)
      BY <1>7, <2>2
    <3> QED BY <1>1, <1>3, <1>4, <1>6, <2>2, <3>1
  <2> QED BY <2>1, <2>2
<1>9. h = g
  BY <1>2, <1>3, <1>8, SeqEqual
<1> QED BY <1>9 DEF h, g

LEMMA DecodeCat ==
  ASSUME NEW us \in Seq(LetterUnits), NEW vs \in Seq(LetterUnits)
  PROVE  Decode(us ++ vs) = Decode(us) ++ Decode(vs)
<1>1. Heads(us) \in Seq(Seq(Letters)) /\ Heads(vs) \in Seq(Seq(Letters))
  BY HeadsType
<1> QED BY <1>1, HeadsCat, FlattenConcat, DecodeIs

(* The letters of one letter's units are that letter.                      *)
LEMMA DecodeRun ==
  ASSUME NEW e, NEW c \in Letters
  PROVE  Decode(Run(e, c)) = <<c>>
<1> DEFINE n == Width(e, c)
           T(k) == [i \in 1 .. k |-> IF i = 1 THEN <<c>> ELSE <<>>]
<1>1. n \in 1 .. 4
  BY WidthType
<1>2. Heads(Run(e, c)) = T(n)
  <2>1. DOMAIN Run(e, c) = 1 .. n /\ \A i \in 1 .. n : Run(e, c)[i] = <<c, i>>
    BY DEF Run
  <2> QED BY <2>1 DEF Heads
<1>3. \A k \in Nat : T(k) \in Seq(Seq(Letters)) /\ Len(T(k)) = k
  <2> TAKE k \in Nat
  <2> DEFINE X == Seq(Letters)
  <2>1. <<c>> \in X /\ <<>> \in X
    OBVIOUS
  <2> HIDE DEF X
  <2>2. T(k) \in [1 .. k -> X]
    BY <2>1
  <2>3. T(k) \in Seq(X) /\ Len(T(k)) = k
    BY <2>2
  <2> QED BY <2>3 DEF X
<1>4. \A k \in Nat \ {0} : T(k + 1) = Append(T(k), <<>>)
  <2> TAKE k \in Nat \ {0}
  <2>1. <<>> \in Seq(Letters) /\ k \in Nat /\ k + 1 \in Nat
    OBVIOUS
  <2>2. T(k + 1) \in Seq(Seq(Letters)) /\ Len(T(k + 1)) = k + 1
        /\ T(k) \in Seq(Seq(Letters)) /\ Len(T(k)) = k
    BY <1>3, <2>1
  <2>3. \A i \in 1 .. k + 1 : T(k + 1)[i] = IF i = k + 1 THEN <<>> ELSE T(k)[i]
    OBVIOUS
  <2> DEFINE l == T(k + 1)
             s == T(k)
             r == Append(s, <<>>)
  <2> HIDE DEF T
  <2>4. /\ r \in Seq(Seq(Letters)) /\ Len(r) = k + 1
        /\ \A i \in 1 .. k + 1 : r[i] = IF i = k + 1 THEN <<>> ELSE s[i]
    BY <2>1, <2>2
  <2> HIDE DEF l, r
  <2>5. l \in Seq(Seq(Letters)) /\ Len(l) = k + 1 /\ \A i \in 1 .. k + 1 : l[i] = r[i]
    BY <2>2, <2>3, <2>4 DEF l
  <2>6. l = r
    BY <2>4, <2>5, SeqEqual
  <2> QED BY <2>6 DEF l, r
<1>5. FlattenSeq(T(1)) = <<c>>
  <2>1. T(1) = Append(<<>>, <<c>>)
    OBVIOUS
  <2>2. <<>> \in Seq(Seq(Letters)) /\ <<c>> \in Seq(Letters)
    OBVIOUS
  <2> HIDE DEF T
  <2>3. FlattenSeq(T(1)) = FlattenSeq(<<>>) ++ <<c>>
    BY <2>1, <2>2, FlattenAppend
  <2> QED BY <2>2, <2>3, FlattenEmpty, CatEmpty
<1> HIDE DEF T
<1>6. \A k \in Nat \ {0} : FlattenSeq(T(k + 1)) = FlattenSeq(T(k))
  <2> TAKE k \in Nat \ {0}
  <2>1. T(k) \in Seq(Seq(Letters)) /\ <<>> \in Seq(Letters)
    BY <1>3
  <2>2. FlattenSeq(T(k + 1)) = FlattenSeq(T(k)) ++ <<>>
    BY <1>4, <2>1, FlattenAppend
  <2> QED BY <2>1, <2>2, FlattenType, CatEmpty
<1>7. FlattenSeq(T(2)) = <<c>>
  BY <1>5, 1 \in Nat \ {0}, 1 + 1 = 2, <1>6
<1>8. FlattenSeq(T(3)) = <<c>>
  BY <1>7, 2 \in Nat \ {0}, 2 + 1 = 3, <1>6
<1>9. FlattenSeq(T(4)) = <<c>>
  BY <1>8, 3 \in Nat \ {0}, 3 + 1 = 4, <1>6
<1>10. FlattenSeq(T(n)) = <<c>>
  BY <1>1, <1>5, <1>7, <1>8, <1>9
<1> QED BY <1>2, <1>10, DecodeIs

(* Decoding undoes encoding, so what is encoded is whole.                  *)
LEMMA DecodeEncode ==
  ASSUME NEW e, NEW cs \in Seq(Letters)
  PROVE  Decode(Encode(e, cs)) = cs
<1> DEFINE S == {n \in Nat : \A ds \in Seq(Letters) : Len(ds) = n => Decode(Encode(e, ds)) = ds}
<1>1. 0 \in S
  <2>1. Heads(<<>>) = <<>>
    BY DEF Heads
  <2>2. Decode(<<>>) = <<>>
    BY <2>1, DecodeIs, FlattenEmpty
  <2>3. \A ds \in Seq(Letters) : Len(ds) = 0 => ds = <<>>
    OBVIOUS
  <2> QED BY <2>2, <2>3, EncodeEmpty
<1>2. ASSUME NEW n \in Nat, n \in S
      PROVE  n + 1 \in S
  <2> SUFFICES ASSUME NEW ds \in Seq(Letters), Len(ds) = n + 1
               PROVE  Decode(Encode(e, ds)) = ds
    OBVIOUS
  <2> HIDE DEF S
  <2> DEFINE bs == SubSeq(ds, 1, n)
             c == ds[n + 1]
  <2>1. bs \in Seq(Letters) /\ Len(bs) = n /\ c \in Letters /\ ds = Append(bs, c)
    BY LastElement
  <2> HIDE DEF bs, c
  <2>2. Encode(e, ds) = Encode(e, bs) ++ Run(e, c)
    BY <2>1, EncodeAppend
  <2>3. Encode(e, bs) \in Seq(LetterUnits) /\ Run(e, c) \in Seq(LetterUnits)
    BY <2>1, EncodeType, RunType
  <2>4. Decode(Encode(e, ds)) = Decode(Encode(e, bs)) ++ Decode(Run(e, c))
    BY <2>2, <2>3, DecodeCat
  <2>5. Decode(Encode(e, bs)) = bs
    BY <1>2, <2>1 DEF S
  <2>6. Decode(Run(e, c)) = <<c>>
    BY <2>1, DecodeRun
  <2>7. bs ++ <<c>> = Append(bs, c)
    BY <2>1 DEF ++
  <2> QED BY <2>1, <2>4, <2>5, <2>6, <2>7
<1>3. \A n \in Nat : n \in S
  <2> HIDE DEF S
  <2> QED BY <1>1, <1>2, AllNumbers
<1> QED BY <1>3

LEMMA EncodedIsWhole ==
  ASSUME NEW e, NEW cs \in Seq(Letters)
  PROVE  Whole(e, Encode(e, cs))
BY DecodeEncode DEF Whole

-----------------------------------------------------------------------------
(* The memory that holds a text: its units, a NUL, and junk.               *)
Padding(m) == [k \in 1 .. m |-> Junk]

Held(us, m) == Append(us, NUL) ++ Padding(m)

LEMMA UnitsDiffer == NUL \notin LetterUnits
<1> SUFFICES ASSUME NEW c \in Letters, NEW i \in 1 .. 4, NUL = <<c, i>> PROVE FALSE
  BY DEF LetterUnits
<1>1. NUL[1] = <<c, i>>[1]
  OBVIOUS
<1>2. c = "NUL"
  BY <1>1 DEF NUL
<1> QED BY <1>2, TextAssumption

LEMMA HeldType ==
  ASSUME NEW us \in Seq(LetterUnits), NEW m \in Nat
  PROVE  /\ Held(us, m) \in Seq(Units) /\ Len(Held(us, m)) = Len(us) + 1 + m
         /\ \A i \in 1 .. Len(us) : Held(us, m)[i] = us[i]
         /\ Held(us, m)[Len(us) + 1] = NUL
<1>1. LetterUnits \subseteq Units /\ NUL \in Units /\ Junk \in Units
  BY DEF LetterUnits, Units
<1>2. us \in Seq(Units)
  BY <1>1
<1> HIDE DEF Units, LetterUnits, NUL, Junk
<1> DEFINE a == Append(us, NUL)
           b == Padding(m)
<1>3. a \in Seq(Units) /\ Len(a) = Len(us) + 1 /\ a[Len(us) + 1] = NUL
      /\ \A i \in 1 .. Len(us) : a[i] = us[i]
  BY <1>1, <1>2
<1>4. b \in Seq(Units) /\ Len(b) = m
  <2>1. b \in [1 .. m -> Units]
    BY <1>1 DEF Padding
  <2> HIDE DEF b
  <2> QED BY <2>1
<1>5. Len(us) \in Nat
  OBVIOUS
<1> HIDE DEF a, b
<1>6. a ++ b \in Seq(Units) /\ Len(a ++ b) = Len(a) + Len(b)
  BY <1>3, <1>4, CatType
<1>7. \A p \in 1 .. Len(a) + Len(b) : (a ++ b)[p] = IF p <= Len(a) THEN a[p] ELSE b[p - Len(a)]
  BY <1>3, <1>4, CatAt
<1>8. \A i \in 1 .. Len(us) + 1 : (a ++ b)[i] = a[i]
  BY <1>3, <1>4, <1>5, <1>7
<1>9. Len(us) + 1 \in 1 .. Len(us) + 1 /\ \A i \in 1 .. Len(us) : i \in 1 .. Len(us) + 1
  BY <1>5
<1>10. Held(us, m) = a ++ b
  BY DEF Held, a, b
<1> QED BY <1>3, <1>4, <1>6, <1>8, <1>9, <1>10

LEMMA HeldIsTerminated ==
  ASSUME NEW us \in Seq(LetterUnits), NEW m \in Nat
  PROVE  Terminated(Held(us, m))
<1> DEFINE b == Held(us, m)
           n == Len(us)
<1>1. Len(b) = n + 1 + m /\ b[n + 1] = NUL
  BY HeldType
<1>2. n \in Nat
  OBVIOUS
<1> HIDE DEF b, n
<1>3. n + 1 \in 1 .. Len(b)
  BY <1>1, <1>2
<1> QED BY <1>1, <1>3 DEF b, Terminated, Contains

LEMMA StartOfHeld ==
  ASSUME NEW us \in Seq(LetterUnits), NEW m \in Nat, NEW n \in 0 .. Len(us)
  PROVE  SubSeq(Held(us, m), 1, n) = SubSeq(us, 1, n)
<1> DEFINE b == Held(us, m)
<1>1. b \in Seq(Units) /\ Len(b) = Len(us) + 1 + m /\ \A i \in 1 .. Len(us) : b[i] = us[i]
  BY HeldType
<1>2. us \in Seq(Units)
  <2>1. LetterUnits \subseteq Units
    BY DEF LetterUnits, Units
  <2> QED BY <2>1
<1> HIDE DEF b, Units, LetterUnits
<1>3. n \in Nat /\ n <= Len(us) /\ n <= Len(b) /\ \A i \in 1 .. n : i \in 1 .. Len(us)
  BY <1>1
<1>4. /\ SubSeq(b, 1, n) \in Seq(Units) /\ Len(SubSeq(b, 1, n)) = n
      /\ \A i \in 1 .. n : SubSeq(b, 1, n)[i] = b[i]
  BY <1>1, <1>3
<1>5. /\ SubSeq(us, 1, n) \in Seq(Units) /\ Len(SubSeq(us, 1, n)) = n
      /\ \A i \in 1 .. n : SubSeq(us, 1, n)[i] = us[i]
  BY <1>2, <1>3
<1>6. \A i \in 1 .. n : SubSeq(b, 1, n)[i] = SubSeq(us, 1, n)[i]
  BY <1>1, <1>3, <1>4, <1>5
<1>7. SubSeq(b, 1, n) = SubSeq(us, 1, n)
  BY <1>4, <1>5, <1>6, SeqEqual
<1> QED BY <1>7 DEF b

(* A text is read up to its own NUL.                                       *)
LEMMA CStringOfHeld ==
  ASSUME NEW us \in Seq(LetterUnits), NEW m \in Nat
  PROVE  CString(Held(us, m)) = us
<1> DEFINE b == Held(us, m)
           I == {i \in 1 .. Len(b) : b[i] = NUL}
           n == Len(us) + 1
<1>1. /\ Len(b) = n + m /\ b[n] = NUL /\ \A i \in 1 .. Len(us) : b[i] = us[i]
      /\ n \in Nat /\ Len(us) \in Nat
  <2>1. /\ Len(b) = Len(us) + 1 + m /\ b[Len(us) + 1] = NUL
        /\ \A i \in 1 .. Len(us) : b[i] = us[i]
    BY HeldType
  <2>2. Len(us) \in Nat
    OBVIOUS
  <2> HIDE DEF b
  <2> QED BY <2>1, <2>2
<1>2. \A i \in 1 .. Len(us) : b[i] # NUL
  <2> TAKE i \in 1 .. Len(us)
  <2>1. us[i] \in LetterUnits
    OBVIOUS
  <2> QED BY <1>1, <2>1, UnitsDiffer
<1> HIDE DEF b
<1>3. n \in I /\ \A i \in I : n <= i
  <2>1. n \in 1 .. Len(b)
    BY <1>1
  <2>2. \A i \in 1 .. Len(b) : n <= i \/ i \in 1 .. Len(us)
    BY <1>1
  <2> QED BY <1>1, <1>2, <2>1, <2>2
<1>4. I \subseteq Nat
  BY <1>1
<1> HIDE DEF I, n
<1>5. Min(I) = n
  <2>1. \A x \in I : (\A y \in I : x =< y) => x = n
    <3> TAKE x \in I
    <3>1. x \in Nat /\ n \in Nat /\ n <= x
      BY <1>3, <1>4
    <3> QED BY <1>3, <3>1
  <2>2. Min(I) \in I /\ \A y \in I : Min(I) =< y
    BY <1>3 DEF Min
  <2> QED BY <2>1, <2>2
<1>6. SelectInSeq(b, LAMBDA u : u = NUL) = n
  BY <1>3, <1>5 DEF SelectInSeq, I
<1>7. CString(b) = SubSeq(b, 1, n - 1)
  BY <1>6 DEF CString
<1>8. n - 1 = Len(us) /\ Len(us) \in 0 .. Len(us)
  BY <1>1 DEF n
<1>9. SubSeq(b, 1, Len(us)) = SubSeq(us, 1, Len(us))
  BY <1>8, StartOfHeld DEF b
<1>10. SubSeq(us, 1, Len(us)) = us
  BY SubSeqFull
<1> QED BY <1>7, <1>8, <1>9, <1>10 DEF b

-----------------------------------------------------------------------------
(* What ICU answers                                                        *)
LEMMA OtherIs ==
  /\ Other("utf8") = "utf16" /\ Other("utf16") = "utf8"
  /\ \A e \in {"utf8", "utf16"} : Other(e) \in {"utf8", "utf16"} /\ Other(e) # e
                                  /\ Other(Other(e)) = e
BY DEF Other

LEMMA IcuConverts ==
  ASSUME NEW e, NEW cs \in Seq(Letters), NEW n \in Nat
  PROVE  LET done == Icu(e, Encode(e, cs), n)
             out  == Encode(Other(e), cs)
         IN  /\ done.error # "U_INVALID_CHAR_FOUND"
             /\ done.error = "U_BUFFER_OVERFLOW_ERROR" <=> Len(out) > n
             /\ done.length = Len(out)
             /\ Len(out) < n => done.stored = Append(out, NUL)
             /\ Len(out) = n => done.stored = out
<1> DEFINE us == Encode(e, cs)
           done == Icu(e, us, n)
           out == Encode(Other(e), cs)
           fit == {k \in 0 .. Len(cs) : Len(Encode(Other(e), SubSeq(cs, 1, k))) <= n}
<1>1. Whole(e, us) /\ Decode(us) = cs
  BY EncodedIsWhole, DecodeEncode
<1>2. out \in Seq(LetterUnits) /\ Len(out) \in Nat
  BY EncodeType
<1>3. Len(out) = n => Encode(Other(e), SubSeq(cs, 1, Max(fit))) = out
  <2> SUFFICES ASSUME Len(out) = n PROVE Encode(Other(e), SubSeq(cs, 1, Max(fit))) = out
    OBVIOUS
  <2>1. SubSeq(cs, 1, Len(cs)) = cs
    BY SubSeqFull
  <2>2. Len(cs) \in fit /\ \A k \in fit : k \in Int /\ Len(cs) \in Int /\ Len(cs) >= k
    <3>1. Len(cs) \in Nat /\ Len(cs) \in 0 .. Len(cs) /\ Len(Encode(Other(e), cs)) <= n
      BY <1>2
    <3>2. Len(cs) \in fit
      BY <2>1, <3>1
    <3> QED BY <3>1, <3>2
  <2> HIDE DEF fit
  <2>3. Max(fit) \in fit /\ \A k \in fit : Max(fit) >= k
    BY <2>2 DEF Max
  <2>4. Max(fit) = Len(cs)
    BY <2>2, <2>3
  <2> QED BY <2>1, <2>4
<1>4. done = [error  |-> IF Len(out) > n THEN "U_BUFFER_OVERFLOW_ERROR"
                         ELSE IF Len(out) = n THEN "U_STRING_NOT_TERMINATED_WARNING"
                         ELSE "U_ZERO_ERROR",
              length |-> Len(out),
              stored |-> IF Len(out) < n THEN Append(out, NUL)
                         ELSE Encode(Other(e), SubSeq(cs, 1, Max(fit)))]
  BY <1>1 DEF Icu
<1> HIDE DEF done, out, us, fit
<1>5. /\ done.error = IF Len(out) > n THEN "U_BUFFER_OVERFLOW_ERROR"
                      ELSE IF Len(out) = n THEN "U_STRING_NOT_TERMINATED_WARNING"
                      ELSE "U_ZERO_ERROR"
      /\ done.length = Len(out)
      /\ done.stored = IF Len(out) < n THEN Append(out, NUL)
                       ELSE Encode(Other(e), SubSeq(cs, 1, Max(fit)))
  BY <1>4
<1>6. /\ done.error # "U_INVALID_CHAR_FOUND"
      /\ done.error = "U_BUFFER_OVERFLOW_ERROR" <=> Len(out) > n
      /\ Len(out) < n => done.stored = Append(out, NUL)
      /\ Len(out) = n => done.stored = out
  BY <1>2, <1>3, <1>5
<1> QED BY <1>5, <1>6 DEF done, out, us

LEMMA IcuAccepts ==
  ASSUME NEW e, NEW us \in Seq(LetterUnits), NEW n
  PROVE  Icu(e, us, n).error # "U_INVALID_CHAR_FOUND"
           => Decode(us) \in Seq(Letters) /\ us = Encode(e, Decode(us))
BY DecodeType DEF Icu, Whole

(* Without a letter of two words every start of a wide text is whole.      *)
LEMMA NarrowEncode ==
  ASSUME NEW cs \in Seq(Letters), \A k \in DOMAIN cs : Width("utf16", cs[k]) # 2
  PROVE  Encode("utf16", cs) = [k \in 1 .. Len(cs) |-> <<cs[k], 1>>]
<1> DEFINE One(ds) == [k \in 1 .. Len(ds) |-> <<ds[k], 1>>]
           S == {n \in Nat : \A ds \in Seq(Letters) :
                   Len(ds) = n /\ (\A k \in 1 .. n : Width("utf16", ds[k]) # 2)
                     => Encode("utf16", ds) = One(ds)}
<1>1. 0 \in S
  <2>1. \A ds \in Seq(Letters) : Len(ds) = 0 => ds = <<>> /\ One(ds) = <<>>
    OBVIOUS
  <2> QED BY <2>1, EncodeEmpty
<1>2. ASSUME NEW n \in Nat, n \in S
      PROVE  n + 1 \in S
  <2> SUFFICES ASSUME NEW ds \in Seq(Letters), Len(ds) = n + 1,
                      \A k \in 1 .. n + 1 : Width("utf16", ds[k]) # 2
               PROVE  Encode("utf16", ds) = One(ds)
    OBVIOUS
  <2> DEFINE bs == SubSeq(ds, 1, n)
             c == ds[n + 1]
  <2>1. /\ bs \in Seq(Letters) /\ Len(bs) = n /\ c \in Letters /\ ds = Append(bs, c)
        /\ n + 1 \in 1 .. n + 1
    BY LastElement
  <2>2. \A k \in 1 .. n : bs[k] = ds[k] /\ k \in 1 .. n + 1
    BY <2>1
  <2>3. \A k \in 1 .. n : Width("utf16", bs[k]) # 2
    <3> HIDE DEF bs
    <3> QED BY <2>2
  <2>4. Encode("utf16", bs) = One(bs)
    <3> HIDE DEF bs, One
    <3> QED BY <1>2, <2>1, <2>3
  <2>5. Width("utf16", c) = 1
    <3>1. Width("utf16", c) # 2 /\ Width("utf16", c) \in 1 .. 2
      BY <2>1, WidthType
    <3> QED BY <3>1
  <2>6. Run("utf16", c) = << <<c, 1>> >>
    <3> HIDE DEF c
    <3>1. Run("utf16", c) = [i \in 1 .. 1 |-> <<c, i>>]
      BY <2>5 DEF Run
    <3> QED BY <3>1
  <2>7. Encode("utf16", ds) = Encode("utf16", bs) ++ Run("utf16", c)
    <3> HIDE DEF bs, c
    <3> QED BY <2>1, EncodeAppend
  <2>8. One(bs) ++ << <<c, 1>> >> = One(ds)
    <3> DEFINE x == <<c, 1>>
               o == One(bs)
               p == One(ds)
    <3>1. o \in Seq(LetterUnits)
      <4> HIDE DEF bs, One
      <4> QED BY <2>1, <2>4, EncodeType
    <3>2. Len(o) = n /\ \A k \in 1 .. n : o[k] = <<ds[k], 1>>
      <4> HIDE DEF bs
      <4> QED BY <2>1, <2>2
    <3>3. p = [k \in 1 .. n + 1 |-> <<ds[k], 1>>]
      OBVIOUS
    <3>4. x \in LetterUnits
      BY <2>1 DEF LetterUnits
    <3>5. p[n + 1] = x
      BY <2>1
    <3> HIDE DEF p, o, x
    <3>6. <<x>> \in Seq(LetterUnits) /\ Len(<<x>>) = 1 /\ <<x>>[1] = x
      BY <3>4
    <3>7. o ++ <<x>> \in Seq(LetterUnits) /\ Len(o ++ <<x>>) = n + 1
      BY <3>1, <3>2, <3>6, CatType
    <3>8. \A k \in 1 .. n + 1 : (o ++ <<x>>)[k] = p[k]
      <4> TAKE k \in 1 .. n + 1
      <4>1. (o ++ <<x>>)[k] = IF k <= n THEN o[k] ELSE <<x>>[k - n]
        BY <3>1, <3>2, <3>6, CatAt
      <4>2. CASE k <= n
        BY <3>2, <3>3, <4>1, <4>2
      <4>3. CASE k = n + 1
        BY <3>5, <3>6, <4>1, <4>3
      <4> QED BY <4>2, <4>3
    <3>9. p \in Seq(LetterUnits) /\ Len(p) = n + 1
      <4>1. \A k \in 1 .. n + 1 : <<ds[k], 1>> \in LetterUnits
        <5> TAKE k \in 1 .. n + 1
        <5>1. ds[k] \in Letters
          OBVIOUS
        <5> QED BY <5>1 DEF LetterUnits
      <4>2. p \in [1 .. n + 1 -> LetterUnits]
        BY <3>3, <4>1
      <4> QED BY <4>2
    <3>10. o ++ <<x>> = p
      BY <3>7, <3>8, <3>9, SeqEqual
    <3> QED BY <3>10 DEF o, p, x
  <2> QED BY <2>4, <2>6, <2>7, <2>8
<1>3. \A n \in Nat : n \in S
  <2> HIDE DEF S
  <2> QED BY <1>1, <1>2, AllNumbers
<1> QED BY <1>3

LEMMA NarrowStartIsWhole ==
  ASSUME NEW cs \in Seq(Letters), \A k \in DOMAIN cs : Width("utf16", cs[k]) # 2,
         NEW n \in 0 .. Len(Encode("utf16", cs))
  PROVE  Whole("utf16", SubSeq(Encode("utf16", cs), 1, n))
<1> DEFINE us == Encode("utf16", cs)
           ds == SubSeq(cs, 1, n)
<1>1. us = [k \in 1 .. Len(cs) |-> <<cs[k], 1>>]
  BY NarrowEncode
<1>2. Len(us) = Len(cs)
  BY <1>1
<1>3. n \in 0 .. Len(cs)
  BY <1>2
<1>4. ds \in Seq(Letters) /\ Len(ds) = n /\ \A k \in 1 .. n : ds[k] = cs[k]
  BY <1>3
<1>5. Encode("utf16", ds) = [k \in 1 .. Len(ds) |-> <<ds[k], 1>>]
  <2>1. \A k \in DOMAIN ds : Width("utf16", ds[k]) # 2
    BY <1>3, <1>4
  <2> HIDE DEF ds
  <2> QED BY <1>4, <2>1, NarrowEncode
<1>6. SubSeq(us, 1, n) = [k \in 1 .. n |-> us[k]]
  <2>1. us \in Seq(LetterUnits)
    BY EncodeType
  <2> HIDE DEF us
  <2> QED BY <1>2, <1>3, <2>1
<1>7. SubSeq(us, 1, n) = Encode("utf16", ds)
  <2>1. \A k \in 1 .. n : us[k] = <<cs[k], 1>>
    BY <1>1, <1>3
  <2> HIDE DEF us, ds
  <2>2. [k \in 1 .. n |-> us[k]] = [k \in 1 .. n |-> <<ds[k], 1>>]
    BY <1>4, <2>1
  <2>3. Encode("utf16", ds) = [k \in 1 .. n |-> <<ds[k], 1>>]
    BY <1>4, <1>5
  <2> QED BY <1>6, <2>2, <2>3
<1> QED BY <1>4, <1>7, EncodedIsWhole

-----------------------------------------------------------------------------
(* The invariant: the buffer holds the text and its NUL, what was asked    *)
(* for is the room the text needs, and only a cut pair stops a wide one.   *)
HeldInv == \E m \in Nat : buffer = Held(Encode(encoding, said), m)

AskedInv ==
  asked # NotAsked => encoding = "utf16" /\ asked = Len(Encode("utf8", said)) + 1

TextInv ==
  /\ said \in Seq(Letters) /\ encoding \in {"utf8", "utf16"}
  /\ asked \in Nat \cup {NotAsked} /\ answer \in Nat /\ lastError \in BOOLEAN
  /\ status \in {"running", "aborted"}
  /\ HeldInv /\ AskedInv /\ OnlyCutPairsAbort

LEMMA CStringIs ==
  ASSUME TextInv
  PROVE  /\ CString(buffer) = Encode(encoding, said)
         /\ Encode(encoding, said) \in Seq(LetterUnits)
         /\ Terminated(buffer) /\ buffer \in Seq(Units)
<1>1. Encode(encoding, said) \in Seq(LetterUnits)
  BY EncodeType DEF TextInv
<1>2. PICK m \in Nat : buffer = Held(Encode(encoding, said), m)
  BY DEF TextInv, HeldInv
<1> QED BY <1>1, <1>2, CStringOfHeld, HeldIsTerminated, HeldType

LEMMA GivenIs ==
  ASSUME TextInv, NEW count \in Counts
  PROVE  /\ Given(count) \in Seq(LetterUnits)
         /\ count = -1 => Given(count) = Encode(encoding, said)
         /\ count # -1 => /\ count \in 0 .. Len(Encode(encoding, said))
                          /\ Given(count) = SubSeq(Encode(encoding, said), 1, count)
<1> DEFINE us == Encode(encoding, said)
<1>1. CString(buffer) = us /\ us \in Seq(LetterUnits)
  BY CStringIs
<1>2. PICK m \in Nat : buffer = Held(us, m)
  BY DEF TextInv, HeldInv
<1> HIDE DEF us
<1>3. CASE count = -1
  BY <1>1, <1>3 DEF Given, us
<1>4. CASE count # -1
  <2>1. count \in 0 .. Len(us)
    BY <1>1, <1>4 DEF Counts
  <2>2. Given(count) = SubSeq(us, 1, count)
    BY <1>1, <1>2, <1>4, <2>1, StartOfHeld DEF Given
  <2>3. SubSeq(us, 1, count) \in Seq(LetterUnits)
    BY <1>1, <2>1
  <2> QED BY <1>4, <2>1, <2>2, <2>3 DEF us
<1> QED BY <1>3, <1>4

(* A conversion of the whole text.                                         *)
LEMMA WholeConverts ==
  ASSUME TextInv, NEW e, encoding = e, NEW us, us = Encode(encoding, said), NEW n \in Nat
  PROVE  LET done == Icu(e, us, n)
             out  == Encode(Other(e), said)
         IN  /\ done.error # "U_INVALID_CHAR_FOUND"
             /\ done.error = "U_BUFFER_OVERFLOW_ERROR" <=> Len(out) > n
             /\ done.length = Len(out)
             /\ Len(out) < n => done.stored = Append(out, NUL)
             /\ Len(out) = n => done.stored = out
BY IcuConverts DEF TextInv

(* A text that is converted into enough room keeps the invariant.          *)
LEMMA BecomesText ==
  ASSUME TextInv, NEW ds \in Seq(Letters), NEW n \in Nat, NEW stored,
         stored = Append(Encode(Other(encoding), ds), NUL),
         Len(Encode(Other(encoding), ds)) < n, Becomes(stored, n),
         said' = ds, answer' \in Nat, lastError' \in BOOLEAN
  PROVE  TextInv'
<1> DEFINE us == Encode(Other(encoding), ds)
           m == n - Len(stored)
<1>1. us \in Seq(LetterUnits) /\ Len(us) \in Nat
  BY EncodeType
<1>2. Len(stored) = Len(us) + 1
  BY <1>1
<1>3. m \in Nat /\ ~(Len(stored) > n)
  <2>1. Len(us) < n
    OBVIOUS
  <2> HIDE DEF us
  <2> QED BY <1>1, <1>2, <2>1
<1>4. /\ status' = "running" /\ buffer' = stored \o [k \in 1 .. m |-> Junk]
      /\ encoding' = Other(encoding) /\ asked' = NotAsked
  BY <1>3 DEF Becomes
<1>5. buffer' = Held(us, m)
  BY <1>4 DEF Held, Padding, ++
<1>6. HeldInv'
  <2>1. Encode(encoding', said') = us
    BY <1>4
  <2> HIDE DEF us, m
  <2> QED BY <1>3, <1>5, <2>1 DEF HeldInv
<1>7. encoding' \in {"utf8", "utf16"}
  BY <1>4, OtherIs DEF TextInv
<1>8. AskedInv' /\ OnlyCutPairsAbort'
  BY <1>4 DEF AskedInv, OnlyCutPairsAbort
<1> QED BY <1>4, <1>6, <1>7, <1>8 DEF TextInv

(* What stops the program leaves the text as it is.                        *)
LEMMA AbortText ==
  ASSUME TextInv, Abort,
         encoding = "utf16" => \E k \in DOMAIN said : Width("utf16", said[k]) = 2
  PROVE  TextInv'
BY DEF TextInv, Abort, HeldInv, AskedInv, OnlyCutPairsAbort

(* So does what only answers.                                              *)
LEMMA AnswerText ==
  ASSUME TextInv, UNCHANGED <<said, encoding, buffer, asked, status>>,
         answer' \in Nat, lastError' \in BOOLEAN
  PROVE  TextInv'
BY DEF TextInv, HeldInv, AskedInv, OnlyCutPairsAbort

-----------------------------------------------------------------------------
(* The steps                                                               *)
LEMMA LoaderWc2cKeeps ==
  ASSUME TextInv, LoaderWc2c
  PROVE  TextInv'
<1> DEFINE us == CString(buffer)
           need == Icu("utf16", us, 0)
           out == Encode("utf8", said)
           room == need.length + 1
<1>1. encoding = "utf16" /\ said \in Seq(Letters) /\ answer \in Nat /\ lastError \in BOOLEAN
  BY DEF LoaderWc2c, Reads, TextInv
<1>2. us = Encode(encoding, said) /\ Other(encoding) = "utf8" /\ Other("utf16") = "utf8"
  BY <1>1, CStringIs, OtherIs
<1>3. out \in Seq(LetterUnits) /\ Len(out) \in Nat
  BY <1>1, EncodeType
<1> HIDE DEF us, out
<1>4. /\ need.error = "U_BUFFER_OVERFLOW_ERROR" <=> Len(out) > 0
      /\ need.length = Len(out)
  <2>1. 0 \in Nat
    OBVIOUS
  <2> QED BY <1>1, <1>2, <2>1, WholeConverts DEF out
<1>5. us # <<>> => Len(out) > 0
  <2>1. us = <<>> <=> said = <<>>
    BY <1>1, <1>2, EncodeLength
  <2>2. out = <<>> <=> said = <<>>
    BY <1>1, EncodeLength DEF out
  <2>3. Len(out) = 0 => out = <<>>
    BY <1>3
  <2> QED BY <1>3, <2>1, <2>2, <2>3
<1>6. room = Len(out) + 1 /\ room \in Nat /\ Len(out) < room
  BY <1>3, <1>4
<1>7. Icu("utf16", us, room).stored = Append(out, NUL)
  <2> HIDE DEF room
  <2> QED BY <1>1, <1>2, <1>6, WholeConverts DEF out
<1>8. Becomes(Icu("utf16", us, room).stored, room) /\ UNCHANGED <<said, answer, lastError>>
  <2>1. ~(us # <<>> /\ need.error # "U_BUFFER_OVERFLOW_ERROR")
    BY <1>4, <1>5
  <2> QED BY <2>1 DEF LoaderWc2c, us
<1> HIDE DEF room, need
<1> QED BY <1>1, <1>2, <1>6, <1>7, <1>8, BecomesText DEF out

LEMMA LoaderC2wcKeeps ==
  ASSUME TextInv, LoaderC2wc
  PROVE  TextInv'
<1> DEFINE us == CString(buffer)
           need == Icu("utf8", us, 0)
           out == Encode("utf16", said)
           room == need.length + 1
<1>1. encoding = "utf8" /\ said \in Seq(Letters) /\ answer \in Nat /\ lastError \in BOOLEAN
  BY DEF LoaderC2wc, Reads, TextInv
<1>2. us = Encode(encoding, said) /\ Other(encoding) = "utf16" /\ Other("utf8") = "utf16"
  BY <1>1, CStringIs, OtherIs
<1>3. out \in Seq(LetterUnits) /\ Len(out) \in Nat
  BY <1>1, EncodeType
<1> HIDE DEF us, out
<1>4. need.length = Len(out)
  <2>1. 0 \in Nat
    OBVIOUS
  <2> QED BY <1>1, <1>2, <2>1, WholeConverts DEF out
<1>5. room = Len(out) + 1 /\ room \in Nat /\ Len(out) < room
  BY <1>3, <1>4
<1>6. Icu("utf8", us, room).stored = Append(out, NUL)
  <2> HIDE DEF room
  <2> QED BY <1>1, <1>2, <1>5, WholeConverts DEF out
<1>7. CASE Abort
  <2>1. encoding # "utf16"
    BY <1>1
  <2> QED BY <1>7, <2>1, AbortText
<1>8. CASE Becomes(Icu("utf8", us, room).stored, room) /\ UNCHANGED <<said, answer, lastError>>
  <2> HIDE DEF room, need
  <2> QED BY <1>1, <1>2, <1>5, <1>6, <1>8, BecomesText DEF out
<1> QED BY <1>7, <1>8 DEF LoaderC2wc, us

(* A counted start of a wide text is not whole only behind half a letter.  *)
LEMMA OnlyCutIsInvalid ==
  ASSUME TextInv, encoding = "utf16", NEW count \in Counts, NEW n \in Nat,
         Icu("utf16", Given(count), n).error = "U_INVALID_CHAR_FOUND"
  PROVE  \E k \in DOMAIN said : Width("utf16", said[k]) = 2
<1>1. said \in Seq(Letters)
  BY DEF TextInv
<1>2. count # -1
  <2> SUFFICES ASSUME count = -1 PROVE FALSE
    OBVIOUS
  <2>1. Given(count) = Encode(encoding, said)
    BY GivenIs
  <2> QED BY <1>1, <2>1, IcuConverts
<1>3. /\ count \in 0 .. Len(Encode("utf16", said))
      /\ Given(count) = SubSeq(Encode("utf16", said), 1, count)
  BY <1>2, GivenIs
<1>4. SUFFICES ASSUME \A k \in DOMAIN said : Width("utf16", said[k]) # 2 PROVE FALSE
  OBVIOUS
<1>5. Whole("utf16", Given(count))
  BY <1>1, <1>3, <1>4, NarrowStartIsWhole
<1>6. Given(count) = Encode("utf16", Decode(Given(count))) /\ Decode(Given(count)) \in Seq(Letters)
  BY <1>5, GivenIs, DecodeType DEF Whole
<1> QED BY <1>6, IcuConverts

LEMMA AskKeeps ==
  ASSUME TextInv, NEW count \in Counts, AskWideCharToMultiByte(count)
  PROVE  TextInv'
<1> DEFINE done == Icu("utf16", Given(count), 0)
<1>1. encoding = "utf16" /\ said \in Seq(Letters) /\ 0 \in Nat
  BY DEF AskWideCharToMultiByte, Reads, TextInv
<1>2. CASE done.error = "U_INVALID_CHAR_FOUND"
  <2>1. Abort
    BY <1>2 DEF AskWideCharToMultiByte
  <2>2. \E k \in DOMAIN said : Width("utf16", said[k]) = 2
    BY <1>1, <1>2, OnlyCutIsInvalid
  <2> QED BY <2>1, <2>2, AbortText
<1>3. CASE done.error # "U_INVALID_CHAR_FOUND"
  <2>1. /\ answer' = BytesToWrite(count, done)
        /\ asked' = IF count = -1 THEN answer' ELSE asked
        /\ UNCHANGED <<said, encoding, buffer, lastError, status>>
    BY <1>3 DEF AskWideCharToMultiByte
  <2> DEFINE cs == Decode(Given(count))
  <2>2. cs \in Seq(Letters) /\ Given(count) = Encode("utf16", cs)
    BY <1>3, GivenIs, IcuAccepts
  <2>3. done.length = Len(Encode("utf8", cs)) /\ Len(Encode("utf8", cs)) \in Nat
    BY <1>1, <2>2, IcuConverts, OtherIs, EncodeType
  <2>4. count = -1 => done.length = Len(Encode("utf8", said))
    <3> SUFFICES ASSUME count = -1 PROVE done.length = Len(Encode("utf8", said))
      OBVIOUS
    <3>1. Given(count) = Encode("utf16", said)
      BY <1>1, GivenIs
    <3> QED BY <1>1, <3>1, IcuConverts, OtherIs
  <2> HIDE DEF done
  <2>5. answer' \in Nat /\ (count = -1 => answer' = done.length + 1)
    BY <2>1, <2>3 DEF BytesToWrite
  <2>6. asked' \in Nat \cup {NotAsked}
    BY <2>1, <2>5 DEF TextInv
  <2>7. AskedInv'
    <3>1. CASE count = -1
      BY <1>1, <2>1, <2>4, <2>5, <3>1 DEF AskedInv
    <3>2. CASE count # -1
      BY <2>1, <3>2 DEF AskedInv, TextInv
    <3> QED BY <3>1, <3>2
  <2>8. HeldInv' /\ OnlyCutPairsAbort'
    BY <2>1 DEF TextInv, HeldInv, OnlyCutPairsAbort
  <2> QED BY <2>1, <2>5, <2>6, <2>7, <2>8 DEF TextInv
<1> QED BY <1>2, <1>3

(* Image code goes on with what it was given, whole.                       *)
LEMMA UsesText ==
  ASSUME TextInv, NEW count \in Counts, NEW n \in Nat, NEW stored, NEW cs \in Seq(Letters),
         Given(count) = Encode(encoding, cs), count = -1 => cs = said,
         NEW out, out = Encode(Other(encoding), cs),
         Len(out) < n => stored = Append(out, NUL), Len(out) = n => stored = out,
         Uses(count, stored, n), answer' \in Nat, lastError' \in BOOLEAN,
         IF count = -1 THEN Len(out) < n ELSE answer' = Len(out) /\ Len(out) <= n
  PROVE  TextInv'
<1>1. out \in Seq(LetterUnits) /\ Len(out) \in Nat
  BY EncodeType
<1>2. CASE count = -1
  <2>1. Becomes(stored, n) /\ said' = cs
    BY <1>2 DEF Uses
  <2>2. stored = Append(out, NUL) /\ Len(out) < n
    BY <1>2
  <2> QED BY <2>1, <2>2, BecomesText
<1>3. CASE count # -1
  <2>1. Becomes(Append(SubSeq(stored, 1, answer'), NUL), n + 1) /\ said' = Decode(Given(count))
    BY <1>3 DEF Uses
  <2>2. said' = cs
    BY <2>1, DecodeEncode
  <2>3. answer' = Len(out) /\ Len(out) <= n
    BY <1>3
  <2>4. SubSeq(stored, 1, Len(out)) = out
    <3>1. CASE Len(out) = n
      BY <1>1, <3>1, SubSeqFull
    <3>2. CASE Len(out) < n
      <4>1. stored = Held(out, 0)
        <5>1. Append(out, NUL) = Append(out, NUL) ++ <<>>
          <6>1. Append(out, NUL) \in Seq(LetterUnits \cup {NUL})
            BY <1>1
          <6> QED BY <6>1, CatEmpty
        <5>2. Padding(0) = <<>>
          BY DEF Padding
        <5> QED BY <3>2, <5>1, <5>2 DEF Held
      <4>2. Len(out) \in 0 .. Len(out) /\ 0 \in Nat
        BY <1>1
      <4>3. SubSeq(stored, 1, Len(out)) = SubSeq(out, 1, Len(out))
        BY <1>1, <4>1, <4>2, StartOfHeld
      <4> QED BY <1>1, <4>3, SubSeqFull
    <3> QED BY <1>1, <2>3, <3>1, <3>2
  <2>5. n + 1 \in Nat /\ Len(out) < n + 1
    BY <1>1, <2>3
  <2>6. Becomes(Append(out, NUL), n + 1)
    BY <2>1, <2>3, <2>4
  <2> QED BY <2>2, <2>5, <2>6, BecomesText
<1> QED BY <1>2, <1>3

LEMMA WideCharToMultiByteKeeps ==
  ASSUME TextInv, NEW count \in Counts, NEW n \in Nat, WideCharToMultiByte(count, n)
  PROVE  TextInv'
<1> DEFINE done == Icu("utf16", Given(count), n)
           cs == Decode(Given(count))
           out == Encode("utf8", cs)
<1>1. /\ encoding = "utf16" /\ said \in Seq(Letters) /\ answer \in Nat /\ lastError \in BOOLEAN
      /\ Other(encoding) = "utf8" /\ Other("utf16") = "utf8"
  BY OtherIs DEF WideCharToMultiByte, Reads, TextInv
<1>2. CASE done.error = "U_INVALID_CHAR_FOUND"
  <2>1. Abort
    BY <1>2 DEF WideCharToMultiByte
  <2>2. \E k \in DOMAIN said : Width("utf16", said[k]) = 2
    BY <1>1, <1>2, OnlyCutIsInvalid
  <2> QED BY <2>1, <2>2, AbortText
<1>3. CASE done.error # "U_INVALID_CHAR_FOUND"
  <2>1. cs \in Seq(Letters) /\ Given(count) = Encode("utf16", cs)
    BY <1>3, GivenIs, IcuAccepts
  <2>2. out \in Seq(LetterUnits) /\ Len(out) \in Nat
    BY <2>1, EncodeType
  <2>3. /\ done.error = "U_BUFFER_OVERFLOW_ERROR" <=> Len(out) > n
        /\ done.length = Len(out)
        /\ Len(out) < n => done.stored = Append(out, NUL)
        /\ Len(out) = n => done.stored = out
    BY <1>1, <2>1, IcuConverts
  <2>4. count = -1 => cs = said
    <3> SUFFICES ASSUME count = -1 PROVE cs = said
      OBVIOUS
    <3>1. Given(count) = Encode("utf16", said)
      BY <1>1, GivenIs
    <3> QED BY <1>1, <3>1, DecodeEncode
  <2>5. CASE done.error = "U_BUFFER_OVERFLOW_ERROR"
    <3>1. /\ answer' = 0 /\ lastError' = TRUE
          /\ UNCHANGED <<said, encoding, buffer, asked, status>>
      BY <1>3, <2>5 DEF WideCharToMultiByte
    <3>2. answer' \in Nat /\ lastError' \in BOOLEAN
      BY <3>1
    <3> QED BY <3>1, <3>2, AnswerText
  <2>6. CASE done.error # "U_BUFFER_OVERFLOW_ERROR"
    <3>1. /\ answer' = BytesToWrite(count, done)
          /\ IF answer' > n THEN UNCHANGED <<said, encoding, buffer, asked, status>>
             ELSE Uses(count, done.stored, n)
          /\ UNCHANGED lastError
      BY <1>3, <2>6 DEF WideCharToMultiByte
    <3> DEFINE stored == done.stored
               len == done.length
    <3>2. answer' = len + IF count = -1 THEN 1 ELSE 0
      BY <3>1 DEF BytesToWrite
    <3>3. Len(out) <= n
      BY <2>2, <2>3, <2>6
    <3>4. len = Len(out)
      BY <2>3
    <3>5. /\ Len(out) < n => stored = Append(out, NUL)
          /\ Len(out) = n => stored = out
      BY <2>3
    <3>6. IF answer' > n THEN UNCHANGED <<said, encoding, buffer, asked, status>>
          ELSE Uses(count, stored, n)
      BY <3>1
    <3>7. lastError' \in BOOLEAN
      BY <1>1, <3>1
    <3>8. out = Encode(Other(encoding), cs) /\ Given(count) = Encode(encoding, cs)
      BY <1>1, <2>1
    <3> HIDE DEF out, stored, len, cs, done
    <3>9. answer' \in Nat
      BY <2>2, <3>2, <3>4
    <3>10. CASE answer' > n
      <4>1. UNCHANGED <<said, encoding, buffer, asked, status>>
        BY <3>6, <3>10
      <4> QED BY <3>7, <3>9, <4>1, AnswerText
    <3>11. CASE ~(answer' > n)
      <4>1. Uses(count, stored, n)
        BY <3>6, <3>11
      <4>2. IF count = -1 THEN Len(out) < n ELSE answer' = Len(out) /\ Len(out) <= n
        BY <2>2, <3>2, <3>3, <3>4, <3>11
      <4> QED BY <2>1, <2>4, <3>5, <3>7, <3>8, <3>9, <4>1, <4>2, UsesText
    <3> QED BY <3>10, <3>11
  <2> QED BY <2>5, <2>6
<1> QED BY <1>2, <1>3

LEMMA MultiByteToWideCharKeeps ==
  ASSUME TextInv, NEW count \in Counts, NEW n \in Nat, MultiByteToWideChar(count, n)
  PROVE  TextInv'
<1> DEFINE done == Icu("utf8", Given(count), n)
           cs == Decode(Given(count))
           out == Encode("utf16", cs)
<1>1. /\ encoding = "utf8" /\ said \in Seq(Letters) /\ lastError \in BOOLEAN
      /\ Other(encoding) = "utf16" /\ Other("utf8") = "utf16"
  BY OtherIs DEF MultiByteToWideChar, Reads, TextInv
<1>2. CASE Abort
  <2>1. encoding # "utf16"
    BY <1>1
  <2> QED BY <1>2, <2>1, AbortText
<1>3. CASE /\ done.error # "U_INVALID_CHAR_FOUND"
           /\ answer' = done.length
           /\ IF answer' > n \/ (count = -1 /\ answer' = n)
                THEN UNCHANGED <<said, encoding, buffer, asked, status>>
                ELSE Uses(count, done.stored, n)
           /\ UNCHANGED lastError
  <2>1. cs \in Seq(Letters) /\ Given(count) = Encode("utf8", cs)
    BY <1>3, GivenIs, IcuAccepts
  <2>2. out \in Seq(LetterUnits) /\ Len(out) \in Nat
    BY <2>1, EncodeType
  <2>3. /\ done.length = Len(out)
        /\ Len(out) < n => done.stored = Append(out, NUL)
        /\ Len(out) = n => done.stored = out
    BY <1>1, <2>1, IcuConverts
  <2>4. count = -1 => cs = said
    <3> SUFFICES ASSUME count = -1 PROVE cs = said
      OBVIOUS
    <3>1. Given(count) = Encode("utf8", said)
      BY <1>1, GivenIs
    <3> QED BY <1>1, <3>1, DecodeEncode
  <2> DEFINE stored == done.stored
  <2>5. /\ Len(out) < n => stored = Append(out, NUL)
        /\ Len(out) = n => stored = out
    BY <2>3
  <2>6. answer' = Len(out) /\ answer' \in Nat /\ lastError' \in BOOLEAN
    BY <1>1, <1>3, <2>2, <2>3
  <2>7. IF answer' > n \/ (count = -1 /\ answer' = n)
          THEN UNCHANGED <<said, encoding, buffer, asked, status>>
          ELSE Uses(count, stored, n)
    BY <1>3
  <2>8. out = Encode(Other(encoding), cs) /\ Given(count) = Encode(encoding, cs)
    BY <1>1, <2>1
  <2> HIDE DEF out, stored, cs, done
  <2>9. CASE answer' > n \/ (count = -1 /\ answer' = n)
    <3>1. UNCHANGED <<said, encoding, buffer, asked, status>>
      BY <2>7, <2>9
    <3> QED BY <2>6, <3>1, AnswerText
  <2>10. CASE ~(answer' > n \/ (count = -1 /\ answer' = n))
    <3>1. Uses(count, stored, n)
      BY <2>7, <2>10
    <3>2. IF count = -1 THEN Len(out) < n ELSE answer' = Len(out) /\ Len(out) <= n
      BY <2>2, <2>6, <2>10
    <3> QED BY <2>1, <2>4, <2>5, <2>6, <2>8, <3>1, <3>2, UsesText
  <2> QED BY <2>9, <2>10
<1> QED BY <1>2, <1>3 DEF MultiByteToWideChar

(* What xdia.exe was told is one more than the bytes of the text: they and *)
(* their NUL fit.                                                          *)
LEMMA XdiaWc2cKeeps ==
  ASSUME TextInv, XdiaWc2c
  PROVE  TextInv'
<1> DEFINE done == Icu("utf16", CString(buffer), asked)
           out == Encode("utf8", said)
           stored == done.stored
<1>1. /\ encoding = "utf16" /\ said \in Seq(Letters) /\ lastError \in BOOLEAN
      /\ Other(encoding) = "utf8" /\ Other("utf16") = "utf8"
  BY OtherIs DEF XdiaWc2c, Reads, TextInv
<1>2. asked # NotAsked /\ asked \in Nat /\ asked = Len(out) + 1
  BY DEF XdiaWc2c, TextInv, AskedInv
<1>3. out \in Seq(LetterUnits) /\ Len(out) \in Nat
  BY <1>1, EncodeType
<1>4. CString(buffer) = Encode("utf16", said)
  BY <1>1, CStringIs
<1>5. /\ done.error = "U_BUFFER_OVERFLOW_ERROR" <=> Len(out) > asked
      /\ done.length = Len(out)
      /\ Len(out) < asked => done.stored = Append(out, NUL)
  BY <1>1, <1>2, <1>4, IcuConverts
<1>6. done.error # "U_BUFFER_OVERFLOW_ERROR" /\ Len(out) < asked
  <2> HIDE DEF out, done
  <2> QED BY <1>2, <1>3, <1>5
<1>7. /\ answer' = BytesToWrite(-1, done) /\ lastError' = lastError
      /\ Becomes(stored, asked + 1) /\ said' = said
  BY <1>6 DEF XdiaWc2c
<1>8. stored = Append(out, NUL)
  BY <1>5, <1>6
<1>9. answer' = Len(out) + 1
  BY <1>5, <1>7 DEF BytesToWrite
<1>10. out = Encode(Other(encoding), said)
  BY <1>1
<1> HIDE DEF done, stored, out
<1>11. answer' \in Nat /\ lastError' \in BOOLEAN /\ asked + 1 \in Nat /\ Len(out) < asked + 1
  BY <1>1, <1>2, <1>3, <1>6, <1>7, <1>9
<1> QED BY <1>1, <1>7, <1>8, <1>10, <1>11, BecomesText

LEMMA InitTextInv == Init => TextInv
<1> SUFFICES ASSUME Init PROVE TextInv
  OBVIOUS
<1>1. said \in Seq(Letters)
  BY TextAssumption DEF Init, SeqOf
<1>2. Encode(encoding, said) \in Seq(LetterUnits)
  BY <1>1, EncodeType
<1>3. buffer = Held(Encode(encoding, said), 0)
  <2> DEFINE b == Append(Encode(encoding, said), NUL)
  <2>1. b \in Seq(LetterUnits \cup {NUL})
    BY <1>2
  <2>2. Padding(0) = <<>>
    BY DEF Padding
  <2>3. buffer = b
    BY DEF Init
  <2>4. Held(Encode(encoding, said), 0) = b ++ <<>>
    BY <2>2 DEF Held
  <2> HIDE DEF b
  <2> QED BY <2>1, <2>3, <2>4, CatEmpty
<1>4. 0 \in Nat
  OBVIOUS
<1>5. HeldInv
  BY <1>3, <1>4 DEF HeldInv
<1> QED BY <1>1, <1>5 DEF Init, TextInv, AskedInv, OnlyCutPairsAbort

LEMMA NextTextInv == TextInv /\ [Next]_vars => TextInv'
<1> SUFFICES ASSUME TextInv, [Next]_vars PROVE TextInv'
  OBVIOUS
<1>1. \A n \in 0 .. MaxBuffer : n \in Nat
  BY TextAssumption
<1>2. CASE LoaderWc2c
  BY <1>2, LoaderWc2cKeeps
<1>3. CASE LoaderC2wc
  BY <1>3, LoaderC2wcKeeps
<1>4. ASSUME NEW count \in Counts, AskWideCharToMultiByte(count) PROVE TextInv'
  BY <1>4, AskKeeps
<1>5. ASSUME NEW count \in Counts, NEW n \in 0 .. MaxBuffer, WideCharToMultiByte(count, n)
      PROVE  TextInv'
  BY <1>1, <1>5, WideCharToMultiByteKeeps
<1>6. ASSUME NEW count \in Counts, NEW n \in 0 .. MaxBuffer, MultiByteToWideChar(count, n)
      PROVE  TextInv'
  BY <1>1, <1>6, MultiByteToWideCharKeeps
<1>7. CASE XdiaWc2c
  BY <1>7, XdiaWc2cKeeps
<1>8. CASE UNCHANGED vars
  BY <1>8 DEF vars, TextInv, HeldInv, AskedInv, OnlyCutPairsAbort
<1> QED BY <1>2, <1>3, <1>4, <1>5, <1>6, <1>7, <1>8 DEF Next

LEMMA TextInvHolds == Spec => []TextInv
BY InitTextInv, NextTextInv, PTL DEF Spec

-----------------------------------------------------------------------------
(* The theorems                                                            *)

(* The text, its memory and the answers keep their types through any calls.*)
THEOREM TypesHold == Spec => []TypeOK
<1>1. TextInv => TypeOK
  BY CStringIs DEF TextInv, TypeOK
<1> QED BY <1>1, TextInvHolds, PTL

(* Whatever calls convert a text, in whatever order, with whatever counts  *)
(* and buffers: it is, up to its NUL, the encoding of what it says.        *)
THEOREM TextsSurvive == Spec => []TextSurvives
<1>1. TextInv => TextSurvives
  BY CStringIs DEF TextSurvives
<1> QED BY <1>1, TextInvHolds, PTL

(* No call stores more than the memory it was given holds, and each leaves *)
(* a NUL in it.                                                            *)
THEOREM NothingOverruns == Spec => []NoOverrun
<1>1. TextInv => NoOverrun
  <2> SUFFICES ASSUME TextInv PROVE NoOverrun
    OBVIOUS
  <2>1. status # "overrun"
    BY DEF TextInv
  <2> QED BY <2>1, CStringIs DEF NoOverrun
<1> QED BY <1>1, TextInvHolds, PTL

(* The loader stops over a wide text only when it holds a surrogate pair,  *)
(* which image code gave it half of.                                       *)
THEOREM OnlyCutPairsStop == Spec => []OnlyCutPairsAbort
<1>1. TextInv => OnlyCutPairsAbort
  BY DEF TextInv
<1> QED BY <1>1, TextInvHolds, PTL

(* A second WideCharToMultiByte with the room the first one asked for      *)
(* answers what the first one did and converts the text.                   *)
THEOREM AskedSizesAreEnough == Spec => AskedIsEnough
<1> DEFINE A == \A n \in 0 .. MaxBuffer :
                  asked # NotAsked /\ n >= asked /\ WideCharToMultiByte(-1, n)
                    => answer' = asked /\ encoding' = "utf8"
<1>1. TextInv => A
  <2> SUFFICES ASSUME TextInv, NEW n \in 0 .. MaxBuffer, asked # NotAsked, n >= asked,
                      WideCharToMultiByte(-1, n)
               PROVE  answer' = asked /\ encoding' = "utf8"
    OBVIOUS
  <2> DEFINE done == Icu("utf16", Given(-1), n)
             out == Encode("utf8", said)
             len == done.length
             stored == done.stored
  <2>1. /\ encoding = "utf16" /\ said \in Seq(Letters)
        /\ Other(encoding) = "utf8" /\ Other("utf16") = "utf8"
    BY OtherIs DEF WideCharToMultiByte, Reads, TextInv
  <2>2. asked = Len(out) + 1 /\ n \in Nat
    BY TextAssumption DEF TextInv, AskedInv
  <2>3. out \in Seq(LetterUnits) /\ Len(out) \in Nat
    BY <2>1, EncodeType
  <2>4. -1 \in Counts
    BY DEF Counts
  <2>5. Given(-1) = Encode("utf16", said)
    BY <2>1, <2>4, GivenIs
  <2>6. /\ done.error # "U_INVALID_CHAR_FOUND"
        /\ done.error = "U_BUFFER_OVERFLOW_ERROR" <=> Len(out) > n
        /\ len = Len(out)
    BY <2>1, <2>2, <2>5, IcuConverts
  <2>7. ~(Len(out) > n)
    <3> HIDE DEF out
    <3> QED BY <2>2, <2>3
  <2>8. /\ answer' = len + 1
        /\ IF answer' > n THEN UNCHANGED <<said, encoding, buffer, asked, status>>
           ELSE Uses(-1, stored, n)
    BY <2>6, <2>7 DEF WideCharToMultiByte, BytesToWrite
  <2>9. answer' = asked
    BY <2>2, <2>6, <2>8
  <2>10. Uses(-1, stored, n)
    <3>1. ~(answer' > n)
      <4> HIDE DEF out
      <4> QED BY <2>2, <2>3, <2>9
    <3> QED BY <2>8, <3>1
  <2>11. encoding' = "utf8"
    BY <2>1, <2>10 DEF Uses, Becomes
  <2> QED BY <2>9, <2>11
<1> QED BY <1>1, TextInvHolds, PTL DEF Spec, AskedIsEnough
=============================================================================
