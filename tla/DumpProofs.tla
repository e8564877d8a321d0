------------------------------ MODULE DumpProofs ------------------------------
(***************************************************************************)
(* What pyxdia returns is all that DIA handed out, and it raises only for  *)
(* a cause: for every set of PDBs, every size of the stdio buffer and of   *)
(* the pipe.                                                               *)
(*                                                                         *)
(* Three things carry the proof: how much of the PDB xdia has collected at *)
(* each step (PublicsInv, GlobalsInv), that what was read, the pipe, the   *)
(* buffer and what is left to write are together one text (FlowInv), and   *)
(* which ends are left to xdia (EndInv).                                   *)
(***************************************************************************)
EXTENDS PipelineProofs

-----------------------------------------------------------------------------
(* Where xdia is in the dump, and that it is coming to its end with it.     *)
Collecting == {"load", "findPublics", "publics", "findGlobals", "globals"}
Loading    == {"load", "findPublics"}
Ending     == at \in {"exit", "terminate", "ended"} /\ code = 0 /\ status # Killed

(* There is a file that loadDataFromPdb can be given.                       *)
Reachable == pdb.there

(* The first n symbols of a listing can be printed.                         *)
Printable(l, n) == \A m \in 1..n : ~Kills(l.symbols[m])

(* How the program ends, and what must have been wrong when it does not     *)
(* end well.                                                                *)
EndInv ==
  /\ status # Running <=> at = "ended"
  /\ status \in {Running, Killed, code}
  /\ at \in Collecting \cup {"puts"} => code = 0
  /\ at = "dead" \/ status = Killed \/ code = 255 => ~Dumpable(pdb, host)
  /\ at = "load" =>
       /\ pdb.fails = 0 \/ pdb.fails >= call
       /\ call > OpenCall => Reachable
  /\ at \in (Collecting \cup {"puts"}) \ {"load"} \/ Ending => pdb.fails = 0 /\ Reachable

(* What DumpAllGlobals returns.                                             *)
Dumped(p) == IF TagsFound(p) THEN Globals(p) ELSE False

(* The items of the tags before t.                                          *)
Collected(p, t) == IF t = 1 THEN <<>>
                   ELSE IF t = 2 THEN GlobalItems(p, 1)
                   ELSE IF t = 3 THEN GlobalItems(p, 1) \o GlobalItems(p, 2)
                   ELSE GlobalItems(p, 1) \o GlobalItems(p, 2) \o GlobalItems(p, 3)

TagDone(t) == /\ pdb.globals[t].found
              /\ Printable(pdb.globals[t], Len(pdb.globals[t].symbols))

PublicsInv ==
  /\ at \in Loading => publics = Null
  /\ at = "publics" =>
       /\ pdb.publics.found
       /\ k <= Len(pdb.publics.symbols) + 1
       /\ publics = AsList(SubSeq(PublicItems(pdb), 1, k - 1))
       /\ Printable(pdb.publics, k - 1)
  /\ at \in {"findGlobals", "globals", "puts"} \/ Ending =>
       /\ publics = Publics(pdb)
       /\ Printable(pdb.publics, Len(pdb.publics.symbols))

GlobalsInv ==
  /\ at \in Loading \cup {"publics"} => globals = Null /\ tag = 1
  /\ at = "findGlobals" =>
       /\ globals = AsList(Collected(pdb, tag))
       /\ \A u \in 1..3 : u < tag => TagDone(u)
  /\ at = "globals" =>
       /\ pdb.globals[tag].found
       /\ k <= Len(pdb.globals[tag].symbols) + 1
       /\ globals = AsList(Collected(pdb, tag) \o SubSeq(GlobalItems(pdb, tag), 1, k - 1))
       /\ Printable(pdb.globals[tag], k - 1)
       /\ \A u \in 1..3 : u < tag => TagDone(u)
  /\ at = "puts" \/ Ending =>
       /\ globals = Dumped(pdb)
       /\ \A t \in 1..3 : (\A u \in 1..t : pdb.globals[u].found) => TagDone(t)

(* Where the printed pieces are: read, in the pipe, in the buffer, or still *)
(* to be written; on Windows a complaint goes elsewhere.                    *)
Kept(o) == IF host = "windows" /\ o = <<Complaint>> THEN <<>> ELSE o
Sent    == got \o (pipe \o (stdio \o Kept(out)))
Noise   == IF host = "loader" /\ globals = False THEN <<Complaint>> ELSE <<>>

FlowInv ==
  /\ at \in Collecting => Sent = <<>>
  /\ at = "puts" => Sent = Noise
  /\ Ending => Sent = Noise \o Text

(* Nothing is left in a buffer once it can no longer be written.            *)
BufferInv ==
  /\ host = "windows" => stdio = <<>>
  /\ host = "windows" => out = <<Complaint>> \/ \A n \in 1..Len(out) : out[n].fd = 1
  /\ at \in {"terminate", "dead", "ended"} => out = <<>>
  /\ at = "ended" => stdio = <<>>
  /\ py # "reading" => at = "ended" /\ pipe = <<>>

DumpInv ==
  /\ EndInv
  /\ PublicsInv
  /\ GlobalsInv
  /\ FlowInv
  /\ BufferInv

-----------------------------------------------------------------------------
(* Sequences                                                                *)

LEMMA PrefixGrows ==
  ASSUME NEW S, NEW s \in Seq(S), NEW n \in 1..Len(s)
  PROVE  SubSeq(s, 1, n) = Append(SubSeq(s, 1, n - 1), s[n])
  OBVIOUS

LEMMA WholePrefix ==
  ASSUME NEW S, NEW s \in Seq(S)
  PROVE  SubSeq(s, 1, Len(s)) = s /\ SubSeq(s, 1, 0) = <<>>
  OBVIOUS

(* A piece that goes from the head of t to the end of s stays in place.     *)
LEMMA MoveOne ==
  ASSUME NEW S, NEW s \in Seq(S), NEW t \in Seq(S), t # <<>>
  PROVE  Append(s, Head(t)) \o Tail(t) = s \o t
  OBVIOUS

LEMMA Regroup ==
  ASSUME NEW S, NEW s \in Seq(S), NEW t \in Seq(S), NEW u \in Seq(S)
  PROVE  (s \o t) \o u = s \o (t \o u)
  OBVIOUS

LEMMA NothingAdded ==
  ASSUME NEW S, NEW s \in Seq(S)
  PROVE  <<>> \o s = s /\ s \o <<>> = s
  OBVIOUS

(* The places of two sequences put together.                                *)
LEMMA ConcatAt ==
  ASSUME NEW S, NEW s \in Seq(S), NEW t \in Seq(S)
  PROVE  /\ Len(s \o t) = Len(s) + Len(t)
         /\ \A n \in 1..Len(s) : (s \o t)[n] = s[n]
         /\ \A n \in 1..Len(t) : (s \o t)[Len(s) + n] = t[n]
  <1>1. Len(s \o t) = Len(s) + Len(t)
    OBVIOUS
  <1>2. \A n \in 1..Len(s) : (s \o t)[n] = s[n]
    OBVIOUS
  <1>3. \A n \in 1..Len(t) : (s \o t)[Len(s) + n] = t[n]
    OBVIOUS
  <1> QED
    BY <1>1, <1>2, <1>3

(* Nothing printed so far: nothing is anywhere.                             *)
LEMMA AllEmpty ==
  ASSUME NEW S, NEW s \in Seq(S), NEW t \in Seq(S), s \o t = <<>>
  PROVE  s = <<>> /\ t = <<>>
  <1>1. Len(s \o t) = Len(s) + Len(t)
    OBVIOUS
  <1> QED
    BY <1>1
-----------------------------------------------------------------------------
(* Listings and lists                                                       *)

LEMMA PdbType ==
  ASSUME NEW p \in Pdbs
  PROVE  /\ p \in Pdb
         /\ p.publics \in Listing /\ p.publics.symbols \in Seq(Symbol)
         /\ \A t \in 1..3 : p.globals[t] \in Listing /\ p.globals[t].symbols \in Seq(Symbol)
         /\ ~p.publics.found => p.publics.symbols = <<>>
  <1>1. p \in Pdb /\ (~p.publics.found => p.publics.symbols = <<>>)
    BY DumpAssumption
  <1>2. p.publics \in Listing /\ p.globals \in [1..3 -> Listing]
    BY <1>1 DEF Pdb
  <1> QED
    BY <1>1, <1>2 DEF Listing

LEMMA PublicItemsType ==
  ASSUME NEW p \in Pdbs
  PROVE  /\ PublicItems(p) \in Seq(Entry)
         /\ Len(PublicItems(p)) = Len(p.publics.symbols)
         /\ \A n \in 1..Len(p.publics.symbols) : PublicItems(p)[n] = PublicEntry(p.publics.symbols[n])
  <1> DEFINE s == p.publics.symbols
  <1>1. s \in Seq(Symbol)
    BY PdbType
  <1>2. \A n \in 1..Len(s) : PublicEntry(s[n]) \in Entry
    BY <1>1, ElementType, PublicEntryType
  <1>3. DOMAIN s = 1..Len(s) /\ Len(s) \in Nat
    BY <1>1
  <1>4. PublicItems(p) = [n \in 1..Len(s) |-> PublicEntry(s[n])]
    BY <1>3 DEF PublicItems
  <1> HIDE DEF s
  <1> QED
    BY <1>2, <1>3, <1>4 DEF s

LEMMA GlobalItemsType ==
  ASSUME NEW p \in Pdbs, NEW t \in 1..3
  PROVE  /\ GlobalItems(p, t) \in Seq(Entry)
         /\ Len(GlobalItems(p, t)) = Len(p.globals[t].symbols)
         /\ \A n \in 1..Len(p.globals[t].symbols) :
              GlobalItems(p, t)[n] = GlobalEntry(p.globals[t].symbols[n])
  <1> DEFINE s == p.globals[t].symbols
  <1>1. s \in Seq(Symbol)
    BY PdbType
  <1>2. \A n \in 1..Len(s) : GlobalEntry(s[n]) \in Entry
    BY <1>1, ElementType, GlobalEntryType
  <1>3. DOMAIN s = 1..Len(s) /\ Len(s) \in Nat
    BY <1>1
  <1>4. GlobalItems(p, t) = [n \in 1..Len(s) |-> GlobalEntry(s[n])]
    BY <1>3 DEF GlobalItems
  <1> HIDE DEF s
  <1> QED
    BY <1>2, <1>3, <1>4 DEF s

LEMMA CollectedType ==
  ASSUME NEW p \in Pdbs, NEW t \in 1..3
  PROVE  /\ Collected(p, t) \in Seq(Entry)
         /\ Collected(p, t + 1) = Collected(p, t) \o GlobalItems(p, t)
  <1>1. /\ GlobalItems(p, 1) \in Seq(Entry)
        /\ GlobalItems(p, 2) \in Seq(Entry)
        /\ GlobalItems(p, 3) \in Seq(Entry)
    BY GlobalItemsType
  <1>2. <<>> \o GlobalItems(p, 1) = GlobalItems(p, 1)
    BY <1>1, NothingAdded
  <1>3. (GlobalItems(p, 1) \o GlobalItems(p, 2)) \in Seq(Entry) /\ <<>> \in Seq(Entry)
    BY <1>1
  <1>4. CASE t = 1
    BY <1>1, <1>2, <1>3, <1>4 DEF Collected
  <1>5. CASE t = 2
    BY <1>1, <1>3, <1>5 DEF Collected
  <1>6. CASE t = 3
    BY <1>1, <1>3, <1>6 DEF Collected
  <1> QED
    BY <1>4, <1>5, <1>6

(* One more item in the JSON array of a list.                               *)
LEMMA PushList ==
  ASSUME NEW s \in Seq(Entry), NEW e \in Entry
  PROVE  Push(AsList(s), e) = AsList(Append(s, e))
  <1>1. AsList(s).items = s
    BY DEF AsList, Null
  <1>2. Append(s, e) # <<>>
    <2>1. Len(Append(s, e)) = Len(s) + 1 /\ Len(s) \in Nat
      BY AppendType
    <2> QED
      BY <2>1
  <1> QED
    BY <1>1, <1>2 DEF Push, AsList

LEMMA ListsAreNotFalse == ASSUME NEW s PROVE AsList(s) # False
  BY DEF AsList, Null, False

(* The reference definitions, in terms of the items.                        *)
LEMMA WholeLists ==
  ASSUME NEW p \in Pdbs
  PROVE  /\ Publics(p) = AsList(PublicItems(p))
         /\ (\A t \in 1..3 : p.globals[t].found) => Dumped(p) = AsList(Collected(p, 4))
         /\ (\E t \in 1..3 : ~p.globals[t].found) => Dumped(p) = False
  BY DEF Publics, Dumped, TagsFound, Globals, Collected

(* The entries of two lists of symbols.                                     *)
LEMMA EntriesOfBoth ==
  ASSUME NEW s \in Seq(Symbol), NEW t \in Seq(Symbol)
  PROVE  [n \in DOMAIN (s \o t) |-> GlobalEntry((s \o t)[n])]
           = [n \in DOMAIN s |-> GlobalEntry(s[n])] \o [n \in DOMAIN t |-> GlobalEntry(t[n])]
  OBVIOUS

(* When no call fails, what was handed out is all there is.                 *)
LEMMA EverySymbol ==
  ASSUME NEW p \in Pdbs, AnswersAll(p)
  PROVE  EveryPublic(p) = Publics(p) /\ EveryGlobal(p) = Globals(p)
  <1>1. \A t \in 1..3 : p.globals[t].behind = <<>> /\ p.globals[t].symbols \in Seq(Symbol)
    BY PdbType DEF AnswersAll
  <1>2. p.publics.behind = <<>> /\ p.publics.symbols \in Seq(Symbol)
    BY PdbType DEF AnswersAll
  <1>3. All(p.publics) = p.publics.symbols
    BY <1>2, NothingAdded DEF All
  <1>4. \A t \in 1..3 : All(p.globals[t]) = p.globals[t].symbols
    BY <1>1, NothingAdded DEF All
  <1> DEFINE a == p.globals[1].symbols
             b == p.globals[2].symbols
             c == p.globals[3].symbols
  <1>5. a \in Seq(Symbol) /\ b \in Seq(Symbol) /\ c \in Seq(Symbol)
    BY <1>1
  <1>6. EveryGlobal(p) = AsList([n \in DOMAIN ((a \o b) \o c) |-> GlobalEntry(((a \o b) \o c)[n])])
    <2>1. All(p.globals[1]) = a /\ All(p.globals[2]) = b /\ All(p.globals[3]) = c
      BY <1>4
    <2> HIDE DEF a, b, c
    <2>2. (a \o b) \o c = a \o (b \o c)
      BY <1>5
    <2> QED
      BY <2>1, <2>2 DEF EveryGlobal
  <1>7. Globals(p) = AsList(([n \in DOMAIN a |-> GlobalEntry(a[n])] \o [n \in DOMAIN b |-> GlobalEntry(b[n])])
                             \o [n \in DOMAIN c |-> GlobalEntry(c[n])])
    BY DEF Globals, GlobalItems
  <1> HIDE DEF a, b, c
  <1>8. (a \o b) \in Seq(Symbol)
    BY <1>5
  <1>9. EveryGlobal(p) = Globals(p)
    BY <1>5, <1>6, <1>7, <1>8, EntriesOfBoth
  <1> QED
    BY <1>3, <1>9 DEF EveryPublic, Publics, PublicItems

(* A symbol whose printing would end xdia keeps its PDB from being dumped.  *)
LEMMA PublicKills ==
  ASSUME NEW n \in DOMAIN pdb.publics.symbols, Kills(pdb.publics.symbols[n])
  PROVE  ~Dumpable(pdb, host)
  <1>1. pdb.publics.symbols[n] \in SymbolsOf(pdb)
    BY DEF SymbolsOf
  <1> QED
    BY <1>1 DEF Kills, Dumpable, Sound

LEMMA GlobalKills ==
  ASSUME NEW t \in 1..3, \A u \in 1..t : pdb.globals[u].found,
         NEW n \in DOMAIN pdb.globals[t].symbols, Kills(pdb.globals[t].symbols[n])
  PROVE  ~Dumpable(pdb, host)
  <1>1. pdb.globals[t].symbols[n] \in SymbolsOf(pdb)
    BY DEF SymbolsOf
  <1> QED
    BY <1>1 DEF Kills, Dumpable, Sound

(* The other way round, when every symbol xdia gets to see can be printed.  *)
LEMMA NothingKills ==
  ASSUME pdb \in Pdbs, Reachable, pdb.fails = 0,
         Printable(pdb.publics, Len(pdb.publics.symbols)),
         \A t \in 1..3 : (\A u \in 1..t : pdb.globals[u].found) => TagDone(t),
         host = "loader" => \A t \in 1..3 : pdb.globals[t].found
  PROVE  Dumpable(pdb, host)
  <1>1. ASSUME NEW s \in SymbolsOf(pdb) PROVE ~Kills(s)
    <2>1. CASE \E n \in DOMAIN pdb.publics.symbols : s = pdb.publics.symbols[n]
      <3>1. PICK n \in DOMAIN pdb.publics.symbols : s = pdb.publics.symbols[n]
        BY <2>1
      <3>2. n \in 1..Len(pdb.publics.symbols)
        BY PdbType
      <3> QED
        BY <3>1, <3>2 DEF Printable
    <2>2. CASE \E t \in 1..3 : /\ \A u \in 1..t : pdb.globals[u].found
                               /\ \E n \in DOMAIN pdb.globals[t].symbols : s = pdb.globals[t].symbols[n]
      <3>1. PICK t \in 1..3 : /\ \A u \in 1..t : pdb.globals[u].found
                              /\ \E n \in DOMAIN pdb.globals[t].symbols : s = pdb.globals[t].symbols[n]
        BY <2>2
      <3>2. PICK n \in DOMAIN pdb.globals[t].symbols : s = pdb.globals[t].symbols[n]
        BY <3>1
      <3>3. n \in 1..Len(pdb.globals[t].symbols)
        BY PdbType
      <3> QED
        BY <3>1, <3>2, <3>3 DEF Printable, TagDone
    <2> QED
      BY <2>1, <2>2 DEF SymbolsOf
  <1>2. ASSUME host = "loader" PROVE \A s \in SymbolsOf(pdb) : s.tagged /\ s.named => s.valid
    BY <1>1, <1>2 DEF Kills, Reachable
  <1>3. \A s \in SymbolsOf(pdb) : ~(s.tag = "Thunk" /\ s.tagged /\ s.named)
    BY <1>1 DEF Kills
  <1> QED
    BY <1>2, <1>3 DEF Dumpable, Sound, Reachable, TagsFound

-----------------------------------------------------------------------------
(* How xdia ends                                                            *)

LEMMA EndSame ==
  ASSUME EndInv, UNCHANGED <<run, at, call, code, status>>
  PROVE  EndInv'
  BY DEF EndInv, run, Ending, Reachable

LEMMA DieEnds ==
  ASSUME EndInv, Die, UNCHANGED status, at # "ended", ~Dumpable(pdb, host)
  PROVE  EndInv'
  BY DEF EndInv, Die, run, counters, Ending, Reachable, Collecting

LEMMA LoadCallEnds ==
  ASSUME Inv, EndInv, LoadCall, UNCHANGED <<transport, pyVars>>
  PROVE  EndInv'
  <1>1. at = "load" /\ (pdb.fails = 0 \/ pdb.fails >= call) /\ (call > OpenCall => Reachable)
    BY DEF LoadCall, Ready, EndInv
  <1>2. CASE call = OpenCall /\ host = "loader" /\ ~pdb.there
    <2>1. Die /\ ~Dumpable(pdb, host)
      BY <1>2 DEF LoadCall, Dumpable, Sound
    <2> QED
      BY <1>1, <2>1, DieEnds DEF transport
  <1>3. CASE /\ ~(call = OpenCall /\ host = "loader" /\ ~pdb.there)
             /\ call = pdb.fails \/ (call = OpenCall /\ ~pdb.there)
    <2>1. ~Dumpable(pdb, host)
      BY <1>3 DEF Dumpable, Sound, Inv, TypeOK
    <2>2. at' = "exit" /\ code' = 255 /\ UNCHANGED <<run, status>>
      BY <1>3 DEF LoadCall, transport
    <2>3. status = Running
      BY <1>1 DEF EndInv
    <2> QED
      BY <2>1, <2>2, <2>3 DEF EndInv, Ending, run, Collecting, Running, Killed
  <1>4. CASE /\ ~(call = OpenCall /\ host = "loader" /\ ~pdb.there)
             /\ ~(call = pdb.fails \/ (call = OpenCall /\ ~pdb.there))
    <2>1. /\ UNCHANGED <<run, code, status>>
          /\ \/ call < LastCall /\ call' = call + 1 /\ at' = "load"
             \/ ~(call < LastCall) /\ call' = call /\ at' = "findPublics"
      BY <1>4 DEF LoadCall, Go, transport
    <2>2. pdb.fails \in 0..7 /\ call \in 1..7
      BY PdbType DEF Inv, TypeOK, Pdb, LastCall
    <2>3. status = Running /\ code = 0
      BY <1>1 DEF EndInv, Collecting
    <2>4. call >= OpenCall => Reachable
      BY <1>1, <1>4, <2>2 DEF OpenCall, Reachable
    <2>5. CASE call < LastCall /\ call' = call + 1 /\ at' = "load"
      <3>1. pdb'.fails = 0 \/ pdb'.fails >= call'
        BY <1>1, <1>4, <2>1, <2>2, <2>5 DEF run
      <3>2. call' > OpenCall => Reachable'
        BY <2>1, <2>2, <2>4, <2>5 DEF OpenCall, Reachable, run
      <3> QED
        BY <2>1, <2>3, <2>5, <3>1, <3>2 DEF EndInv, Ending, Running, Killed
    <2>6. CASE ~(call < LastCall) /\ call' = call /\ at' = "findPublics"
      <3>1. pdb.fails = 0 /\ Reachable
        BY <1>1, <1>4, <2>2, <2>4, <2>6 DEF OpenCall, LastCall
      <3> QED
        BY <2>1, <2>3, <2>6, <3>1 DEF EndInv, Ending, Running, Killed, Reachable, run
    <2> QED
      BY <2>1, <2>5, <2>6
  <1> QED
    BY <1>2, <1>3, <1>4

(* A step from one stage of the dump to a later one.                        *)
LEMMA StageEnds ==
  ASSUME EndInv, at \in (Collecting \cup {"puts"}) \ {"load"}, UNCHANGED <<run, code, status>>,
         at' \in (Collecting \cup {"puts", "exit"}) \ {"load"}
  PROVE  EndInv'
  BY DEF EndInv, run, Ending, Reachable, Collecting

LEMMA NextPublicEnds ==
  ASSUME Inv, EndInv, NextPublic, UNCHANGED <<transport, pyVars>>
  PROVE  EndInv'
  <1>1. at = "publics" /\ k \in 1..Len(pdb.publics.symbols)
    BY ListingType DEF NextPublic, Ready, Inv, TypeOK
  <1>2. CASE Kills(pdb.publics.symbols[k])
    <2>1. k \in DOMAIN pdb.publics.symbols
      BY <1>1, ListingType DEF Inv
    <2>2. ~Dumpable(pdb, host) /\ Die
      BY <1>2, <2>1, PublicKills DEF NextPublic
    <2> QED
      BY <1>1, <2>2, DieEnds DEF transport
  <1>3. CASE ~Kills(pdb.publics.symbols[k])
    BY <1>3, EndSame DEF NextPublic, transport
  <1> QED
    BY <1>2, <1>3

LEMMA NextGlobalEnds ==
  ASSUME Inv, EndInv, GlobalsInv, NextGlobal, UNCHANGED <<transport, pyVars>>
  PROVE  EndInv'
  <1>1. at = "globals" /\ tag \in 1..3 /\ k \in 1..Len(pdb.globals[tag].symbols)
    BY ListingType DEF NextGlobal, Ready, Inv, TypeOK
  <1>2. CASE Kills(pdb.globals[tag].symbols[k])
    <2>1. k \in DOMAIN pdb.globals[tag].symbols
      BY <1>1, ListingType DEF Inv
    <2>2. \A u \in 1..tag : pdb.globals[u].found
      BY <1>1 DEF GlobalsInv, TagDone
    <2>3. ~Dumpable(pdb, host) /\ Die
      BY <1>1, <1>2, <2>1, <2>2, GlobalKills DEF NextGlobal
    <2> QED
      BY <1>1, <2>3, DieEnds DEF transport
  <1>3. CASE ~Kills(pdb.globals[tag].symbols[k])
    BY <1>3, EndSame DEF NextGlobal, transport
  <1> QED
    BY <1>2, <1>3

LEMMA XdiaEnds ==
  ASSUME Inv, EndInv, GlobalsInv, XdiaStep, UNCHANGED <<transport, pyVars>>
  PROVE  EndInv'
  <1>1. CASE FindPublics \/ EndPublics \/ FindGlobals \/ EndGlobals \/ Puts
    <2>1. /\ at \in (Collecting \cup {"puts"}) \ {"load"}
          /\ at' \in (Collecting \cup {"puts", "exit"}) \ {"load"}
          /\ UNCHANGED <<run, code, status>>
      BY <1>1 DEF FindPublics, EndPublics, FindGlobals, EndGlobals, Puts, Ready, Go, Collecting,
        transport
    <2> QED
      BY <2>1, StageEnds
  <1>2. CASE Exit
    BY <1>2 DEF Exit, Ready, Go, EndInv, Ending, Collecting, run, Reachable, transport
  <1> QED
    BY <1>1, <1>2, LoadCallEnds, NextPublicEnds, NextGlobalEnds DEF XdiaStep

LEMMA LastStepEnds ==
  ASSUME Inv, EndInv, TerminateProcess \/ Abort
  PROVE  EndInv'
  <1>1. CASE TerminateProcess
    BY <1>1 DEF TerminateProcess, Inv, TypeOK, EndInv, Ending, Collecting, run, Reachable, Running,
      Killed
  <1>2. CASE Abort
    BY <1>2 DEF Abort, Inv, TypeOK, EndInv, Ending, Collecting, run, Reachable, Running, Killed
  <1> QED
    BY <1>1, <1>2

LEMMA EndsKept ==
  ASSUME Inv, EndInv, GlobalsInv, [Next]_vars
  PROVE  EndInv'
  <1>1. CASE WriteFile \/ Drain \/ PyxdiaProcess \/ UNCHANGED vars
    <2>1. UNCHANGED <<run, at, call, code, status>>
      BY <1>1 DEF WriteFile, Drain, PyxdiaProcess, Read, EndOfOutput, LoadPdb, vars, xdiaVars,
        counters, transport
    <2> QED
      BY <2>1, EndSame
  <1> QED
    BY <1>1, XdiaEnds, LastStepEnds DEF Next, XdiaProcess

-----------------------------------------------------------------------------
(* What xdia has collected                                                  *)

LEMMA ListsSame ==
  ASSUME PublicsInv, GlobalsInv, UNCHANGED <<run, at, tag, k, values, code>>,
         status' = status \/ at \notin {"exit", "terminate", "ended"}
  PROVE  PublicsInv' /\ GlobalsInv'
  BY DEF PublicsInv, GlobalsInv, run, values, Ending, Printable, TagDone, Kills

LEMMA DieLists ==
  ASSUME Die
  PROVE  PublicsInv' /\ GlobalsInv'
  BY DEF PublicsInv, GlobalsInv, Die, Ending, Loading

(* A stage that leaves the public list alone.                               *)
LEMMA PublicsStay ==
  ASSUME PublicsInv, at \in {"findGlobals", "globals", "puts"} \/ Ending,
         UNCHANGED <<run, publics>>, at' \notin Loading \cup {"publics"}
  PROVE  PublicsInv'
  BY DEF PublicsInv, run, Printable, Kills

LEMMA LoadCallLists ==
  ASSUME Inv, PublicsInv, GlobalsInv, LoadCall, UNCHANGED <<transport, pyVars>>
  PROVE  PublicsInv' /\ GlobalsInv'
  <1>1. at = "load" /\ publics = Null /\ globals = Null /\ tag = 1
    BY DEF LoadCall, Ready, PublicsInv, GlobalsInv, Loading
  <1>2. CASE Die
    BY <1>2, DieLists
  <1>3. CASE code' = 255 /\ at' = "exit"
    BY <1>3 DEF PublicsInv, GlobalsInv, Ending, Loading
  <1>4. CASE at' \in {"load", "findPublics"} /\ UNCHANGED <<tag, values>>
    BY <1>1, <1>4 DEF PublicsInv, GlobalsInv, Ending, Loading, values
  <1> QED
    BY <1>2, <1>3, <1>4 DEF LoadCall, Go

LEMMA FindPublicsLists ==
  ASSUME Inv, PublicsInv, GlobalsInv, FindPublics, UNCHANGED <<transport, pyVars>>
  PROVE  PublicsInv' /\ GlobalsInv'
  <1>1. publics = Null /\ globals = Null /\ tag = 1
    BY DEF FindPublics, Ready, PublicsInv, GlobalsInv, Loading
  <1>2. UNCHANGED <<run, publics, globals, tag>> /\ k' = 1
    BY DEF FindPublics, Go, values
  <1>3. Null = AsList(<<>>)
    BY DEF AsList
  <1>4. PublicItems(pdb) \in Seq(Entry) /\ Len(PublicItems(pdb)) = Len(pdb.publics.symbols)
    BY PublicItemsType DEF Inv, TypeOK
  <1>5. CASE pdb.publics.found
    <2>1. at' = "publics"
      BY <1>5 DEF FindPublics, Go
    <2>2. SubSeq(PublicItems(pdb), 1, 0) = <<>>
      BY <1>4, WholePrefix
    <2>3. PublicsInv'
      <3>1. publics' = AsList(SubSeq(PublicItems(pdb'), 1, k' - 1))
        <4>1. k' - 1 = 0 /\ pdb' = pdb /\ publics' = Null
          BY <1>1, <1>2 DEF run
        <4> QED
          BY <1>3, <2>2, <4>1
      <3>2. Len(pdb.publics.symbols) \in Nat
        BY PdbType DEF Inv, TypeOK
      <3>3. k' <= Len(pdb'.publics.symbols) + 1 /\ pdb'.publics.found
        BY <1>2, <1>5, <3>2 DEF run
      <3>4. Printable(pdb.publics, k - 1)'
        BY <1>2 DEF Printable
      <3> QED
        BY <2>1, <3>1, <3>3, <3>4 DEF PublicsInv, Loading, Ending
    <2>4. GlobalsInv'
      BY <1>1, <1>2, <2>1 DEF GlobalsInv, Ending
    <2> QED
      BY <2>3, <2>4
  <1>6. CASE ~pdb.publics.found
    <2>1. at' = "findGlobals"
      BY <1>6 DEF FindPublics, Go
    <2>2. pdb.publics.symbols = <<>>
      BY <1>6, PdbType DEF Inv, TypeOK
    <2>3. PublicItems(pdb) = <<>>
      BY <1>4, <2>2
    <2>4. publics' = Publics(pdb')
      BY <1>1, <1>2, <1>3, <2>3, WholeLists DEF Inv, TypeOK, run
    <2>5. Printable(pdb.publics, Len(pdb.publics.symbols))'
      BY <1>2, <2>2 DEF Printable, run
    <2>6. PublicsInv'
      BY <2>1, <2>4, <2>5 DEF PublicsInv, Loading
    <2>7. globals' = AsList(Collected(pdb', tag'))
      BY <1>1, <1>2, <1>3 DEF Collected
    <2>8. GlobalsInv'
      BY <1>1, <1>2, <2>1, <2>7 DEF GlobalsInv, Loading, Ending
    <2> QED
      BY <2>6, <2>8
  <1> QED
    BY <1>5, <1>6

LEMMA NextPublicLists ==
  ASSUME Inv, PublicsInv, GlobalsInv, NextPublic, UNCHANGED <<transport, pyVars>>
  PROVE  PublicsInv' /\ GlobalsInv'
  <1>1. CASE Kills(pdb.publics.symbols[k])
    BY <1>1, DieLists DEF NextPublic
  <1>2. CASE ~Kills(pdb.publics.symbols[k])
    <2> DEFINE sym == pdb.publics.symbols
               all == PublicItems(pdb)
    <2>1. /\ at = "publics" /\ at' = "publics" /\ k' = k + 1 /\ k \in 1..Len(sym)
          /\ UNCHANGED <<run, tag, globals>>
          /\ publics' = Push(publics, PublicEntry(sym[k]))
      BY <1>2, ListingType DEF NextPublic, Ready, Inv, TypeOK
    <2>2. /\ all \in Seq(Entry) /\ Len(all) = Len(sym) /\ all[k] = PublicEntry(sym[k])
          /\ sym \in Seq(Symbol)
      BY <2>1, PublicItemsType, PdbType DEF Inv, TypeOK
    <2>3. publics = AsList(SubSeq(all, 1, k - 1)) /\ pdb.publics.found /\ Printable(pdb.publics, k - 1)
      BY <2>1 DEF PublicsInv
    <2>4. GlobalsInv'
      BY <2>1 DEF GlobalsInv, Loading, Ending
    <2> HIDE DEF sym, all
    <2>5. all[k] \in Entry /\ SubSeq(all, 1, k - 1) \in Seq(Entry) /\ k \in 1..Len(all)
      BY <2>1, <2>2, ElementType
    <2>6. publics' = AsList(SubSeq(all, 1, k))
      <3>1. SubSeq(all, 1, k) = Append(SubSeq(all, 1, k - 1), all[k])
        BY <2>2, <2>5, PrefixGrows
      <3>2. Push(AsList(SubSeq(all, 1, k - 1)), all[k]) = AsList(Append(SubSeq(all, 1, k - 1), all[k]))
        BY <2>5, PushList
      <3> QED
        BY <2>1, <2>2, <2>3, <3>1, <3>2
    <2>7. Printable(pdb.publics, k)
      BY <1>2, <2>1, <2>3 DEF Printable, sym
    <2>8. k' - 1 = k /\ k' <= Len(sym) + 1
      BY <2>1, <2>2
    <2>9. PublicsInv'
      BY <2>1, <2>3, <2>6, <2>7, <2>8 DEF PublicsInv, Loading, Ending, Printable, Kills, run, sym, all
    <2> QED
      BY <2>4, <2>9
  <1> QED
    BY <1>1, <1>2

LEMMA EndPublicsLists ==
  ASSUME Inv, PublicsInv, GlobalsInv, EndPublics, UNCHANGED <<transport, pyVars>>
  PROVE  PublicsInv' /\ GlobalsInv'
  <1>1. /\ at = "publics" /\ at' = "findGlobals" /\ UNCHANGED <<run, tag, publics, globals>>
        /\ k > Len(pdb.publics.symbols)
    BY DEF EndPublics, NoneLeft, NextFails, Ready, Go, counters, values
  <1>2. /\ k <= Len(pdb.publics.symbols) + 1 /\ Printable(pdb.publics, k - 1)
        /\ publics = AsList(SubSeq(PublicItems(pdb), 1, k - 1))
    BY <1>1 DEF PublicsInv
  <1>3. /\ PublicItems(pdb) \in Seq(Entry) /\ Len(PublicItems(pdb)) = Len(pdb.publics.symbols)
        /\ Publics(pdb) = AsList(PublicItems(pdb)) /\ pdb.publics.symbols \in Seq(Symbol)
    BY PublicItemsType, WholeLists, PdbType DEF Inv, TypeOK
  <1>4. k - 1 = Len(pdb.publics.symbols)
    <2>1. k \in Nat /\ Len(pdb.publics.symbols) \in Nat
      BY <1>3 DEF Inv, TypeOK
    <2> QED
      BY <1>1, <1>2, <2>1
  <1>5. publics = Publics(pdb) /\ Printable(pdb.publics, Len(pdb.publics.symbols))
    BY <1>2, <1>3, <1>4, WholePrefix
  <1>6. PublicsInv'
    BY <1>1, <1>5 DEF PublicsInv, Loading, Printable, Kills, run
  <1>7. globals = Null /\ tag = 1
    BY <1>1 DEF GlobalsInv
  <1>8. GlobalsInv'
    BY <1>1, <1>7 DEF GlobalsInv, Loading, Ending, Collected, AsList
  <1> QED
    BY <1>6, <1>8

LEMMA FindGlobalsLists ==
  ASSUME Inv, PublicsInv, GlobalsInv, FindGlobals, UNCHANGED <<transport, pyVars>>
  PROVE  PublicsInv' /\ GlobalsInv'
  <1>1. /\ at = "findGlobals" /\ globals = AsList(Collected(pdb, tag))
        /\ \A u \in 1..3 : u < tag => TagDone(u)
        /\ tag \in 1..3
    BY DEF FindGlobals, Ready, GlobalsInv, Inv, TypeOK
  <1>2. UNCHANGED <<run, publics, tag>> /\ at' \in {"globals", "puts"}
    BY DEF FindGlobals, Go, counters, values
  <1>3. PublicsInv'
    BY <1>1, <1>2, PublicsStay DEF Loading
  <1>4. \A u \in 1..3 : u < tag => TagDone(u)'
    BY <1>1, <1>2 DEF TagDone, Printable, Kills, run
  <1>5. CASE pdb.globals[tag].found
    <2>1. at' = "globals" /\ k' = 1 /\ globals' = globals
      BY <1>5 DEF FindGlobals, Go, values
    <2>2. /\ Collected(pdb, tag) \in Seq(Entry)
          /\ GlobalItems(pdb, tag) \in Seq(Entry)
          /\ pdb.globals[tag].symbols \in Seq(Symbol)
      BY <1>1, CollectedType, GlobalItemsType, PdbType DEF Inv, TypeOK
    <2>3. SubSeq(GlobalItems(pdb, tag), 1, 0) = <<>>
      BY <2>2, WholePrefix
    <2>4. Collected(pdb, tag) \o <<>> = Collected(pdb, tag)
      BY <2>2, NothingAdded
    <2>5. globals' = AsList(Collected(pdb', tag') \o SubSeq(GlobalItems(pdb', tag'), 1, k' - 1))
      <3>1. k' - 1 = 0 /\ pdb' = pdb /\ tag' = tag
        BY <1>2, <2>1 DEF run
      <3> QED
        BY <1>1, <2>1, <2>3, <2>4, <3>1
    <2>6. k' <= Len(pdb'.globals[tag'].symbols) + 1
      <3>1. Len(pdb.globals[tag].symbols) \in Nat
        BY <2>2
      <3> QED
        BY <1>2, <2>1, <3>1 DEF run
    <2>7. Printable(pdb.globals[tag], k - 1)'
      BY <2>1 DEF Printable
    <2>8. pdb'.globals[tag'].found /\ \A u \in 1..3 : u < tag' => TagDone(u)'
      BY <1>2, <1>4, <1>5 DEF run
    <2> QED
      BY <1>3, <2>1, <2>5, <2>6, <2>7, <2>8 DEF GlobalsInv, Loading, Ending
  <1>6. CASE ~pdb.globals[tag].found
    <2>1. at' = "puts" /\ globals' = False
      BY <1>6 DEF FindGlobals, Go
    <2>2. globals' = Dumped(pdb')
      BY <1>1, <1>2, <1>6, <2>1, WholeLists DEF Inv, TypeOK, run
    <2>3. ASSUME NEW t \in 1..3, \A u \in 1..t : pdb.globals[u].found
          PROVE  TagDone(t)'
      <3>1. t < tag
        BY <1>1, <1>6, <2>3
      <3> QED
        BY <1>4, <3>1
    <2>4. \A t \in 1..3 : (\A u \in 1..t : pdb'.globals[u].found) => TagDone(t)'
      BY <1>2, <2>3 DEF run
    <2> QED
      BY <1>3, <2>1, <2>2, <2>4 DEF GlobalsInv, Loading, Ending
  <1> QED
    BY <1>5, <1>6

LEMMA NextGlobalLists ==
  ASSUME Inv, PublicsInv, GlobalsInv, NextGlobal, UNCHANGED <<transport, pyVars>>
  PROVE  PublicsInv' /\ GlobalsInv'
  <1>1. CASE Kills(pdb.globals[tag].symbols[k])
    BY <1>1, DieLists DEF NextGlobal
  <1>2. CASE ~Kills(pdb.globals[tag].symbols[k])
    <2> DEFINE sym == pdb.globals[tag].symbols
               all == GlobalItems(pdb, tag)
               old == Collected(pdb, tag)
    <2>1. /\ at = "globals" /\ at' = "globals" /\ k' = k + 1 /\ k \in 1..Len(sym)
          /\ tag \in 1..3
          /\ UNCHANGED <<run, tag, publics>>
          /\ globals' = Push(globals, GlobalEntry(sym[k]))
      BY <1>2, ListingType DEF NextGlobal, Ready, Inv, TypeOK
    <2>2. /\ all \in Seq(Entry) /\ Len(all) = Len(sym) /\ all[k] = GlobalEntry(sym[k])
          /\ sym \in Seq(Symbol) /\ old \in Seq(Entry)
      <3>1. pdb \in Pdbs /\ tag \in 1..3
        BY DEF Inv, TypeOK
      <3>2. sym \in Seq(Symbol)
        BY <3>1, PdbType
      <3>3. all \in Seq(Entry) /\ Len(all) = Len(sym) /\ all[k] = GlobalEntry(sym[k])
        BY <2>1, <3>1, GlobalItemsType
      <3>4. old \in Seq(Entry)
        BY <3>1, CollectedType
      <3> QED
        BY <3>2, <3>3, <3>4
    <2>3. /\ globals = AsList(old \o SubSeq(all, 1, k - 1))
          /\ pdb.globals[tag].found /\ Printable(pdb.globals[tag], k - 1)
          /\ \A u \in 1..3 : u < tag => TagDone(u)
      BY <2>1 DEF GlobalsInv
    <2>4. PublicsInv'
      BY <2>1, PublicsStay DEF Loading
    <2> HIDE DEF sym, all, old
    <2>5. /\ all[k] \in Entry /\ SubSeq(all, 1, k - 1) \in Seq(Entry) /\ k \in 1..Len(all)
          /\ (old \o SubSeq(all, 1, k - 1)) \in Seq(Entry)
      BY <2>1, <2>2, ElementType
    <2>6. globals' = AsList(old \o SubSeq(all, 1, k))
      <3>1. SubSeq(all, 1, k) = Append(SubSeq(all, 1, k - 1), all[k])
        BY <2>2, <2>5, PrefixGrows
      <3>2. Append(old \o SubSeq(all, 1, k - 1), all[k]) = old \o SubSeq(all, 1, k)
        <4> DEFINE part == SubSeq(all, 1, k - 1)
                   item == all[k]
        <4>1. part \in Seq(Entry) /\ old \in Seq(Entry) /\ item \in Entry
          BY <2>2, <2>5
        <4> HIDE DEF part, item
        <4>2. Append(old \o part, item) = old \o Append(part, item)
          BY <4>1
        <4> QED
          BY <3>1, <4>2 DEF part, item
      <3>3. Push(AsList(old \o SubSeq(all, 1, k - 1)), all[k])
              = AsList(Append(old \o SubSeq(all, 1, k - 1), all[k]))
        BY <2>5, PushList
      <3> QED
        BY <2>1, <2>2, <2>3, <3>2, <3>3
    <2>7. Printable(pdb.globals[tag], k)
      BY <1>2, <2>1, <2>3 DEF Printable, sym
    <2>8. k' - 1 = k /\ k' <= Len(sym) + 1
      BY <2>1, <2>2
    <2>9. \A u \in 1..3 : u < tag => TagDone(u)'
      BY <2>1, <2>3 DEF TagDone, Printable, Kills, run
    <2>10. Printable(pdb.globals[tag], k - 1)'
      BY <2>1, <2>7, <2>8 DEF Printable, Kills, run
    <2>11. GlobalsInv'
      <3>1. pdb' = pdb /\ tag' = tag
        BY <2>1 DEF run
      <3>2. globals' = AsList(Collected(pdb', tag') \o SubSeq(GlobalItems(pdb', tag'), 1, k' - 1))
        BY <2>6, <2>8, <3>1 DEF all, old
      <3>3. k' <= Len(pdb'.globals[tag'].symbols) + 1 /\ pdb'.globals[tag'].found
        BY <2>3, <2>8, <3>1 DEF sym
      <3> QED
        BY <2>1, <2>9, <2>10, <3>1, <3>2, <3>3 DEF GlobalsInv, Loading, Ending
    <2> QED
      BY <2>4, <2>11
  <1> QED
    BY <1>1, <1>2

LEMMA EndGlobalsLists ==
  ASSUME Inv, PublicsInv, GlobalsInv, EndGlobals, UNCHANGED <<transport, pyVars>>
  PROVE  PublicsInv' /\ GlobalsInv'
  <1> DEFINE all == GlobalItems(pdb, tag)
             old == Collected(pdb, tag)
  <1>1. /\ at = "globals" /\ tag \in 1..3
        /\ UNCHANGED <<run, publics, globals>>
        /\ k > Len(pdb.globals[tag].symbols)
        /\ \/ tag < 3 /\ tag' = tag + 1 /\ at' = "findGlobals"
           \/ tag = 3 /\ tag' = tag /\ at' = "puts"
    BY DEF EndGlobals, NoneLeft, NextFails, Ready, Go, values, Inv, TypeOK
  <1>2. /\ k <= Len(pdb.globals[tag].symbols) + 1 /\ Printable(pdb.globals[tag], k - 1)
        /\ globals = AsList(old \o SubSeq(all, 1, k - 1))
        /\ pdb.globals[tag].found
        /\ \A u \in 1..3 : u < tag => TagDone(u)
    BY <1>1 DEF GlobalsInv
  <1>3. /\ all \in Seq(Entry) /\ Len(all) = Len(pdb.globals[tag].symbols)
        /\ pdb.globals[tag].symbols \in Seq(Symbol)
        /\ Collected(pdb, tag + 1) = old \o all
    <2>1. pdb \in Pdbs /\ tag \in 1..3
      BY DEF Inv, TypeOK
    <2>2. pdb.globals[tag].symbols \in Seq(Symbol)
      BY <2>1, PdbType
    <2>3. all \in Seq(Entry) /\ Len(all) = Len(pdb.globals[tag].symbols)
      BY <2>1, GlobalItemsType
    <2>4. Collected(pdb, tag + 1) = old \o all
      BY <2>1, CollectedType
    <2> QED
      BY <2>2, <2>3, <2>4
  <1>4. k - 1 = Len(pdb.globals[tag].symbols)
    <2>1. k \in Nat /\ Len(pdb.globals[tag].symbols) \in Nat
      BY <1>3 DEF Inv, TypeOK
    <2> QED
      BY <1>1, <1>2, <2>1
  <1>5. globals = AsList(Collected(pdb, tag + 1))
    <2> HIDE DEF all, old
    <2>1. SubSeq(all, 1, k - 1) = all
      BY <1>3, <1>4, WholePrefix
    <2> QED
      BY <1>2, <1>3, <2>1
  <1>6. TagDone(tag)
    BY <1>2, <1>4 DEF TagDone
  <1>7. \A u \in 1..3 : u < tag + 1 => TagDone(u)'
    <2>1. \A u \in 1..3 : u < tag + 1 => TagDone(u)
      BY <1>1, <1>2, <1>6
    <2>2. pdb' = pdb /\ host' = host
      BY <1>1 DEF run
    <2>3. \A u \in 1..3 : TagDone(u) => TagDone(u)'
      BY <2>2 DEF TagDone, Printable, Kills
    <2> QED
      BY <2>1, <2>3
  <1>8. PublicsInv'
    BY <1>1, PublicsStay DEF Loading
  <1>9. CASE tag < 3 /\ tag' = tag + 1 /\ at' = "findGlobals"
    <2>1. globals' = AsList(Collected(pdb', tag')) /\ \A u \in 1..3 : u < tag' => TagDone(u)'
      BY <1>1, <1>5, <1>7, <1>9 DEF run
    <2> QED
      BY <1>8, <1>9, <2>1 DEF GlobalsInv, Loading, Ending
  <1>10. CASE tag = 3 /\ tag' = tag /\ at' = "puts"
    <2>1. \A u \in 1..3 : TagDone(u)'
      BY <1>7, <1>10
    <2>2. \A u \in 1..3 : pdb.globals[u].found
      BY <1>1, <2>1 DEF TagDone, run
    <2>3. globals = AsList(Collected(pdb, 4))
      BY <1>5, <1>10
    <2>4. globals' = Dumped(pdb')
      BY <1>1, <2>2, <2>3, WholeLists DEF Inv, TypeOK, run
    <2> QED
      BY <1>8, <1>10, <2>1, <2>4 DEF GlobalsInv, Loading, Ending
  <1> QED
    BY <1>1, <1>9, <1>10

LEMMA PutsLists ==
  ASSUME Inv, EndInv, PublicsInv, GlobalsInv, Puts \/ Exit, UNCHANGED <<transport, pyVars>>
  PROVE  PublicsInv' /\ GlobalsInv'
  <1>1. /\ at \in {"puts", "exit"} /\ at' \in {"exit", "terminate"}
        /\ UNCHANGED <<run, values, tag, k, code, status>>
    BY DEF Puts, Exit, Ready, Go, counters, transport
  <1>2. Ending' => at = "puts" \/ Ending
    BY <1>1 DEF Ending
  <1> QED
    BY <1>1, <1>2 DEF PublicsInv, GlobalsInv, run, values, Printable, TagDone, Kills, Loading

LEMMA ListsKept ==
  ASSUME Inv, EndInv, PublicsInv, GlobalsInv, [Next]_vars
  PROVE  PublicsInv' /\ GlobalsInv'
  <1>1. CASE XdiaStep /\ UNCHANGED <<transport, pyVars>>
    BY <1>1, LoadCallLists, FindPublicsLists, NextPublicLists, EndPublicsLists, FindGlobalsLists,
      NextGlobalLists, EndGlobalsLists, PutsLists DEF XdiaStep
  <1>2. CASE WriteFile \/ Drain \/ PyxdiaProcess \/ UNCHANGED vars
    <2>1. UNCHANGED <<run, at, tag, k, values, code, status>>
      BY <1>2 DEF WriteFile, Drain, PyxdiaProcess, Read, EndOfOutput, LoadPdb, vars, xdiaVars,
        counters, transport
    <2> QED
      BY <2>1, ListsSame
  <1>3. CASE TerminateProcess
    <2>1. /\ at = "terminate" /\ at' = "ended" /\ status = Running
          /\ UNCHANGED <<run, values, tag, k, code>>
      BY <1>3 DEF TerminateProcess, counters, EndInv
    <2>2. Ending' => Ending
      BY <2>1 DEF Ending, Running, Killed
    <2> QED
      BY <2>1, <2>2 DEF PublicsInv, GlobalsInv, run, values, Printable, TagDone, Kills, Loading
  <1>4. CASE Abort
    <2>1. at' = "ended" /\ status' = Killed
      BY <1>4 DEF Abort
    <2> QED
      BY <2>1 DEF PublicsInv, GlobalsInv, Loading, Ending
  <1> QED
    BY <1>1, <1>2, <1>3, <1>4 DEF Next, XdiaProcess

-----------------------------------------------------------------------------
(* The text xdia prints                                                     *)

HeadPiece(key, v) == [fd |-> 1, key |-> key, what |-> v.kind, entry |-> NullEntry]
ItemPiece(key, e) == [fd |-> 1, key |-> key, what |-> "item", entry |-> e]

LEMMA PiecesAt ==
  ASSUME NEW v \in Value, NEW key \in {"globals", "publics"}
  PROVE  /\ Len(Pieces(key, v)) = Len(v.items) + 1
         /\ Pieces(key, v)[1] = HeadPiece(key, v)
         /\ \A n \in 1..Len(v.items) : Pieces(key, v)[n + 1] = ItemPiece(key, v.items[n])
  <1>1. v.items \in Seq(Entry) /\ v.kind \in {"null", "false", "list"}
    BY DEF Value
  <1>2. DOMAIN v.items = 1..Len(v.items) /\ Len(v.items) \in Nat
    BY <1>1
  <1> DEFINE head == HeadPiece(key, v)
             rest == [n \in DOMAIN v.items |-> ItemPiece(key, v.items[n])]
  <1>3. head \in Piece
    BY <1>1, NullEntryType DEF Piece, HeadPiece
  <1>4. \A n \in 1..Len(v.items) : ItemPiece(key, v.items[n]) \in Piece
    BY <1>1, ElementType DEF Piece, ItemPiece
  <1>5. /\ rest \in Seq(Piece) /\ Len(rest) = Len(v.items)
        /\ \A n \in 1..Len(v.items) : rest[n] = ItemPiece(key, v.items[n])
    BY <1>2, <1>4
  <1>6. Pieces(key, v) = <<head>> \o rest
    BY DEF Pieces, HeadPiece, ItemPiece
  <1> HIDE DEF head, rest
  <1>7. <<head>> \in Seq(Piece) /\ Len(<<head>>) = 1 /\ <<head>>[1] = head
    BY <1>3
  <1>8. /\ Len(<<head>> \o rest) = 1 + Len(rest)
        /\ (<<head>> \o rest)[1] = head
        /\ \A n \in 1..Len(rest) : (<<head>> \o rest)[n + 1] = rest[n]
    BY <1>5, <1>7
  <1> QED
    BY <1>5, <1>6, <1>8 DEF head

(* The places of Text: a head and items for each key, then the end.         *)
LEMMA TextAt ==
  ASSUME TypeOK
  PROVE  LET g == Len(globals.items)
             p == Len(publics.items)
         IN  /\ g \in Nat /\ p \in Nat
             /\ Len(Text) = g + p + 3
             /\ Text[1] = HeadPiece("globals", globals)
             /\ \A n \in 1..g : Text[n + 1] = ItemPiece("globals", globals.items[n])
             /\ Text[g + 2] = HeadPiece("publics", publics)
             /\ \A n \in 1..p : Text[g + 2 + n] = ItemPiece("publics", publics.items[n])
             /\ Text[g + p + 3] = Close
  <1> DEFINE g == Len(globals.items)
             p == Len(publics.items)
             a == Pieces("globals", globals)
             b == Pieces("publics", publics)
  <1>1. g \in Nat /\ p \in Nat
    BY DEF TypeOK, Value
  <1>2. /\ a \in Seq(Piece) /\ Len(a) = g + 1
        /\ a[1] = HeadPiece("globals", globals)
        /\ \A n \in 1..g : a[n + 1] = ItemPiece("globals", globals.items[n])
    <2>1. globals \in Value
      BY DEF TypeOK
    <2> QED
      BY <2>1, PiecesType, PiecesAt
  <1>3. /\ b \in Seq(Piece) /\ Len(b) = p + 1
        /\ b[1] = HeadPiece("publics", publics)
        /\ \A n \in 1..p : b[n + 1] = ItemPiece("publics", publics.items[n])
    <2>1. publics \in Value
      BY DEF TypeOK
    <2> QED
      BY <2>1, PiecesType, PiecesAt
  <1>4. <<Close>> \in Seq(Piece) /\ Len(<<Close>>) = 1 /\ <<Close>>[1] = Close
    BY FixedPieces
  <1> HIDE DEF a, b, g, p
  <1> DEFINE ab == a \o b
  <1>5. /\ ab \in Seq(Piece) /\ Len(ab) = g + p + 2
        /\ \A n \in 1..(g + 1) : ab[n] = a[n]
        /\ \A n \in 1..(p + 1) : ab[g + 1 + n] = b[n]
    <2>1. ab \in Seq(Piece) /\ Len(ab) = g + p + 2
      <3>1. ab \in Seq(Piece)
        BY <1>2, <1>3
      <3>2. Len(ab) = Len(a) + Len(b)
        BY <1>2, <1>3
      <3> HIDE DEF ab
      <3> QED
        BY <1>1, <1>2, <1>3, <3>1, <3>2
    <2>2. \A n \in 1..Len(a) : ab[n] = a[n]
      BY <1>2, <1>3
    <2>3. \A n \in 1..Len(b) : ab[Len(a) + n] = b[n]
      BY <1>2, <1>3
    <2> QED
      BY <1>2, <1>3, <2>1, <2>2, <2>3
  <1>6. /\ ab[1] = HeadPiece("globals", globals)
        /\ \A n \in 1..g : ab[n + 1] = ItemPiece("globals", globals.items[n])
        /\ ab[g + 2] = HeadPiece("publics", publics)
        /\ \A n \in 1..p : ab[g + 2 + n] = ItemPiece("publics", publics.items[n])
    <2>1. ab[1] = a[1] /\ \A n \in 1..g : ab[n + 1] = a[n + 1]
      BY <1>1, <1>5
    <2>2. ab[g + 2] = b[1]
      <3>1. 1 \in 1..(p + 1) /\ g + 1 + 1 = g + 2
        BY <1>1
      <3> QED
        BY <1>5, <3>1
    <2>3. ASSUME NEW n \in 1..p PROVE ab[g + 2 + n] = b[n + 1]
      <3>1. n + 1 \in 1..(p + 1) /\ g + 1 + (n + 1) = g + 2 + n
        BY <1>1
      <3> QED
        BY <1>5, <3>1
    <2> QED
      BY <1>2, <1>3, <2>1, <2>2, <2>3
  <1> HIDE DEF ab
  <1>7. /\ Len(ab \o <<Close>>) = g + p + 3
        /\ \A n \in 1..(g + p + 2) : (ab \o <<Close>>)[n] = ab[n]
        /\ (ab \o <<Close>>)[g + p + 3] = Close
    <2> DEFINE e == <<Close>>
    <2>1. e \in Seq(Piece) /\ Len(e) = 1 /\ e[1] = Close
      BY <1>4
    <2> HIDE DEF e
    <2>2. ab \in Seq(Piece) /\ e \in Seq(Piece)
      BY <1>5, <2>1
    <2>3. /\ Len(ab \o e) = Len(ab) + Len(e)
          /\ \A n \in 1..Len(ab) : (ab \o e)[n] = ab[n]
          /\ \A n \in 1..Len(e) : (ab \o e)[Len(ab) + n] = e[n]
      BY <2>2, ConcatAt
    <2>4. (ab \o e)[Len(ab) + 1] = e[1]
      BY <2>1, <2>3
    <2>5. Len(ab) = g + p + 2 /\ Len(ab) + 1 = g + p + 3
      BY <1>1, <1>5
    <2> QED
      BY <2>1, <2>3, <2>4, <2>5 DEF e
  <1>8. Text = ab \o <<Close>>
    BY DEF Text, ab, a, b
  <1>9. /\ Text[1] = HeadPiece("globals", globals)
        /\ \A n \in 1..g : Text[n + 1] = ItemPiece("globals", globals.items[n])
        /\ Text[g + 2] = HeadPiece("publics", publics)
        /\ \A n \in 1..p : Text[g + 2 + n] = ItemPiece("publics", publics.items[n])
    BY <1>1, <1>6, <1>7, <1>8
  <1> QED
    BY <1>1, <1>7, <1>8, <1>9 DEF g, p

(* Every place is one of these.                                             *)
LEMMA TextPlaces ==
  ASSUME TypeOK, NEW n \in 1..Len(Text)
  PROVE  LET g == Len(globals.items)
             p == Len(publics.items)
         IN  \/ n = 1 /\ Text[n] = HeadPiece("globals", globals)
             \/ n \in 2..(g + 1) /\ Text[n] = ItemPiece("globals", globals.items[n - 1])
             \/ n = g + 2 /\ Text[n] = HeadPiece("publics", publics)
             \/ n \in (g + 3)..(g + p + 2) /\ Text[n] = ItemPiece("publics", publics.items[n - g - 2])
             \/ n = g + p + 3 /\ Text[n] = Close
  <1> DEFINE g == Len(globals.items)
             p == Len(publics.items)
  <1>1. /\ g \in Nat /\ p \in Nat /\ Len(Text) = g + p + 3
        /\ Text[1] = HeadPiece("globals", globals)
        /\ \A m \in 1..g : Text[m + 1] = ItemPiece("globals", globals.items[m])
        /\ Text[g + 2] = HeadPiece("publics", publics)
        /\ \A m \in 1..p : Text[g + 2 + m] = ItemPiece("publics", publics.items[m])
        /\ Text[g + p + 3] = Close
    BY TextAt
  <1> HIDE DEF g, p
  <1>2. CASE n = 1
    BY <1>1, <1>2 DEF g, p
  <1>3. CASE n \in 2..(g + 1)
    <2>1. n - 1 \in 1..g /\ (n - 1) + 1 = n
      BY <1>1, <1>3
    <2>2. Text[n] = ItemPiece("globals", globals.items[n - 1])
      BY <1>1, <2>1
    <2> QED
      BY <1>3, <2>2 DEF g, p
  <1>4. CASE n = g + 2
    BY <1>1, <1>4 DEF g, p
  <1>5. CASE n \in (g + 3)..(g + p + 2)
    <2>1. n - g - 2 \in 1..p /\ g + 2 + (n - g - 2) = n
      BY <1>1, <1>5
    <2>2. Text[n] = ItemPiece("publics", publics.items[n - g - 2])
      BY <1>1, <2>1
    <2> QED
      BY <1>5, <2>2 DEF g, p
  <1>6. CASE n = g + p + 3
    BY <1>1, <1>6 DEF g, p
  <1>7. n = 1 \/ n \in 2..(g + 1) \/ n = g + 2 \/ n \in (g + 3)..(g + p + 2) \/ n = g + p + 3
    BY <1>1
  <1> QED
    BY <1>2, <1>3, <1>4, <1>5, <1>6, <1>7

-----------------------------------------------------------------------------
(* The way of the text                                                      *)

LEMMA TextIsOutput ==
  ASSUME TypeOK
  PROVE  Text # <<Complaint>> /\ Text # <<>> /\ \A n \in 1..Len(Text) : Text[n].fd = 1
  <1> DEFINE g == Len(globals.items)
             p == Len(publics.items)
  <1>1. Len(Text) \in Nat /\ Len(Text) >= 3
    <2>1. g \in Nat /\ p \in Nat /\ Len(Text) = g + p + 3
      BY TextAt
    <2> HIDE DEF g, p
    <2> QED
      BY <2>1
  <1>2. Len(<<Complaint>>) = 1 /\ Len(<<>>) = 0
    OBVIOUS
  <1>3. ASSUME NEW n \in 1..Len(Text) PROVE Text[n].fd = 1
    <2>1. \A key, v : HeadPiece(key, v).fd = 1
      BY DEF HeadPiece
    <2>2. \A key, e : ItemPiece(key, e).fd = 1
      BY DEF ItemPiece
    <2>3. Close.fd = 1
      BY DEF Close
    <2>4. \/ Text[n] = HeadPiece("globals", globals)
          \/ Text[n] = ItemPiece("globals", globals.items[n - 1])
          \/ Text[n] = HeadPiece("publics", publics)
          \/ Text[n] = ItemPiece("publics", publics.items[n - g - 2])
          \/ Text[n] = Close
      BY <1>3, TextPlaces
    <2> HIDE DEF g, p
    <2> QED
      BY <2>1, <2>2, <2>3, <2>4
  <1> QED
    BY <1>1, <1>2, <1>3

(* Moving a piece along leaves the text what it was.                        *)
LEMMA MoveToPipe ==
  ASSUME NEW g \in Seq(Piece), NEW p \in Seq(Piece), p # <<>>, NEW r \in Seq(Piece)
  PROVE  Append(g, Head(p)) \o (Tail(p) \o r) = g \o (p \o r)
  <1> DEFINE h == Head(p)
             t == Tail(p)
  <1>1. h \in Piece /\ t \in Seq(Piece)
    BY TakeType
  <1>2. p = <<h>> \o t
    OBVIOUS
  <1> HIDE DEF h, t
  <1>3. Append(g, h) = g \o <<h>> /\ <<h>> \in Seq(Piece)
    BY <1>1
  <1>4. (g \o <<h>>) \o (t \o r) = g \o (<<h>> \o (t \o r))
    BY <1>1, <1>3
  <1>5. <<h>> \o (t \o r) = (<<h>> \o t) \o r
    BY <1>1, <1>3
  <1> QED
    BY <1>2, <1>3, <1>4, <1>5 DEF h, t

LEMMA KeptType ==
  ASSUME TypeOK
  PROVE  /\ Kept(out) \in Seq(Piece)
         /\ out = <<>> => Kept(out) = <<>>
         /\ (stdio \o Kept(out)) \in Seq(Piece)
  <1>1. <<>> \in Seq(Piece) /\ out \in Seq(Piece) /\ stdio \in Seq(Piece)
    BY DEF TypeOK
  <1>2. <<Complaint>> # <<>>
    OBVIOUS
  <1>3. Kept(out) \in Seq(Piece)
    BY <1>1 DEF Kept
  <1> QED
    BY <1>1, <1>2, <1>3 DEF Kept

LEMMA ComplaintIsError == Complaint.fd # 1
  BY DEF Complaint

LEMMA SecondIsNext ==
  ASSUME NEW S, NEW s \in Seq(S), s # <<>>, NEW e, Tail(s) = <<e>>
  PROVE  Len(s) = 2 /\ s[2] = e
  <1>1. Len(Tail(s)) = 1 /\ Tail(s)[1] = e
    <2>1. Len(<<e>>) = 1 /\ <<e>>[1] = e
      OBVIOUS
    <2> DEFINE one == <<e>>
    <2> HIDE DEF one
    <2>2. Tail(s) = one
      BY DEF one
    <2> QED
      BY <2>1, <2>2, Zenon DEF one
  <1>2. Len(s) \in Nat /\ Len(s) > 0 /\ Len(Tail(s)) = Len(s) - 1
    OBVIOUS
  <1>3. Len(s) = 2
    BY <1>1, <1>2
  <1>4. Tail(s)[1] = s[1 + 1]
    BY <1>3
  <1> QED
    BY <1>1, <1>3, <1>4

LEMMA WriteFileMoves ==
  ASSUME Inv, BufferInv, WriteFile
  PROVE  Sent' = Sent
  <1>1. /\ out \in Seq(Piece) /\ stdio \in Seq(Piece) /\ pipe \in Seq(Piece) /\ got \in Seq(Piece)
        /\ out # <<>> /\ out' = Tail(out) /\ UNCHANGED <<host, got>>
    BY DEF Inv, TypeOK, WriteFile, run, pyVars
  <1>2. Head(out) = out[1] /\ 1 \in 1..Len(out) /\ Tail(out) \in Seq(Piece) /\ Head(out) \in Piece
    BY <1>1, TakeType
  <1>3. CASE host = "windows" /\ Head(out).fd = 2 /\ UNCHANGED <<stdio, pipe>>
    <2>1. out = <<Complaint>>
      BY <1>2, <1>3 DEF BufferInv
    <2>2. Tail(out) = <<>> /\ <<Complaint>> # <<>>
      BY <2>1
    <2>3. Kept(out) = <<>> /\ Kept(out)' = <<>>
      BY <1>1, <1>3, <2>1, <2>2 DEF Kept
    <2> QED
      BY <1>1, <1>3, <2>3 DEF Sent
  <1>4. CASE host = "windows" /\ Head(out).fd = 1 /\ pipe' = Append(pipe, Head(out)) /\ stdio' = stdio
    <2>1. out # <<Complaint>>
      <3>1. SUFFICES ASSUME out = <<Complaint>> PROVE FALSE
        OBVIOUS
      <3>2. out[1] = Complaint
        BY <3>1
      <3> QED
        BY <1>2, <1>4, <3>2, ComplaintIsError
    <2>2. \A n \in 1..Len(out) : out[n].fd = 1
      BY <1>4, <2>1 DEF BufferInv
    <2>3. Tail(out) # <<Complaint>>
      <3>1. SUFFICES ASSUME Tail(out) = <<Complaint>> PROVE FALSE
        OBVIOUS
      <3>2. Len(out) = 2 /\ out[2] = Complaint
        BY <1>1, <3>1, SecondIsNext
      <3>3. 2 \in 1..Len(out)
        BY <3>2
      <3> QED
        BY <2>2, <3>2, <3>3, ComplaintIsError
    <2>4. Kept(out) = out /\ Kept(out)' = Tail(out)
      BY <1>1, <2>1, <2>3 DEF Kept
    <2>5. stdio = <<>>
      BY <1>4 DEF BufferInv
    <2>6. <<>> \o out = out /\ <<>> \o Tail(out) = Tail(out)
      BY <1>1, <1>2, NothingAdded
    <2>7. Append(pipe, Head(out)) \o Tail(out) = pipe \o out
      BY <1>1, MoveOne
    <2> QED
      BY <1>1, <1>4, <2>4, <2>5, <2>6, <2>7 DEF Sent
  <1>5. CASE host = "loader" /\ stdio' = Append(stdio, Head(out)) /\ pipe' = pipe
    <2>1. Kept(out) = out /\ Kept(out)' = Tail(out)
      BY <1>1, <1>5 DEF Kept
    <2>2. Append(stdio, Head(out)) \o Tail(out) = stdio \o out
      BY <1>1, MoveOne
    <2> QED
      BY <1>1, <1>5, <2>1, <2>2 DEF Sent
  <1> QED
    BY <1>3, <1>4, <1>5 DEF WriteFile

LEMMA DrainMoves ==
  ASSUME Inv, Drain
  PROVE  Sent' = Sent
  <1>1. /\ stdio \in Seq(Piece) /\ pipe \in Seq(Piece) /\ got \in Seq(Piece)
        /\ stdio # <<>> /\ stdio' = Tail(stdio) /\ pipe' = Append(pipe, Head(stdio))
        /\ UNCHANGED <<host, out, got>>
    BY DEF Inv, TypeOK, Drain, xdiaVars, run, pyVars
  <1>2. Kept(out) \in Seq(Piece) /\ Kept(out)' = Kept(out)
    BY <1>1, KeptType DEF Inv, Kept
  <1>3. Append(pipe, Head(stdio)) \o (Tail(stdio) \o Kept(out)) = pipe \o (stdio \o Kept(out))
    BY <1>1, <1>2, MoveToPipe
  <1> QED
    BY <1>1, <1>2, <1>3 DEF Sent

LEMMA ReadMoves ==
  ASSUME Inv, Read
  PROVE  Sent' = Sent
  <1>1. /\ pipe \in Seq(Piece) /\ got \in Seq(Piece)
        /\ pipe # <<>> /\ pipe' = Tail(pipe) /\ got' = Append(got, Head(pipe))
        /\ UNCHANGED <<host, out, stdio>>
    BY DEF Inv, TypeOK, Read, xdiaVars, run
  <1>2. (stdio \o Kept(out)) \in Seq(Piece) /\ Kept(out)' = Kept(out)
    BY <1>1, KeptType DEF Inv, Kept
  <1>3. Append(got, Head(pipe)) \o (Tail(pipe) \o (stdio \o Kept(out))) = got \o (pipe \o (stdio \o Kept(out)))
    BY <1>1, <1>2, MoveToPipe
  <1> QED
    BY <1>1, <1>2, <1>3 DEF Sent

LEMMA FlowSame ==
  ASSUME FlowInv, Sent' = Sent, UNCHANGED <<host, at, values, code, status>>
  PROVE  FlowInv'
  BY DEF FlowInv, Noise, Text, values, Ending

LEMMA FindGlobalsFlow ==
  ASSUME Inv, FlowInv, FindGlobals, UNCHANGED <<transport, pyVars>>
  PROVE  FlowInv'
  <1>1. /\ at = "findGlobals" /\ out = <<>> /\ Sent = <<>>
        /\ UNCHANGED <<host, got, pipe, stdio>>
        /\ host \in {"windows", "loader"}
    BY DumpAssumption DEF FindGlobals, Ready, FlowInv, Collecting, Go, run, transport, pyVars, Inv,
      TypeOK
  <1>2. CASE at' = "globals" /\ out' = out
    <2>1. Sent' = <<>>
      BY <1>1, <1>2 DEF Sent, Kept
    <2> QED
      BY <1>2, <2>1 DEF FlowInv, Ending
  <1>3. CASE at' = "puts" /\ out' = <<Complaint>> /\ globals' = False
    <2>1. /\ got \in Seq(Piece) /\ pipe \in Seq(Piece) /\ stdio \in Seq(Piece)
          /\ Kept(out) = <<>> /\ Kept(out) \in Seq(Piece) /\ (stdio \o Kept(out)) \in Seq(Piece)
      BY <1>1, KeptType DEF Inv, TypeOK
    <2>2. (pipe \o (stdio \o Kept(out))) \in Seq(Piece)
      BY <2>1
    <2>3. got = <<>> /\ pipe \o (stdio \o Kept(out)) = <<>>
      BY <1>1, <2>1, <2>2, AllEmpty DEF Sent
    <2>4. pipe = <<>> /\ stdio \o Kept(out) = <<>>
      BY <2>1, <2>3, AllEmpty
    <2>5. stdio = <<>>
      BY <2>1, <2>4, AllEmpty
    <2>6. Kept(out)' \in {<<>>, <<Complaint>>} /\ Kept(out)' = Noise'
      BY <1>1, <1>3 DEF Kept, Noise
    <2>7. \A s \in {<<>>, <<Complaint>>} : <<>> \o (<<>> \o (<<>> \o s)) = s
      OBVIOUS
    <2>8. Sent' = Noise'
      BY <1>1, <2>3, <2>4, <2>5, <2>6, <2>7 DEF Sent
    <2> QED
      BY <1>3, <2>8 DEF FlowInv, Collecting, Ending
  <1> QED
    BY <1>2, <1>3 DEF FindGlobals, Go

LEMMA PutsFlow ==
  ASSUME Inv, FlowInv, Puts, UNCHANGED <<transport, pyVars>>
  PROVE  FlowInv'
  <1>1. /\ at = "puts" /\ at' = "exit" /\ out = <<>> /\ out' = Text
        /\ UNCHANGED <<host, got, pipe, stdio, values>>
    BY DEF Puts, Ready, Go, run, transport, pyVars
  <1>2. Sent = Noise /\ Noise' = Noise /\ Text' = Text
    BY <1>1 DEF FlowInv, Noise, Text, values
  <1>3. Kept(out)' = Text /\ Kept(out) = <<>>
    BY <1>1, TextIsOutput, KeptType DEF Inv, Kept
  <1>4. /\ got \in Seq(Piece) /\ pipe \in Seq(Piece) /\ stdio \in Seq(Piece) /\ Text \in Seq(Piece)
    BY TextType DEF Inv, TypeOK
  <1>5. got \o (pipe \o (stdio \o Text)) = (got \o (pipe \o stdio)) \o Text
    <2> DEFINE t == Text
    <2> HIDE DEF t
    <2>1. t \in Seq(Piece)
      BY <1>4 DEF t
    <2>2. pipe \o (stdio \o t) = (pipe \o stdio) \o t
      BY <1>4, <2>1
    <2>3. got \o ((pipe \o stdio) \o t) = (got \o (pipe \o stdio)) \o t
      BY <1>4, <2>1
    <2> QED
      BY <2>2, <2>3 DEF t
  <1>6. stdio \o <<>> = stdio
    BY <1>4, NothingAdded
  <1>7. Sent' = Noise' \o Text'
    BY <1>1, <1>2, <1>3, <1>5, <1>6 DEF Sent
  <1> QED
    BY <1>1, <1>7 DEF FlowInv, Collecting

LEMMA XdiaFlow ==
  ASSUME Inv, EndInv, GlobalsInv, FlowInv, XdiaStep, UNCHANGED <<transport, pyVars>>
  PROVE  FlowInv'
  <1>1. CASE LoadCall \/ FindPublics \/ NextPublic \/ EndPublics \/ NextGlobal \/ EndGlobals
    <2>1. CASE at' = "dead" \/ (at' = "exit" /\ code' = 255)
      BY <2>1 DEF FlowInv, Collecting, Ending
    <2>2. CASE ~(at' = "dead" \/ (at' = "exit" /\ code' = 255))
      <3>1. /\ at \in Collecting /\ UNCHANGED <<host, out>>
            /\ \/ at' \in Collecting
               \/ at = "globals" /\ at' = "puts" /\ UNCHANGED globals
        BY <1>1, <2>2 DEF LoadCall, FindPublics, NextPublic, EndPublics, NextGlobal, EndGlobals,
          Ready, Go, Die, run, counters, values, Collecting
      <3>2. Sent' = <<>>
        BY <3>1 DEF Sent, Kept, FlowInv, transport, pyVars
      <3>3. CASE at' \in Collecting
        BY <3>2, <3>3 DEF FlowInv, Collecting, Ending
      <3>4. CASE at = "globals" /\ at' = "puts" /\ UNCHANGED globals
        <4>1. globals # False
          BY <3>4, ListsAreNotFalse DEF GlobalsInv
        <4>2. Noise' = <<>>
          BY <3>4, <4>1 DEF Noise
        <4> QED
          BY <3>2, <3>4, <4>2 DEF FlowInv, Collecting, Ending
      <3> QED
        BY <3>1, <3>3, <3>4
    <2> QED
      BY <2>1, <2>2
  <1>2. CASE Exit
    <2>1. /\ at = "exit" /\ at' = "terminate"
          /\ UNCHANGED <<host, out, values, code, transport, pyVars>>
      BY <1>2 DEF Exit, Ready, Go, run
    <2>2. Sent' = Sent /\ Text' = Text /\ Noise' = Noise /\ (Ending' => Ending)
      BY <2>1 DEF Sent, Kept, Text, Noise, Ending, values, transport, pyVars
    <2> QED
      BY <2>1, <2>2 DEF FlowInv, Collecting
  <1> QED
    BY <1>1, <1>2, FindGlobalsFlow, PutsFlow DEF XdiaStep

LEMMA FlowKept ==
  ASSUME Inv, EndInv, GlobalsInv, FlowInv, BufferInv, [Next]_vars
  PROVE  FlowInv'
  <1>1. CASE WriteFile \/ Drain \/ Read
    <2>1. UNCHANGED <<host, at, values, code, status>>
      BY <1>1 DEF WriteFile, Drain, Read, xdiaVars, run
    <2> QED
      BY <1>1, <2>1, WriteFileMoves, DrainMoves, ReadMoves, FlowSame
  <1>2. CASE EndOfOutput \/ LoadPdb \/ UNCHANGED vars
    <2>1. UNCHANGED <<host, at, values, code, status, out, stdio, pipe, got>>
      BY <1>2 DEF EndOfOutput, LoadPdb, vars, xdiaVars, run, transport, pyVars
    <2>2. Sent' = Sent
      BY <2>1 DEF Sent, Kept
    <2> QED
      BY <2>1, <2>2, FlowSame
  <1>3. CASE TerminateProcess
    <2>1. /\ at = "terminate" /\ at' = "ended" /\ status = Running
          /\ UNCHANGED <<host, values, code, out, stdio, pipe, got>>
      BY <1>3 DEF TerminateProcess, EndInv, run, pyVars
    <2>2. Sent' = Sent /\ Text' = Text /\ Noise' = Noise /\ (Ending' => Ending)
      BY <2>1 DEF Sent, Kept, Text, Noise, Ending, values, Running, Killed
    <2> QED
      BY <2>1, <2>2 DEF FlowInv, Collecting
  <1>4. CASE Abort
    <2>1. at' = "ended" /\ status' = Killed
      BY <1>4 DEF Abort
    <2> QED
      BY <2>1 DEF FlowInv, Collecting, Ending
  <1> QED
    BY <1>1, <1>2, <1>3, <1>4, XdiaFlow DEF Next, XdiaProcess, PyxdiaProcess


-----------------------------------------------------------------------------
(* What the buffers hold                                                    *)

LEMMA XdiaBuffers ==
  ASSUME Inv, EndInv, BufferInv, XdiaStep, UNCHANGED <<transport, pyVars>>
  PROVE  BufferInv'
  <1>1. /\ at \notin {"terminate", "dead", "ended"} /\ out = <<>> /\ at' # "ended"
        /\ UNCHANGED <<host, stdio, pipe, py>>
    BY DEF XdiaStep, LoadCall, FindPublics, NextPublic, EndPublics, FindGlobals, NextGlobal,
      EndGlobals, Puts, Exit, Ready, Go, Die, run, transport, pyVars
  <1>2. /\ at' \in {"terminate", "dead"} => out' = <<>>
        /\ out' = <<>> \/ out' = <<Complaint>> \/ out' = Text
    BY <1>1 DEF XdiaStep, LoadCall, FindPublics, NextPublic, EndPublics, FindGlobals, NextGlobal,
      EndGlobals, Puts, Exit, Go, Die
  <1>3. out' = <<Complaint>> \/ \A n \in 1..Len(out') : out'[n].fd = 1
    <2>1. 1..Len(<<>>) = {}
      OBVIOUS
    <2> QED
      BY <1>2, <2>1, TextIsOutput DEF Inv
  <1> QED
    BY <1>1, <1>2, <1>3 DEF BufferInv

LEMMA WriteFileBuffers ==
  ASSUME Inv, BufferInv, WriteFile
  PROVE  BufferInv'
  <1>1. /\ out \in Seq(Piece) /\ out # <<>> /\ out' = Tail(out)
        /\ UNCHANGED <<host, at, py>>
        /\ host = "windows" => stdio' = stdio
    BY DEF Inv, TypeOK, WriteFile, run, pyVars
  <1>2. ASSUME \A n \in 1..Len(out) : out[n].fd = 1
        PROVE  \A n \in 1..Len(out') : out'[n].fd = 1
    <2>1. /\ Len(out) \in Nat /\ Len(out') = Len(out) - 1
          /\ \A n \in 1..(Len(out) - 1) : out'[n] = out[n + 1]
      BY <1>1
    <2> QED
      BY <1>2, <2>1
  <1>3. ASSUME out = <<Complaint>>
        PROVE  \A n \in 1..Len(out') : out'[n].fd = 1
    <2>1. out' = <<>>
      BY <1>1, <1>3
    <2>2. 1..Len(<<>>) = {}
      OBVIOUS
    <2> QED
      BY <2>1, <2>2
  <1> QED
    BY <1>1, <1>2, <1>3 DEF BufferInv

LEMMA BuffersKept ==
  ASSUME Inv, EndInv, BufferInv, [Next]_vars
  PROVE  BufferInv'
  <1>1. CASE Drain \/ Read \/ TerminateProcess \/ Abort
    <2>1. /\ UNCHANGED <<host, out, py>>
          /\ at' = at \/ (at \in {"terminate", "dead"} /\ at' = "ended" /\ stdio' = <<>>)
      BY <1>1 DEF Drain, Read, TerminateProcess, Abort, xdiaVars, run, pyVars
    <2>2. host = "windows" => stdio' = <<>>
      BY <1>1 DEF Drain, Read, TerminateProcess, Abort, BufferInv
    <2>3. py # "reading" => pipe' = pipe
      BY <1>1 DEF Drain, Read, TerminateProcess, Abort, BufferInv
    <2>4. at = "ended" => stdio' = stdio \/ stdio' = <<>>
      BY <1>1 DEF Drain, Read, TerminateProcess, Abort, BufferInv
    <2> QED
      BY <2>1, <2>2, <2>3, <2>4 DEF BufferInv
  <1>2. CASE EndOfOutput \/ LoadPdb \/ UNCHANGED vars
    <2>1. /\ UNCHANGED <<host, out, at, stdio, pipe>>
          /\ py' = py \/ (at = "ended" /\ pipe = <<>>)
      BY <1>2 DEF EndOfOutput, LoadPdb, xdiaVars, run, transport, vars, pyVars, EndInv, BufferInv
    <2> QED
      BY <2>1 DEF BufferInv
  <1> QED
    BY <1>1, <1>2, XdiaBuffers, WriteFileBuffers DEF Next, XdiaProcess, PyxdiaProcess

LEMMA DumpInit == Init => DumpInv
  <1> SUFFICES ASSUME Init PROVE DumpInv
    OBVIOUS
  <1>1. pdb.fails \in 0..7
    BY DumpAssumption DEF Init, XdiaInit, Pdb
  <1>2. EndInv
    BY <1>1 DEF Init, XdiaInit, EndInv, Collecting, Ending, Running, Killed, OpenCall
  <1>3. PublicsInv /\ GlobalsInv
    BY DEF Init, XdiaInit, PublicsInv, GlobalsInv, Loading, Ending
  <1>4. FlowInv
    <2>1. Sent = <<>> \o (<<>> \o (<<>> \o <<>>))
      BY DEF Init, XdiaInit, Sent, Kept
    <2>2. <<>> \o (<<>> \o (<<>> \o <<>>)) = <<>>
      OBVIOUS
    <2> QED
      BY <2>1, <2>2 DEF Init, XdiaInit, FlowInv, Ending
  <1>5. BufferInv
    <2>1. 1..Len(<<>>) = {}
      OBVIOUS
    <2> QED
      BY <2>1 DEF Init, XdiaInit, BufferInv
  <1> QED
    BY <1>2, <1>3, <1>4, <1>5 DEF DumpInv

LEMMA DumpKept == ASSUME Inv, DumpInv, [Next]_vars PROVE DumpInv'
  BY EndsKept, ListsKept, FlowKept, BuffersKept DEF DumpInv

-----------------------------------------------------------------------------
(* What json.loads makes of the text                                        *)

(* The pieces of a key are in one run: its value is what was printed.       *)
LEMMA ValueAt ==
  ASSUME NEW t, NEW key, NEW v \in Value, NEW a \in Nat,
         {n \in DOMAIN t : t[n].key = key} = a..(a + Len(v.items)),
         t[a].what = v.kind,
         \A n \in 1..Len(v.items) : t[a + n].entry = v.items[n]
  PROVE  ValueOf(t, key) = v
  <1> DEFINE size == Len(v.items)
             mine == {n \in DOMAIN t : t[n].key = key}
             from == CHOOSE n \in mine : \A m \in mine : n <= m
             to   == CHOOSE n \in mine : \A m \in mine : m <= n
  <1>1. size \in Nat /\ v.items \in Seq(Entry)
    BY DEF Value
  <1>2. mine = a..(a + size)
    OBVIOUS
  <1> HIDE DEF mine, size
  <1>3. from = a
    <2>1. a \in mine /\ (\A m \in mine : a <= m) /\ mine \subseteq Nat
      BY <1>1, <1>2
    <2>2. from \in mine /\ \A m \in mine : from <= m
      BY <2>1
    <2> HIDE DEF from
    <2> QED
      BY <2>1, <2>2
  <1>4. to = a + size
    <2>1. a + size \in mine /\ (\A m \in mine : m <= a + size) /\ mine \subseteq Nat
      BY <1>1, <1>2
    <2>2. to \in mine /\ \A m \in mine : m <= to
      BY <2>1
    <2>3. a + size \in Nat
      BY <1>1
    <2> HIDE DEF to
    <2> QED
      BY <2>1, <2>2, <2>3
  <1>5. ValueOf(t, key) = [kind |-> t[from].what,
                           items |-> [n \in 1 .. (to - from) |-> t[from + n].entry]]
    BY DEF ValueOf, mine
  <1> HIDE DEF from, to
  <1>6. to - from = size
    BY <1>1, <1>3, <1>4
  <1>7. [n \in 1..size |-> t[a + n].entry] = v.items
    <2>1. \A n \in 1..size : t[a + n].entry = v.items[n]
      BY DEF size
    <2>2. v.items = [n \in 1..size |-> v.items[n]]
      BY <1>1 DEF size
    <2> QED
      BY <2>1, <2>2
  <1>8. ValueOf(t, key) = [kind |-> v.kind, items |-> v.items]
    BY <1>3, <1>5, <1>6, <1>7
  <1> QED
    BY <1>8 DEF Value

LEMMA FirstIsIt ==
  ASSUME NEW S, NEW e \in S, NEW t \in Seq(S)
  PROVE  (<<e>> \o t)[1] = e /\ 1 \in DOMAIN (<<e>> \o t)
  <1>1. <<e>> \in Seq(S) /\ Len(<<e>>) = 1 /\ <<e>>[1] = e
    OBVIOUS
  <1>2. Len(t) \in Nat
    OBVIOUS
  <1>3. Len(<<e>> \o t) = Len(<<e>>) + Len(t)
    BY <1>1
  <1>4. \A n \in 1..Len(<<e>>) : (<<e>> \o t)[n] = <<e>>[n]
    BY <1>1
  <1>5. DOMAIN (<<e>> \o t) = 1..Len(<<e>> \o t)
    BY <1>1
  <1> QED
    BY <1>1, <1>2, <1>3, <1>4, <1>5

LEMMA TextIsJson ==
  ASSUME TypeOK
  PROVE  /\ IsJson(Text)
         /\ ValueOf(Text, "globals") = globals
         /\ ValueOf(Text, "publics") = publics
  <1> DEFINE g == Len(globals.items)
             p == Len(publics.items)
  <1>1. /\ g \in Nat /\ p \in Nat
        /\ Len(Text) = g + p + 3
        /\ Text[1] = HeadPiece("globals", globals)
        /\ \A n \in 1..g : Text[n + 1] = ItemPiece("globals", globals.items[n])
        /\ Text[g + 2] = HeadPiece("publics", publics)
        /\ \A n \in 1..p : Text[g + 2 + n] = ItemPiece("publics", publics.items[n])
        /\ Text[g + p + 3] = Close
    BY TextAt
  <1>2. globals \in Value /\ publics \in Value
    BY DEF TypeOK
  <1>3. globals.kind # "complaint" /\ publics.kind # "complaint"
    BY <1>2 DEF Value
  <1>4. \A n \in 1..Len(Text) :
             \/ n = 1 /\ Text[n] = HeadPiece("globals", globals)
             \/ n \in 2..(g + 1) /\ Text[n] = ItemPiece("globals", globals.items[n - 1])
             \/ n = g + 2 /\ Text[n] = HeadPiece("publics", publics)
             \/ n \in (g + 3)..(g + p + 2) /\ Text[n] = ItemPiece("publics", publics.items[n - g - 2])
             \/ n = g + p + 3 /\ Text[n] = Close
    BY TextPlaces
  <1>5. DOMAIN Text = 1..Len(Text) /\ Text # <<>>
    BY TextType, TextIsOutput
  <1> HIDE DEF g, p
  <1>6. /\ HeadPiece("globals", globals).key = "globals"
        /\ HeadPiece("globals", globals).what = globals.kind
        /\ HeadPiece("publics", publics).key = "publics"
        /\ HeadPiece("publics", publics).what = publics.kind
        /\ \A e : ItemPiece("globals", e).key = "globals"
        /\ \A e : ItemPiece("publics", e).key = "publics"
        /\ \A e : ItemPiece("globals", e).entry = e
        /\ \A e : ItemPiece("publics", e).entry = e
        /\ \A e : ItemPiece("globals", e).what = "item"
        /\ \A e : ItemPiece("publics", e).what = "item"
        /\ Close.key = "" /\ Close.what = "close"
    BY DEF HeadPiece, ItemPiece, Close
  <1>7. IsJson(Text)
    <2>1. \A n \in 1..Len(Text) : Text[n].what # "complaint"
      BY <1>3, <1>4, <1>6
    <2> QED
      BY <1>1, <1>5, <2>1 DEF IsJson
  <1>8. \A n \in 1..Len(Text) : /\ Text[n].key = "globals" <=> n \in 1..(1 + g)
                                /\ Text[n].key = "publics" <=> n \in (g + 2)..(g + 2 + p)
    <2> SUFFICES ASSUME NEW n \in 1..Len(Text)
                 PROVE  /\ Text[n].key = "globals" <=> n \in 1..(1 + g)
                        /\ Text[n].key = "publics" <=> n \in (g + 2)..(g + 2 + p)
      OBVIOUS
    <2>1. g \in Nat /\ p \in Nat /\ n \in Nat
      BY <1>1
    <2>2. \/ n \in 1..(1 + g) /\ Text[n].key = "globals"
          \/ n \in (g + 2)..(g + 2 + p) /\ Text[n].key = "publics"
          \/ n = g + p + 3 /\ Text[n].key = ""
      <3>1. CASE n = 1 /\ Text[n] = HeadPiece("globals", globals)
        <4>1. n \in 1..(1 + g)
          BY <2>1, <3>1
        <4> QED
          BY <3>1, <4>1, <1>6
      <3>2. CASE n \in 2..(g + 1) /\ Text[n] = ItemPiece("globals", globals.items[n - 1])
        <4>1. n \in 1..(1 + g)
          BY <2>1, <3>2
        <4> QED
          BY <3>2, <4>1 DEF ItemPiece
      <3>3. CASE n = g + 2 /\ Text[n] = HeadPiece("publics", publics)
        <4>1. n \in (g + 2)..(g + 2 + p)
          BY <2>1, <3>3
        <4> QED
          BY <3>3, <4>1, <1>6
      <3>4. CASE n \in (g + 3)..(g + p + 2) /\ Text[n] = ItemPiece("publics", publics.items[n - g - 2])
        <4>1. n \in (g + 2)..(g + 2 + p)
          BY <2>1, <3>4
        <4> QED
          BY <3>4, <4>1 DEF ItemPiece
      <3>5. CASE n = g + p + 3 /\ Text[n] = Close
        BY <3>5, <1>6
      <3> QED
        BY <1>4, <3>1, <3>2, <3>3, <3>4, <3>5
    <2>3. CASE n \in 1..(1 + g) /\ Text[n].key = "globals"
      <3>1. n \notin (g + 2)..(g + 2 + p)
        BY <2>1, <2>3
      <3> QED
        BY <2>3, <3>1
    <2>4. CASE n \in (g + 2)..(g + 2 + p) /\ Text[n].key = "publics"
      <3>1. n \notin 1..(1 + g)
        BY <2>1, <2>4
      <3> QED
        BY <2>4, <3>1
    <2>5. CASE n = g + p + 3 /\ Text[n].key = ""
      <3>1. g + p + 3 \notin 1..(1 + g) /\ g + p + 3 \notin (g + 2)..(g + 2 + p)
        BY <2>1
      <3>2. Text[n].key # "globals" /\ Text[n].key # "publics"
        BY <2>5
      <3> QED
        BY <2>5, <3>1, <3>2, Zenon
    <2> QED
      BY <2>2, <2>3, <2>4, <2>5
  <1>9. ValueOf(Text, "globals") = globals
    <2>1. {n \in DOMAIN Text : Text[n].key = "globals"} = 1..(1 + g)
      BY <1>1, <1>5, <1>8
    <2>2. Text[1].what = globals.kind
      BY <1>1, <1>6
    <2>3. \A n \in 1..g : Text[1 + n].entry = globals.items[n]
      <3>1. ASSUME NEW n \in 1..g PROVE Text[1 + n].entry = globals.items[n]
        <4>1. Text[n + 1] = ItemPiece("globals", globals.items[n])
          BY <1>1
        <4>2. Text[1 + n] = Text[n + 1]
          OBVIOUS
        <4> QED
          BY <4>1, <4>2 DEF ItemPiece
      <3> QED
        BY <3>1
    <2> QED
      BY <1>2, <2>1, <2>2, <2>3, ValueAt DEF g
  <1>10. ValueOf(Text, "publics") = publics
    <2>1. {n \in DOMAIN Text : Text[n].key = "publics"} = (g + 2)..(g + 2 + p)
      BY <1>1, <1>5, <1>8
    <2>2. Text[g + 2].what = publics.kind
      BY <1>1, <1>6
    <2>3. \A n \in 1..p : Text[g + 2 + n].entry = publics.items[n]
      BY <1>1, <1>6
    <2>4. g + 2 \in Nat
      BY <1>1
    <2> QED
      BY <1>2, <2>1, <2>2, <2>3, <2>4, ValueAt DEF p
  <1> QED
    BY <1>7, <1>9, <1>10

-----------------------------------------------------------------------------
(* The answer of pyxdia                                                     *)

LEMMA AnswerIsRight ==
  ASSUME Inv, DumpInv, LoadPdb
  PROVE  (DataIsWhole /\ RaisesForCause)'
  <1>1. /\ py = "waiting" /\ at = "ended" /\ stdio = <<>> /\ pipe = <<>> /\ out = <<>>
        /\ status \in {Killed, code} /\ code \in {0, 255}
        /\ UNCHANGED run
    BY DEF LoadPdb, DumpInv, BufferInv, EndInv, Inv, TypeOK, xdiaVars
  <1>2. Sent = got
    <2>1. got \in Seq(Piece) /\ Kept(out) = <<>>
      BY <1>1, KeptType DEF Inv, TypeOK
    <2>2. <<>> \o (<<>> \o <<>>) = <<>> /\ got \o <<>> = got
      BY <2>1, NothingAdded
    <2> QED
      BY <1>1, <2>1, <2>2 DEF Sent
  <1>3. ASSUME status = 0
        PROVE  /\ got = Noise \o Text
               /\ pdb.fails = 0 /\ Reachable
               /\ publics = Publics(pdb) /\ globals = Dumped(pdb)
               /\ Printable(pdb.publics, Len(pdb.publics.symbols))
               /\ \A t \in 1..3 : (\A u \in 1..t : pdb.globals[u].found) => TagDone(t)
    <2>1. Ending
      BY <1>1, <1>3 DEF Ending, Killed
    <2> QED
      BY <1>2, <2>1 DEF DumpInv, FlowInv, EndInv, PublicsInv, GlobalsInv
  <1>4. pdb \in Pdbs /\ Text \in Seq(Piece) /\ host \in {"windows", "loader"}
    BY TextType, DumpAssumption DEF Inv, TypeOK
  <1>5. <<>> \o Text = Text
    BY <1>4, NothingAdded
  <1>6. IsJson(Text) /\ ValueOf(Text, "globals") = globals /\ ValueOf(Text, "publics") = publics
    BY TextIsJson DEF Inv
  <1>7. CASE status = 0 /\ IsJson(got)
    <2>1. Noise = <<>>
      <3>1. SUFFICES ASSUME Noise = <<Complaint>> PROVE FALSE
        BY DEF Noise
      <3>2. got[1] = Complaint /\ 1 \in DOMAIN got
        <4> DEFINE t == Text
        <4>1. t \in Seq(Piece) /\ got = <<Complaint>> \o t
          BY <1>3, <1>4, <1>7, <3>1
        <4> HIDE DEF t
        <4> QED
          BY <4>1, FirstIsIt, FixedPieces
      <3>3. got[1].what = "complaint"
        <4>1. Complaint.what = "complaint"
          BY DEF Complaint
        <4> QED
          BY <3>2, <4>1
      <3> QED
        BY <1>7, <3>2, <3>3 DEF IsJson
    <2>2. got = Text
      BY <1>3, <1>5, <1>7, <2>1
    <2>3. host = "loader" => \A t \in 1..3 : pdb.globals[t].found
      <3>1. host = "loader" => globals # False
        <4>1. <<Complaint>> # <<>>
          OBVIOUS
        <4> QED
          BY <2>1, <4>1 DEF Noise
      <3> QED
        BY <1>3, <1>4, <1>7, <3>1, WholeLists
    <2>4. Dumpable(pdb, host)
      BY <1>3, <1>4, <1>7, <2>3, NothingKills
    <2>5. data' = [globals |-> globals, publics |-> publics] /\ py' = "done"
      BY <1>6, <1>7, <2>2 DEF LoadPdb
    <2>6. AnswersAll(pdb) => data' = [globals |-> EveryGlobal(pdb), publics |-> EveryPublic(pdb)]
      BY <1>3, <1>4, <1>7, <2>5, EverySymbol DEF AnswersAll, Dumped
    <2>7. /\ data'.publics = Publics(pdb) /\ data'.globals = Dumped(pdb)
      BY <1>3, <1>7, <2>5
    <2>8. pdb' = pdb /\ host' = host
      BY <1>1 DEF run
    <2> QED
      BY <2>4, <2>5, <2>6, <2>7, <2>8 DEF DataIsWhole, RaisesForCause, Dumped
  <1>8. CASE ~(status = 0 /\ IsJson(got))
    <2>1. ~Dumpable(pdb, host)
      <3>1. CASE status # 0
        <4>1. status = Killed \/ code = 255
          BY <1>1, <3>1
        <4> QED
          BY <4>1 DEF DumpInv, EndInv
      <3>2. CASE status = 0 /\ ~IsJson(got)
        <4>1. Noise # <<>>
          BY <1>3, <1>5, <1>6, <3>2
        <4>2. host = "loader" /\ globals = False
          BY <4>1 DEF Noise
        <4>3. \E t \in 1..3 : ~pdb.globals[t].found
          BY <1>3, <1>4, <3>2, <4>2, WholeLists, ListsAreNotFalse
        <4> QED
          BY <4>2, <4>3 DEF Dumpable, Sound, TagsFound
      <3> QED
        BY <1>8, <3>1, <3>2
    <2>2. py' = "raised"
      BY <1>8 DEF LoadPdb
    <2> QED
      BY <1>1, <2>1, <2>2 DEF DataIsWhole, RaisesForCause, run
  <1> QED
    BY <1>7, <1>8

AnswerInv == Inv /\ DumpInv /\ DataIsWhole /\ RaisesForCause

LEMMA AnswerInit == Init => AnswerInv
  BY InitHolds, DumpInit DEF AnswerInv, Init, DataIsWhole, RaisesForCause

LEMMA AnswerKept == AnswerInv /\ [Next]_vars => AnswerInv'
  <1> SUFFICES ASSUME AnswerInv, [Next]_vars PROVE AnswerInv'
    OBVIOUS
  <1>1. Inv' /\ DumpInv'
    BY NextKeeps, DumpKept DEF AnswerInv
  <1>2. CASE LoadPdb
    BY <1>1, <1>2, AnswerIsRight DEF AnswerInv
  <1>3. CASE ~LoadPdb
    <2>1. UNCHANGED <<run, data>> /\ (py' = py \/ py' = "waiting")
      BY <1>3 DEF Next, XdiaProcess, PyxdiaProcess, XdiaStep, LoadCall, FindPublics, NextPublic,
        EndPublics, FindGlobals, NextGlobal, EndGlobals, Puts, Exit, Die, Go, WriteFile, Drain,
        TerminateProcess, Abort, Read, EndOfOutput, vars, xdiaVars, pyVars
    <2> QED
      BY <1>1, <2>1 DEF AnswerInv, DataIsWhole, RaisesForCause, run
  <1> QED
    BY <1>2, <1>3

(* However the dump is buffered and scheduled, what pyxdia returns holds    *)
(* the symbols that DIA handed out, once, in order and whole; all that the  *)
(* PDB has if no findChildren and no Next fails.  The two ways in which the *)
(* code loses symbols, behind a Next that fails and in the tags before one  *)
(* that cannot be listed, are in the statement (PDB._load_pdb,              *)
(* DumpAllGlobals and DumpAllPublics).                                      *)
THEOREM DumpIsWhole == Spec => []DataIsWhole
  <1>1. AnswerInv => DataIsWhole
    BY DEF AnswerInv
  <1> QED
    BY <1>1, AnswerInit, AnswerKept, PTL DEF Spec

(* pyxdia raises only if xdia gets the path of no PDB it can dump: the      *)
(* exit status and the text never go wrong on the way.                      *)
THEOREM RaisesOnlyForCause == Spec => []RaisesForCause
  <1>1. AnswerInv => RaisesForCause
    BY DEF AnswerInv
  <1> QED
    BY <1>1, AnswerInit, AnswerKept, PTL DEF Spec
-----------------------------------------------------------------------------
(* How much is left to do.  A piece costs one for each place it has yet to *)
(* leave, the printed text, the buffer and the pipe; an item of a JSON     *)
(* value that is not printed yet costs what its piece will; a symbol that  *)
(* was not fetched yet one more than that.                                 *)
Symbols(l) == Len(l.symbols)

PiecesLeft == 3 * Len(out) + 2 * Len(stdio) + Len(pipe)

ItemsLeft == IF at \in Collecting \cup {"puts"}
             THEN 3 * (Len(publics.items) + Len(globals.items)) ELSE 0

(* The symbols of the tags from t on.                                      *)
TagsFrom(t) == (IF t <= 1 THEN Symbols(pdb.globals[1]) ELSE 0)
                 + (IF t <= 2 THEN Symbols(pdb.globals[2]) ELSE 0)
                 + (IF t <= 3 THEN Symbols(pdb.globals[3]) ELSE 0)

SymbolsLeft ==
  4 * (IF at \in Loading THEN Symbols(pdb.publics) + TagsFrom(1)
       ELSE IF at = "publics" THEN Symbols(pdb.publics) - (k - 1) + TagsFrom(1)
       ELSE IF at = "findGlobals" THEN TagsFrom(tag)
       ELSE IF at = "globals" THEN TagsFrom(tag) - (k - 1)
       ELSE 0)

StagesLeft == CASE at = "load"        -> 28 + (LastCall - call)
                [] at = "findPublics" -> 27
                [] at = "publics"     -> 26
                [] at = "findGlobals" -> 29 - 4 * tag
                [] at = "globals"     -> 28 - 4 * tag
                [] at = "puts"        -> 12
                [] at = "exit"        -> 2
                [] at \in {"terminate", "dead"} -> 1
                [] at = "ended"       -> 0

PyxdiaLeft == CASE py = "reading" -> 2 [] py = "waiting" -> 1 [] py \in {"done", "raised"} -> 0

Left == PiecesLeft + ItemsLeft + SymbolsLeft + StagesLeft + PyxdiaLeft

(* Each part is a number, the counters being within the listings.          *)
LEMMA LengthType == ASSUME NEW S, NEW s \in Seq(S) PROVE Len(s) \in Nat
  OBVIOUS

LEMMA ItemsType ==
  ASSUME NEW v \in Value
  PROVE  v.items \in Seq(Entry) /\ Len(v.items) \in Nat
  <1>1. v.items \in Seq(Entry)
    BY DEF Value
  <1> QED
    BY <1>1, LengthType

LEMMA SymbolsType ==
  ASSUME TypeOK
  PROVE  /\ Symbols(pdb.publics) \in Nat
         /\ \A t \in 1..3 : Symbols(pdb.globals[t]) \in Nat /\ TagsFrom(t) \in Nat
         /\ \A t \in 1..3 : TagsFrom(t) = Symbols(pdb.globals[t])
                                          + IF t < 3 THEN TagsFrom(t + 1) ELSE 0
  <1>1. pdb.publics.symbols \in Seq(Symbol)
        /\ \A t \in 1..3 : pdb.globals[t].symbols \in Seq(Symbol)
    BY PdbType DEF TypeOK
  <1>2. Symbols(pdb.publics) \in Nat /\ \A t \in 1..3 : Symbols(pdb.globals[t]) \in Nat
    BY <1>1, LengthType DEF Symbols
  <1> QED
    BY <1>2 DEF TagsFrom

LEMMA LeftType ==
  ASSUME Inv, DumpInv
  PROVE  /\ PiecesLeft \in Nat /\ ItemsLeft \in Nat /\ SymbolsLeft \in Nat
         /\ StagesLeft \in Nat /\ PyxdiaLeft \in Nat
  <1>1. PiecesLeft \in Nat
    <2>1. Len(out) \in Nat /\ Len(stdio) \in Nat /\ Len(pipe) \in Nat
      BY LengthType DEF Inv, TypeOK
    <2> QED
      BY <2>1 DEF PiecesLeft
  <1>2. ItemsLeft \in Nat
    <2>1. publics \in Value /\ globals \in Value
      BY DEF Inv, TypeOK
    <2>2. Len(publics.items) \in Nat /\ Len(globals.items) \in Nat
      BY <2>1, ItemsType
    <2> DEFINE n == Len(publics.items)
               m == Len(globals.items)
    <2>3. ItemsLeft = 3 * (n + m) \/ ItemsLeft = 0
      BY DEF ItemsLeft
    <2> HIDE DEF n, m
    <2>4. n \in Nat /\ m \in Nat
      BY <2>2 DEF n, m
    <2> QED
      BY <2>3, <2>4
  <1>3. SymbolsLeft \in Nat
    <2>1. /\ Symbols(pdb.publics) \in Nat /\ tag \in 1..3 /\ k \in Nat \ {0}
          /\ TagsFrom(1) \in Nat /\ TagsFrom(tag) \in Nat
      <3>1. tag \in 1..3 /\ k \in Nat \ {0}
        BY DEF Inv, TypeOK
      <3>2. \A t \in 1..3 : TagsFrom(t) \in Nat
        BY SymbolsType DEF Inv
      <3>3. Symbols(pdb.publics) \in Nat
        BY SymbolsType DEF Inv
      <3> QED
        BY <3>1, <3>2, <3>3
    <2>2. at = "publics" => Symbols(pdb.publics) - (k - 1) \in Nat
      BY <2>1 DEF DumpInv, PublicsInv, Symbols
    <2>3. at = "globals" => TagsFrom(tag) - (k - 1) \in Nat
      <3>1. /\ Symbols(pdb.globals[tag]) \in Nat
            /\ TagsFrom(tag) = Symbols(pdb.globals[tag]) + IF tag < 3 THEN TagsFrom(tag + 1) ELSE 0
            /\ tag < 3 => TagsFrom(tag + 1) \in Nat
        BY <2>1, SymbolsType DEF Inv
      <3>2. at = "globals" => k <= Symbols(pdb.globals[tag]) + 1
        BY DEF DumpInv, GlobalsInv, Symbols
      <3> QED
        BY <2>1, <3>1, <3>2
    <2> DEFINE a == Symbols(pdb.publics)
               b == TagsFrom(1)
               c == TagsFrom(tag)
    <2>4. \/ SymbolsLeft = 4 * (a + b)
          \/ at = "publics" /\ SymbolsLeft = 4 * (a - (k - 1) + b)
          \/ SymbolsLeft = 4 * c
          \/ at = "globals" /\ SymbolsLeft = 4 * (c - (k - 1))
          \/ SymbolsLeft = 0
      BY DEF SymbolsLeft
    <2>5. /\ a \in Nat /\ b \in Nat /\ c \in Nat /\ k \in Nat
          /\ at = "publics" => a - (k - 1) \in Nat
          /\ at = "globals" => c - (k - 1) \in Nat
      BY <2>1, <2>2, <2>3
    <2> HIDE DEF a, b, c
    <2>6. \E n \in Nat : SymbolsLeft = 4 * n
      <3>1. CASE SymbolsLeft = 4 * (a + b)
        BY <2>5, <3>1
      <3>2. CASE at = "publics" /\ SymbolsLeft = 4 * (a - (k - 1) + b)
        <4>1. a - (k - 1) + b \in Nat
          BY <2>5, <3>2
        <4> QED
          BY <3>2, <4>1
      <3>3. CASE at = "globals" /\ SymbolsLeft = 4 * (c - (k - 1))
        <4>1. c - (k - 1) \in Nat
          BY <2>5, <3>3
        <4> QED
          BY <3>3, <4>1
      <3>4. CASE SymbolsLeft = 4 * c \/ SymbolsLeft = 0
        BY <2>5, <3>4
      <3> QED
        BY <2>4, <3>1, <3>2, <3>3, <3>4
    <2> QED
      BY <2>6
  <1>4. StagesLeft \in Nat
    <2>1. call \in 1..7 /\ tag \in 1..3
      BY DEF Inv, TypeOK, LastCall
    <2>2. at \in {"load", "findPublics", "publics", "findGlobals", "globals", "puts",
                  "exit", "terminate", "dead", "ended"}
      BY DEF Inv, TypeOK
    <2>3. 7 - call \in Nat /\ 29 - 4 * tag \in Nat /\ 28 - 4 * tag \in Nat
      BY <2>1
    <2> QED
      BY <2>2, <2>3 DEF StagesLeft, LastCall
  <1>5. PyxdiaLeft \in Nat
    BY DEF PyxdiaLeft, Inv, TypeOK
  <1> QED
    BY <1>1, <1>2, <1>3, <1>4, <1>5

(* A step of xdia finds nothing left to write and leaves the rest alone.   *)
LEMMA StepPieces ==
  ASSUME Inv, out = <<>>, UNCHANGED <<transport, pyVars>>
  PROVE  /\ PiecesLeft' = PiecesLeft + 3 * Len(out')
         /\ PyxdiaLeft' = PyxdiaLeft
         /\ Len(<<>>) = 0 /\ Len(<<Complaint>>) = 1
  <1>1. stdio' = stdio /\ pipe' = pipe /\ py' = py
    BY DEF transport, pyVars
  <1>2. Len(stdio) \in Nat /\ Len(pipe) \in Nat /\ Len(out) = 0
    BY LengthType DEF Inv, TypeOK
  <1>3. Len(<<>>) = 0 /\ Len(<<Complaint>>) = 1
    OBVIOUS
  <1> DEFINE a == 2 * Len(stdio)
             b == Len(pipe)
             c == 3 * Len(out')
  <1>4. PiecesLeft = 0 + a + b /\ PiecesLeft' = c + a + b
    BY <1>1, <1>2 DEF PiecesLeft
  <1> QED
    BY <1>1, <1>2, <1>3, <1>4 DEF PyxdiaLeft

LEMMA DieShrinks ==
  ASSUME Inv, DumpInv, at \in Collecting, out = <<>>, Die, UNCHANGED <<transport, pyVars>>
  PROVE  Left' < Left
  <1>1. at' = "dead" /\ out' = <<>>
    BY DEF Die
  <1>2. PiecesLeft' = PiecesLeft /\ PyxdiaLeft' = PyxdiaLeft
    BY <1>1, StepPieces, LeftType
  <1>3. ItemsLeft' = 0 /\ SymbolsLeft' = 0 /\ StagesLeft' = 1
    BY <1>1 DEF ItemsLeft, SymbolsLeft, StagesLeft, Collecting, Loading
  <1>4. StagesLeft >= 12
    <2>1. call \in 1..7 /\ tag \in 1..3
      BY DEF Inv, TypeOK, LastCall
    <2> QED
      BY <2>1 DEF Collecting, StagesLeft, LastCall
  <1> QED
    BY <1>2, <1>3, <1>4, LeftType DEF Left

LEMMA LoadCallShrinks ==
  ASSUME Inv, DumpInv, LoadCall, UNCHANGED <<transport, pyVars>>
  PROVE  Left' < Left
  <1>1. at = "load" /\ out = <<>> /\ call \in 1..7
    BY DEF LoadCall, Ready, Inv, TypeOK, LastCall
  <1>2. StagesLeft = 28 + (7 - call)
    BY <1>1 DEF StagesLeft, LastCall
  <1>3. CASE Die
    BY <1>1, <1>3, DieShrinks DEF Collecting
  <1>4. CASE out' = <<Complaint>> /\ at' = "exit"
    <2>1. PiecesLeft' = PiecesLeft + 3 /\ PyxdiaLeft' = PyxdiaLeft
      BY <1>1, <1>4, StepPieces, LeftType
    <2>2. ItemsLeft' = 0 /\ SymbolsLeft' = 0 /\ StagesLeft' = 2
      BY <1>4 DEF ItemsLeft, SymbolsLeft, StagesLeft, Collecting, Loading
    <2> QED
      BY <1>1, <1>2, <2>1, <2>2, LeftType DEF Left
  <1>5. CASE /\ \/ call < LastCall /\ call' = call + 1 /\ Go("load")
                \/ Go("findPublics") /\ UNCHANGED call
             /\ UNCHANGED <<tag, k, values, held, out>>
    <2>1. /\ pdb' = pdb /\ publics' = publics /\ globals' = globals /\ out' = <<>>
          /\ at' \in Loading
      BY <1>1, <1>5 DEF Go, run, values, Loading
    <2>2. PiecesLeft' = PiecesLeft /\ PyxdiaLeft' = PyxdiaLeft
      BY <1>1, <2>1, StepPieces, LeftType
    <2>3. ItemsLeft' = ItemsLeft
      BY <1>1, <2>1 DEF ItemsLeft, Loading, Collecting
    <2>4. SymbolsLeft' = SymbolsLeft
      BY <1>1, <2>1 DEF SymbolsLeft, Loading, TagsFrom, Symbols
    <2>5. StagesLeft' < StagesLeft /\ StagesLeft' \in Int
      BY <1>1, <1>2, <1>5 DEF StagesLeft, Go, LastCall
    <2> QED
      BY <2>2, <2>3, <2>4, <2>5, LeftType DEF Left
  <1> QED
    BY <1>3, <1>4, <1>5 DEF LoadCall

LEMMA FindPublicsShrinks ==
  ASSUME Inv, DumpInv, FindPublics, UNCHANGED <<transport, pyVars>>
  PROVE  Left' < Left
  <1>1. /\ at = "findPublics" /\ out = <<>> /\ tag = 1 /\ at \in Loading
    BY DEF FindPublics, Ready, DumpInv, GlobalsInv, Loading
  <1>2. /\ pdb' = pdb /\ publics' = publics /\ globals' = globals /\ out' = <<>>
        /\ tag' = 1 /\ k' = 1 /\ at' \in {"publics", "findGlobals"}
    BY <1>1 DEF FindPublics, Go, run, values
  <1>3. PiecesLeft' = PiecesLeft /\ PyxdiaLeft' = PyxdiaLeft
    BY <1>1, <1>2, StepPieces, LeftType
  <1>4. ItemsLeft' = ItemsLeft
    BY <1>1, <1>2 DEF ItemsLeft, Collecting
  <1>5. SymbolsLeft' <= SymbolsLeft /\ SymbolsLeft' \in Int
    <2> DEFINE a == Symbols(pdb.publics)
               b == TagsFrom(1)
    <2>1. a \in Nat /\ b \in Nat
      BY SymbolsType DEF Inv
    <2>2. SymbolsLeft = 4 * (a + b)
      BY <1>1 DEF SymbolsLeft
    <2>3. SymbolsLeft' = 4 * (a - (1 - 1) + b) \/ SymbolsLeft' = 4 * b
      BY <1>2 DEF SymbolsLeft, Loading, TagsFrom, Symbols
    <2> HIDE DEF a, b
    <2> QED
      BY <2>1, <2>2, <2>3
  <1>6. StagesLeft = 27 /\ StagesLeft' \in {26, 25}
    BY <1>1, <1>2 DEF StagesLeft
  <1> QED
    BY <1>3, <1>4, <1>5, <1>6, LeftType DEF Left

(* A symbol that is fetched costs one less as an item.                     *)
LEMMA PushCosts ==
  ASSUME NEW v \in Value, NEW e \in Entry
  PROVE  Len(Push(v, e).items) = Len(v.items) + 1
  <1>1. v.items \in Seq(Entry)
    BY ItemsType
  <1>2. Len(Append(v.items, e)) = Len(v.items) + 1
    BY <1>1, AppendType
  <1>3. Push(v, e).items = Append(v.items, e)
    BY DEF Push
  <1> QED
    BY <1>2, <1>3

LEMMA NextPublicShrinks ==
  ASSUME Inv, DumpInv, NextPublic, UNCHANGED <<transport, pyVars>>
  PROVE  Left' < Left
  <1>1. at = "publics" /\ out = <<>> /\ k \in Nat \ {0} /\ k <= Len(pdb.publics.symbols)
    BY DEF NextPublic, Ready, Inv, TypeOK
  <1>2. CASE Die
    BY <1>1, <1>2, DieShrinks DEF Collecting
  <1>3. CASE /\ publics' = Push(publics, PublicEntry(pdb.publics.symbols[k]))
             /\ k' = k + 1
             /\ UNCHANGED <<run, at, call, tag, globals, held, out, code>>
    <2>1. PiecesLeft' = PiecesLeft /\ PyxdiaLeft' = PyxdiaLeft
      BY <1>1, <1>3, StepPieces, LeftType
    <2>2. ItemsLeft' = ItemsLeft + 3
      <3>1. pdb.publics.symbols[k] \in Symbol
        <4>1. k \in 1..Len(pdb.publics.symbols)
          BY <1>1, ListingType, LengthType DEF Inv
        <4> QED
          BY <4>1, ListingType, ElementType DEF Inv
      <3>2. publics \in Value /\ globals \in Value
        BY DEF Inv, TypeOK
      <3> DEFINE n == Len(publics.items)
                 m == Len(globals.items)
                 p == Len(publics'.items)
      <3>3. n \in Nat /\ m \in Nat /\ p = n + 1
        BY <1>3, <3>1, <3>2, ItemsType, PushCosts, PublicEntryType
      <3>4. ItemsLeft = 3 * (n + m) /\ ItemsLeft' = 3 * (p + m)
        BY <1>1, <1>3 DEF ItemsLeft, Collecting
      <3> HIDE DEF n, m, p
      <3> QED
        BY <3>3, <3>4
    <2>3. SymbolsLeft' = SymbolsLeft - 4
      <3> DEFINE a == Symbols(pdb.publics)
                 b == TagsFrom(1)
      <3>1. a \in Nat /\ b \in Nat
        BY SymbolsType DEF Inv
      <3>2. SymbolsLeft = 4 * (a - (k - 1) + b)
        BY <1>1 DEF SymbolsLeft, Loading
      <3>3. SymbolsLeft' = 4 * (a - (k' - 1) + b)
        BY <1>1, <1>3 DEF SymbolsLeft, Loading, TagsFrom, Symbols, run
      <3>4. k \in Nat /\ k' = k + 1
        BY <1>1, <1>3
      <3> HIDE DEF a, b
      <3> QED
        BY <3>1, <3>2, <3>3, <3>4
    <2>4. StagesLeft' = StagesLeft
      BY <1>1, <1>3 DEF StagesLeft
    <2> QED
      BY <2>1, <2>2, <2>3, <2>4, LeftType DEF Left
  <1> QED
    BY <1>2, <1>3 DEF NextPublic

LEMMA EndPublicsShrinks ==
  ASSUME Inv, DumpInv, EndPublics, UNCHANGED <<transport, pyVars>>
  PROVE  Left' < Left
  <1>1. at = "publics" /\ out = <<>> /\ tag = 1 /\ k \in Nat
    BY DEF EndPublics, Ready, DumpInv, GlobalsInv, Inv, TypeOK
  <1>2. /\ pdb' = pdb /\ publics' = publics /\ globals' = globals /\ out' = <<>>
        /\ tag' = 1 /\ at' = "findGlobals"
    BY <1>1 DEF EndPublics, Go, run, values, counters
  <1>3. PiecesLeft' = PiecesLeft /\ PyxdiaLeft' = PyxdiaLeft
    BY <1>1, <1>2, StepPieces, LeftType
  <1>4. ItemsLeft' = ItemsLeft
    BY <1>1, <1>2 DEF ItemsLeft, Collecting
  <1>5. SymbolsLeft' <= SymbolsLeft /\ SymbolsLeft' \in Int
    <2> DEFINE a == Symbols(pdb.publics)
               b == TagsFrom(1)
    <2>1. a \in Nat /\ b \in Nat /\ a - (k - 1) \in Nat
      <3>1. a \in Nat /\ b \in Nat
        BY SymbolsType DEF Inv
      <3>2. k <= a + 1
        BY <1>1 DEF DumpInv, PublicsInv, Symbols
      <3> HIDE DEF a, b
      <3> QED
        BY <1>1, <3>1, <3>2
    <2>2. SymbolsLeft = 4 * (a - (k - 1) + b)
      BY <1>1 DEF SymbolsLeft, Loading
    <2>3. SymbolsLeft' = 4 * b
      BY <1>2 DEF SymbolsLeft, Loading, TagsFrom, Symbols
    <2> HIDE DEF a, b
    <2> QED
      BY <1>1, <2>1, <2>2, <2>3
  <1>6. StagesLeft = 26 /\ StagesLeft' = 25
    BY <1>1, <1>2 DEF StagesLeft
  <1> QED
    BY <1>3, <1>4, <1>5, <1>6, LeftType DEF Left

LEMMA FindGlobalsShrinks ==
  ASSUME Inv, DumpInv, FindGlobals, UNCHANGED <<transport, pyVars>>
  PROVE  Left' < Left
  <1>1. at = "findGlobals" /\ out = <<>> /\ tag \in 1..3
    BY DEF FindGlobals, Ready, Inv, TypeOK
  <1>2. StagesLeft = 29 - 4 * tag
    BY <1>1 DEF StagesLeft
  <1>3. SymbolsLeft = 4 * TagsFrom(tag) /\ TagsFrom(tag) \in Nat
    BY <1>1, SymbolsType DEF SymbolsLeft, Loading, Inv
  <1>4. CASE pdb.globals[tag].found
    <2>1. /\ pdb' = pdb /\ publics' = publics /\ globals' = globals /\ out' = <<>>
          /\ tag' = tag /\ k' = 1 /\ at' = "globals"
      BY <1>1, <1>4 DEF FindGlobals, Go, run, values
    <2>2. PiecesLeft' = PiecesLeft /\ PyxdiaLeft' = PyxdiaLeft
      BY <1>1, <2>1, StepPieces, LeftType
    <2>3. ItemsLeft' = ItemsLeft
      BY <1>1, <2>1 DEF ItemsLeft, Collecting
    <2>4. SymbolsLeft' = SymbolsLeft
      <3> DEFINE c == TagsFrom(tag)
      <3>1. SymbolsLeft' = 4 * (c - (1 - 1))
        BY <2>1 DEF SymbolsLeft, Loading, TagsFrom, Symbols
      <3> HIDE DEF c
      <3>2. c \in Nat /\ SymbolsLeft = 4 * c
        BY <1>3 DEF c
      <3> QED
        BY <3>1, <3>2
    <2>5. StagesLeft' = 28 - 4 * tag
      BY <2>1 DEF StagesLeft
    <2> QED
      BY <1>1, <1>2, <2>2, <2>3, <2>4, <2>5, LeftType DEF Left
  <1>5. CASE ~pdb.globals[tag].found
    <2>1. /\ publics' = publics /\ globals' = False /\ out' = <<Complaint>> /\ at' = "puts"
      BY <1>1, <1>5 DEF FindGlobals, Go
    <2>2. PiecesLeft' = PiecesLeft + 3 /\ PyxdiaLeft' = PyxdiaLeft
      BY <1>1, <2>1, StepPieces, LeftType
    <2>3. ItemsLeft' <= ItemsLeft /\ ItemsLeft' \in Int
      <3> DEFINE n == Len(publics.items)
                 m == Len(globals.items)
      <3>1. n \in Nat /\ m \in Nat
        BY ItemsType DEF Inv, TypeOK
      <3>2. Len(globals'.items) = 0
        BY <2>1 DEF False
      <3>3. ItemsLeft = 3 * (n + m) /\ ItemsLeft' = 3 * (n + 0)
        BY <1>1, <2>1, <3>2 DEF ItemsLeft, Collecting
      <3> HIDE DEF n, m
      <3> QED
        BY <3>1, <3>3
    <2>4. SymbolsLeft' = 0 /\ StagesLeft' = 12
      BY <2>1 DEF SymbolsLeft, Loading, StagesLeft
    <2>5. StagesLeft >= 17
      BY <1>1, <1>2
    <2> QED
      BY <2>2, <2>3, <2>4, <2>5, LeftType DEF Left
  <1> QED
    BY <1>4, <1>5

LEMMA NextGlobalShrinks ==
  ASSUME Inv, DumpInv, NextGlobal, UNCHANGED <<transport, pyVars>>
  PROVE  Left' < Left
  <1>1. /\ at = "globals" /\ out = <<>> /\ tag \in 1..3
        /\ k \in Nat \ {0} /\ k <= Len(pdb.globals[tag].symbols)
    BY DEF NextGlobal, Ready, Inv, TypeOK
  <1>2. CASE Die
    BY <1>1, <1>2, DieShrinks DEF Collecting
  <1>3. CASE /\ globals' = Push(globals, GlobalEntry(pdb.globals[tag].symbols[k]))
             /\ k' = k + 1
             /\ UNCHANGED <<run, at, call, tag, publics, held, out, code>>
    <2>1. PiecesLeft' = PiecesLeft /\ PyxdiaLeft' = PyxdiaLeft
      BY <1>1, <1>3, StepPieces, LeftType
    <2>2. ItemsLeft' = ItemsLeft + 3
      <3>1. pdb.globals[tag].symbols[k] \in Symbol
        <4>1. k \in 1..Len(pdb.globals[tag].symbols)
          BY <1>1, ListingType, LengthType DEF Inv
        <4> QED
          BY <4>1, ListingType, ElementType DEF Inv
      <3>2. publics \in Value /\ globals \in Value
        BY DEF Inv, TypeOK
      <3> DEFINE n == Len(publics.items)
                 m == Len(globals.items)
                 p == Len(globals'.items)
      <3>3. n \in Nat /\ m \in Nat /\ p = m + 1
        BY <1>3, <3>1, <3>2, ItemsType, PushCosts, GlobalEntryType
      <3>4. ItemsLeft = 3 * (n + m) /\ ItemsLeft' = 3 * (n + p)
        BY <1>1, <1>3 DEF ItemsLeft, Collecting
      <3> HIDE DEF n, m, p
      <3> QED
        BY <3>3, <3>4
    <2>3. SymbolsLeft' = SymbolsLeft - 4
      <3> DEFINE c == TagsFrom(tag)
      <3>1. c \in Nat
        BY <1>1, SymbolsType DEF Inv
      <3>2. SymbolsLeft = 4 * (c - (k - 1))
        BY <1>1 DEF SymbolsLeft, Loading
      <3>3. SymbolsLeft' = 4 * (c - (k' - 1))
        BY <1>1, <1>3 DEF SymbolsLeft, Loading, TagsFrom, Symbols, run
      <3>4. k \in Nat /\ k' = k + 1
        BY <1>1, <1>3
      <3> HIDE DEF c
      <3> QED
        BY <3>1, <3>2, <3>3, <3>4
    <2>4. StagesLeft' = StagesLeft
      BY <1>1, <1>3 DEF StagesLeft
    <2> QED
      BY <2>1, <2>2, <2>3, <2>4, LeftType DEF Left
  <1> QED
    BY <1>2, <1>3 DEF NextGlobal

LEMMA EndGlobalsShrinks ==
  ASSUME Inv, DumpInv, EndGlobals, UNCHANGED <<transport, pyVars>>
  PROVE  Left' < Left
  <1>1. at = "globals" /\ out = <<>> /\ tag \in 1..3 /\ k \in Nat
    BY DEF EndGlobals, Ready, Inv, TypeOK
  <1>2. pdb' = pdb /\ publics' = publics /\ globals' = globals /\ out' = <<>>
    BY <1>1 DEF EndGlobals, Go, run, values
  <1>3. PiecesLeft' = PiecesLeft /\ PyxdiaLeft' = PyxdiaLeft
    BY <1>1, <1>2, StepPieces, LeftType
  <1>4. SymbolsLeft = 4 * (TagsFrom(tag) - (k - 1)) /\ StagesLeft = 28 - 4 * tag
    BY <1>1 DEF SymbolsLeft, Loading, StagesLeft
  <1>5. CASE tag < 3
    <2>1. tag' = tag + 1 /\ at' = "findGlobals"
      BY <1>5 DEF EndGlobals, Go
    <2>2. ItemsLeft' = ItemsLeft
      BY <1>1, <1>2, <2>1 DEF ItemsLeft, Collecting
    <2>3. SymbolsLeft' <= SymbolsLeft /\ SymbolsLeft' \in Int
      <3> DEFINE s == Symbols(pdb.globals[tag])
                 c == TagsFrom(tag)
                 d == TagsFrom(tag + 1)
      <3>1. s \in Nat /\ d \in Nat /\ c = s + d
        <4>1. tag + 1 \in 1..3
          BY <1>1, <1>5
        <4> QED
          BY <1>1, <1>5, <4>1, SymbolsType DEF Inv
      <3>2. k <= s + 1
        BY <1>1 DEF DumpInv, GlobalsInv, Symbols
      <3>3. SymbolsLeft' = 4 * d
        BY <1>2, <2>1 DEF SymbolsLeft, Loading, TagsFrom, Symbols
      <3>4. SymbolsLeft = 4 * (c - (k - 1))
        BY <1>4
      <3> HIDE DEF s, c, d
      <3>5. c - (k - 1) >= d /\ c - (k - 1) \in Int
        BY <1>1, <3>1, <3>2
      <3> QED
        BY <3>1, <3>3, <3>4, <3>5
    <2>4. StagesLeft' = 29 - 4 * (tag + 1)
      BY <2>1 DEF StagesLeft
    <2> QED
      BY <1>1, <1>3, <1>4, <2>2, <2>3, <2>4, LeftType DEF Left
  <1>6. CASE ~(tag < 3)
    <2>1. at' = "puts"
      BY <1>6 DEF EndGlobals, Go
    <2>2. ItemsLeft' = ItemsLeft
      BY <1>1, <1>2, <2>1 DEF ItemsLeft, Collecting
    <2>3. SymbolsLeft' = 0 /\ StagesLeft' = 12
      BY <2>1 DEF SymbolsLeft, Loading, StagesLeft
    <2> QED
      BY <1>1, <1>3, <1>4, <2>2, <2>3, LeftType DEF Left
  <1> QED
    BY <1>5, <1>6

LEMMA PutsShrinks ==
  ASSUME Inv, DumpInv, Puts, UNCHANGED <<transport, pyVars>>
  PROVE  Left' < Left
  <1>1. at = "puts" /\ out = <<>> /\ at' = "exit" /\ out' = Text
    BY DEF Puts, Ready, Go
  <1> DEFINE n == Len(publics.items)
             m == Len(globals.items)
  <1>2. n \in Nat /\ m \in Nat
    BY ItemsType DEF Inv, TypeOK
  <1>3. PiecesLeft' = PiecesLeft + 3 * (m + n + 3) /\ PyxdiaLeft' = PyxdiaLeft
    BY <1>1, StepPieces, TextAt DEF Inv
  <1>4. ItemsLeft = 3 * (n + m) /\ ItemsLeft' = 0
    BY <1>1 DEF ItemsLeft, Collecting
  <1>5. SymbolsLeft' = SymbolsLeft
    BY <1>1 DEF SymbolsLeft, Loading
  <1>6. StagesLeft = 12 /\ StagesLeft' = 2
    BY <1>1 DEF StagesLeft
  <1> HIDE DEF n, m
  <1> QED
    BY <1>2, <1>3, <1>4, <1>5, <1>6, LeftType DEF Left

LEMMA ExitShrinks ==
  ASSUME Inv, DumpInv, Exit, UNCHANGED <<transport, pyVars>>
  PROVE  Left' < Left
  <1>1. at = "exit" /\ out = <<>> /\ at' = "terminate" /\ out' = <<>>
    BY DEF Exit, Ready, Go
  <1>2. PiecesLeft' = PiecesLeft /\ PyxdiaLeft' = PyxdiaLeft
    BY <1>1, StepPieces, LeftType
  <1>3. ItemsLeft' = ItemsLeft /\ SymbolsLeft' = SymbolsLeft
    BY <1>1 DEF ItemsLeft, SymbolsLeft, Collecting, Loading
  <1>4. StagesLeft = 2 /\ StagesLeft' = 1
    BY <1>1 DEF StagesLeft
  <1> QED
    BY <1>2, <1>3, <1>4, LeftType DEF Left

(* What moves a piece on disturbs neither the walk nor pyxdia.             *)
LEMMA MovePieces ==
  ASSUME Inv, DumpInv, UNCHANGED <<run, at, counters, values, py>>,
         PiecesLeft' < PiecesLeft, PiecesLeft' \in Int
  PROVE  Left' < Left
  <1>1. ItemsLeft' = ItemsLeft /\ SymbolsLeft' = SymbolsLeft
    BY DEF ItemsLeft, SymbolsLeft, run, counters, values, TagsFrom, Symbols
  <1>2. StagesLeft' = StagesLeft /\ PyxdiaLeft' = PyxdiaLeft
    BY DEF StagesLeft, PyxdiaLeft, counters
  <1> QED
    BY <1>1, <1>2, LeftType DEF Left

LEMMA WriteFileShrinks == ASSUME Inv, DumpInv, WriteFile PROVE Left' < Left
  <1> DEFINE o == Len(out)
             s == Len(stdio)
             p == Len(pipe)
  <1>1. /\ o \in Nat /\ s \in Nat /\ p \in Nat /\ Len(out') = o - 1
        /\ out \in Seq(Piece) /\ stdio \in Seq(Piece) /\ pipe \in Seq(Piece)
        /\ Head(out) \in Piece
    BY TakeType, LengthType DEF Inv, TypeOK, WriteFile
  <1>2. \/ stdio' = stdio /\ pipe' = pipe
        \/ pipe' = Append(pipe, Head(out)) /\ stdio' = stdio
        \/ stdio' = Append(stdio, Head(out)) /\ pipe' = pipe
    BY DEF WriteFile
  <1>3. \/ Len(stdio') = s /\ Len(pipe') = p
        \/ Len(stdio') = s /\ Len(pipe') = p + 1
        \/ Len(stdio') = s + 1 /\ Len(pipe') = p
    BY <1>1, <1>2, AppendType
  <1>4. /\ PiecesLeft = 3 * o + 2 * s + p
        /\ PiecesLeft' = 3 * Len(out') + 2 * Len(stdio') + Len(pipe')
    BY DEF PiecesLeft
  <1>5. PiecesLeft' < PiecesLeft /\ PiecesLeft' \in Int
    <2> DEFINE x == Len(out')
               y == Len(stdio')
               z == Len(pipe')
    <2>1. /\ x = o - 1
          /\ (y = s /\ z = p) \/ (y = s /\ z = p + 1) \/ (y = s + 1 /\ z = p)
          /\ PiecesLeft = 3 * o + 2 * s + p /\ PiecesLeft' = 3 * x + 2 * y + z
          /\ o \in Nat /\ s \in Nat /\ p \in Nat
      BY <1>1, <1>3, <1>4
    <2> HIDE DEF o, s, p, x, y, z
    <2> QED
      BY <2>1
  <1> QED
    BY <1>5, MovePieces DEF WriteFile, pyVars

LEMMA DrainShrinks == ASSUME Inv, DumpInv, Drain PROVE Left' < Left
  <1> DEFINE o == Len(out)
             s == Len(stdio)
             p == Len(pipe)
  <1>1. /\ o \in Nat /\ s \in Nat /\ p \in Nat /\ Len(out') = o
        /\ Len(stdio') = s - 1 /\ Len(pipe') = p + 1
    <2>1. /\ stdio \in Seq(Piece) /\ pipe \in Seq(Piece) /\ out \in Seq(Piece)
          /\ stdio # <<>> /\ out' = out
          /\ stdio' = Tail(stdio) /\ pipe' = Append(pipe, Head(stdio))
      BY DEF Inv, TypeOK, Drain, xdiaVars
    <2>2. Head(stdio) \in Piece /\ Len(Tail(stdio)) = Len(stdio) - 1
      BY <2>1, TakeType
    <2> QED
      BY <2>1, <2>2, LengthType, AppendType
  <1>2. /\ PiecesLeft = 3 * o + 2 * s + p
        /\ PiecesLeft' = 3 * o + 2 * (s - 1) + (p + 1)
    BY <1>1 DEF PiecesLeft
  <1> HIDE DEF o, s, p
  <1>3. PiecesLeft' < PiecesLeft /\ PiecesLeft' \in Int
    BY <1>1, <1>2
  <1> QED
    BY <1>3, MovePieces DEF Drain, xdiaVars, pyVars

LEMMA ReadShrinks == ASSUME Inv, DumpInv, Read PROVE Left' < Left
  <1> DEFINE r == 3 * Len(out) + 2 * Len(stdio)
             p == Len(pipe)
  <1>1. r \in Nat /\ p \in Nat /\ Len(pipe') = p - 1
    BY LengthType, TakeType DEF Inv, TypeOK, Read
  <1>2. PiecesLeft = r + p /\ PiecesLeft' = r + (p - 1)
    BY <1>1 DEF PiecesLeft, Read, xdiaVars
  <1> HIDE DEF r, p
  <1>3. PiecesLeft' < PiecesLeft /\ PiecesLeft' \in Int
    BY <1>1, <1>2
  <1> QED
    BY <1>3, MovePieces DEF Read, xdiaVars

LEMMA EndShrinks ==
  ASSUME Inv, DumpInv, TerminateProcess \/ Abort
  PROVE  Left' < Left
  <1>1. /\ at \in {"terminate", "dead"} /\ at' = "ended" /\ stdio' \in {stdio, <<>>}
        /\ out' = out /\ pipe' = pipe /\ py' = py
    BY DEF TerminateProcess, Abort, pyVars
  <1>2. PiecesLeft' <= PiecesLeft /\ PiecesLeft' \in Int
    <2> DEFINE o == 3 * Len(out)
               s == Len(stdio)
               t == Len(stdio')
               p == Len(pipe)
    <2>1. o \in Nat /\ s \in Nat /\ p \in Nat /\ (t = s \/ t = 0)
      BY <1>1, LengthType DEF Inv, TypeOK
    <2>2. PiecesLeft = o + 2 * s + p /\ PiecesLeft' = o + 2 * t + p
      BY <1>1 DEF PiecesLeft
    <2> HIDE DEF o, s, t, p
    <2> QED
      BY <2>1, <2>2
  <1>3. ItemsLeft' = 0 /\ SymbolsLeft' = 0 /\ StagesLeft' = 0 /\ StagesLeft = 1
    BY <1>1 DEF ItemsLeft, SymbolsLeft, StagesLeft, Collecting, Loading
  <1>4. PyxdiaLeft' = PyxdiaLeft
    BY <1>1 DEF PyxdiaLeft
  <1> QED
    BY <1>2, <1>3, <1>4, LeftType DEF Left

LEMMA PyxdiaShrinks ==
  ASSUME Inv, DumpInv, EndOfOutput \/ LoadPdb
  PROVE  Left' < Left
  <1>1. UNCHANGED <<run, at, counters, values, out, stdio, pipe>>
    BY DEF EndOfOutput, LoadPdb, xdiaVars, transport
  <1>2. PiecesLeft' = PiecesLeft /\ ItemsLeft' = ItemsLeft
    BY <1>1 DEF PiecesLeft, ItemsLeft, values
  <1>3. SymbolsLeft' = SymbolsLeft /\ StagesLeft' = StagesLeft
    BY <1>1 DEF SymbolsLeft, StagesLeft, run, counters, TagsFrom, Symbols
  <1>4. \/ py = "reading" /\ py' = "waiting"
        \/ py = "waiting" /\ py' \in {"done", "raised"}
    BY DEF EndOfOutput, LoadPdb
  <1>5. PyxdiaLeft' < PyxdiaLeft /\ PyxdiaLeft' \in Int
    BY <1>4 DEF PyxdiaLeft
  <1> QED
    BY <1>2, <1>3, <1>5, LeftType DEF Left

(* Every step of xdia, of its loader and of pyxdia leaves less to do than  *)
(* there was, and there is never less than nothing: whatever the PDB, the  *)
(* buffers and the schedule, the two run out of work (they never loop or   *)
(* hand a piece back).                                                     *)
THEOREM WorkRunsOut == Spec => [](Left \in Nat) /\ [][Left' < Left]_vars
  <1>1. AnswerInv => Left \in Nat
    BY LeftType DEF AnswerInv, Left
  <1>2. AnswerInv /\ [Next]_vars => [Left' < Left]_vars
    <2> SUFFICES ASSUME Inv, DumpInv, Next PROVE Left' < Left
      BY DEF AnswerInv
    <2>1. CASE XdiaStep /\ UNCHANGED <<transport, pyVars>>
      BY <2>1, LoadCallShrinks, FindPublicsShrinks, NextPublicShrinks, EndPublicsShrinks,
        FindGlobalsShrinks, NextGlobalShrinks, EndGlobalsShrinks, PutsShrinks, ExitShrinks
        DEF XdiaStep
    <2>2. CASE WriteFile \/ Drain \/ Read
      BY <2>2, WriteFileShrinks, DrainShrinks, ReadShrinks
    <2>3. CASE TerminateProcess \/ Abort
      BY <2>3, EndShrinks
    <2>4. CASE EndOfOutput \/ LoadPdb
      BY <2>4, PyxdiaShrinks
    <2> QED
      BY <2>1, <2>2, <2>3, <2>4 DEF Next, XdiaProcess, PyxdiaProcess
  <1> QED
    BY <1>1, <1>2, AnswerInit, AnswerKept, PTL DEF Spec
-----------------------------------------------------------------------------
(* Where each process can go on: xdia when its last write is done, a write *)
(* and the buffer when there is room, the end of the process when nothing  *)
(* is buffered; pyxdia when there is something to read, or when the pipe   *)
(* is closed.                                                              *)
XdiaMoves ==
  \/ out = <<>> /\ at \notin {"terminate", "dead", "ended"}
  \/ /\ out # <<>>
     /\ \/ host = "windows" /\ Head(out).fd = 2
        \/ host = "windows" /\ Head(out).fd = 1 /\ Len(pipe) < PipeCap
        \/ host = "loader" /\ Len(stdio) < StdioCap
  \/ /\ stdio # <<>> /\ Len(pipe) < PipeCap
     /\ Len(stdio) = StdioCap \/ at = "terminate"
  \/ at = "terminate" /\ stdio = <<>>
  \/ at = "dead"

PyxdiaMoves ==
  \/ py = "reading" /\ (pipe # <<>> \/ status # Running)
  \/ py = "waiting"

(* A buffer of length zero is empty.                                       *)
LEMMA EmptyLength == ASSUME NEW S, NEW s \in Seq(S) PROVE Len(s) = 0 <=> s = <<>>
  OBVIOUS

(* With nothing in the pipe, there is room for a piece, so what xdia waits *)
(* for is there: a write has room in the buffer, or the buffer is full and *)
(* can be written on.                                                      *)
LEMMA EmptyPipeLetsXdiaMove ==
  ASSUME Inv, DumpInv, pipe = <<>>, at # "ended"
  PROVE  XdiaMoves
  <1>1. /\ out \in Seq(Piece) /\ stdio \in Seq(Piece) /\ host \in {"windows", "loader"}
        /\ Len(stdio) <= StdioCap /\ Len(pipe) = 0 /\ Len(stdio) \in Nat
    BY DumpAssumption DEF Inv, TypeOK
  <1>2. StdioCap \in Nat /\ PipeCap \in Nat /\ StdioCap > 0 /\ PipeCap > 0
    BY PipelineAssumption
  <1>3. Len(pipe) < PipeCap
    BY <1>1, <1>2
  <1>4. CASE at \in {"terminate", "dead"}
    BY <1>3, <1>4 DEF XdiaMoves
  <1>5. CASE out = <<>>
    BY <1>4, <1>5 DEF XdiaMoves
  <1>6. CASE out # <<>> /\ host = "windows"
    <2>1. Head(out) \in Piece
      BY <1>1, <1>6, TakeType
    <2>2. Head(out).fd \in {1, 2}
      BY <2>1 DEF Piece
    <2> QED
      BY <1>3, <1>6, <2>2 DEF XdiaMoves
  <1>7. CASE out # <<>> /\ host = "loader" /\ Len(stdio) < StdioCap
    BY <1>7 DEF XdiaMoves
  <1>8. CASE out # <<>> /\ host = "loader" /\ Len(stdio) = StdioCap
    <2>1. stdio # <<>>
      BY <1>1, <1>2, <1>8, EmptyLength
    <2> QED
      BY <1>3, <1>8, <2>1 DEF XdiaMoves
  <1> QED
    BY <1>1, <1>2, <1>5, <1>6, <1>7, <1>8

(* Until pyxdia has its answer, one of the two can go on: whatever the PDB *)
(* and however small the buffers, they never wait for each other.          *)
THEOREM NobodyIsStuck ==
  Spec => [](py \in {"reading", "waiting"} => XdiaMoves \/ PyxdiaMoves)
  <1>1. AnswerInv => (py \in {"reading", "waiting"} => XdiaMoves \/ PyxdiaMoves)
    <2> SUFFICES ASSUME Inv, DumpInv, py = "reading", ~PyxdiaMoves PROVE XdiaMoves
      BY DEF AnswerInv, PyxdiaMoves
    <2>1. pipe = <<>> /\ status = Running
      BY DEF PyxdiaMoves
    <2>2. at # "ended"
      BY <2>1 DEF DumpInv, EndInv
    <2> QED
      BY <2>1, <2>2, EmptyPipeLetsXdiaMove
  <1> QED
    BY <1>1, AnswerInit, AnswerKept, PTL DEF Spec
=============================================================================
