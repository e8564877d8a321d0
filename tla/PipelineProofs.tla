--------------------------- MODULE PipelineProofs ---------------------------
(***************************************************************************)
(* Type correctness of Pipeline, with the bounds on its buffers, and the   *)
(* references xdia holds: for every set of PDBs and every buffer size.     *)
(* Neither is inductive alone: a release is one below zero unless the      *)
(* enumerator is held.                                                     *)
(***************************************************************************)
EXTENDS Pipeline, TLAPS

Inv == TypeOK /\ EnumeratorsReleased

LEMMA ElementType ==
  ASSUME NEW S, NEW s \in Seq(S), NEW n \in 1..Len(s)
  PROVE  s[n] \in S
  OBVIOUS

(* A buffer that has room takes one piece, one that is not empty gives one. *)
LEMMA AppendType ==
  ASSUME NEW S, NEW s \in Seq(S), NEW e \in S
  PROVE  Append(s, e) \in Seq(S) /\ Len(Append(s, e)) = Len(s) + 1
  OBVIOUS

LEMMA TakeType ==
  ASSUME NEW S, NEW s \in Seq(S), s # <<>>
  PROVE  Head(s) \in S /\ Tail(s) \in Seq(S) /\ Len(Tail(s)) = Len(s) - 1
  OBVIOUS

(* What a listing of the PDB holds.                                         *)
LEMMA ListingType ==
  ASSUME TypeOK
  PROVE  /\ pdb.publics.symbols \in Seq(Symbol)
         /\ pdb.globals[tag].symbols \in Seq(Symbol)
  <1>1. pdb \in Pdb
    BY DumpAssumption DEF TypeOK
  <1>2. pdb.publics \in Listing /\ pdb.globals \in [1..3 -> Listing] /\ tag \in 1..3
    BY <1>1 DEF Pdb, TypeOK
  <1>3. pdb.globals[tag] \in Listing
    BY <1>2
  <1> QED
    BY <1>2, <1>3 DEF Listing

-----------------------------------------------------------------------------
(* JSON                                                                     *)

LEMMA GivenType == ASSUME NEW b \in BOOLEAN PROVE Given(b) \in {"null", "value"}
  BY DEF Given

LEMMA NullEntryType == NullEntry \in Entry
  BY DEF NullEntry, Entry

LEMMA AddressAndNameType == ASSUME NEW s \in Symbol PROVE AddressAndName(s) \in Entry
  <1>1. s.id \in Nat /\ s.placed \in BOOLEAN /\ s.located \in BOOLEAN /\ s.named \in BOOLEAN
    BY DEF Symbol
  <1>2. Given(s.placed) \in {"null", "value"} /\ Given(s.named) \in {"null", "value"}
    BY <1>1, GivenType
  <1> QED
    BY <1>1, <1>2 DEF AddressAndName, Entry

LEMMA PublicEntryType == ASSUME NEW s \in Symbol PROVE PublicEntry(s) \in Entry
  BY NullEntryType, AddressAndNameType DEF PublicEntry, Entry

LEMMA GlobalEntryType == ASSUME NEW s \in Symbol PROVE GlobalEntry(s) \in Entry
  <1>1. s.targeted \in BOOLEAN
    BY DEF Symbol
  <1>2. Given(s.targeted) \in {"null", "value"}
    BY <1>1, GivenType
  <1> DEFINE t == IF s.tag = "Thunk" THEN Given(s.targeted) ELSE "absent"
  <1>3. t \in {"absent", "null", "value"}
    BY <1>2
  <1> HIDE DEF t
  <1>4. [AddressAndName(s) EXCEPT !.target = t] \in Entry
    BY <1>3, AddressAndNameType DEF Entry
  <1> QED
    BY <1>4, NullEntryType DEF GlobalEntry, t

LEMMA PushType ==
  ASSUME NEW v \in Value, NEW e \in Entry
  PROVE  Push(v, e) \in Value
  <1>1. Append(v.items, e) \in Seq(Entry)
    BY AppendType DEF Value
  <1> QED
    BY <1>1 DEF Push, Value

LEMMA FixedValues == Null \in Value /\ False \in Value
  <1>1. <<>> \in Seq(Entry)
    OBVIOUS
  <1> QED
    BY <1>1 DEF Null, False, Value

LEMMA PiecesType ==
  ASSUME NEW v \in Value, NEW key \in {"globals", "publics"}
  PROVE  Pieces(key, v) \in Seq(Piece)
  <1>1. v.items \in Seq(Entry) /\ v.kind \in {"null", "false", "list"}
    BY DEF Value
  <1> DEFINE head == [fd |-> 1, key |-> key, what |-> v.kind, entry |-> NullEntry]
             rest == [n \in DOMAIN v.items |->
                        [fd |-> 1, key |-> key, what |-> "item", entry |-> v.items[n]]]
  <1>2. head \in Piece
    BY <1>1, NullEntryType DEF Piece
  <1>3. ASSUME NEW n \in 1..Len(v.items)
        PROVE  [fd |-> 1, key |-> key, what |-> "item", entry |-> v.items[n]] \in Piece
    <2>1. v.items[n] \in Entry
      BY <1>1, ElementType
    <2> QED
      BY <2>1 DEF Piece
  <1>4. DOMAIN v.items = 1..Len(v.items) /\ Len(v.items) \in Nat
    BY <1>1
  <1>5. rest \in Seq(Piece)
    BY <1>3, <1>4
  <1> HIDE DEF head, rest
  <1>6. <<head>> \in Seq(Piece)
    BY <1>2
  <1>7. <<head>> \o rest \in Seq(Piece)
    BY <1>5, <1>6
  <1> QED
    BY <1>7 DEF Pieces, head, rest

LEMMA FixedPieces == Complaint \in Piece /\ Close \in Piece
  BY NullEntryType DEF Complaint, Close, Piece

LEMMA TextType == ASSUME TypeOK PROVE Text \in Seq(Piece)
  <1>1. Pieces("globals", globals) \in Seq(Piece) /\ Pieces("publics", publics) \in Seq(Piece)
    BY PiecesType DEF TypeOK
  <1>2. <<Close>> \in Seq(Piece)
    BY FixedPieces
  <1> QED
    BY <1>1, <1>2 DEF Text

-----------------------------------------------------------------------------
(* The steps of xdia                                                        *)

LEMMA DieKeeps ==
  ASSUME Inv, Die, UNCHANGED <<transport, pyVars>>
  PROVE  Inv'
  BY DEF Inv, TypeOK, EnumeratorsReleased, Die, run, counters, values, transport, pyVars

LEMMA LoadCallKeeps ==
  ASSUME Inv, LoadCall, UNCHANGED <<transport, pyVars>>
  PROVE  Inv'
  <1>1. CASE Die
    BY <1>1, DieKeeps
  <1>2. CASE /\ out' = <<Complaint>>
             /\ code' = 255
             /\ at' = "exit"
             /\ UNCHANGED <<run, counters, values, held>>
    <2>1. out' \in Seq(Piece)
      BY <1>2, FixedPieces
    <2> QED
      BY <1>2, <2>1 DEF Inv, TypeOK, EnumeratorsReleased, LoadCall, Ready, run, counters,
        values, transport, pyVars
  <1>3. CASE /\ \/ call < LastCall /\ call' = call + 1 /\ Go("load")
                \/ Go("findPublics") /\ UNCHANGED call
             /\ UNCHANGED <<tag, k, values, held, out>>
    <2>1. call' \in 1..LastCall
      BY <1>3 DEF Inv, TypeOK, LastCall
    <2> QED
      BY <1>3, <2>1 DEF Inv, TypeOK, EnumeratorsReleased, LoadCall, Ready, Go, run, values,
        transport, pyVars
  <1> QED
    BY <1>1, <1>2, <1>3 DEF LoadCall

LEMMA FindPublicsKeeps ==
  ASSUME Inv, FindPublics, UNCHANGED <<transport, pyVars>>
  PROVE  Inv'
  BY DEF Inv, TypeOK, EnumeratorsReleased, FindPublics, Ready, Go, run, values, transport, pyVars

LEMMA NextPublicKeeps ==
  ASSUME Inv, NextPublic, UNCHANGED <<transport, pyVars>>
  PROVE  Inv'
  <1>1. CASE Die
    BY <1>1, DieKeeps
  <1>2. CASE /\ publics' = Push(publics, PublicEntry(pdb.publics.symbols[k]))
             /\ k' = k + 1
             /\ UNCHANGED <<run, at, call, tag, globals, held, out, code>>
    <2>1. pdb.publics.symbols[k] \in Symbol
      <3>1. k \in 1..Len(pdb.publics.symbols)
        BY ListingType DEF Inv, TypeOK, NextPublic
      <3> QED
        BY <3>1, ListingType, ElementType DEF Inv
    <2>2. publics' \in Value
      BY <1>2, <2>1, PublicEntryType, PushType DEF Inv, TypeOK
    <2> QED
      BY <1>2, <2>2 DEF Inv, TypeOK, EnumeratorsReleased, run, transport, pyVars
  <1> QED
    BY <1>1, <1>2 DEF NextPublic

LEMMA EndPublicsKeeps ==
  ASSUME Inv, EndPublics, UNCHANGED <<transport, pyVars>>
  PROVE  Inv'
  BY DEF Inv, TypeOK, EnumeratorsReleased, EndPublics, Ready, Go, run, counters, values,
    transport, pyVars

LEMMA FindGlobalsKeeps ==
  ASSUME Inv, FindGlobals, UNCHANGED <<transport, pyVars>>
  PROVE  Inv'
  <1>1. CASE pdb.globals[tag].found
    BY <1>1 DEF Inv, TypeOK, EnumeratorsReleased, FindGlobals, Ready, Go, run, values,
      transport, pyVars
  <1>2. CASE ~pdb.globals[tag].found
    <2>1. out' = <<Complaint>> /\ globals' = False
      BY <1>2 DEF FindGlobals
    <2>2. out' \in Seq(Piece) /\ globals' \in Value
      BY <2>1, FixedPieces, FixedValues
    <2> QED
      BY <1>2, <2>2 DEF Inv, TypeOK, EnumeratorsReleased, FindGlobals, Ready, Go, run,
        counters, transport, pyVars
  <1> QED
    BY <1>1, <1>2

LEMMA NextGlobalKeeps ==
  ASSUME Inv, NextGlobal, UNCHANGED <<transport, pyVars>>
  PROVE  Inv'
  <1>1. CASE Die
    BY <1>1, DieKeeps
  <1>2. CASE /\ globals' = Push(globals, GlobalEntry(pdb.globals[tag].symbols[k]))
             /\ k' = k + 1
             /\ UNCHANGED <<run, at, call, tag, publics, held, out, code>>
    <2>1. pdb.globals[tag].symbols[k] \in Symbol
      <3>1. k \in 1..Len(pdb.globals[tag].symbols)
        BY ListingType DEF Inv, TypeOK, NextGlobal
      <3> QED
        BY <3>1, ListingType, ElementType DEF Inv
    <2>2. globals' \in Value
      BY <1>2, <2>1, GlobalEntryType, PushType DEF Inv, TypeOK
    <2> QED
      BY <1>2, <2>2 DEF Inv, TypeOK, EnumeratorsReleased, run, transport, pyVars
  <1> QED
    BY <1>1, <1>2 DEF NextGlobal

LEMMA EndGlobalsKeeps ==
  ASSUME Inv, EndGlobals, UNCHANGED <<transport, pyVars>>
  PROVE  Inv'
  BY DEF Inv, TypeOK, EnumeratorsReleased, EndGlobals, Ready, Go, run, values, transport, pyVars

LEMMA PutsKeeps ==
  ASSUME Inv, Puts, UNCHANGED <<transport, pyVars>>
  PROVE  Inv'
  <1>1. out' \in Seq(Piece)
    BY TextType DEF Puts, Inv
  <1> QED
    BY <1>1 DEF Inv, TypeOK, EnumeratorsReleased, Puts, Ready, Go, run, counters, values,
      transport, pyVars

LEMMA ExitKeeps ==
  ASSUME Inv, Exit, UNCHANGED <<transport, pyVars>>
  PROVE  Inv'
  BY DEF Inv, TypeOK, EnumeratorsReleased, Exit, Ready, Go, run, counters, values,
    transport, pyVars

-----------------------------------------------------------------------------
(* The steps of the loader, the pipe and pyxdia                             *)

LEMMA WriteFileKeeps == ASSUME Inv, WriteFile PROVE Inv'
  <1>1. out' \in Seq(Piece) /\ Head(out) \in Piece
    BY TakeType DEF Inv, TypeOK, WriteFile
  <1>2. \/ UNCHANGED <<stdio, pipe>>
        \/ Len(pipe) < PipeCap /\ pipe' = Append(pipe, Head(out)) /\ stdio' = stdio
        \/ Len(stdio) < StdioCap /\ stdio' = Append(stdio, Head(out)) /\ pipe' = pipe
    BY DEF WriteFile
  <1>3. /\ stdio' \in Seq(Piece) /\ Len(stdio') <= StdioCap
        /\ pipe' \in Seq(Piece) /\ Len(pipe') <= PipeCap
    <2>1. CASE UNCHANGED <<stdio, pipe>>
      BY <2>1 DEF Inv, TypeOK
    <2>2. CASE Len(pipe) < PipeCap /\ pipe' = Append(pipe, Head(out)) /\ stdio' = stdio
      <3>1. pipe \in Seq(Piece) /\ stdio \in Seq(Piece) /\ Len(stdio) <= StdioCap
        BY DEF Inv, TypeOK
      <3>2. pipe' \in Seq(Piece) /\ Len(pipe') = Len(pipe) + 1
        BY <1>1, <2>2, <3>1, AppendType
      <3> QED
        BY <2>2, <3>1, <3>2, PipelineAssumption
    <2>3. CASE Len(stdio) < StdioCap /\ stdio' = Append(stdio, Head(out)) /\ pipe' = pipe
      <3>1. stdio \in Seq(Piece) /\ pipe \in Seq(Piece) /\ Len(pipe) <= PipeCap
        BY DEF Inv, TypeOK
      <3>2. stdio' \in Seq(Piece) /\ Len(stdio') = Len(stdio) + 1
        BY <1>1, <2>3, <3>1, AppendType
      <3> QED
        BY <2>3, <3>1, <3>2, PipelineAssumption
    <2> QED
      BY <1>2, <2>1, <2>2, <2>3
  <1> QED
    BY <1>1, <1>3 DEF Inv, TypeOK, EnumeratorsReleased, WriteFile, run, counters, values, pyVars

LEMMA DrainKeeps == ASSUME Inv, Drain PROVE Inv'
  <1>1. Head(stdio) \in Piece /\ stdio' \in Seq(Piece) /\ Len(stdio') <= StdioCap
    BY TakeType, PipelineAssumption DEF Inv, TypeOK, Drain
  <1>2. pipe' \in Seq(Piece) /\ Len(pipe') <= PipeCap
    BY <1>1, AppendType, PipelineAssumption DEF Inv, TypeOK, Drain
  <1> QED
    BY <1>1, <1>2 DEF Inv, TypeOK, EnumeratorsReleased, Drain, xdiaVars, run, counters, values,
      pyVars

LEMMA EndKeeps == ASSUME Inv, TerminateProcess \/ Abort PROVE Inv'
  <1>1. stdio' = <<>> \/ stdio' = stdio
    BY DEF TerminateProcess, Abort
  <1>2. stdio' \in Seq(Piece) /\ Len(stdio') <= StdioCap
    <2>1. <<>> \in Seq(Piece) /\ Len(<<>>) <= StdioCap
      BY PipelineAssumption
    <2> QED
      BY <1>1, <2>1 DEF Inv, TypeOK
  <1>3. /\ at' = "ended" /\ status' \in {Running, 0, 255, Killed}
        /\ UNCHANGED <<run, counters, values, held, out, code, pipe, pyVars>>
    BY DEF Inv, TypeOK, TerminateProcess, Abort
  <1> QED
    BY <1>2, <1>3 DEF Inv, TypeOK, EnumeratorsReleased, run, counters, values, pyVars

LEMMA ReadKeeps == ASSUME Inv, Read PROVE Inv'
  <1>1. Head(pipe) \in Piece /\ pipe' \in Seq(Piece) /\ Len(pipe') <= PipeCap
    BY TakeType, PipelineAssumption DEF Inv, TypeOK, Read
  <1>2. got' \in Seq(Piece)
    BY <1>1, AppendType DEF Inv, TypeOK, Read
  <1> QED
    BY <1>1, <1>2 DEF Inv, TypeOK, EnumeratorsReleased, Read, xdiaVars, run, counters, values

LEMMA PyxdiaKeeps == ASSUME Inv, EndOfOutput \/ LoadPdb PROVE Inv'
  BY DEF Inv, TypeOK, EnumeratorsReleased, EndOfOutput, LoadPdb, xdiaVars, run, counters, values,
    transport

-----------------------------------------------------------------------------
LEMMA InitHolds == Init => Inv
  <1> SUFFICES ASSUME Init PROVE Inv
    OBVIOUS
  <1>1. <<>> \in Seq(Piece) /\ Len(<<>>) = 0
    OBVIOUS
  <1> QED
    BY <1>1, FixedValues, PipelineAssumption
      DEF Init, XdiaInit, Inv, TypeOK, EnumeratorsReleased, LastCall

LEMMA NextKeeps == Inv /\ [Next]_vars => Inv'
  <1> SUFFICES ASSUME Inv, [Next]_vars PROVE Inv'
    OBVIOUS
  <1>1. CASE XdiaStep /\ UNCHANGED <<transport, pyVars>>
    BY <1>1, LoadCallKeeps, FindPublicsKeeps, NextPublicKeeps, EndPublicsKeeps, FindGlobalsKeeps,
      NextGlobalKeeps, EndGlobalsKeeps, PutsKeeps, ExitKeeps DEF XdiaStep
  <1>2. CASE WriteFile \/ Drain \/ TerminateProcess \/ Abort
    BY <1>2, WriteFileKeeps, DrainKeeps, EndKeeps
  <1>3. CASE PyxdiaProcess
    BY <1>3, ReadKeeps, PyxdiaKeeps DEF PyxdiaProcess
  <1>4. CASE UNCHANGED vars
    BY <1>4 DEF Inv, TypeOK, EnumeratorsReleased, vars, xdiaVars, run, counters, values,
      transport, pyVars
  <1> QED
    BY <1>1, <1>2, <1>3, <1>4 DEF Next, XdiaProcess

(* Values and pieces keep their types, and neither the stdio buffer nor the *)
(* pipe ever holds more than it has room for.                               *)
THEOREM TypeCorrect == Spec => []TypeOK
  <1>1. Inv => TypeOK
    BY DEF Inv
  <1> QED
    BY <1>1, InitHolds, NextKeeps, PTL DEF Spec

(* Whatever a PDB answers, xdia holds the enumerator it is reading and no   *)
(* other until it ends.                                                     *)
THEOREM EnumeratorsAreReleased == Spec => []EnumeratorsReleased
  <1>1. Inv => EnumeratorsReleased
    BY DEF Inv
  <1> QED
    BY <1>1, InitHolds, NextKeeps, PTL DEF Spec
=============================================================================
