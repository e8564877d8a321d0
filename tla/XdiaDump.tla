------------------------------ MODULE XdiaDump ------------------------------
(***************************************************************************)
(* xdia.exe: LoadDataFromPdb, DumpAllPublics, DumpAllGlobals and the       *)
(* printing of the resulting JSON (src/xdia/main.cpp, PrintSymbol.cpp).    *)
(* It reads a PDB only through DIA's COM interfaces, so a PDB is what      *)
(* these answer.  One action per DIA call that can fail or that hands out  *)
(* an object, with the printing of a symbol in the action that fetches it. *)
(*                                                                         *)
(* xdia runs natively on Windows, or as an image of xdialdr (the host      *)
(* "loader", with or without Blink), where some failures of the operating  *)
(* system are assertions of the loader.  What xdia writes is left in out,  *)
(* piece by piece; Pipeline takes it from there.                           *)
(***************************************************************************)
EXTENDS Integers, Sequences

CONSTANTS
  Pdbs,   (* what the PDB at the path given may answer, see Pdb             *)
  Hosts   (* where xdia runs                                                *)

(***************************************************************************)
(* A symbol: which get_... calls answer S_OK.  valid: its names convert to *)
(* UTF-8.  placed, located: it has an RVA; a section and offset.           *)
(***************************************************************************)
Symbol == [id : Nat, tag : {"PublicSymbol", "Function", "Thunk", "Data"},
           tagged : BOOLEAN, named : BOOLEAN, valid : BOOLEAN,
           placed : BOOLEAN, located : BOOLEAN, targeted : BOOLEAN,
           function : BOOLEAN]

(* What findChildren and then Next answer for one tag.  symbols: those Next *)
(* hands out; behind: those behind a call of Next that fails, if one does.  *)
Listing == [found : BOOLEAN, symbols : Seq(Symbol), behind : Seq(Symbol)]

(***************************************************************************)
(* there: the file exists; spaced: its path has a blank; fails: the call   *)
(* of LoadDataFromPdb that fails, in order LoadLibrary, CoInitialize,      *)
(* DllGetClassObject, CreateInstance, loadDataFromPdb, openSession and     *)
(* get_globalScope, 0 for none; globals: the listings of the three tags    *)
(* DumpAllGlobals asks for.                                                *)
(***************************************************************************)
Pdb == [there : BOOLEAN, spaced : BOOLEAN, fails : 0..7,
        publics : Listing, globals : [1..3 -> Listing]]

OpenCall == 5 \* loadDataFromPdb
LastCall == 7

ASSUME DumpAssumption ==
  /\ Pdbs \subseteq Pdb
  /\ \A p \in Pdbs : ~p.publics.found => p.publics.symbols = <<>>
  /\ Hosts \subseteq {"windows", "loader"}

VARIABLES
  asked, pdb, host,(* the run: the PDB that pyxdia is asked for, the one at *)
                   (* the path xdia gets, and where xdia runs               *)
  at,              (* where xdia is                                         *)
  call, tag, k,    (* the call of LoadDataFromPdb; i of dwSymTags; the      *)
                   (* place of the enumerator                               *)
  publics, globals,(* the JSON values j["publics"], j["globals"]            *)
  held,            (* enumerators and symbols not yet released              *)
  out,             (* pieces printed and not yet taken by WriteFile         *)
  code             (* the exit code                                         *)

run       == <<asked, pdb, host>>
counters  == <<call, tag, k>>
values    == <<publics, globals>>
xdiaVars  == <<run, at, counters, values, held, out, code>>

-----------------------------------------------------------------------------
(* JSON values                                                              *)

(* The JSON of a symbol, of a list of them, and a printed piece of text.    *)
Entry == [of : Nat, rva : {"null", "value"}, place : {"null", "value", "junk"},
          name : {"null", "value"}, target : {"absent", "null", "value"},
          function : {"absent", "true", "false"}]
Value == [kind : {"null", "false", "list"}, items : Seq(Entry)]
Piece == [fd : {1, 2}, key : {"", "globals", "publics"}, entry : Entry,
          what : {"null", "false", "list", "item", "complaint", "close"}]

Null  == [kind |-> "null",  items |-> <<>>]
False == [kind |-> "false", items |-> <<>>]

(* push_back turns null into an array.                                      *)
Push(v, e) == [kind |-> "list", items |-> Append(v.items, e)]

Given(b) == IF b THEN "value" ELSE "null"

(* The JSON of a symbol without a tag is null.                              *)
NullEntry == [of |-> 0, rva |-> "null", place |-> "null", name |-> "null",
              target |-> "absent", function |-> "absent"]

(* addressSection and addressOffset are printed whatever DIA answers, from  *)
(* variables it then has not set.                                           *)
AddressAndName(s) ==
  [of |-> s.id, rva |-> Given(s.placed),
   place |-> IF s.located THEN "value" ELSE "junk", name |-> Given(s.named),
   target |-> "absent", function |-> "absent"]

PublicEntry(s) ==
  IF ~s.tagged THEN NullEntry
  ELSE [AddressAndName(s) EXCEPT !.function = IF s.function THEN "true" ELSE "false"]

GlobalEntry(s) ==
  IF ~s.tagged THEN NullEntry
  ELSE [AddressAndName(s) EXCEPT
          !.target = IF s.tag = "Thunk" THEN Given(s.targeted) ELSE "absent"]

(* Printing ends the process: a name that is not UTF-16 is an assertion of  *)
(* the loader's WideCharToMultiByte, and PrintTargetInfo answers null for a *)
(* thunk with a name, which json's update throws on.                        *)
Kills(s) ==
  /\ s.tagged /\ s.named
  /\ s.tag = "Thunk" \/ (host = "loader" /\ ~s.valid)

-----------------------------------------------------------------------------
(* What xdia writes                                                         *)

Complaint == [fd |-> 2, key |-> "", what |-> "complaint", entry |-> NullEntry]
Close     == [fd |-> 1, key |-> "", what |-> "close", entry |-> NullEntry]

Pieces(key, v) ==
  <<[fd |-> 1, key |-> key, what |-> v.kind, entry |-> NullEntry]>>
    \o [n \in DOMAIN v.items |->
          [fd |-> 1, key |-> key, what |-> "item", entry |-> v.items[n]]]

(* dump(2) prints the keys in alphabetical order.                           *)
Text == Pieces("globals", globals) \o Pieces("publics", publics) \o <<Close>>

-----------------------------------------------------------------------------
Go(step) == at' = step /\ UNCHANGED <<run, code>>

Die == /\ at' = "dead"
       /\ UNCHANGED <<run, counters, values, held, out, code>>

(* Nothing happens while a write is under way.                              *)
Ready(step) == at = step /\ out = <<>>

(* One call of LoadDataFromPdb.  The loader's CreateFileW asserts that the  *)
(* file it is asked for can be opened.                                      *)
LoadCall ==
  /\ Ready("load")
  /\ IF call = OpenCall /\ host = "loader" /\ ~pdb.there THEN Die
     ELSE IF call = pdb.fails \/ (call = OpenCall /\ ~pdb.there)
       THEN /\ out' = <<Complaint>>
            /\ code' = 255
            /\ at' = "exit"
            /\ UNCHANGED <<run, counters, values, held>>
     ELSE /\ IF call < LastCall THEN call' = call + 1 /\ Go("load")
                                ELSE Go("findPublics") /\ UNCHANGED call
          /\ UNCHANGED <<tag, k, values, held, out>>

FindPublics ==
  /\ Ready("findPublics")
  /\ k' = 1
  /\ IF pdb.publics.found THEN Go("publics") /\ held' = held + 1
                          ELSE Go("findGlobals") /\ UNCHANGED held
  /\ UNCHANGED <<call, tag, values, out>>

(* Next hands out a symbol, which is released once it is printed.           *)
NextPublic ==
  /\ Ready("publics")
  /\ k <= Len(pdb.publics.symbols)
  /\ LET s == pdb.publics.symbols[k]
     IN  IF Kills(s) THEN Die
         ELSE /\ publics' = Push(publics, PublicEntry(s))
              /\ k' = k + 1
              /\ UNCHANGED <<run, at, call, tag, globals, held, out, code>>

(* Next is asked for one more symbol: it has none, or it fails.  The loop   *)
(* over it takes both for the end of the list.                              *)
NoneLeft(l)  == k > Len(l.symbols) /\ l.behind = <<>>
NextFails(l) == k > Len(l.symbols) /\ l.behind # <<>>

(* Faulty: the enumerator is not released.                                  *)
EndPublicsLeaks ==
  /\ Ready("publics")
  /\ NoneLeft(pdb.publics) \/ NextFails(pdb.publics)
  /\ Go("findGlobals")
  /\ UNCHANGED <<counters, values, held, out>>

EndPublics ==
  /\ Ready("publics")
  /\ NoneLeft(pdb.publics) \/ NextFails(pdb.publics)
  /\ held' = held - 1
  /\ Go("findGlobals")
  /\ UNCHANGED <<counters, values, out>>

(* Faulty: the enumerator of a tag starts where the last one ended.         *)
FindGlobalsKeepsPlace ==
  /\ Ready("findGlobals")
  /\ pdb.globals[tag].found
  /\ held' = held + 1
  /\ Go("globals")
  /\ UNCHANGED <<counters, values, out>>

(* The globals of one tag; DumpAllGlobals returns false when there is none  *)
(* to enumerate, whatever it has collected.                                 *)
FindGlobals ==
  /\ Ready("findGlobals")
  /\ IF pdb.globals[tag].found
       THEN /\ held' = held + 1
            /\ k' = 1
            /\ Go("globals")
            /\ UNCHANGED <<call, tag, values, out>>
       ELSE /\ out' = <<Complaint>>
            /\ globals' = False
            /\ Go("puts")
            /\ UNCHANGED <<counters, publics, held>>

NextGlobal ==
  /\ Ready("globals")
  /\ k <= Len(pdb.globals[tag].symbols)
  /\ LET s == pdb.globals[tag].symbols[k]
     IN  IF Kills(s) THEN Die
         ELSE /\ globals' = Push(globals, GlobalEntry(s))
              /\ k' = k + 1
              /\ UNCHANGED <<run, at, call, tag, publics, held, out, code>>

EndGlobals ==
  /\ Ready("globals")
  /\ NoneLeft(pdb.globals[tag]) \/ NextFails(pdb.globals[tag])
  /\ held' = held - 1
  /\ IF tag < 3 THEN tag' = tag + 1 /\ Go("findGlobals")
                ELSE UNCHANGED tag /\ Go("puts")
  /\ UNCHANGED <<call, k, values, out>>

(* puts(j.dump(2)) and the return from wmain.                               *)
Puts ==
  /\ Ready("puts")
  /\ out' = Text
  /\ Go("exit")
  /\ UNCHANGED <<counters, values, held>>

Exit ==
  /\ Ready("exit")
  /\ Go("terminate")
  /\ UNCHANGED <<counters, values, held, out>>

(* The loader does not quote the path in the command line it makes, so xdia *)
(* gets one with a blank in pieces (wmain's assertion on argc is compiled   *)
(* out of its Release build) and opens what is at the first of them.        *)
Split(p, h) == h = "loader" /\ p.spaced

(* The loader's LoadLibraryExA and CoInitialize never answer a failure.     *)
XdiaInit ==
  /\ asked \in Pdbs /\ pdb \in Pdbs /\ host \in Hosts
  /\ IF Split(asked, host) THEN ~pdb.spaced ELSE pdb = asked
  /\ host = "loader" => pdb.fails \notin {1, 2}
  /\ at = "load" /\ call = 1 /\ tag = 1 /\ k = 1
  /\ publics = Null /\ globals = Null
  /\ held = 0 /\ out = <<>> /\ code = 0

XdiaStep ==
  \/ LoadCall \/ FindPublics \/ NextPublic \/ EndPublics
  \/ FindGlobals \/ NextGlobal \/ EndGlobals \/ Puts \/ Exit

-----------------------------------------------------------------------------
(* What the dump of p should be, on the listings alone.                     *)

AsList(items) == IF items = <<>> THEN Null ELSE [kind |-> "list", items |-> items]

(* The entries of the symbols that were handed out.                         *)
PublicItems(p)    == [n \in DOMAIN p.publics.symbols |-> PublicEntry(p.publics.symbols[n])]
GlobalItems(p, t) == [n \in DOMAIN p.globals[t].symbols |-> GlobalEntry(p.globals[t].symbols[n])]

(* No findChildren failed for a tag of globals.                             *)
TagsFound(p) == \A t \in 1..3 : p.globals[t].found

Publics(p) == AsList(PublicItems(p))
Globals(p) == AsList(GlobalItems(p, 1) \o GlobalItems(p, 2) \o GlobalItems(p, 3))

(* The entries of every symbol the PDB has, those never handed out too.     *)
All(l) == l.symbols \o l.behind
EveryPublic(p) ==
  AsList([n \in DOMAIN All(p.publics) |-> PublicEntry(All(p.publics)[n])])
EveryGlobal(p) ==
  LET every == All(p.globals[1]) \o All(p.globals[2]) \o All(p.globals[3])
  IN  AsList([n \in DOMAIN every |-> GlobalEntry(every[n])])

(* Every findChildren and every Next succeeds.                              *)
AnswersAll(p) ==
  /\ TagsFound(p)
  /\ p.publics.behind = <<>> /\ \A t \in 1..3 : p.globals[t].behind = <<>>

(* The symbols xdia gets to see: it stops at the first tag without any.     *)
SymbolsOf(p) ==
  LET asks == {t \in 1..3 : \A u \in 1..t : p.globals[u].found}
  IN  UNION {{l.symbols[n] : n \in DOMAIN l.symbols} :
               l \in {p.publics} \cup {p.globals[t] : t \in asks}}

(* Nothing about p, but for its thunks, keeps pyxdia from its dump on h:    *)
(* under the loader the complaint about missing globals lands in the JSON.  *)
Sound(p, h) ==
  /\ p.there /\ p.fails = 0
  /\ h = "loader" =>
       /\ TagsFound(p)
       /\ \A s \in SymbolsOf(p) : s.tagged /\ s.named => s.valid

Dumpable(p, h) ==
  /\ Sound(p, h)
  /\ \A s \in SymbolsOf(p) : ~(s.tag = "Thunk" /\ s.tagged /\ s.named)
=============================================================================
