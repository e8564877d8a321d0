------------------------------ MODULE DiaWalk -------------------------------
(***************************************************************************)
(* How DIA2Dump walks a PDB.  Every Dump* and Print* function is the same  *)
(* few moves over COM objects: ask DIA for an object, run through the      *)
(* items of an enumerator, call a function, release what was handed out,   *)
(* and give up, go on or leave when DIA fails.  The functions are a table  *)
(* of those moves (Body, in DiaTable); the actions execute it on a stack   *)
(* of calls, and DIA may fail or end an enumeration at any call.           *)
(*                                                                         *)
(* What a function does with one object DIA hands it, an enumerator or an  *)
(* item, is a body of its own: it holds the object, and the object is      *)
(* released only where the code has a Release.                             *)
(***************************************************************************)
EXTENDS Naturals, Sequences, FiniteSets, Omap

CONSTANTS
  Body,            \* the functions: the sequences of moves each may make
  MaxItems,        \* items an enumerator yields at most
  TypeDepth,       \* nesting of types in types the PDB holds
  SymbolDepth,     \* nesting of symbols in symbols the PDB holds
  Omaps, Rvas      \* OMAP streams and the addresses looked up

(* A move.  get: "one" object, the "items" of the enumerator at hand,      *)
(* attributes only ("attr"), a "call" on what is at hand, an "omap"        *)
(* lookup, "release" of the object held, or a "trap" (the program stops).  *)
(* miss: what the function does when get fails.  do: what is run on what   *)
(* was got.  then: what follows do - "stop" returns FALSE when it did,     *)
(* "last" and "all" keep its result.  frees: what is held is released      *)
(* before the function returns early for miss or then.                     *)
Moves == [get : {"one", "items", "attr", "call", "omap", "release", "trap"},
          miss : {"skip", "fail", "leave"}, do : DOMAIN Body,
          then : {"ignore", "stop", "last", "all"}, frees : BOOLEAN]

ASSUME WalkAssumption ==
  /\ MaxItems \in Nat /\ TypeDepth \in Nat /\ SymbolDepth \in Nat
  /\ \A o \in Omaps : o \in Seq(Entry)
  /\ Rvas \subseteq Nat
  /\ Body \in [DOMAIN Body -> SUBSET Seq(Moves)]
  /\ "PrintTypeInDetail" \in DOMAIN Body

VARIABLES
  stack,    \* calls in progress, innermost last
  result,   \* what the last finished dump returned
  missed,   \* some call of DIA failed, or an RVA was 0
  mapped    \* the last OMAP lookup and its answer

walkVars == <<stack, result, missed, mapped>>

-----------------------------------------------------------------------------
(* A call: the moves it has left, whether it is in the loop of the first,  *)
(* the items still to come, what became of its object (its caller's, if it *)
(* has none of its own), and what it will return.                          *)
Frame == [fn : DOMAIN Body, todo : Seq(Moves), loop : BOOLEAN, left : 0 .. MaxItems,
          obj : {"callers", "held", "released"}, ok : BOOLEAN]

MaxTypeInDetail == 5
Active(fn) == Cardinality({i \in DOMAIN stack : stack[i].fn = fn})

\* Faulty: the indent is handed down unchanged.
TooDeepFlat(fn) ==
  \/ fn = "PrintTypeInDetail" /\ Active(fn) > TypeDepth + MaxTypeInDetail
  \/ fn = "PrintType" /\ Active(fn) >= TypeDepth
  \/ fn = "PrintSymbol" /\ Active(fn) >= SymbolDepth

(* PrintTypeInDetail returns at once when its indent, two more at each     *)
(* level, exceeds MAX_TYPE_IN_DETAIL; what else nests is as deep as the    *)
(* PDB is.                                                                 *)
TooDeep(fn) ==
  \/ fn = "PrintTypeInDetail" /\ 2 * Active(fn) > MaxTypeInDetail
  \/ fn = "PrintType" /\ Active(fn) >= TypeDepth
  \/ fn = "PrintSymbol" /\ Active(fn) >= SymbolDepth

Choices(fn) == IF TooDeep(fn) THEN {<<>>} ELSE Body[fn]

NewFrame(fn, todo, obj) == [fn |-> fn, todo |-> todo, loop |-> FALSE, left |-> 0,
                            obj |-> obj, ok |-> TRUE]

Top  == stack[Len(stack)]
Here == Head(Top.todo)
Below1 == SubSeq(stack, 1, Len(stack) - 1)
SetTop(frame) == Append(Below1, frame)

(* The function returns early, for the move it was at.                     *)
GiveUp(frame, ok) ==
  [frame EXCEPT !.todo = <<>>, !.loop = FALSE, !.ok = ok,
                !.obj = IF Head(frame.todo).frees THEN "released" ELSE @]

(* The caller goes on after a call returned r, and takes the result as it  *)
(* does.                                                                   *)
Resume(caller, r) ==
  LET m == Head(caller.todo)
  IN IF m.then = "stop" /\ ~r THEN GiveUp(caller, FALSE)
     ELSE [caller EXCEPT !.todo = IF caller.loop THEN @ ELSE Tail(@),
                         !.ok = IF m.then = "last" THEN r
                                ELSE @ /\ (m.then = "all" => r)]

Return(r) ==
  /\ result' = (Len(stack) > 1 \/ r)
  /\ stack' = IF Len(stack) = 1 THEN <<>>
              ELSE LET caller == stack[Len(stack) - 1]
                   IN Append(SubSeq(stack, 1, Len(stack) - 2), Resume(caller, r))

AtMove(get) == stack # <<>> /\ Top.todo # <<>> /\ ~Top.loop /\ Here.get = get

Enter(fn, obj) ==
  \E todo \in Choices(fn) : stack' = Append(stack, NewFrame(fn, todo, obj))

(* DIA fails, or has nothing to hand out.                                  *)
Miss ==
  /\ AtMove("one") \/ AtMove("attr")
  /\ missed' = TRUE
  /\ stack' = SetTop(IF Here.miss = "skip" THEN [Top EXCEPT !.todo = Tail(@)]
                     ELSE GiveUp(Top, Here.miss = "leave"))
  /\ UNCHANGED <<result, mapped>>

GetOne ==
  /\ AtMove("one")
  /\ Enter(Here.do, "held")
  /\ UNCHANGED <<result, missed, mapped>>

Open ==
  /\ AtMove("items")
  /\ stack' = SetTop([Top EXCEPT !.loop = TRUE, !.left = MaxItems])
  /\ UNCHANGED <<result, missed, mapped>>

\* Faulty: the loop goes on after the last item.
NextItemPast ==
  /\ stack # <<>> /\ Top.todo # <<>> /\ Top.loop
  /\ \E todo \in Choices(Here.do) :
       stack' = Append(SetTop([Top EXCEPT !.left = @ - 1]),
                       NewFrame(Here.do, todo, "held"))
  /\ UNCHANGED <<result, missed, mapped>>

NextItem ==
  /\ stack # <<>> /\ Top.todo # <<>> /\ Top.loop /\ Top.left > 0
  /\ \E todo \in Choices(Here.do) :
       stack' = Append(SetTop([Top EXCEPT !.left = @ - 1]),
                       NewFrame(Here.do, todo, "held"))
  /\ UNCHANGED <<result, missed, mapped>>

\* Faulty: the Next that hands out nothing counts as a failure.
EndOfItemsFails ==
  /\ stack # <<>> /\ Top.todo # <<>> /\ Top.loop
  /\ stack' = SetTop([Top EXCEPT !.loop = FALSE, !.todo = Tail(@), !.ok = FALSE])
  /\ UNCHANGED <<result, missed, mapped>>

EndOfItems ==
  /\ stack # <<>> /\ Top.todo # <<>> /\ Top.loop
  /\ stack' = SetTop([Top EXCEPT !.loop = FALSE, !.todo = Tail(@)])
  /\ UNCHANGED <<result, missed, mapped>>

Call ==
  /\ AtMove("call")
  /\ Enter(Here.do, "callers")
  /\ UNCHANGED <<result, missed, mapped>>

ReleaseObject ==
  /\ AtMove("release")
  /\ stack' = SetTop([Top EXCEPT !.todo = Tail(@), !.obj = "released"])
  /\ UNCHANGED <<result, missed, mapped>>

ReadAttributes ==
  /\ AtMove("attr")
  /\ stack' = SetTop([Top EXCEPT !.todo = Tail(@)])
  /\ UNCHANGED <<result, missed, mapped>>

LookUp ==
  /\ AtMove("omap")
  /\ \E omap \in Omaps, rva \in Rvas :
       mapped' = <<omap, rva, Translate(omap, rva)>>
  /\ stack' = SetTop([Top EXCEPT !.todo = Tail(@)])
  /\ UNCHANGED <<result, missed>>

Finish ==
  /\ stack # <<>> /\ Top.todo = <<>>
  /\ Return(Top.ok)
  /\ UNCHANGED <<missed, mapped>>

WalkStep == \/ Miss \/ GetOne \/ Open \/ NextItem \/ EndOfItems \/ Call
            \/ ReleaseObject \/ ReadAttributes \/ LookUp \/ Finish

-----------------------------------------------------------------------------
WalkTypeOK ==
  /\ stack \in Seq(Frame)
  /\ result \in BOOLEAN /\ missed \in BOOLEAN
  /\ mapped \in {<<>>} \cup (Omaps \X Rvas \X Nat)

(* The objects DIA2Dump is known not to release: the type of a function    *)
(* type (PrintSymbol.cpp:1943), the case of a tagged union and the type of *)
(* its tag (1961), the enumerator of an array without custom dimensions    *)
(* (1500), a property that is an object (2413), each symbol -psr prints    *)
(* (DIA2Dump.cpp:1818); and, when DIA fails for an attribute of theirs, a  *)
(* line (PrintSymbol.cpp:2207) and the compiland of a contribution (2251). *)
NeverReleased == {"TypeOfFunctionType", "UnionCase", "TagType", "NoDimensions",
                  "PropertyObject", "SymbolBefore"}
LostWhenCut   == {"Line", "ContribCompiland"}

(* Every other object DIA hands out is released exactly once, whatever     *)
(* call of DIA fails: no function returns without the Release of what it   *)
(* holds, not on its way out of nested loops either, none releases twice   *)
(* or what is its caller's, and nothing is asked of an object behind its   *)
(* Release.                                                                *)
ReleasedOnce ==
  stack # <<>> =>
    /\ Top.todo = <<>> /\ Top.obj = "held" =>
         Top.fn \in NeverReleased \/ (Top.fn \in LostWhenCut /\ ~Top.ok)
    /\ Top.todo # <<>> =>
         /\ Top.obj # "released"
         /\ Here.get = "release" \/ Here.frees => Top.obj = "held"

(* PrintTypeInDetail nests four deep at most, whatever types refer to.     *)
DetailBounded == Active("PrintTypeInDetail") <= 4

(* An address inside the table is moved with the block that holds it.      *)
LookupsRight ==
  mapped # <<>> /\ Sorted(mapped[1]) /\ InTable(mapped[1], mapped[2]) =>
    IsTranslation(mapped[1], mapped[2], mapped[3])
=============================================================================
