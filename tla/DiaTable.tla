------------------------------ MODULE DiaTable ------------------------------
(***************************************************************************)
(* The functions of DIA2Dump.cpp and PrintSymbol.cpp that walk a PDB, each *)
(* as the sequences of moves (see DiaWalk) it may make: one sequence per   *)
(* symbol tag or branch.  What a function does with an object it gets is a *)
(* body of its own, named for the object, with the Release the code has.   *)
(*                                                                         *)
(* Left out: what is printed, attributes without control, and the BSTRs    *)
(* and VARIANTs that every path of a function frees.                       *)
(***************************************************************************)
EXTENDS Naturals, TLC

Move(get, miss, do) ==
  [get |-> get, miss |-> miss, do |-> do, then |-> "ignore", frees |-> FALSE]

Got(do)     == Move("one", "skip", do)
Must(do)    == Move("one", "fail", do)
Items(do)   == Move("items", "skip", do)
Run(do)     == Move("call", "skip", do)
Attributes  == Move("attr", "fail", "")
Lookup      == Move("omap", "skip", "")
Release     == Move("release", "skip", "")
\* An assertion fails, or a NULL pointer is used.
Trap        == Move("trap", "skip", "")
Then(move, then) == [move EXCEPT !.then = then]
Freeing(move)    == [move EXCEPT !.frees = TRUE]
OrLeave(move)    == [move EXCEPT !.miss = "leave"]

\* Most objects are printed, or a function is run on them, and released.
Printed   == {<<Release>>}
RunOn(do) == {<<Run(do), Release>>}
Each(do)  == {<<Items(do), Release>>}

PrintType == {<<>>, <<Got("Type")>>, <<Got("ElementType")>>, <<Items("Type")>>}
ElementType == {<<Run("PrintType"), Release>>} \cup
               {<<Run("PrintType"), Got(dims), Release>> :
                  dims \in {"Dimensions", "CustomDimensions", "NoDimensions"}}
Dimension    == {<<Got("Printed"), Got("Printed"), Release>>}
NoDimensions == {<<>>}
PrintSymbolType   == {<<Got("Type")>>}
\* Trap: SafeDRef of an access, a tag, a calling convention, a data kind.
PrintFunctionType == {<<Trap>>, <<Got("FunctionType")>>}
FunctionType == {<<Got("ReturnType"), Release>>}
ReturnType   == {<<Run("PrintType"), Got("Parameters"), Release>>}
Parameter    == {<<Got("Type"), Release>>}

PrintSymbol == {<<>>, <<Trap>>,
                <<Run("PrintSymbolType")>>,
                <<Got("Children")>>,
                <<Run("PrintSymbolType"), Got("Children")>>,
                <<Got("CallSite")>>}
CallSite == {<<Release>>, <<Run("PrintFunctionType"), Release>>}

PrintTypeInDetail == {<<>>, <<Trap>>,
                      <<Run("PrintSymbolType"), Got("MemberType")>>,
                      <<Run("PrintSymbolType")>>,
                      <<Run("PrintSymbolType"), Got("Members")>>,
                      <<Run("PrintFunctionType")>>,
                      <<Run("PrintType")>>,
                      <<Got("Type"), Got("Members")>>,
                      <<Got("TypeOfFunctionType")>>,
                      <<Got("UnionCase"), Got("Members")>>}
MemberType         == {<<Release>>, <<Run("PrintTypeInDetail"), Release>>}
TypeOfFunctionType == {<<Run("PrintType")>>}
UnionCase          == {<<Got("TagType")>>}
TagType            == {<<Run("PrintType")>>}

\* PrintLines releases a line only when all its attributes could be read.
PrintLines == {<<Items("Line")>>}
Line       == {<<Attributes, Release>>, <<Attributes, Got("Printed"), Release>>}
PrintSecContribs == {<<Attributes, Got("ContribCompiland")>>}
ContribCompiland == {<<Attributes, Release>>}
PrintGeneric     == {<<Got("PropertyStorage")>>}
PropertyStorage  == {<<Got("Properties"), Release>>}
\* What is freed is the name; VariantClear of oleaut32.c leaves an object be.
Property         == {<<Release>>, <<Got("PropertyObject"), Release>>}
PropertyObject   == {<<>>}

(* Lines 721 to 2051 of DIA2Dump.cpp, in its order.                        *)
DumpAllPdbInfo == {<<Run("DumpAllMods"), Run("DumpAllPublics"), Run("DumpAllSymbols"),
                     Run("DumpAllGlobals"), Run("DumpAllTypes"), Run("DumpAllFiles"),
                     Run("DumpAllLines"), Run("DumpAllSecContribs"),
                     Run("DumpAllDebugStreams"), Run("DumpAllInjectedSources"),
                     Run("DumpAllFPO"), Run("DumpAllOEMs")>>}
DumpAllMods    == {<<Then(Must("Modules"), "stop")>>}
\* Faulty: the enumerator is kept when a name is missing.
ModulesKept    == {<<Then(Items("Module"), "stop"), Release>>}
Modules        == {<<Freeing(Then(Items("Module"), "stop")), Release>>}
Module         == {<<Freeing(Attributes), Release>>}
DumpAllPublics == {<<Must("AllPrinted")>>}
DumpAllSymbols == {<<Must("Compilands")>>}
Compiland      == {<<Got("Children"), Release>>}
DumpAllGlobals == {<<Must("AllPrinted"), Must("AllPrinted"), Must("AllPrinted")>>}
DumpAllTypes   == {[i \in 1 .. 3 |-> Then(Run("DumpTypes"), "all")]}
DumpTypes      == {<<Must("Members")>>}
DumpAllOEMs    == {<<Must("Members")>>}
DumpAllFiles   == {<<Must("FileCompilands")>>}
FileCompiland  == {<<Got("AllPrinted"), Release>>}
DumpAllLines   == {<<Then(Run("GetTable"), "stop"), Must("Contributions")>>}
Contribution   == {<<Release>>, <<Run("DumpLinesAt"), Release>>}
DumpLinesAt    == {<<Must("Lines")>>}
DumpAllSecContribs  == {<<Then(Run("GetTable"), "stop"), Must("SecContribs")>>}
DumpAllDebugStreams == {<<Must("AllPrinted")>>}
DumpAllInjectedSources == {<<Then(Run("GetTable"), "stop"), Must("Generics")>>}
DumpInjectedSource     == {<<Must("Generics")>>}
DumpAllFPO == {<<Then(Run("GetTable"), "stop"), Must("AllPrinted")>>}
DumpFPO    == {<<Attributes, Then(Run("GetTable"), "stop"), Then(Must("FrameTable"), "stop")>>}
FrameTable == {<<Freeing(Must("Generic")), Release>>}
DumpFPOOf  == {<<Must("FunctionsFPO")>>}
FunctionFPO   == {<<Release>>, <<Run("DumpFPO"), Release>>}
DumpCompiland == {<<Must("Compilands")>>}
DumpLinesOf   == {<<Must("FunctionsLines")>>}
FunctionLines == {<<Release>>, <<Got("Lines"), Release>>}
\* Each parent is released when the next one up was printed, the last at once.
DumpSymbolWithRVA == {<<Must("SymbolWithRVA")>>}
SymbolWithRVA     == {<<Trap>>, <<Run("PrintGeneric"), Run("DumpSymbolWithChildren"),
                                  Items("SymbolChild"), Release>>}
DumpSymbolWithChildren == {<<Must("NamedChildren")>>}
NamedChild             == {<<Run("PrintGeneric"), Run("PrintSymbol"), Release>>}
DumpSymbolsWithRegEx   == {<<Then(Must("Matches"), "last")>>}
Matches == {<<Then(Items("Match"), "last"), Release>>}
Match   == {<<Run("PrintGeneric"), Then(Run("DumpSymbolWithChildren"), "last"), Release>>}
\* c2wc of the childname that was not given: its assertion fails.
DumpSymbolWithRVANoChild    == {<<Must("TrapAfterGeneric")>>}
TrapAfterGeneric            == {<<Trap>>, <<Run("PrintGeneric"), Trap>>}
DumpSymbolsWithRegExNoChild == {<<Must("TrapAtOnce")>>}
TrapAtOnce                  == {<<Trap>>}
DumpType       == {<<Must("Members")>>}
DumpLinesForSourceFile == {<<Must("SourceFiles")>>}
SourceFile     == {<<Got("FileLines"), Release>>}
CompilandLines == {<<Got("Lines"), Release>>}
DumpSortedAfter  == {<<Must("SortedAfter")>>}
SortedAfter      == {<<Freeing(OrLeave(Got("Printed"))), Items("Printed"), Release>>}
DumpSortedBefore == {<<Must("SortedBefore")>>}
SortedBefore     == {<<Freeing(OrLeave(Got("Printed"))), Items("SymbolBefore"), Release>>}
SymbolBefore     == {<<>>}
DumpSymbolAt     == {<<Must("Generic")>>}
DumpMap          == {<<Must("MapStreams")>>}
MapStream        == {<<Release>>, <<Lookup, Release>>}
\* Whether the table was found shows in the Must that follows the call.
GetTable         == {<<Must("Tables")>>}

Table == [
  PrintType |-> PrintType, ElementType |-> ElementType, Dimension |-> Dimension,
  NoDimensions |-> NoDimensions, PrintSymbolType |-> PrintSymbolType,
  PrintFunctionType |-> PrintFunctionType, FunctionType |-> FunctionType,
  ReturnType |-> ReturnType, Parameter |-> Parameter,
  PrintSymbol |-> PrintSymbol, CallSite |-> CallSite,
  PrintTypeInDetail |-> PrintTypeInDetail, MemberType |-> MemberType,
  TypeOfFunctionType |-> TypeOfFunctionType, UnionCase |-> UnionCase,
  TagType |-> TagType, PrintLines |-> PrintLines, Line |-> Line,
  PrintSecContribs |-> PrintSecContribs, ContribCompiland |-> ContribCompiland,
  PrintGeneric |-> PrintGeneric, PropertyStorage |-> PropertyStorage,
  Property |-> Property, PropertyObject |-> PropertyObject,
  DumpAllPdbInfo |-> DumpAllPdbInfo, DumpAllMods |-> DumpAllMods, Modules |-> Modules,
  Module |-> Module, DumpAllPublics |-> DumpAllPublics,
  DumpAllSymbols |-> DumpAllSymbols, Compiland |-> Compiland,
  DumpAllGlobals |-> DumpAllGlobals, DumpAllTypes |-> DumpAllTypes,
  DumpTypes |-> DumpTypes, DumpAllOEMs |-> DumpAllOEMs,
  DumpAllFiles |-> DumpAllFiles, FileCompiland |-> FileCompiland,
  DumpAllLines |-> DumpAllLines, Contribution |-> Contribution,
  DumpLinesAt |-> DumpLinesAt, DumpAllSecContribs |-> DumpAllSecContribs,
  DumpAllDebugStreams |-> DumpAllDebugStreams,
  DumpAllInjectedSources |-> DumpAllInjectedSources,
  DumpInjectedSource |-> DumpInjectedSource, DumpAllFPO |-> DumpAllFPO,
  DumpFPO |-> DumpFPO, FrameTable |-> FrameTable, DumpFPOOf |-> DumpFPOOf,
  FunctionFPO |-> FunctionFPO, DumpCompiland |-> DumpCompiland,
  DumpLinesOf |-> DumpLinesOf, FunctionLines |-> FunctionLines,
  DumpSymbolWithRVA |-> DumpSymbolWithRVA, SymbolWithRVA |-> SymbolWithRVA,
  DumpSymbolWithChildren |-> DumpSymbolWithChildren, NamedChild |-> NamedChild,
  DumpSymbolsWithRegEx |-> DumpSymbolsWithRegEx, Matches |-> Matches, Match |-> Match,
  DumpSymbolWithRVANoChild |-> DumpSymbolWithRVANoChild,
  TrapAfterGeneric |-> TrapAfterGeneric,
  DumpSymbolsWithRegExNoChild |-> DumpSymbolsWithRegExNoChild,
  TrapAtOnce |-> TrapAtOnce, DumpType |-> DumpType,
  DumpLinesForSourceFile |-> DumpLinesForSourceFile, SourceFile |-> SourceFile,
  CompilandLines |-> CompilandLines, DumpSortedAfter |-> DumpSortedAfter,
  SortedAfter |-> SortedAfter, DumpSortedBefore |-> DumpSortedBefore,
  SortedBefore |-> SortedBefore, SymbolBefore |-> SymbolBefore,
  DumpSymbolAt |-> DumpSymbolAt, DumpMap |-> DumpMap, MapStream |-> MapStream,
  GetTable |-> GetTable, Printed |-> Printed,
  Type |-> RunOn("PrintType"), SymbolChild |-> RunOn("PrintSymbol"),
  Member |-> RunOn("PrintTypeInDetail"), Generic |-> RunOn("PrintGeneric"),
  SecContrib |-> RunOn("PrintSecContribs"), Lines |-> RunOn("PrintLines"),
  Dimensions |-> Each("Dimension"), CustomDimensions |-> Each("Type"),
  Parameters |-> Each("Parameter"), Children |-> Each("SymbolChild"),
  Members |-> Each("Member"), Properties |-> Each("Property"),
  AllPrinted |-> Each("Printed"), Compilands |-> Each("Compiland"),
  FileCompilands |-> Each("FileCompiland"), Contributions |-> Each("Contribution"),
  SecContribs |-> Each("SecContrib"), Generics |-> Each("Generic"),
  FunctionsFPO |-> Each("FunctionFPO"), FunctionsLines |-> Each("FunctionLines"),
  NamedChildren |-> Each("NamedChild"), SourceFiles |-> Each("SourceFile"),
  FileLines |-> Each("CompilandLines"), MapStreams |-> Each("MapStream"),
  Tables |-> Each("Printed")] @@ ("" :> {<<>>})
=============================================================================
