------------------------------ MODULE Dia2Dump ------------------------------
(***************************************************************************)
(* DIA2Dump: wmain opens the PDB its last argument names, ParseArg reads   *)
(* the options before it from left to right and runs one dump for each,    *)
(* and the first dump that fails ends the program.  The dumps are the      *)
(* walks of DiaWalk.  A word of the command line is an option, "-n", a     *)
(* name or an address; a name or an address does not begin with a dash.    *)
(***************************************************************************)
EXTENDS DiaWalk

CONSTANT CommandLines    \* the options and their words, without the file

Flags     == {"-m", "-p", "-s", "-g", "-t", "-f", "-c", "-dbg", "-sf", "-oem"}
Options   == Flags \cup {"-l", "-injsrc", "-fpo", "-compiland", "-lines", "-type",
                         "-label", "-sym", "-lsrc", "-ps", "-psr", "-annotations",
                         "-maptosrc", "-mapfromsrc"}
Address   == "1000"
Name      == "main"
Plain     == {Address, Name}
Words     == Options \cup Plain \cup {"-?", "-all", "-n"}

ASSUME CommandLineAssumption == CommandLines \subseteq Seq(Words)

VARIABLES
  words,    \* all options given
  argv,     \* what this call of ParseArg was given
  pc,       \* "main", "parse", "dump", "done"
  exit,     \* "running", the exit status "0" or "-1", or "abort"
  dumps,    \* the dumps started, with the words they were given
  globals   \* g_pDiaDataSource, g_pDiaSession, g_pGlobalSymbol that are set

vars == <<words, argv, pc, exit, dumps, globals, walkVars>>

None == "none"
Init ==
  /\ words \in CommandLines /\ argv = <<>> /\ pc = "main" /\ exit = "running"
  /\ dumps = <<>> /\ globals = {}
  /\ stack = <<>> /\ result = TRUE /\ missed = FALSE /\ mapped = <<>>

-----------------------------------------------------------------------------
(* The walk a dump of an option is, and the words it is given.             *)
Dump(walk, on, more) == [walk |-> walk, on |-> on, more |-> more]

Walk(option, on, more) ==
  CASE option = "-m" -> "DumpAllMods"     [] option = "-p" -> "DumpAllPublics"
    [] option = "-s" -> "DumpAllSymbols"  [] option = "-g" -> "DumpAllGlobals"
    [] option = "-t" -> "DumpAllTypes"    [] option \in {"-f", "-sf"} -> "DumpAllFiles"
    [] option = "-c" -> "DumpAllSecContribs"
    [] option = "-dbg" -> "DumpAllDebugStreams"
    [] option = "-oem" -> "DumpAllOEMs"
    [] option = "-l" -> IF on = None THEN "DumpAllLines" ELSE "DumpLinesAt"
    [] option = "-injsrc" -> IF on = None THEN "DumpAllInjectedSources"
                             ELSE "DumpInjectedSource"
    [] option = "-fpo" -> IF on = None THEN "DumpAllFPO"
                          ELSE IF on = Address THEN "DumpFPO" ELSE "DumpFPOOf"
    [] option = "-compiland" -> "DumpCompiland"
    [] option = "-lines" -> IF on = Address THEN "DumpLinesAt" ELSE "DumpLinesOf"
    [] option = "-type" -> "DumpType"
    [] option \in {"-label", "-annotations"} -> "DumpSymbolAt"
    [] option = "-sym" ->
         IF on = Address
         THEN IF more = None THEN "DumpSymbolWithRVANoChild" ELSE "DumpSymbolWithRVA"
         ELSE IF more = None THEN "DumpSymbolsWithRegExNoChild" ELSE "DumpSymbolsWithRegEx"
    [] option = "-lsrc" -> "DumpLinesForSourceFile"
    [] option = "-ps" -> "DumpSortedAfter" [] option = "-psr" -> "DumpSortedBefore"
    [] option \in {"-maptosrc", "-mapfromsrc"} -> "DumpMap"

ASSUME DumpsAssumption ==
  /\ "DumpAllPdbInfo" \in DOMAIN Body
  /\ \A option \in Options : \A on, more \in Words \cup {None} :
       Walk(option, on, more) \in DOMAIN Body

(* A word that does not begin with a dash stands at i.                     *)
Given(ws, i) == i <= Len(ws) /\ ws[i] \in Plain

\* Faulty: every option that may take words takes all that follow.
TakenAll(ws) ==
  IF ws[1] \in Flags THEN 1
  ELSE IF ~Given(ws, 2) THEN (IF ws[1] \in {"-l", "-injsrc", "-fpo"} THEN 1 ELSE 0)
       ELSE IF Given(ws, 3) THEN 3 ELSE 2

(* How many words ParseArg takes for the option argv[1], 0 when one that   *)
(* must follow it is missing.  -ps and -psr take "-n" and the word after.  *)
Taken(ws) ==
  LET option == ws[1]
      given == IF ~Given(ws, 2) THEN 1 ELSE IF ~Given(ws, 3) THEN 2 ELSE 3
  IN IF option \in Flags THEN 1
     ELSE IF given = 1 THEN (IF option \in {"-l", "-injsrc", "-fpo"} THEN 1 ELSE 0)
     ELSE IF option \in {"-l", "-sym", "-lsrc"} THEN given
     ELSE IF option \in {"-ps", "-psr"} /\ Len(ws) > 3 /\ ws[3] = "-n" THEN 4
     ELSE 2

(* -lsrc reads its line from the file name, the others the word they took. *)
Requested(ws, n) ==
  LET on == IF n > 1 THEN ws[2] ELSE None
      more == IF n = 4 THEN ws[4]
              ELSE IF n = 3 THEN (IF ws[1] = "-lsrc" THEN ws[2] ELSE ws[3]) ELSE None
  IN Dump(Walk(ws[1], on, more), on, more)

(* What the next call of ParseArg gets: -compiland shortens the count by   *)
(* two, then advances by iCount, which is still 0.                         *)
Rest(ws, n) ==
  IF ws[1] = "-compiland" THEN SubSeq(ws, 1, Len(ws) - 2)
  ELSE SubSeq(ws, n + 1, Len(ws))

-----------------------------------------------------------------------------
(* LoadDataFromPdb sets the globals in turn; without the last of them the  *)
(* program returns at once.                                                *)
Loaded == <<"source", "session", "global">>

Start ==
  /\ pc = "main"
  /\ \/ \* no such file, or some call of LoadDataFromPdb fails
        \E k \in 0 .. 2 :
          /\ globals' = {Loaded[i] : i \in 1 .. k}
          /\ pc' = "done" /\ exit' = "-1" /\ missed' = TRUE
          /\ UNCHANGED <<argv, dumps, stack>>
     \/ /\ globals' = {"source", "session", "global"}
        /\ IF words = <<>> \/ words[1] = "-all"
           THEN /\ pc' = "dump" /\ argv' = <<>>
                /\ dumps' = <<Dump("DumpAllPdbInfo", None, None)>>
                /\ Enter("DumpAllPdbInfo", "callers")
           ELSE pc' = "parse" /\ argv' = words /\ UNCHANGED <<dumps, stack>>
        /\ UNCHANGED <<exit, missed>>
  /\ UNCHANGED <<words, result, mapped>>

(* Cleanup releases the session and the global scope, not the data source. *)
End(status) ==
  /\ pc' = "done" /\ exit' = status
  /\ globals' = globals \ {"session", "global"}
  /\ UNCHANGED <<words, argv, dumps, walkVars>>

\* Faulty: a missing word leaves the option to be read again.
ParseEndRetry ==
  /\ pc = "parse"
  /\ \/ argv = <<>> /\ End("0")
     \/ argv # <<>> /\ argv[1] = "-?" /\ End("0")
     \/ argv # <<>> /\ argv[1] \notin Options \cup {"-?"} /\ End("-1")

ParseEnd ==
  /\ pc = "parse"
  /\ \/ argv = <<>> /\ End("0")
     \/ argv # <<>> /\ argv[1] = "-?" /\ End("0")
     \/ argv # <<>> /\ argv[1] \notin Options \cup {"-?"} /\ End("-1")
     \/ argv # <<>> /\ argv[1] \in Options /\ Taken(argv) = 0 /\ End("-1")

ParseOption ==
  /\ pc = "parse" /\ argv # <<>> /\ argv[1] \in Options /\ Taken(argv) > 0
  /\ LET dump == Requested(argv, Taken(argv))
     IN /\ dumps' = Append(dumps, dump)
        /\ Enter(dump.walk, "callers")
  /\ pc' = "dump"
  /\ UNCHANGED <<words, argv, exit, globals, result, missed, mapped>>

(* The walk goes on; or it is over, and its result decides what follows.   *)
Step ==
  /\ pc = "dump"
  /\ WalkStep
  /\ UNCHANGED <<words, argv, pc, exit, dumps, globals>>

DumpEnd ==
  /\ pc = "dump" /\ stack = <<>>
  /\ IF argv = <<>> THEN End("0")
     ELSE IF ~result THEN End("-1")
     ELSE /\ argv' = Rest(argv, Taken(argv)) /\ pc' = "parse"
          /\ UNCHANGED <<words, exit, dumps, globals, walkVars>>

Abort ==
  /\ pc = "dump" /\ AtMove("trap")
  /\ pc' = "done" /\ exit' = "abort"
  /\ UNCHANGED <<words, argv, dumps, globals, walkVars>>

Next == Start \/ ParseEnd \/ ParseOption \/ Step \/ DumpEnd \/ Abort

Spec == Init /\ [][Next]_vars /\ WF_vars(Next)

-----------------------------------------------------------------------------
TypeOK ==
  /\ WalkTypeOK
  /\ words \in Seq(Words) /\ argv \in Seq(Words)
  /\ pc \in {"main", "parse", "dump", "done"}
  /\ exit \in {"running", "0", "-1", "abort"}
  /\ globals \in SUBSET {"source", "session", "global"}

(* The command line as the help text has it, whatever ParseArg makes of it: *)
(* <a> must follow an option, [a] may, the number of [-n <number>] is a    *)
(* word of its own, and every option asks for one dump, -? for none.       *)
HelpOptions == Options \cup {"-?", "-all"}

Must1 == {"-lines", "-type", "-label", "-sym", "-lsrc", "-ps", "-psr",
          "-annotations", "-maptosrc", "-mapfromsrc"}
May(option) == CASE option = "-l" -> 2
                 [] option \in {"-injsrc", "-fpo", "-compiland", "-sym", "-lsrc"} -> 1
                 [] OTHER -> 0

Numbered(ws, i) == ws[i] \in {"-ps", "-psr"} /\ i + 3 <= Len(ws) /\ ws[i + 2] = "-n"

HelpTaken(ws, i) ==
  LET need == IF ws[i] \in Must1 THEN 1 ELSE 0
      may  == {k \in 0 .. May(ws[i]) : \A j \in 1 .. k : Given(ws, i + need + j)}
      most == CHOOSE k \in may : \A j \in may : j <= k
  IN IF Numbered(ws, i) /\ Given(ws, i + 3) THEN 4
     ELSE 1 + need + most

(* An option with the words it must have stands at i.                      *)
StandsAt(ws, i) ==
  /\ i <= Len(ws) /\ ws[i] \in HelpOptions
  /\ ws[i] \in Must1 => Given(ws, i + 1)

(* The whole line is options and their words: from one to the next they    *)
(* reach its end.                                                          *)
Follows(ws, starts) ==
  \A i \in starts : i <= Len(ws) => StandsAt(ws, i) /\ i + HelpTaken(ws, i) \in starts

Legal(ws) == \E starts \in SUBSET (1 .. Len(ws) + 1) : 1 \in starts /\ Follows(ws, starts)

PdbInfo == <<Dump("DumpAllPdbInfo", None, None)>>

HelpAsk(ws, i) ==
  LET n == HelpTaken(ws, i)
      on == IF n > 1 THEN ws[i + 1] ELSE None
      more == IF n > 2 THEN ws[i + n - 1] ELSE None
  IN CASE ws[i] = "-?" -> <<>>
       [] ws[i] = "-all" -> PdbInfo
       [] OTHER -> <<Dump(Walk(ws[i], on, more), on, more)>>

(* The dumps asked for by the words from the i-th on.                      *)
AskedFrom(ws) ==
  LET from[i \in 1 .. Len(ws) + 1] ==
        IF StandsAt(ws, i) THEN HelpAsk(ws, i) \o from[i + HelpTaken(ws, i)] ELSE <<>>
  IN from

Asked(ws) == IF ws = <<>> THEN PdbInfo ELSE AskedFrom(ws)[1]

(* Where the program departs from its help text: it reads the words before *)
(* the last two again after -compiland, reads the line of -lsrc from the   *)
(* file name, takes an option for the number of -n, and leaves alone what  *)
(* stands behind -? and behind an -all in front; and what it refuses, a    *)
(* -compiland without a name and an -all that is not in front.             *)
RereadsCompiland(ws) == \E i \in 1 .. Len(ws) - 2 : ws[i] = "-compiland"
LosesLine(ws)    == \E i \in 1 .. Len(ws) - 2 : ws[i] = "-lsrc" /\ Given(ws, i + 2)
TakesOption(ws)  == \E i \in 1 .. Len(ws) : Numbered(ws, i) /\ ~Given(ws, i + 3)
StopsAtHelp(ws)  == \E i \in 1 .. Len(ws) - 1 : ws[i] = "-?"
StopsAtAll(ws)   == Len(ws) > 1 /\ ws[1] = "-all"
WantsName(ws)    == \E i \in 1 .. Len(ws) : ws[i] = "-compiland" /\ ~Given(ws, i + 1)
RefusesAll(ws)   == \E i \in 2 .. Len(ws) : ws[i] = "-all"

DoneAsAsked(ws) ==
  /\ Len(dumps) <= Len(Asked(ws))
  /\ dumps = SubSeq(Asked(ws), 1, Len(dumps))
  /\ exit = "0" => dumps = Asked(ws) /\ Legal(ws)

(* Options run the dumps the help text promises, each once and in order,   *)
(* and success means all of them, of a line that is one by the help text;  *)
(* but on the lines on which the program is known to do otherwise.         *)
HelpHonoured ==
  \/ RereadsCompiland(words) \/ LosesLine(words) \/ TakesOption(words)
  \/ StopsAtHelp(words) \/ StopsAtAll(words)
  \/ DoneAsAsked(words)

(* The same for every command line.  Violated: words after -compiland.     *)
HelpAlwaysHonoured == DoneAsAsked(words)

(* A status of -1 has a cause: DIA failed, an address was 0, the words are *)
(* no command line by the help text, or are one the program is known to    *)
(* refuse.  A status of 0 of the whole dump says nothing.                  *)
FailsForCause ==
  exit = "-1" =>
    \/ missed \/ ~Legal(words)
    \/ RereadsCompiland(words) \/ WantsName(words) \/ RefusesAll(words)

(* The program ends: every option shortens what is left to parse, and the  *)
(* walks are bounded by the PDB and by MAX_TYPE_IN_DETAIL.                 *)
Ends == <>(pc = "done")
=============================================================================
