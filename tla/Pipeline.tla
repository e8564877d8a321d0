------------------------------ MODULE Pipeline ------------------------------
(***************************************************************************)
(* How the JSON of xdia gets to pyxdia: xdia's writes, under the loader    *)
(* through WriteFile and the loader's stdout buffer, a pipe of the         *)
(* operating system, and PDB._load_pdb, which reads to the end, waits for  *)
(* the exit status and parses.  Two processes, xdia (with its loader) and  *)
(* pyxdia, run concurrently; stdio buffer and pipe are bounded.            *)
(*                                                                         *)
(* The pipe, subprocess.check_output and json.loads are external.          *)
(***************************************************************************)
EXTENDS XdiaDump

CONSTANTS
  StdioCap,  (* pieces the loader's stdout buffers                          *)
  PipeCap    (* pieces the pipe holds                                       *)

ASSUME PipelineAssumption == StdioCap \in Nat \ {0} /\ PipeCap \in Nat \ {0}

VARIABLES
  stdio,     (* the loader's stdout buffer                                  *)
  pipe,      (* the pipe                                                    *)
  status,    (* the exit status of the process, -1 while it runs            *)
  py,        (* "reading", "waiting", "done" or "raised"                    *)
  got,       (* what check_output has read                                  *)
  data       (* self._pdb_data                                              *)

transport == <<stdio, pipe, status>>
pyVars    == <<py, got, data>>
vars      == <<xdiaVars, transport, pyVars>>

Running == -1
Killed  == 134 \* what an abort leaves: any status but 0 and 255

-----------------------------------------------------------------------------
(* The loader and the pipe                                                  *)

(* Faulty: a write does not wait for room in the buffer.                    *)
WriteFileUnbounded ==
  /\ out # <<>>
  /\ stdio' = Append(stdio, Head(out))
  /\ out' = Tail(out)
  /\ UNCHANGED <<run, at, counters, values, held, code, pipe, status, pyVars>>

(* On Windows stderr is not captured and stdout is the pipe; the loader's   *)
(* WriteFile writes both to its stdout.                                     *)
WriteFile ==
  /\ out # <<>>
  /\ out' = Tail(out)
  /\ \/ /\ host = "windows" /\ Head(out).fd = 2
        /\ UNCHANGED <<stdio, pipe>>
     \/ /\ host = "windows" /\ Head(out).fd = 1
        /\ Len(pipe) < PipeCap
        /\ pipe' = Append(pipe, Head(out))
        /\ UNCHANGED stdio
     \/ /\ host = "loader"
        /\ Len(stdio) < StdioCap
        /\ stdio' = Append(stdio, Head(out))
        /\ UNCHANGED pipe
  /\ UNCHANGED <<run, at, counters, values, held, code, status, pyVars>>

(* The buffer is written on when it is full and when it is flushed.         *)
Drain ==
  /\ stdio # <<>>
  /\ Len(stdio) = StdioCap \/ at = "terminate"
  /\ Len(pipe) < PipeCap
  /\ pipe' = Append(pipe, Head(stdio))
  /\ stdio' = Tail(stdio)
  /\ UNCHANGED <<xdiaVars, status, pyVars>>

(* Faulty: no fflush before _exit.                                          *)
TerminateUnflushed ==
  /\ at = "terminate"
  /\ status' = code
  /\ at' = "ended"
  /\ stdio' = <<>>
  /\ UNCHANGED <<run, counters, values, held, out, code, pipe, pyVars>>

(* fflush(stdout) has emptied the buffer, _exit ends the process.           *)
TerminateProcess ==
  /\ at = "terminate"
  /\ stdio = <<>>
  /\ status' = code
  /\ at' = "ended"
  /\ UNCHANGED <<run, counters, values, held, out, code, stdio, pipe, pyVars>>

(* A failed assertion or uncaught exception: what is buffered is lost.      *)
Abort ==
  /\ at = "dead"
  /\ stdio' = <<>>
  /\ status' = Killed
  /\ at' = "ended"
  /\ UNCHANGED <<run, counters, values, held, out, code, pipe, pyVars>>

-----------------------------------------------------------------------------
(* PDB._load_pdb                                                            *)

(* Faulty: the pipe is read once the process has ended.                     *)
ReadAfterExit ==
  /\ py = "reading"
  /\ status # Running
  /\ pipe # <<>>
  /\ got' = Append(got, Head(pipe))
  /\ pipe' = Tail(pipe)
  /\ UNCHANGED <<xdiaVars, stdio, status, py, data>>

Read ==
  /\ py = "reading"
  /\ pipe # <<>>
  /\ got' = Append(got, Head(pipe))
  /\ pipe' = Tail(pipe)
  /\ UNCHANGED <<xdiaVars, stdio, status, py, data>>

(* The end of the pipe: it is empty and the process has closed it.          *)
EndOfOutput ==
  /\ py = "reading"
  /\ pipe = <<>>
  /\ status # Running
  /\ py' = "waiting"
  /\ UNCHANGED <<xdiaVars, transport, got, data>>

(* json.loads takes one value and nothing else.                             *)
IsJson(text) ==
  /\ text # <<>>
  /\ text[Len(text)] = Close
  /\ \A n \in DOMAIN text : text[n].what # "complaint"

(* The value of a key: the piece that opens it and those of its items.      *)
ValueOf(text, key) ==
  LET mine == {n \in DOMAIN text : text[n].key = key}
      from == CHOOSE n \in mine : \A m \in mine : n <= m
      to   == CHOOSE n \in mine : \A m \in mine : m <= n
  IN  [kind |-> text[from].what, items |-> [n \in 1 .. (to - from) |-> text[from + n].entry]]

(* check_output raises unless the status is 0, json.loads unless the output *)
(* is JSON.                                                                 *)
LoadPdb ==
  /\ py = "waiting"
  /\ IF status = 0 /\ IsJson(got)
       THEN /\ py' = "done"
            /\ data' = [globals |-> ValueOf(got, "globals"), publics |-> ValueOf(got, "publics")]
       ELSE /\ py' = "raised"
            /\ UNCHANGED data
  /\ UNCHANGED <<xdiaVars, transport, got>>

-----------------------------------------------------------------------------
Init ==
  /\ XdiaInit
  /\ stdio = <<>> /\ pipe = <<>> /\ status = Running
  /\ py = "reading" /\ got = <<>>
  /\ data = [globals |-> Null, publics |-> Null]

XdiaProcess ==
  \/ XdiaStep /\ UNCHANGED <<transport, pyVars>>
  \/ WriteFile \/ Drain \/ TerminateProcess \/ Abort

PyxdiaProcess == Read \/ EndOfOutput \/ LoadPdb

Next == XdiaProcess \/ PyxdiaProcess

Spec == Init /\ [][Next]_vars

(* The operating system schedules both processes.                           *)
FairSpec == Spec /\ WF_vars(XdiaProcess) /\ WF_vars(PyxdiaProcess)

-----------------------------------------------------------------------------
TypeOK ==
  /\ asked \in Pdbs /\ pdb \in Pdbs /\ host \in Hosts
  /\ at \in {"load", "findPublics", "publics", "findGlobals", "globals", "puts",
             "exit", "terminate", "dead", "ended"}
  /\ call \in 1..LastCall /\ tag \in 1..3 /\ k \in Nat \ {0}
  /\ publics \in Value /\ globals \in Value
  /\ held \in Nat /\ out \in Seq(Piece) /\ code \in {0, 255}
  /\ stdio \in Seq(Piece) /\ Len(stdio) <= StdioCap
  /\ pipe \in Seq(Piece) /\ Len(pipe) <= PipeCap
  /\ status \in {Running, 0, 255, Killed}
  /\ py \in {"reading", "waiting", "done", "raised"}
  /\ got \in Seq(Piece)

(* What pyxdia ends up with is what DIA handed out to xdia: the symbols of  *)
(* every listing once and in order, none of them cut off, merged with a     *)
(* message, or left behind in a buffer when the process ends.  Where the    *)
(* code itself loses some it does so in two ways only: it has none behind a *)
(* call of Next that fails, and no globals at all, those of the tags before *)
(* included, when findChildren fails for a tag (main.cpp:185-189).  A PDB   *)
(* that answers every call is in the data with every symbol it has.         *)
DataIsWhole ==
  py = "done" =>
    /\ Dumpable(pdb, host)
    /\ data.publics = Publics(pdb)
    /\ data.globals = IF TagsFound(pdb) THEN Globals(pdb) ELSE False
    /\ AnswersAll(pdb) => data = [globals |-> EveryGlobal(pdb), publics |-> EveryPublic(pdb)]

(* pyxdia raises only when what is at the path that xdia gets cannot be     *)
(* dumped: never because of how the output was scheduled and buffered.      *)
RaisesForCause == py = "raised" => ~Dumpable(pdb, host)

(* As long as xdia runs, it holds exactly the enumerator it is reading:     *)
(* those of the listings before it, and all of them when it prints and      *)
(* exits, have been released, none of them twice.                           *)
EnumeratorsReleased ==
  at \notin {"dead", "ended"} => held = (IF at \in {"publics", "globals"} THEN 1 ELSE 0)

(* check_output always returns or raises: the bounded buffers never leave   *)
(* xdia and pyxdia waiting for each other.                                  *)
Answered == <>(py \in {"done", "raised"})

(* main.cpp:162 says that DumpAllGlobals dumps SymTagThunk symbols too: a   *)
(* PDB with nothing else against it is dumped whatever its thunks.          *)
ThunksDumped == py = "raised" => ~Sound(pdb, host)

(* pdb.py:51-60 say that globals and publics list all globals and all      *)
(* publics, as lists of dicts, of the PDB that pyxdia is asked for.          *)
AllListed ==
  LET list(every) == [every EXCEPT !.kind = "list"]
  IN  py = "done" => data = [globals |-> list(EveryGlobal(asked)),
                             publics |-> list(EveryPublic(asked))]
=============================================================================
