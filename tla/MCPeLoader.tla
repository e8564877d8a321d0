----------------------------- MODULE MCPeLoader -----------------------------
(***************************************************************************)
(* Small instances of PeLoader: images of three sections in 18 cells, laid *)
(* out as the linker lays out msdia140.dll and xdia.exe (code, read-only   *)
(* data with IAT, import descriptor and TLS directory, writable data with  *)
(* the TLS template, the TLS index in its zero-filled tail), and variants  *)
(* of them that each take one other path through load_pe.                  *)
(***************************************************************************)
EXTENDS PeLoader

Kernel == "KERNEL32.dll"
Msdia  == "msdia140.dll"

MCBuiltins == <<"KERNEL32.dll", "OLEAUT32.dll", "ole32.dll", "SHLWAPI.dll", "ADVAPI32.dll">>

MCBuiltinExports ==
  [b \in {MCBuiltins[m] : m \in DOMAIN MCBuiltins} |->
     CASE b = Kernel -> {[sym |-> "FlsAlloc", ordinal |-> -1]}
       [] b = "OLEAUT32.dll" -> {[sym |-> "SysFreeString", ordinal |-> 6]}
       [] OTHER -> {}]

(* Only the names LoadLibraryExA knows; an api-ms-win- name is KERNEL32.    *)
MCLibraryAlias ==
  [n \in {"api-ms-win-core-fibers", "msdia140.dll", "MSDIA140.DLL"} |->
     IF n = "api-ms-win-core-fibers" THEN Kernel ELSE Msdia]

By(sym)    == [dll |-> Kernel, sym |-> sym, ordinal |-> -1]
Sections3  ==
  << [va |-> 2,  vsize |-> 1, raw |-> 2, write |-> FALSE, exec |-> TRUE],
     [va |-> 4,  vsize |-> 8, raw |-> 8, write |-> FALSE, exec |-> FALSE],
     [va |-> 12, vsize |-> 3, raw |-> 2, write |-> TRUE,  exec |-> FALSE] >>

Dir64(r) == [type |-> "dir64", rva |-> r]
Relocs2  == << [entries |-> <<Dir64(7), Dir64(8), Dir64(9), Dir64(10), Dir64(11)>>, fits |-> TRUE],
               [entries |-> <<Dir64(12), [type |-> "absolute", rva |-> 0]>>, fits |-> TRUE] >>

NoDirectory == [size |-> 0, supported |-> TRUE, dir |-> 0, start |-> 0, last |-> 0,
                index |-> 0, table |-> 0, calls |-> 0]
Directory   == [size |-> 40, supported |-> TRUE, dir |-> 7, start |-> 12, last |-> 13,
                index |-> 14, table |-> 11, calls |-> 1]

Thunk1(iat, sym, ord) == [iat |-> iat, sym |-> sym, ordinal |-> ord]

Dll ==
  [kind |-> "pe64", name |-> Msdia, align |-> 2, headers |-> 2,
   sections |-> Sections3, relocs |-> Relocs2,
   imports |-> << [dll |-> Kernel, at |-> 6, fits |-> TRUE,
                   thunks |-> <<Thunk1(4, "FlsAlloc", -1)>>] >>,
   exports |-> [dir |-> TRUE, parallel |-> TRUE, names |-> <<"DllGetClassObject">>],
   tls |-> Directory, lookups |-> {[By("FlsAlloc") EXCEPT !.dll = "api-ms-win-core-fibers"]},
   ends |-> "true"]

Exe ==
  [Dll EXCEPT !.name = "xdia.exe", !.tls = NoDirectory, !.ends = "terminate",
     !.imports = << [dll |-> "OLEAUT32.dll", at |-> 6, fits |-> TRUE,
                     thunks |-> <<Thunk1(5, "", 6)>>] >>,
     !.exports = [dir |-> FALSE, parallel |-> TRUE, names |-> <<>>],
     !.lookups = {[By("DllGetClassObject") EXCEPT !.dll = Msdia]}]

TlsExe == [Exe EXCEPT !.name = "xdia2.exe", !.tls = Directory, !.ends = "true"]

(* Images that load.                                                        *)
GoodImages ==
  { Dll, Exe, TlsExe,
    [Dll EXCEPT !.name = "MSDIA140.DLL", !.tls = NoDirectory],
    [Exe EXCEPT !.ends = "true"],
    \* it imports msdia140.dll, and GetProcAddress finds it by another case
    [Exe EXCEPT !.imports[1] = [dll |-> Msdia, at |-> 6, fits |-> TRUE,
                                thunks |-> <<Thunk1(5, "DllGetClassObject", -1)>>],
                !.lookups = {[By("DllGetClassObject") EXCEPT !.dll = "MSDIA140.DLL"]}] }

(* An image with the name of an earlier one, from which it also imports.    *)
Namesake ==
  [TlsExe EXCEPT !.name = Msdia,
     !.imports[1] = [dll |-> Msdia, at |-> 6, fits |-> TRUE,
                     thunks |-> <<Thunk1(5, "DllGetClassObject", -1)>>],
     !.exports = [dir |-> TRUE, parallel |-> TRUE, names |-> <<"Main", "DllGetClassObject">>]]

(* Images load_pe, or their own code, ends on.                              *)
BadImages ==
  { [Dll EXCEPT !.kind = "absent"], [Dll EXCEPT !.kind = "empty"],
    [Dll EXCEPT !.kind = "notpe"],
    [Dll EXCEPT !.sections[3].va = 14, !.tls.index = 15, !.tls.start = 14, !.tls.last = 14,
         !.relocs[2].entries[1] = Dir64(14)],
    [Dll EXCEPT !.relocs[2].entries[2].type = "other"],
    [Dll EXCEPT !.relocs[1].fits = FALSE],
    [Dll EXCEPT !.imports[1].thunks[1].sym = "Beep"],
    [Exe EXCEPT !.imports[1].dll = Msdia],
    [Exe EXCEPT !.imports[1].thunks[1].ordinal = 7],
    [Dll EXCEPT !.imports[1].fits = FALSE],
    [Dll EXCEPT !.tls.supported = FALSE],
    [Dll EXCEPT !.relocs[1].entries[1].type = "absolute"],
    [Dll EXCEPT !.relocs[1].entries[2].type = "absolute"],
    [Dll EXCEPT !.relocs[1].entries[3].type = "absolute"],
    [Dll EXCEPT !.relocs[1].entries[4].type = "absolute"],
    [Dll EXCEPT !.tls.index = 5],
    [Dll EXCEPT !.tls.calls = 2, !.relocs[2].entries[1] = Dir64(13)],
    [Dll EXCEPT !.ends = "false"],
    [Dll EXCEPT !.exports.parallel = FALSE],
    [Dll EXCEPT !.exports.dir = FALSE],
    [Exe EXCEPT !.lookups = {[By("Ghost") EXCEPT !.dll = "USER32.dll"]}] }

MCImages == {Namesake} \cup GoodImages \cup BadImages

(* Images for more load_pe calls than the tables have room for.             *)
FewImages == {Dll, [Dll EXCEPT !.lookups = Exe.lookups], TlsExe, Namesake, [Exe EXCEPT !.ends = "true"],
              [Exe EXCEPT !.imports[1].thunks[1].ordinal = 7]}
=============================================================================
