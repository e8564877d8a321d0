----------------------------- MODULE MCDia2Dump -----------------------------
(***************************************************************************)
(* Small instances of Dia2Dump: every option with every arrangement of the *)
(* words it may take, alone and with another option behind it.             *)
(***************************************************************************)
EXTENDS Dia2Dump, DiaTable

CONSTANTS Tried, Once, Behind    \* options in front, and what follows their words

Given1 == {<<>>, <<Address>>, <<Name>>, <<Name, Address>>, <<Address, "-n", Address>>}

MCCommandLines ==
  Once \cup {<<o>> \o given \o behind : o \in Tried, given \in Given1, behind \in Behind}

\* The walks of types in detail are large: these options come alone.
Heavy        == {<<>>, <<"-all">>, <<"-t">>, <<"-oem">>, <<"-type", Name>>,
                  <<"-ps", Address, "-n", "-f">>}
LightOptions == (Options \ {"-t", "-oem", "-type"}) \cup {"-?"}
LightBehind  == {<<>>, <<"-f">>, <<"-ps", Address, "-?", "-p">>, <<"-all">>}
TwoBehind    == {<<"-f">>, <<"-f", "-p">>}
\* -compiland with a name, and one or two options behind it.
AfterCompiland == {<<"-compiland", Name>> \o behind : behind \in TwoBehind}
Nothing       == {}

Block(rva, to) == [rva |-> rva, to |-> to]
MCOmaps == {<<>>, <<Block(2, 0)>>, <<Block(0, 5), Block(3, 0), Block(6, 2), Block(8, 0)>>}
MCRvas  == 0 .. 9
=============================================================================
