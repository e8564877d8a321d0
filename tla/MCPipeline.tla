----------------------------- MODULE MCPipeline -----------------------------
(***************************************************************************)
(* Small instances of Pipeline: PDBs with up to three publics and globals  *)
(* of every tag, one of each kind that makes xdia, the loader or pyxdia    *)
(* fail, on both hosts; buffers smaller than the dump.                     *)
(***************************************************************************)
EXTENDS Pipeline

Sym(n, t) == [id |-> n, tag |-> t, tagged |-> TRUE, named |-> TRUE, valid |-> TRUE,
              placed |-> TRUE, located |-> TRUE, targeted |-> TRUE, function |-> TRUE]
Found(s)  == [found |-> TRUE, symbols |-> s, behind |-> <<>>]
Cut(s, b) == [found |-> TRUE, symbols |-> s, behind |-> b]
Nothing   == [found |-> FALSE, symbols |-> <<>>, behind |-> <<>>]

Hello ==
  [there |-> TRUE, spaced |-> FALSE, fails |-> 0,
   publics |-> Found(<<Sym(1, "PublicSymbol"), Sym(2, "PublicSymbol")>>),
   globals |-> << Found(<<Sym(3, "Function")>>), Found(<<>>),
                  Found(<<Sym(4, "Data"), Sym(5, "Data")>>) >>]

PublicsCut == [Hello EXCEPT !.publics = Cut(<<Sym(1, "PublicSymbol")>>, <<Sym(2, "PublicSymbol")>>)]

Thunks(s) == [Hello EXCEPT !.globals[2] = Found(<<s>>)]

MCPdbs ==
  { Hello,
    [Hello EXCEPT !.publics = Nothing],
    [Hello EXCEPT !.publics = Found(<<>>)],
    [Hello EXCEPT !.globals = << Found(<<>>), Found(<<>>), Found(<<>>) >>],
    [Hello EXCEPT !.globals[1] = Nothing],
    [Hello EXCEPT !.globals[1] = Nothing, !.globals[2] = Found(<<Sym(6, "Thunk")>>)],
    [Hello EXCEPT !.globals[3] = Nothing],
    [Hello EXCEPT !.publics.symbols[1].valid = FALSE],
    [Hello EXCEPT !.globals[3].symbols[2].valid = FALSE],
    [Hello EXCEPT !.globals[3].symbols[1].tagged = FALSE,
                  !.publics.symbols[2].tagged = FALSE],
    [Hello EXCEPT !.globals[1].symbols[1].placed = FALSE,
                  !.globals[3].symbols[1].located = FALSE,
                  !.publics.symbols[1].function = FALSE],
    [Hello EXCEPT !.there = FALSE], [Hello EXCEPT !.spaced = TRUE],
    PublicsCut, [Hello EXCEPT !.publics = Cut(<<>>, <<Sym(1, "PublicSymbol")>>)],
    [Hello EXCEPT !.globals[1] = Cut(<<>>, <<Sym(3, "Function")>>),
                  !.globals[3] = Cut(<<Sym(4, "Data")>>, <<Sym(5, "Data")>>)],
    Thunks(Sym(6, "Thunk")),
    Thunks([Sym(6, "Thunk") EXCEPT !.named = FALSE]),
    Thunks([Sym(6, "Thunk") EXCEPT !.named = FALSE, !.targeted = FALSE]) }
  \cup {[Hello EXCEPT !.fails = n] : n \in 1..7}

(* A Next and then a tag that fail; a path with a blank, which makes xdia    *)
(* dump another PDB.                                                         *)
MCLossy == { [PublicsCut EXCEPT !.globals[3] = Nothing],
             [Hello EXCEPT !.spaced = TRUE], PublicsCut }
=============================================================================
