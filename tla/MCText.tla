------------------------------- MODULE MCText -------------------------------
(***************************************************************************)
(* An instance of Text: a letter of each width.                            *)
(***************************************************************************)
EXTENDS Text

MCLetters == {"a", "ss", "eur", "clef"}
MCBytes   == [c \in MCLetters |->
                CASE c = "a" -> 1 [] c = "ss" -> 2 [] c = "eur" -> 3 [] c = "clef" -> 4]
=============================================================================
