-------------------------------- MODULE Text --------------------------------
(***************************************************************************)
(* The conversions between UTF-8 and UTF-16 that every name passes: wc2c   *)
(* and c2wc of the loader (src/pe-loader/wc.c), WideCharToMultiByte and    *)
(* MultiByteToWideChar of its kernel32, and wc2c of xdia.exe on top of     *)
(* them.  One text is followed through any sequence of these calls.        *)
(*                                                                         *)
(* A letter is known by its number of UTF-8 bytes; one of four bytes has   *)
(* two UTF-16 words, any other one.  A unit <<c, i>> is the i-th byte or   *)
(* word of letter c.  ICU is external: it converts a whole text, tells the *)
(* length it needs, and terminates the text only if there is room.         *)
(*                                                                         *)
(* Image code is taken to look at the answers it gets: it uses a text that *)
(* was read up to its NUL only if the answer is within its buffer.         *)
(***************************************************************************)
EXTENDS Integers, SequencesExt

CONSTANTS
  Letters,     (* the letters texts are made of                             *)
  Bytes,       (* Bytes[c]: how many bytes c has in UTF-8                   *)
  MaxLetters,  (* how many letters a text has at most                       *)
  MaxBuffer    (* the largest buffer image code offers                      *)

ASSUME TextAssumption ==
  /\ "NUL" \notin Letters
  /\ Bytes \in [Letters -> 1..4]
  /\ MaxLetters \in Nat
  /\ MaxBuffer \in Nat

VARIABLES
  said,       (* what the text says: the letters it was made from           *)
  encoding,   (* "utf8" or "utf16"                                          *)
  buffer,     (* the memory that holds the text                             *)
  asked,      (* what image code was told to reserve for it, or NotAsked    *)
  answer,     (* the answer of the last conversion                          *)
  lastError,  (* last_error: TRUE once it is ERROR_INSUFFICIENT_BUFFER      *)
  status      (* "running", "aborted" at an assertion, "overrun"            *)

vars == <<said, encoding, buffer, asked, answer, lastError, status>>

NUL      == <<"NUL", 1>>
Junk     == <<"junk", 1>>
NotAsked == -1

Other(e) == IF e = "utf8" THEN "utf16" ELSE "utf8"

Width(e, c) == IF e = "utf8" THEN Bytes[c] ELSE IF Bytes[c] = 4 THEN 2 ELSE 1

Encode(e, cs) == FlattenSeq([k \in DOMAIN cs |-> [i \in 1..Width(e, cs[k]) |-> <<cs[k], i>>]])

(* The letters of which us holds the first unit.                            *)
Decode(us) == FlattenSeq([p \in DOMAIN us |-> IF us[p][2] = 1 THEN <<us[p][1]>> ELSE <<>>])

(* us holds whole letters: no lone surrogate, no cut multi-byte sequence.   *)
Whole(e, us) == us = Encode(e, Decode(us))

Terminated(b) == Contains(b, NUL)

(* The text in b, up to its NUL.                                            *)
CString(b) == SubSeq(b, 1, SelectInSeq(b, LAMBDA u : u = NUL) - 1)

-----------------------------------------------------------------------------
(* u_strToUTF8 and u_strFromUTF8 of ICU: how the conversion of us from e    *)
(* into room for n units ends, how long the result is, and what is stored.  *)
Icu(e, us, n) ==
  IF ~Whole(e, us) THEN [error |-> "U_INVALID_CHAR_FOUND", length |-> 0, stored |-> <<>>]
  ELSE LET cs  == Decode(us)
           out == Encode(Other(e), cs)
           fit == {k \in 0..Len(cs) : Len(Encode(Other(e), SubSeq(cs, 1, k))) <= n}
       IN  [error  |-> IF Len(out) > n THEN "U_BUFFER_OVERFLOW_ERROR"
                       ELSE IF Len(out) = n THEN "U_STRING_NOT_TERMINATED_WARNING"
                       ELSE "U_ZERO_ERROR",
            length |-> Len(out),
            stored |-> IF Len(out) < n THEN Append(out, NUL)
                       ELSE Encode(Other(e), SubSeq(cs, 1, Max(fit)))]

Abort == /\ status' = "aborted"
         /\ UNCHANGED <<said, encoding, buffer, asked, answer, lastError>>

(* The text is now what was stored in a new buffer of n units.              *)
Becomes(stored, n) ==
  /\ status' = IF Len(stored) > n THEN "overrun" ELSE "running"
  /\ buffer' = stored \o [k \in 1 .. n - Len(stored) |-> Junk]
  /\ encoding' = Other(encoding)
  /\ asked' = NotAsked

(* Whoever reads the text up to its NUL needs one to be there.              *)
Reads(e) == encoding = e /\ Terminated(buffer)

-----------------------------------------------------------------------------
(* The loader's own conversions                                             *)

(* Faulty: the copy is made before room for the NUL is added.               *)
LoaderWc2cShort ==
  /\ Reads("utf16")
  /\ LET needs == Icu("utf16", CString(buffer), 0).length
     IN  Becomes(Icu("utf16", CString(buffer), needs + 1).stored, needs)
  /\ UNCHANGED <<said, answer, lastError>>

(* Faulty: an empty text is asked for like any other.                       *)
LoaderWc2cAlwaysAsks ==
  /\ Reads("utf16")
  /\ LET us   == CString(buffer)
         need == Icu("utf16", us, 0)
     IN  IF need.error # "U_BUFFER_OVERFLOW_ERROR" THEN Abort
         ELSE /\ Becomes(Icu("utf16", us, need.length + 1).stored, need.length + 1)
              /\ UNCHANGED <<said, answer, lastError>>

(* The length is asked for, unless the text is empty, and the text copied.  *)
LoaderWc2c ==
  /\ Reads("utf16")
  /\ LET us   == CString(buffer)
         need == Icu("utf16", us, 0)
     IN  IF us # <<>> /\ need.error # "U_BUFFER_OVERFLOW_ERROR" THEN Abort
         ELSE /\ Becomes(Icu("utf16", us, need.length + 1).stored, need.length + 1)
              /\ UNCHANGED <<said, answer, lastError>>

(* The other way an empty text is not looked for.                           *)
LoaderC2wc ==
  /\ Reads("utf8")
  /\ LET us   == CString(buffer)
         need == Icu("utf8", us, 0)
     IN  IF need.error # "U_BUFFER_OVERFLOW_ERROR" THEN Abort
         ELSE /\ Becomes(Icu("utf8", us, need.length + 1).stored, need.length + 1)
              /\ UNCHANGED <<said, answer, lastError>>

-----------------------------------------------------------------------------
(* kernel32                                                                 *)

(* The units image code gives: count of them, or with -1 all up to the NUL. *)
Given(count) == IF count = -1 THEN CString(buffer) ELSE SubSeq(buffer, 1, count)

Counts == {-1} \cup 0..Len(CString(buffer))

(* Faulty: the NUL is taken off where it was not given.                     *)
BytesBeforeNul(count, done) == done.length - IF count = -1 THEN 0 ELSE 1

(* bytesToWrite: the NUL counts when it was part of what was given.         *)
BytesToWrite(count, done) == done.length + IF count = -1 THEN 1 ELSE 0

(* Faulty: the number of bytes without the NUL is told.                     *)
AskWithoutNul(count) ==
  /\ Reads("utf16")
  /\ LET done == Icu("utf16", Given(count), 0)
     IN  /\ done.error # "U_INVALID_CHAR_FOUND"
         /\ answer' = done.length
         /\ asked' = IF count = -1 THEN answer' ELSE asked
         /\ UNCHANGED <<said, encoding, buffer, lastError, status>>

(* WideCharToMultiByte without a buffer: only the answer.                   *)
AskWideCharToMultiByte(count) ==
  /\ Reads("utf16")
  /\ LET done == Icu("utf16", Given(count), 0)
     IN  IF done.error = "U_INVALID_CHAR_FOUND" THEN Abort
         ELSE /\ answer' = BytesToWrite(count, done)
              /\ asked' = IF count = -1 THEN answer' ELSE asked
              /\ UNCHANGED <<said, encoding, buffer, lastError, status>>

(* What image code goes on with: a text that was given up to its NUL is     *)
(* used as it is, a counted one gets its NUL from image code.               *)
Uses(count, stored, n) ==
  /\ IF count = -1 THEN Becomes(stored, n)
     ELSE Becomes(Append(SubSeq(stored, 1, answer'), NUL), n + 1)
  /\ said' = IF count = -1 THEN said ELSE Decode(Given(count))

(* Faulty: a buffer that is too small is answered like any other.           *)
WideCharToMultiByteCuts(count, n) ==
  /\ Reads("utf16")
  /\ n > 0
  /\ LET done == Icu("utf16", Given(count), n)
     IN  /\ done.error # "U_INVALID_CHAR_FOUND"
         /\ answer' = Len(SelectSeq(done.stored, LAMBDA u : u # NUL)) + IF count = -1 THEN 1 ELSE 0
         /\ IF answer' > n THEN UNCHANGED <<said, encoding, buffer, asked, status>>
            ELSE Uses(count, done.stored, n)
  /\ UNCHANGED lastError

(* With one that is too small it stores what fits, says so in the last      *)
(* error, and answers 0; without room for the NUL alone it answers one more *)
(* than its buffer has.                                                     *)
WideCharToMultiByte(count, n) ==
  /\ Reads("utf16")
  /\ n > 0
  /\ LET done == Icu("utf16", Given(count), n)
     IN  IF done.error = "U_INVALID_CHAR_FOUND" THEN Abort
         ELSE IF done.error = "U_BUFFER_OVERFLOW_ERROR"
         THEN /\ answer' = 0
              /\ lastError' = TRUE
              /\ UNCHANGED <<said, encoding, buffer, asked, status>>
         ELSE /\ answer' = BytesToWrite(count, done)
              /\ IF answer' > n THEN UNCHANGED <<said, encoding, buffer, asked, status>>
                 ELSE Uses(count, done.stored, n)
              /\ UNCHANGED lastError

(* Nothing to convert, or no buffer, is an assertion; a buffer that is too  *)
(* small is answered with the length it would need.                         *)
MultiByteToWideChar(count, n) ==
  /\ Reads("utf8")
  /\ LET done == Icu("utf8", Given(count), n)
     IN  IF count = 0 \/ n = 0 \/ done.error = "U_INVALID_CHAR_FOUND" THEN Abort
         ELSE /\ answer' = done.length
              /\ IF answer' > n \/ (count = -1 /\ answer' = n)
                   THEN UNCHANGED <<said, encoding, buffer, asked, status>>
                   ELSE Uses(count, done.stored, n)
              /\ UNCHANGED lastError

(* wc2c of xdia.exe, once it has asked: room for one byte more than it was  *)
(* told, of which it offers what it was told.  It does not look at the      *)
(* second answer.                                                           *)
XdiaWc2c ==
  /\ Reads("utf16")
  /\ asked # NotAsked
  /\ LET done == Icu("utf16", CString(buffer), asked)
     IN  /\ IF done.error = "U_BUFFER_OVERFLOW_ERROR"
              THEN answer' = 0 /\ lastError' = TRUE
              ELSE answer' = BytesToWrite(-1, done) /\ UNCHANGED lastError
         /\ Becomes(done.stored, asked + 1)
  /\ UNCHANGED said

-----------------------------------------------------------------------------
(* A text comes from the command line or out of a PDB.                      *)
Init == /\ said \in SeqOf(Letters, MaxLetters)
        /\ encoding \in {"utf8", "utf16"}
        /\ buffer = Append(Encode(encoding, said), NUL)
        /\ asked = NotAsked
        /\ answer = 0
        /\ lastError = FALSE
        /\ status = "running"

Next == /\ status = "running"
        /\ \/ LoaderWc2c
           \/ LoaderC2wc
           \/ \E count \in Counts : AskWideCharToMultiByte(count)
           \/ \E count \in Counts, n \in 0..MaxBuffer : WideCharToMultiByte(count, n)
           \/ \E count \in Counts, n \in 0..MaxBuffer : MultiByteToWideChar(count, n)
           \/ XdiaWc2c

Spec == Init /\ [][Next]_vars

-----------------------------------------------------------------------------
(* Properties                                                               *)

(* The types of the text, its buffer and the last answer.                   *)
Units == {NUL, Junk} \cup {<<c, i>> : c \in Letters, i \in 1..4}

TypeOK == /\ said \in Seq(Letters)
          /\ encoding \in {"utf8", "utf16"}
          /\ buffer \in Seq(Units)
          /\ asked \in Nat \cup {NotAsked}
          /\ answer \in Nat
          /\ lastError \in BOOLEAN
          /\ status \in {"running", "aborted", "overrun"}

(* Through any sequence of conversions, with any buffers, a text that the   *)
(* program goes on with says what it said: nothing cut, added or lost.      *)
TextSurvives ==
  status = "running" => CString(buffer) = Encode(encoding, said)

(* No conversion writes past the memory reserved for it, and none leaves a  *)
(* text behind that has no end.                                             *)
NoOverrun == status # "overrun" /\ Terminated(buffer)

(* Room for what WideCharToMultiByte said it needs is enough, and what it   *)
(* answers then is what it said.                                            *)
AskedIsEnough ==
  [][\A n \in 0..MaxBuffer :
       asked # NotAsked /\ n >= asked /\ WideCharToMultiByte(-1, n)
         => answer' = asked /\ encoding' = "utf8"]_vars

(* What DIA and the images hand out converts: a wide text stops the program *)
(* only where image code cut one of its surrogate pairs in two.  An empty   *)
(* one does not; an empty narrow one does, at the assertion of wc.c:33.     *)
OnlyCutPairsAbort ==
  status = "aborted" /\ encoding = "utf16" =>
    \E k \in DOMAIN said : Width("utf16", said[k]) = 2
=============================================================================
