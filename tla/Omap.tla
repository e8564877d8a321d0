-------------------------------- MODULE Omap --------------------------------
(***************************************************************************)
(* The address translation of DIA2Dump's -maptosrc and -mapfromsrc: a scan *)
(* of an OMAP stream, whose entries [rva, to] say where the code at rva    *)
(* went when the image was reordered.  An entry covers the addresses up to *)
(* the next one; to = 0 marks code that was eliminated.  Addresses are     *)
(* natural numbers: the 32-bit wrap of to + (rva - from) needs a block     *)
(* that crosses the end of the address space.                              *)
(***************************************************************************)
EXTENDS Naturals, Sequences

Entry == [rva : Nat, to : Nat]

(* The entries the scan reads before it stops, and after it.               *)
Below(omap, rva)  == {i \in 1 .. Len(omap) : omap[i].rva < rva}
NotBelow(omap, rva) == {i \in 1 .. Len(omap) : rva <= omap[i].rva}

(* The scan stops at the first entry that is not below rva; a stream that  *)
(* ends first leaves 0.                                                    *)
IsStop(omap, rva, i) ==
  i \in NotBelow(omap, rva) /\ \A j \in NotBelow(omap, rva) : i <= j

\* Faulty: an address inside a block is taken for its first.
AnswerBase(omap, rva, i) ==
  IF rva = omap[i].rva THEN omap[i].to
  ELSE IF i > 1 THEN omap[i - 1].to ELSE 0

(* dwRVATo, with datasav the entry before the one the scan stopped at.     *)
AnswerAt(omap, rva, i) ==
  IF rva = omap[i].rva THEN omap[i].to
  ELSE IF i > 1 /\ omap[i - 1].to # 0
       THEN omap[i - 1].to + (rva - omap[i - 1].rva)
       ELSE 0

(* dwRVATo of DumpMapToSrc and DumpMapFromSrc.                             *)
Translate(omap, rva) ==
  IF NotBelow(omap, rva) = {} THEN 0
  ELSE AnswerAt(omap, rva, CHOOSE i \in 1 .. Len(omap) : IsStop(omap, rva, i))

-----------------------------------------------------------------------------
(* What a translation is: the block that holds rva moves as a whole.       *)
Sorted(omap) == \A i, j \in 1 .. Len(omap) : i < j => omap[i].rva < omap[j].rva

Holds(omap, rva, i) ==
  /\ omap[i].rva <= rva
  /\ \A j \in 1 .. Len(omap) : omap[j].rva <= rva => j <= i

IsTranslation(omap, rva, answer) ==
  /\ Below(omap, rva + 1) = {} => answer = 0
  /\ \A i \in 1 .. Len(omap) :
       Holds(omap, rva, i) =>
         answer = IF omap[i].to = 0 THEN 0
                  ELSE omap[i].to + (rva - omap[i].rva)

(* The last entry's own block has no end the scan could stop at.           *)
InTable(omap, rva) == NotBelow(omap, rva) # {}
=============================================================================
