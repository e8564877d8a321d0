----------------------------- MODULE MCFileViews -----------------------------
(***************************************************************************)
(* Small instances of FileViews: two FILE objects of sizes on both sides   *)
(* of the (scaled) int limit, three entries of file_mappings[], and views  *)
(* of one or two of four pages.  Entries and pages are ordered by the      *)
(* code, so only the handles are symmetric.                                *)
(***************************************************************************)
EXTENDS FileViews, TLC

Symmetry == Permutations(Handles)
=============================================================================
