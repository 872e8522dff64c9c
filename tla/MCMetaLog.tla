----------------------------- MODULE MCMetaLog -----------------------------
(* Paths for the runs of MetaLog; nothing in it depends on which is which. *)
EXTENDS MetaLog

CONSTANTS path1, path2

NameSymmetry == Permutations({path1, path2})
=============================================================================
