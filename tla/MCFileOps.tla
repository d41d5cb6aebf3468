----------------------------- MODULE MCFileOps -----------------------------
(* The bounded instances of FileOps. *)
EXTENDS FileOps
Symmetry == Permutations(Ops)
=============================================================================
