---------------------------- MODULE MCPduEngine ----------------------------
(* Instances of the request engine for TLC. *)
EXTENDS PduEngine, TLC

CONSTANTS n, a, b, c

(* Without CallerFrees the requests other than NEGOTIATE are alike. *)
Symmetry == Permutations({a, b, c})
=============================================================================
