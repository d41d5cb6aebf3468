--------------------------- MODULE MCExtTransport ---------------------------
EXTENDS ExtTransport

(* An SPL and a body, and a frame with an empty vector in it. *)
MCShapes == {<<1, 2>>, <<1, 0, 1>>}
=============================================================================
