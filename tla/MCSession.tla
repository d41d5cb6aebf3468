----------------------------- MODULE MCSession -----------------------------
(* Session establishment, instantiated by the configurations.              *)
EXTENDS Session
=============================================================================
