---------------------------- MODULE MCTcpConnect ----------------------------
(* Instances of the TCP transport for TLC. *)
EXTENDS TcpConnect
=============================================================================
