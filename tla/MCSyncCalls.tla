---------------------------- MODULE MCSyncCalls ----------------------------
(* Instances of the synchronous API for TLC. *)
EXTENDS SyncCalls
=============================================================================
