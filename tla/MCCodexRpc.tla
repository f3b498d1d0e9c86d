------------------------------ MODULE MCCodexRpc ------------------------------
(***************************************************************************)
(* A small instance of CodexRpc: two turns on one server, whose event      *)
(* queue is shorter than what the server may write.                        *)
(***************************************************************************)
EXTENDS CodexRpc
=============================================================================
