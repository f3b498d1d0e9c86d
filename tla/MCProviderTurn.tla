-------------------------- MODULE MCProviderTurn --------------------------
(***************************************************************************)
(* Three blocks: a call between two texts, or beside reasoning.            *)
(***************************************************************************)
EXTENDS ProviderTurn
=============================================================================
