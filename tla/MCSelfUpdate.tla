---------------------------- MODULE MCSelfUpdate ----------------------------
(***************************************************************************)
(* Three processes: one that leaves a stale lock or a missing executable   *)
(* behind and two that compete for what it left.                           *)
(***************************************************************************)
EXTENDS SelfUpdate, TLC

Symmetry == Permutations(Proc)
=============================================================================
