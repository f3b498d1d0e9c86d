--------------------------- MODULE MCResponsesTurn ---------------------------
(***************************************************************************)
(* Small instances of ResponsesTurn.                                       *)
(***************************************************************************)
EXTENDS ResponsesTurn, TLC

Symmetry == Permutations(Item)
=============================================================================
