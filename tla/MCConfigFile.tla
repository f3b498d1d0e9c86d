---------------------------- MODULE MCConfigFile ----------------------------
(***************************************************************************)
(* Two commands, one after the other or overlapping, are enough to         *)
(* configure both clients.                                                 *)
(***************************************************************************)
EXTENDS ConfigFile
=============================================================================
