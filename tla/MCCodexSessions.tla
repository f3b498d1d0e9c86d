--------------------------- MODULE MCCodexSessions ---------------------------
(***************************************************************************)
(* Small instances of CodexSessions.  Three requests are enough for a      *)
(* park, a resume and a parking that replaces the resumed turn; two keys   *)
(* for two parked turns that compete for the parked slots; and two slots,  *)
(* for a request that has to wait.                                         *)
(*                                                                         *)
(* Requests and keys are only ever compared for equality.  A SYMMETRY      *)
(* would forbid liveness, so they are put in order instead: requests are   *)
(* taken up in theirs, only the first may have no key, and the second key  *)
(* is used after the first.                                                *)
(***************************************************************************)
EXTENDS CodexSessions, TLC

InOrder ==
  /\ \A r, s \in Req : r < s /\ pc'[s] # "new" => pc'[r] # "new"
  /\ \A r \in Req \ {1} : pc'[r] # "new" => key'[r] # NoKey
  /\ key'[1] # 2 /\ (key'[2] = 2 => key'[1] = 1)

OrderedSpec == Init /\ [][Next /\ InOrder]_vars /\ Fairness

Symmetry == Permutations(Req) \cup Permutations(Key)
=============================================================================
