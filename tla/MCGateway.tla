----------------------------- MODULE MCGateway -----------------------------
(***************************************************************************)
(* Three requests of one session, two models whose public names collide    *)
(* and a third that owns the name the second is given.  A name is written  *)
(* as a sequence, so that Numbered appends to it.  Requests differ in      *)
(* nothing but their identity, so they may as well begin in the order of   *)
(* their numbers; and two models are enough for turns that compete for a   *)
(* gate, so only the last request asks for the third: three of them        *)
(* compete for the slots.                                                  *)
(***************************************************************************)
EXTENDS Gateway

MCModel == {<<"a.b">>, <<"a-b">>, <<"a-b", 2>>}
MCLists == {<< <<"a-b">> >>, << <<"a.b">>, <<"a-b", 2>>, <<"a-b">> >>}
MCSlug(m, i) == IF m = <<"a.b">> THEN <<"a-b">> ELSE m
MCNumbered(name, n) == Append(name, n)
MCDefault == <<"default">>
MCModelMap == [name \in {MCDefault} |-> <<"a-b">>]
MCAliasesIn == [name \in {} |-> {}]

\* an account that offers a model with a Claude name beside the default one
MCClaude == <<"claude-sonnet">>
MCClaudeModel == {<<"a-b">>, MCClaude}
MCClaudeLists == {<< <<"a-b">>, MCClaude >>}
MCClaudeSlug(m, i) == m
MCClaudeAliasesIn == [name \in {MCClaude} |-> {}]

InOrder ==
  /\ \A r \in Req \ {1} : pc'[r] # "idle" => pc[r - 1] # "idle"
  /\ \A r \in Req \ {3} : key'[r] # None => key'[r][2] # <<"a-b", 2>>

OrderedSpec == Init /\ [][Next /\ InOrder]_vars /\ \A r \in Req : SF_vars(Handle(r))
=============================================================================
