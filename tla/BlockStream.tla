----------------------------- MODULE BlockStream -----------------------------
(***************************************************************************)
(* What a streaming client is promised by every provider, with none of the *)
(* mechanism: content blocks are started in the order of their index, grow *)
(* while they are open and are closed once; a stream ends once; and it     *)
(* ends in success only when every block is closed.                        *)
(***************************************************************************)
EXTENDS Integers

CONSTANT MaxBlock    \* bound on the blocks of a stream

VARIABLES
  block,   \* the state of each block
  text,    \* how much of it the client has
  end      \* how the stream has ended

streamVars == <<block, text, end>>

Block == 1..MaxBlock

StreamInit ==
  /\ block = [k \in Block |-> "none"]
  /\ text = [k \in Block |-> 0]
  /\ end = "no"

\* where a block may be after one that is in state s
After(s) ==
  CASE s = "none"   -> {"none", "open", "closed"}
    [] s = "open"   -> {"open", "closed"}
    [] s = "closed" -> {"closed"}

Started == {k \in Block : block[k] # "none"}

\* some blocks start, grow or close; what is closed stays as it is
Grow ==
  /\ \A k \in Block :
       /\ block'[k] \in After(block[k])
       /\ text'[k] >= text[k]
       /\ block[k] = "closed" => text'[k] = text[k]
       /\ block'[k] = "none" => text'[k] = 0
  /\ \A k \in Started' : 1..k \subseteq Started'

Continue ==
  /\ end = "no"
  /\ Grow
  /\ UNCHANGED end

Succeed ==
  /\ end = "no"
  /\ Grow
  /\ \A k \in Block : block'[k] # "open"
  /\ end' = "ok"

Fail ==
  /\ end = "no"
  /\ Grow
  /\ end' = "error"

StreamNext == Continue \/ Succeed \/ Fail

StreamSpec == StreamInit /\ [][StreamNext]_streamVars
=============================================================================
