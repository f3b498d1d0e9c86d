------------------------ MODULE ProviderTurn_proofs ------------------------
(***************************************************************************)
(* Theorems about ProviderTurn for turns of any length.                    *)
(*                                                                         *)
(* Success and processes: a process runs only for OpenCode, and the one    *)
(* way from it to the end of Generate waits for it; a result is decided    *)
(* only where the upstream has completed the turn or a call is among the   *)
(* blocks, and whatever happens between that and the end leaves it so: a   *)
(* process that exits with status 0 has completed its turn unless it has   *)
(* reported an error.                                                      *)
(*                                                                         *)
(* The stream: what a step shows is built from the encoders' start, delta  *)
(* and stop, and each of them keeps a view Allowed, which is what the      *)
(* abstract stream lets a block do.  Codex's encoder guards itself.        *)
(* Claude Code's writes what it is given, so there the provider has to:    *)
(* HeldInv says which blocks it may count on.                              *)
(***************************************************************************)
EXTENDS ProviderTurn, SequenceTheorems, TLAPS

(* Success and processes                                                   *)

HasCall == \E k \in DOMAIN blocks : blocks[k].kind = "tool"

Block == [kind : Kind \cup {"gap"}, text : Nat]

\* the values and the places of each provider
PlaceInv ==
  /\ provider \in {"anthropic", "codex", "opencode"}
  /\ blocks \in Seq(Block)
  /\ result \in {"none", "ok", "error"}
  /\ pc \in {"start", "read"} => result = "none"
  /\ pc = "wait" => provider = "opencode"
  /\ grace => provider = "codex"

\* A process belongs to OpenCode's turn, and is reaped on the way to its end.
ProcInv ==
  /\ proc # "none" => provider = "opencode"
  /\ pc = "start" => proc = "none"
  /\ ProcessReaped

\* what the process has said of the turn
SaidInv ==
  provider = "opencode" =>
    /\ proc \in {"none", "running"} /\ ~eventError => upstream = "running"
    /\ proc = "exit0" /\ ~eventError => upstream = "complete"

\* a call that is waited on has been seen, and success is earned
EarnedInv ==
  /\ grace => HasCall
  /\ pc = "wait" /\ result = "ok" => HasCall
  /\ SuccessIsWhole

IInv == PlaceInv /\ ProcInv /\ SaidInv /\ EarnedInv

\* A new block leaves the calls among the others, and may be one itself.
LEMMA AppendBlock ==
  ASSUME blocks \in Seq(Block), NEW kind \in Kind, blocks' = Append(blocks, [kind |-> kind, text |-> 1])
  PROVE  /\ blocks' \in Seq(Block)
         /\ HasCall \/ kind = "tool" => HasCall'
<1>1. [kind |-> kind, text |-> 1] \in Block
  BY DEF Block
<1>2. DOMAIN blocks' = 1..(Len(blocks) + 1) /\ DOMAIN blocks = 1..Len(blocks) /\ Len(blocks) \in Nat
  BY <1>1
<1>3. blocks'[Len(blocks) + 1].kind = "tool" <=> kind = "tool"
  BY <1>1
<1>4. \A k \in DOMAIN blocks : blocks'[k] = blocks[k] /\ k \in DOMAIN blocks'
  BY <1>1, <1>2
<1> QED
  BY <1>1, <1>2, <1>3, <1>4 DEF HasCall

\* A piece more leaves the calls as they are.
LEMMA GrowBlock ==
  ASSUME blocks \in Seq(Block), NEW k \in DOMAIN blocks, blocks' = [blocks EXCEPT ![k].text = @ + 1]
  PROVE  blocks' \in Seq(Block) /\ (HasCall => HasCall')
<1>1. blocks[k] \in Block
  OBVIOUS
<1>2. [blocks[k] EXCEPT !.text = @ + 1] \in Block /\ [blocks[k] EXCEPT !.text = @ + 1].kind = blocks[k].kind
  <2>1. blocks[k].text + 1 \in Nat /\ blocks[k].kind \in Kind \cup {"gap"}
    BY <1>1 DEF Block
  <2>2. [blocks[k] EXCEPT !.text = @ + 1] = [kind |-> blocks[k].kind, text |-> blocks[k].text + 1]
    BY <1>1 DEF Block
  <2> QED
    BY <2>1, <2>2 DEF Block
<1>3. blocks' = [blocks EXCEPT ![k] = [blocks[k] EXCEPT !.text = @ + 1]]
  OBVIOUS
<1>4. blocks' \in Seq(Block)
  BY <1>2, <1>3
<1>5. \A j \in DOMAIN blocks : j \in DOMAIN blocks' /\ blocks'[j].kind = blocks[j].kind
  BY <1>2, <1>3
<1> QED
  BY <1>4, <1>5 DEF HasCall

LEMMA InitInv == Init => IInv
<1> SUFFICES ASSUME Init PROVE IInv
  OBVIOUS
<1>1. provider \in {"anthropic", "codex", "opencode"}
  BY DEF Init, Pairs
<1> QED
  BY <1>1 DEF Init, IInv, PlaceInv, ProcInv, SaidInv, EarnedInv, ProcessReaped, SuccessIsWhole

LEMMA NextInv == IInv /\ [Next]_vars => IInv'
<1> SUFFICES ASSUME IInv, [Next]_vars PROVE IInv'
  OBVIOUS
<1> USE DEF IInv, PlaceInv, ProcInv, SaidInv, EarnedInv, ProcessReaped, SuccessIsWhole
<1>1. CASE Leave
  BY <1>1 DEF Leave, config, loop, HasCall
<1>2. CASE Begin
  BY <1>2 DEF Begin, GoOn, config, loop, HasCall
<1>3. CASE BeginFails
  BY <1>3 DEF BeginFails, Return, config, loop, process, HasCall
<1>4. CASE Anthropic
  <2>1. ASSUME NEW k \in Index, NEW kind \in {"text", "tool"}, BlockStart(k, kind) PROVE IInv'
    <3>1. blocks' \in Seq(Block)
      <4> DEFINE n == IF k > Len(blocks) THEN k ELSE Len(blocks)
      <4> DEFINE b == [j \in 1..n |-> IF j = k THEN [kind |-> kind, text |-> 0]
                  ELSE IF j \in DOMAIN blocks THEN blocks[j] ELSE [kind |-> "gap", text |-> 0]]
      <4>1. n \in Nat
        BY DEF Index
      <4>2. \A j \in 1..n : b[j] \in Block
        <5>1. [kind |-> kind, text |-> 0] \in Block /\ [kind |-> "gap", text |-> 0] \in Block
          BY DEF Block, Kind
        <5>2. \A j \in DOMAIN blocks : blocks[j] \in Block
          OBVIOUS
        <5> HIDE DEF IInv
        <5> QED
          BY <5>1, <5>2
      <4>3. b \in [1..n -> Block]
        BY <4>2
      <4>4. b \in Seq(Block)
        <5> HIDE DEF b, n
        <5> QED
          BY <4>1, <4>3, SeqDef
      <4> QED
        BY <2>1, <4>4 DEF BlockStart
    <3> QED
      BY <2>1, <3>1 DEF BlockStart, Receives, Reads, GoOn, config, process
  <2>2. ASSUME NEW k \in Index, BlockDelta(k) PROVE IInv'
    <3>1. blocks' \in Seq(Block)
      BY <2>2, GrowBlock DEF BlockDelta
    <3> QED
      BY <2>2, <3>1 DEF BlockDelta, Receives, Reads, GoOn, config, process
  <2>3. ASSUME NEW k \in Index, BlockStop(k) PROVE IInv'
    BY <2>3 DEF BlockStop, Receives, Reads, GoOn, config, process
  <2>4. CASE MessageStop
    BY <2>4 DEF MessageStop, Receives, Reads, GoOn, config, process
  <2>5. CASE BodyFails
    BY <2>5 DEF BodyFails, Reads, Return, config, loop, process
  <2>6. CASE BodyEnds
    BY <2>6 DEF BodyEnds, Finalized, Reads, Return, config, loop, process
  <2> QED
    BY <1>4, <2>1, <2>2, <2>3, <2>4, <2>5, <2>6 DEF Anthropic
<1>5. CASE Codex
  <2>1. ASSUME NEW k \in Index, NEW kind \in {"text", "thinking"}, TurnDelta(k, kind) PROVE IInv'
    <3>1. CASE k = Fresh
      <4>1. blocks' = Append(blocks, [kind |-> kind, text |-> 1])
        BY <2>1, <3>1 DEF TurnDelta
      <4>2. blocks' \in Seq(Block) /\ (HasCall => HasCall')
        BY <4>1, AppendBlock DEF Kind
      <4> QED
        BY <2>1, <4>2 DEF TurnDelta, Turn, Reads, GoOn, config, process
    <3>2. CASE k # Fresh
      <4>1. k \in DOMAIN blocks \/ k \notin DOMAIN blocks
        OBVIOUS
      <4>2. blocks' = [blocks EXCEPT ![k].text = @ + 1]
        BY <2>1, <3>2 DEF TurnDelta
      <4>3. CASE k \in DOMAIN blocks
        <5>1. blocks' \in Seq(Block) /\ (HasCall => HasCall')
          BY <4>2, <4>3, GrowBlock
        <5> QED
          BY <2>1, <5>1 DEF TurnDelta, Turn, Reads, GoOn, config, process
      <4>4. CASE k \notin DOMAIN blocks
        <5>1. blocks' = blocks
          BY <4>2, <4>4
        <5> QED
          BY <2>1, <5>1 DEF TurnDelta, Turn, Reads, GoOn, config, process, HasCall
      <4> QED
        BY <4>3, <4>4
    <3> QED
      BY <3>1, <3>2
  <2>2. ASSUME NEW k \in Index, ReasoningDone(k) PROVE IInv'
    BY <2>2 DEF ReasoningDone, Turn, Reads, GoOn, config, process, HasCall
  <2>3. CASE ToolCall
    <3>1. blocks' = Append(blocks, [kind |-> "tool", text |-> 1])
      BY <2>3 DEF ToolCall
    <3>2. blocks' \in Seq(Block) /\ HasCall'
      BY <3>1, AppendBlock DEF Kind
    <3> QED
      BY <2>3, <3>2 DEF ToolCall, Turn, Reads, GoOn, Return, config, process, HasCall
  <2>4. CASE GraceEnds
    BY <2>4 DEF GraceEnds, Reads, Return, config, loop, process, HasCall
  <2>5. CASE TurnCompleted
    BY <2>5 DEF TurnCompleted, Reads, Return, GoOn, config, process, HasCall
  <2>6. CASE TurnFails
    BY <2>6 DEF TurnFails, Reads, Return, config, loop, process, HasCall
  <2> QED
    BY <1>5, <2>1, <2>2, <2>3, <2>4, <2>5, <2>6 DEF Codex
<1>6. CASE OpenCode
  <2>1. ASSUME NEW kind \in {"text", "thinking"}, OutputPart(kind) PROVE IInv'
    <3>1. blocks' \in Seq(Block) /\ (HasCall => HasCall')
      BY <2>1, AppendBlock DEF OutputPart, Kind
    <3> QED
      BY <2>1, <3>1 DEF OutputPart, Scan, Abandon, WaitFor, Reads, GoOn, config
  <2>2. CASE OutputCall
    <3>1. blocks' \in Seq(Block) /\ HasCall'
      BY <2>2, AppendBlock DEF OutputCall, Kind
    <3> QED
      BY <2>2, <3>1 DEF OutputCall, Scan, Abandon, WaitFor, Reads, config
  <2>3. CASE OutputError
    BY <2>3 DEF OutputError, Scan, Reads, GoOn, config, HasCall
  <2>4. CASE OutputOther
    BY <2>4 DEF OutputOther, Scan, Reads, GoOn, config, HasCall
  <2>5. ASSUME NEW status \in {"exit0", "exit1"}, Exit(status) PROVE IInv'
    BY <2>5 DEF Exit, config, HasCall
  <2>6. CASE Killed
    BY <2>5, <2>6 DEF Killed
  <2>7. CASE OutputEnds
    BY <2>7 DEF OutputEnds, WaitFor, Reads, config, loop, process, HasCall
  <2>8. CASE ScanFails
    BY <2>8 DEF ScanFails, WaitFor, Reads, config, loop, process, HasCall
  <2>9. CASE Wait
    BY <2>9 DEF Wait, Outcome, Return, config, loop, HasCall
  <2>10. CASE Idle
    BY <2>10 DEF Idle, Watched, config, loop, HasCall
  <2>11. CASE Expire
    BY <2>11 DEF Expire, Watched, config, loop, HasCall
  <2> QED
    BY <1>6, <2>1, <2>2, <2>3, <2>4, <2>5, <2>6, <2>7, <2>8, <2>9, <2>10, <2>11 DEF OpenCode
<1>7. CASE UNCHANGED vars
  BY <1>7 DEF vars, config, loop, process, HasCall
<1> QED
  BY <1>1, <1>2, <1>3, <1>4, <1>5, <1>6, <1>7 DEF Next

LEMMA Invariance == Spec => []IInv
BY InitInv, NextInv, PTL DEF Spec

\* A turn succeeds only when its upstream has completed it, or with a call
\* that the client is to run, however long the turn is.
THEOREM SuccessEarned == Spec => []SuccessIsWhole
<1>1. IInv => SuccessIsWhole
  BY DEF IInv, EarnedInv
<1> QED
  BY <1>1, Invariance, PTL

\* No OpenCode process outlives its Generate, whichever way that returns.
THEOREM NoProcessLeft == Spec => []ProcessReaped
<1>1. IInv => ProcessReaped
  BY DEF IInv, ProcInv
<1> QED
  BY <1>1, Invariance, PTL

----------------------------------------------------------------------------
(* Types                                                                   *)

Viewed == [state : {"none", "open", "closed"}, text : Nat]
View == [Index -> Viewed]
Held == [kind : Kind \cup {"gap"}, text : 0..MaxPiece]

LEMMA AppendType ==
  ASSUME NEW S, NEW s \in Seq(S), NEW e \in S
  PROVE  /\ Append(s, e) \in Seq(S) /\ Len(s) \in Nat /\ Len(Append(s, e)) = Len(s) + 1
         /\ DOMAIN s = 1..Len(s) /\ DOMAIN Append(s, e) = 1..(Len(s) + 1)
         /\ \A j \in 1..Len(s) : Append(s, e)[j] = s[j]
         /\ Append(s, e)[Len(s) + 1] = e
OBVIOUS

\* What the encoders do to a view, block by block.
LEMMA StartAt ==
  ASSUME NEW v \in View, NEW k \in Index
  PROVE  /\ Start(v, k) \in View
         /\ \A j \in Index : Start(v, k)[j] =
              IF j = k /\ (client = "messages" \/ v[k].state = "none")
              THEN [state |-> "open", text |-> v[j].text] ELSE v[j]
<1>1. [v[k] EXCEPT !.state = "open"] = [state |-> "open", text |-> v[k].text]
      /\ [state |-> "open", text |-> v[k].text] \in Viewed
  BY DEF View, Viewed
<1> QED
  BY <1>1 DEF Start, View

LEMMA DeltaAt ==
  ASSUME NEW v \in View, NEW k \in Index, NEW n \in Nat
  PROVE  /\ Delta(v, k, n) \in View
         /\ \A j \in Index : Delta(v, k, n)[j] =
              IF j = k /\ Heard(v, k)
              THEN [state |-> v[j].state, text |-> v[j].text + n] ELSE v[j]
<1>1. v[k] \in Viewed
  BY DEF View
<1>2. v[k].text + n \in Nat
  BY <1>1 DEF Viewed
<1>3. [v[k] EXCEPT !.text = @ + n] = [state |-> v[k].state, text |-> v[k].text + n]
      /\ [state |-> v[k].state, text |-> v[k].text + n] \in Viewed
  BY <1>1, <1>2 DEF Viewed
<1> QED
  BY <1>3 DEF Delta, View

LEMMA StopAt ==
  ASSUME NEW v \in View, NEW ks
  PROVE  /\ Stop(v, ks) \in View
         /\ \A j \in Index : Stop(v, ks)[j] =
              IF j \in ks /\ Heard(v, j) THEN [state |-> "closed", text |-> v[j].text] ELSE v[j]
<1>1. ASSUME NEW j \in Index
      PROVE  /\ [v[j] EXCEPT !.state = "closed"] = [state |-> "closed", text |-> v[j].text]
             /\ [state |-> "closed", text |-> v[j].text] \in Viewed
  BY DEF View, Viewed
<1> QED
  BY <1>1 DEF Stop, View

LEMMA ShowType ==
  ASSUME NEW v \in View, order \in Seq(Index), Show(v)
  PROVE  view' \in View /\ order' \in Seq(Index)
<1> DEFINE started == {k \in Index : view[k].state = "none" /\ v[k].state # "none"}
<1>1. started # {} => (CHOOSE k \in started : TRUE) \in Index
  OBVIOUS
<1>2. view' = v /\ order' = IF started = {} THEN order ELSE Append(order, CHOOSE k \in started : TRUE)
  BY DEF Show
<1> HIDE DEF started
<1> QED
  BY <1>1, <1>2

LEMMA ReturnType ==
  ASSUME NEW v \in View, order \in Seq(Index), NEW how \in {"ok", "error"}, Return(how, v)
  PROVE  /\ view' \in View /\ order' \in Seq(Index)
         /\ msg' \in {"ended", "error"} /\ pc' = "end" /\ result' = how
<1>1. Stop(v, {k \in Index : v[k].state = "open"}) \in View
  BY StopAt
<1> QED
  BY <1>1, ShowType DEF Return

LEMMA InitType == Init => TypeOK
<1> SUFFICES ASSUME Init PROVE TypeOK
  OBVIOUS
<1>1. provider \in {"anthropic", "codex", "opencode"} /\ <<provider, client>> \in Pairs
  BY DEF Init, Pairs
<1>2. view \in [Index -> [state : {"none", "open", "closed"}, text : Nat]]
  BY DEF Init
<1>3. blocks \in Seq([kind : Kind \cup {"gap"}, text : 0..MaxPiece]) /\ Len(blocks) = 0 /\ order \in Seq(Index)
      /\ DOMAIN blocks = {}
  BY DEF Init
<1>4. 0 \in 0..MaxPing /\ 0 <= MaxBlock
  BY BoundAssumption
<1> QED
  BY <1>1, <1>2, <1>3, <1>4 DEF Init, TypeOK

\* What a step that leaves the rest alone has to say for itself.
LEMMA StepType ==
  ASSUME TypeOK, UNCHANGED config,
         pc' \in {"start", "read", "wait", "end"}, result' \in {"none", "ok", "error"},
         blocks' \in Seq(Held), Len(blocks') <= MaxBlock, live' \subseteq DOMAIN blocks',
         upstream' \in {"running", "complete", "failed"}, grace' \in BOOLEAN,
         msg' \in {"none", "started", "ended", "error"}, view' \in View, order' \in Seq(Index),
         proc' \in {"none", "running", "exit0", "exit1", "reaped"},
         eventError' \in BOOLEAN, cancelled' \in BOOLEAN, timedOut' \in BOOLEAN, quiet' \in BOOLEAN,
         pings' \in 0..MaxPing, gone' \in BOOLEAN
  PROVE  TypeOK'
BY DEF TypeOK, config, Held, View, Viewed

LEMMA TypeFacts ==
  ASSUME TypeOK
  PROVE  /\ blocks \in Seq(Held) /\ Len(blocks) \in Nat /\ DOMAIN blocks = 1..Len(blocks)
         /\ Len(blocks) <= MaxBlock /\ live \subseteq DOMAIN blocks
         /\ \A k \in DOMAIN blocks : blocks[k] \in Held
         /\ view \in View /\ order \in Seq(Index) /\ Len(order) \in Nat
         /\ MaxBlock \in Nat /\ MaxPiece \in Nat /\ 1 \in 0..MaxPiece /\ 0 \in 0..MaxPiece
         /\ DOMAIN blocks \subseteq Index
         /\ Fresh = Len(blocks) + 1 /\ (Fresh <= MaxBlock => Fresh \in Index)
         /\ \A kind \in Kind : [kind |-> kind, text |-> 1] \in Held /\ [kind |-> kind, text |-> 0] \in Held
         /\ [kind |-> "gap", text |-> 0] \in Held
<1>1. blocks \in Seq(Held) /\ view \in View /\ order \in Seq(Index)
  BY DEF TypeOK, Held, View, Viewed
<1>2. /\ Len(blocks) \in Nat /\ DOMAIN blocks = 1..Len(blocks) /\ Len(order) \in Nat
      /\ Len(blocks) <= MaxBlock /\ live \subseteq DOMAIN blocks
  BY <1>1 DEF TypeOK
<1>3. MaxBlock \in Nat /\ MaxPiece \in Nat /\ 1 \in 0..MaxPiece /\ 0 \in 0..MaxPiece
  BY BoundAssumption
<1>4. \A k \in DOMAIN blocks : blocks[k] \in Held
  BY <1>1
<1>5. DOMAIN blocks \subseteq Index /\ Fresh = Len(blocks) + 1 /\ (Fresh <= MaxBlock => Fresh \in Index)
  BY <1>2, <1>3 DEF Index, Fresh
<1> QED
  BY <1>1, <1>2, <1>3, <1>4, <1>5 DEF Held, Kind

LEMMA ScalarType ==
  ASSUME TypeOK
  PROVE  /\ pc \in {"start", "read", "wait", "end"} /\ result \in {"none", "ok", "error"}
         /\ upstream \in {"running", "complete", "failed"} /\ grace \in BOOLEAN
         /\ msg \in {"none", "started", "ended", "error"}
         /\ proc \in {"none", "running", "exit0", "exit1", "reaped"}
         /\ eventError \in BOOLEAN /\ cancelled \in BOOLEAN /\ timedOut \in BOOLEAN /\ quiet \in BOOLEAN
         /\ pings \in 0..MaxPing /\ gone \in BOOLEAN /\ serial \in BOOLEAN
BY DEF TypeOK

\* a block gets a piece more
LEMMA PieceType ==
  ASSUME TypeOK, NEW k \in DOMAIN blocks, blocks[k].text < MaxPiece,
         blocks' = [blocks EXCEPT ![k].text = @ + 1]
  PROVE  /\ blocks' \in Seq(Held) /\ Len(blocks') = Len(blocks) /\ DOMAIN blocks' = DOMAIN blocks
         /\ \A j \in DOMAIN blocks : blocks'[j].kind = blocks[j].kind
<1>1. blocks[k] \in Held /\ blocks \in Seq(Held) /\ MaxPiece \in Nat
  BY TypeFacts
<1>2. blocks[k].text + 1 \in 0..MaxPiece /\ blocks[k].kind \in Kind \cup {"gap"}
  BY <1>1 DEF Held
<1> DEFINE b == [kind |-> blocks[k].kind, text |-> blocks[k].text + 1]
<1>3. b \in Held /\ b.kind = blocks[k].kind
  BY <1>2 DEF Held
<1>4. [blocks[k] EXCEPT !.text = @ + 1] = b
  BY <1>1 DEF Held
<1>5. blocks' = [blocks EXCEPT ![k] = b]
  BY <1>4
<1> HIDE DEF b
<1> QED
  BY <1>1, <1>3, <1>5

LEMMA NextType == TypeOK /\ [Next]_vars => TypeOK'
<1> SUFFICES ASSUME TypeOK, [Next]_vars PROVE TypeOK'
  OBVIOUS
<1> USE TypeFacts
<1>1. CASE Leave \/ Begin
  <2>1. CASE Leave
    BY <2>1, ScalarType, StepType DEF Leave, loop, stream
  <2>2. CASE Begin
    BY <2>2, ScalarType, StepType DEF Begin, GoOn, loop, stream
  <2> QED
    BY <1>1, <2>1, <2>2
<1>2. CASE BeginFails
  <2>1. Return("error", view)
    BY <1>2 DEF BeginFails
  <2> QED
    BY <1>2, <2>1, ReturnType, ScalarType, StepType DEF BeginFails, config, loop, process
<1>3. CASE Anthropic
  <2>1. ASSUME NEW k \in Index, NEW kind \in {"text", "tool"}, BlockStart(k, kind) PROVE TypeOK'
    <3> DEFINE n == IF k > Len(blocks) THEN k ELSE Len(blocks)
               b == [j \in 1..n |-> IF j = k THEN [kind |-> kind, text |-> 0]
                       ELSE IF j \in DOMAIN blocks THEN blocks[j] ELSE [kind |-> "gap", text |-> 0]]
    <3>1. n \in Nat /\ n <= MaxBlock /\ Len(blocks) <= n /\ k \in 1..n
      BY DEF Index
    <3>2. b \in [1..n -> Held]
      BY DEF Kind
    <3>3. b \in Seq(Held) /\ Len(b) = n /\ DOMAIN b = 1..n
      <4> HIDE DEF b, n
      <4>1. DOMAIN b = 1..n /\ b \in Seq(Held)
        BY <3>1, <3>2, SeqDef
      <4> QED
        BY <3>1, <4>1
    <3>4. blocks' = b
      BY <2>1 DEF BlockStart
    <3>5. live' \subseteq DOMAIN b
      <4>1. live \subseteq 1..Len(blocks) /\ live' = live \cup {k}
        BY <2>1 DEF BlockStart, TypeOK
      <4> HIDE DEF b, n
      <4> QED
        BY <3>1, <3>3, <4>1
    <3>6. view' \in View /\ order' \in Seq(Index) /\ msg' = "started"
      BY <2>1, StartAt, ShowType DEF BlockStart, Emit
    <3> HIDE DEF b, n
    <3>7. blocks' \in Seq(Held) /\ Len(blocks') <= MaxBlock /\ live' \subseteq DOMAIN blocks'
      BY <3>1, <3>3, <3>4, <3>5
    <3>8. UNCHANGED <<config, grace, process, gone, upstream>> /\ GoOn
      BY <2>1 DEF BlockStart, Receives
    <3> QED
      BY <3>6, <3>7, <3>8, ScalarType, StepType DEF GoOn, process
  <2>2. ASSUME NEW k \in Index, BlockDelta(k) PROVE TypeOK'
    <3>1. view' \in View /\ order' \in Seq(Index) /\ msg' = "started"
      BY <2>2, DeltaAt, ShowType DEF BlockDelta, Emit
    <3>2. blocks' \in Seq(Held) /\ Len(blocks') = Len(blocks) /\ DOMAIN blocks' = DOMAIN blocks
      BY <2>2, PieceType DEF BlockDelta
    <3> QED
      BY <2>2, <3>1, <3>2, ScalarType, StepType DEF BlockDelta, Receives, GoOn, process
  <2>3. ASSUME NEW k \in Index, BlockStop(k) PROVE TypeOK'
    <3>1. view' \in View /\ order' \in Seq(Index) /\ msg' \in {msg, "started"}
      BY <2>3, StopAt, ShowType DEF BlockStop, Emit, Silent, stream
    <3> QED
      BY <2>3, <3>1, ScalarType, StepType DEF BlockStop, Receives, GoOn, process
  <2>4. CASE MessageStop
    BY <2>4 DEF MessageStop, Receives, GoOn, TypeOK, config, process, stream
  <2>5. CASE BodyFails \/ BodyEnds
    <3>1. \E how \in {"ok", "error"} : Return(how, view)
      BY <2>5 DEF BodyFails, BodyEnds
    <3>2. UNCHANGED <<config, blocks, loop, process, gone>>
      BY <2>5 DEF BodyFails, BodyEnds
    <3> QED
      BY <3>1, <3>2, ReturnType, ScalarType, StepType DEF loop, process
  <2> QED
    BY <1>3, <2>1, <2>2, <2>3, <2>4, <2>5 DEF Anthropic
<1>4. CASE Codex
  <2>1. ASSUME NEW k \in Index, NEW kind \in {"text", "thinking"}, TurnDelta(k, kind) PROVE TypeOK'
    <3>1. view' \in View /\ order' \in Seq(Index) /\ msg' = "started"
      BY <2>1, StartAt, DeltaAt, ShowType DEF TurnDelta, Emit
    <3>2. blocks' \in Seq(Held) /\ Len(blocks') <= MaxBlock /\ live' \subseteq DOMAIN blocks'
      <4>1. CASE k = Fresh
        <5>1. blocks' = Append(blocks, [kind |-> kind, text |-> 1]) /\ live' = live \cup {k} /\ k <= MaxBlock
          BY <2>1, <4>1 DEF TurnDelta
        <5>2. [kind |-> kind, text |-> 1] \in Held
          BY DEF Kind
        <5>3. blocks' \in Seq(Held) /\ Len(blocks') = Len(blocks) + 1 /\ DOMAIN blocks' = 1..(Len(blocks) + 1)
          BY <5>1, <5>2, AppendType
        <5> QED
          BY <4>1, <5>1, <5>3
      <4>2. CASE k # Fresh
        <5>1. k \in live /\ blocks[k].text < MaxPiece /\ blocks' = [blocks EXCEPT ![k].text = @ + 1] /\ live' = live
          BY <2>1, <4>2 DEF TurnDelta
        <5> QED
          BY <5>1, PieceType DEF TypeOK
      <4> QED
        BY <4>1, <4>2
    <3> QED
      BY <2>1, <3>1, <3>2, ScalarType, StepType DEF TurnDelta, Turn, GoOn, process
  <2>2. ASSUME NEW k \in Index, ReasoningDone(k) PROVE TypeOK'
    <3>1. view' \in View /\ order' \in Seq(Index) /\ msg' = "started"
      BY <2>2, StopAt, ShowType DEF ReasoningDone, Emit
    <3>2. UNCHANGED <<config, process, gone, blocks, upstream, grace>> /\ GoOn /\ live' \subseteq live
      BY <2>2 DEF ReasoningDone, Turn
    <3> QED
      BY <3>1, <3>2, ScalarType, StepType DEF GoOn, process
  <2>3. CASE ToolCall
    <3> DEFINE stopped == Stop(view, LiveText)
               shown == Delta(Start(stopped, Fresh), Fresh, 1)
    <3>1. Fresh \in Index
      BY <2>3 DEF ToolCall
    <3>2. shown \in View /\ Stop(shown, {Fresh}) \in View
      <4>1. stopped \in View
        BY StopAt
      <4>2. Start(stopped, Fresh) \in View
        <5> HIDE DEF stopped
        <5> QED
          BY <3>1, <4>1, StartAt
      <4>3. shown \in View
        <5> HIDE DEF stopped
        <5> QED
          BY <3>1, <4>2, DeltaAt
      <4> HIDE DEF shown
      <4> QED
        BY <4>3, StopAt
    <3>3. /\ UNCHANGED <<config, process, gone, upstream>> /\ grace' \in BOOLEAN /\ Fresh <= MaxBlock
          /\ blocks' = Append(blocks, [kind |-> "tool", text |-> 1]) /\ live' \subseteq live
          /\ \/ \E how \in {"ok", "error"} : Return(how, Stop(shown, {Fresh}))
             \/ Emit(shown) /\ GoOn
      BY <2>3 DEF ToolCall, Turn, AfterCall
    <3> HIDE DEF shown
    <3>4. /\ view' \in View /\ order' \in Seq(Index) /\ msg' \in {"started", "ended", "error"}
          /\ pc' \in {"read", "end"} /\ result' \in {result, "ok", "error"}
      BY <3>2, <3>3, ShowType, ReturnType DEF Emit, GoOn
    <3>5. blocks' \in Seq(Held) /\ Len(blocks') <= MaxBlock /\ live' \subseteq DOMAIN blocks'
      <4>1. [kind |-> "tool", text |-> 1] \in Held
        BY DEF Kind
      <4>2. blocks' \in Seq(Held) /\ Len(blocks') = Len(blocks) + 1 /\ DOMAIN blocks' = 1..(Len(blocks) + 1)
        BY <3>3, <4>1, AppendType
      <4> QED
        BY <3>3, <4>2
    <3> QED
      BY <3>3, <3>4, <3>5, ScalarType, StepType DEF process
  <2>4. CASE GraceEnds
    <3>1. \E how \in {"ok", "error"} :
            Return(how, IF EmitFails THEN view ELSE Stop(view, {k \in DOMAIN blocks : blocks[k].kind = "tool"}))
      BY <2>4 DEF GraceEnds
    <3>2. (IF EmitFails THEN view ELSE Stop(view, {k \in DOMAIN blocks : blocks[k].kind = "tool"})) \in View
      BY StopAt
    <3>3. UNCHANGED <<config, blocks, loop, process, gone>>
      BY <2>4 DEF GraceEnds
    <3> QED
      BY <3>1, <3>2, <3>3, ReturnType, ScalarType, StepType DEF loop, process
  <2>5. CASE TurnCompleted
    <3>1. \/ GoOn /\ Silent
          \/ Return("error", view)
          \/ Return("ok", Stop(view, LiveText))
      BY <2>5 DEF TurnCompleted
    <3>2. UNCHANGED <<config, blocks, live, grace, process, gone>> /\ upstream' = "complete"
      BY <2>5 DEF TurnCompleted
    <3>3. /\ view' \in View /\ order' \in Seq(Index) /\ msg' \in {msg, "ended", "error"}
          /\ pc' \in {"read", "end"} /\ result' \in {result, "ok", "error"}
      BY <3>1, StopAt, ReturnType DEF GoOn, Silent, stream
    <3> QED
      BY <3>2, <3>3, ScalarType, StepType DEF process
  <2>6. CASE TurnFails
    <3>1. Return("error", view)
      BY <2>6 DEF TurnFails
    <3> QED
      BY <2>6, <3>1, ReturnType, ScalarType, StepType DEF TurnFails, loop, process
  <2> QED
    BY <1>4, <2>1, <2>2, <2>3, <2>4, <2>5, <2>6 DEF Codex
<1>5. CASE OpenCode
  <2>1. ASSUME Fresh \in Index PROVE Shown \in View
    <3>1. Start(view, Fresh) \in View
      BY <2>1, StartAt
    <3>2. Delta(Start(view, Fresh), Fresh, 1) \in View
      BY <2>1, <3>1, DeltaAt
    <3> QED
      BY <3>2, StopAt DEF Shown
  <2>2. ASSUME NEW kind \in Kind, Scan, Fresh <= MaxBlock,
               blocks' = Append(blocks, [kind |-> kind, text |-> 1]),
               Abandon \/ (Emit(Shown) /\ (GoOn \/ WaitFor("ok")) /\ cancelled' \in BOOLEAN),
               UNCHANGED <<upstream, eventError, pings>>
        PROVE  TypeOK'
    <3>1. /\ view' \in View /\ order' \in Seq(Index) /\ msg' \in {msg, "started"} /\ cancelled' \in BOOLEAN
          /\ pc' \in {"read", "wait"} /\ result' \in {result, "ok", "error"}
      <4>1. CASE Abandon
        BY <4>1 DEF Abandon, WaitFor, Silent, stream
      <4>2. CASE Emit(Shown) /\ (GoOn \/ WaitFor("ok")) /\ cancelled' \in BOOLEAN
        BY <2>1, <2>2, <4>2, ShowType DEF Emit, WaitFor, GoOn
      <4> QED
        BY <2>2, <4>1, <4>2
    <3>2. blocks' \in Seq(Held) /\ Len(blocks') <= MaxBlock /\ live' \subseteq DOMAIN blocks'
      <4>1. live' = live
        BY <2>2 DEF Scan
      <4>2. [kind |-> kind, text |-> 1] \in Held
        OBVIOUS
      <4>3. blocks' \in Seq(Held) /\ Len(blocks') = Len(blocks) + 1 /\ DOMAIN blocks' = 1..(Len(blocks) + 1)
        BY <2>2, <4>2, AppendType
      <4> QED
        BY <2>2, <4>1, <4>3 DEF Fresh, TypeOK
    <3>3. UNCHANGED <<config, grace, proc, timedOut, gone, upstream, eventError, pings>> /\ quiet' \in BOOLEAN
      BY <2>2 DEF Scan
    <3> QED
      BY <3>1, <3>2, <3>3, ScalarType, StepType
  <2>3. ASSUME NEW kind \in {"text", "thinking"}, OutputPart(kind) PROVE TypeOK'
    <3>1. cancelled \in BOOLEAN
      BY DEF TypeOK
    <3> QED
      BY <2>2, <2>3, <3>1 DEF OutputPart, Kind
  <2>4. CASE OutputCall
    BY <2>2, <2>4 DEF OutputCall, Kind
  <2>5. CASE OutputError \/ OutputOther
    <3>1. /\ UNCHANGED <<config, blocks, live, grace, proc, timedOut, gone, cancelled, stream>> /\ GoOn
          /\ quiet' \in BOOLEAN /\ pings < MaxPing /\ pings' = pings + 1
          /\ upstream' \in {upstream, "failed"} /\ eventError' \in BOOLEAN
      BY <2>5 DEF OutputError, OutputOther, Scan, Silent, TypeOK
    <3>2. pings' \in 0..MaxPing
      BY <3>1, BoundAssumption DEF TypeOK
    <3> QED
      BY <3>1, <3>2, ScalarType, StepType DEF GoOn, stream
  <2>6. ASSUME NEW status \in {"exit0", "exit1"}, Exit(status) PROVE TypeOK'
    BY <2>6, ScalarType, StepType DEF Exit, stream
  <2>7. CASE Killed
    BY <2>6, <2>7 DEF Killed
  <2>8. CASE OutputEnds \/ ScanFails
    <3>1. UNCHANGED <<config, blocks, loop, process, gone, stream>> /\ pc' = "wait" /\ result' \in {"none", "error"}
      BY <2>8 DEF OutputEnds, ScanFails, WaitFor, Silent
    <3> QED
      BY <3>1, ScalarType, StepType DEF stream, loop, process
  <2>9. CASE Wait
    <3>1. Return(Outcome, view) /\ Outcome \in {"ok", "error"}
      BY <2>9 DEF Wait, Outcome, TypeOK
    <3> QED
      BY <2>9, <3>1, ReturnType, ScalarType, StepType DEF Wait, loop
  <2>10. CASE Idle \/ Expire
    <3>1. CASE Idle
      BY <3>1, ScalarType, StepType DEF Idle, loop, stream
    <3>2. CASE Expire
      BY <3>2, ScalarType, StepType DEF Expire, loop, stream
    <3> QED
      BY <2>10, <3>1, <3>2
  <2> QED
    BY <1>5, <2>3, <2>4, <2>5, <2>6, <2>7, <2>8, <2>9, <2>10 DEF OpenCode
<1>6. CASE UNCHANGED vars
  BY <1>6 DEF vars, config, loop, process, stream, TypeOK
<1> QED
  BY <1>1, <1>2, <1>3, <1>4, <1>5, <1>6 DEF Next

----------------------------------------------------------------------------
(* The stream to the client                                                *)

\* the order has every block once that was started
OrderInv ==
  /\ \A j, k \in 1..Len(order) : order[j] = order[k] => j = k
  /\ \A k \in Index : view[k].state # "none" <=> \E j \in 1..Len(order) : order[j] = k

\* nothing is shown of a block before its start, and nothing after the end
ShownInv ==
  /\ \A k \in Index : view[k].state = "none" => view[k].text = 0
  /\ pc = "end" <=> msg \in {"ended", "error"}

\* Claude Code's encoder writes what it is given: no block is started twice,
\* since a new one has a new index, and Codex's event loop stops only what it
\* holds open, or the calls, which stay open until the end
HeldInv ==
  /\ client = "messages" => \A k \in Index : k > Len(blocks) => view[k].state = "none"
  /\ provider = "codex" /\ pc # "end" =>
       \A k \in DOMAIN blocks : k \in live \/ blocks[k].kind = "tool" => view[k].state = "open"

StreamInv == OrderInv /\ ShownInv /\ HeldInv

\* what a step may show
Allowed(v) ==
  /\ v \in View
  /\ \A k \in Index :
       /\ v[k].state \in Stream!After(view[k].state)
       /\ v[k].text >= view[k].text
       /\ view[k].state = "closed" => v[k].text = view[k].text
       /\ v[k].state = "none" => v[k].text = 0
  /\ \A j, k \in Index :
       view[j].state = "none" /\ v[j].state # "none" /\ view[k].state = "none" /\ v[k].state # "none" => j = k
  /\ client = "messages" =>
       \A k \in Index : view[k].state = "none" /\ v[k].state # "none" => k = Fresh

NothingNew(v) == \A k \in Index : v[k].state # "none" => view[k].state # "none"

LEMMA SameAllowed ==
  ASSUME TypeOK, StreamInv
  PROVE  Allowed(view) /\ NothingNew(view)
<1>1. view \in View
  BY TypeFacts
<1>2. \A k \in Index : view[k].state \in {"none", "open", "closed"} /\ view[k].text \in Nat
  BY <1>1 DEF View, Viewed
<1> QED
  BY <1>1, <1>2 DEF StreamInv, ShownInv, Allowed, NothingNew, Stream!After

LEMMA StopAllowed ==
  ASSUME TypeOK, NEW v, Allowed(v), NEW ks,
         \A k \in Index : k \in ks /\ Heard(v, k) => v[k].state = "open"
  PROVE  /\ Allowed(Stop(v, ks))
         /\ NothingNew(v) => NothingNew(Stop(v, ks))
         /\ \A k \in Index : k \notin ks => Stop(v, ks)[k] = v[k]
         /\ \A k \in Index : Stop(v, ks)[k].state = "open" => v[k].state = "open" /\ (k \notin ks \/ ~Heard(v, k))
<1> DEFINE w == Stop(v, ks)
<1>1. v \in View /\ view \in View
  BY TypeFacts DEF Allowed
<1>2. /\ w \in View
      /\ \A j \in Index : w[j] =
           IF j \in ks /\ Heard(v, j) THEN [state |-> "closed", text |-> v[j].text] ELSE v[j]
  BY <1>1, StopAt
<1> HIDE DEF w
<1>3. ASSUME NEW k \in Index
      PROVE  /\ view[k].state \in {"none", "open", "closed"} /\ v[k].state \in {"none", "open", "closed"}
             /\ w[k].text = v[k].text
             /\ w[k].state = v[k].state \/ (w[k].state = "closed" /\ v[k].state = "open")
             /\ k \notin ks => w[k] = v[k]
             /\ w[k].state = "open" => v[k].state = "open" /\ (k \notin ks \/ ~Heard(v, k))
  BY <1>1, <1>2 DEF View, Viewed
<1>4. \A k \in Index :
       /\ w[k].state \in Stream!After(view[k].state)
       /\ w[k].text >= view[k].text
       /\ view[k].state = "closed" => w[k].text = view[k].text
       /\ w[k].state = "none" => w[k].text = 0
  BY <1>3 DEF Allowed, Stream!After
<1>5. \A k \in Index : w[k].state # "none" => v[k].state # "none"
  BY <1>3
<1>6. Allowed(w) /\ (NothingNew(v) => NothingNew(w))
  BY <1>2, <1>4, <1>5 DEF Allowed, NothingNew
<1> QED
  BY <1>3, <1>6 DEF w

LEMMA StartAllowed ==
  ASSUME TypeOK, NEW v, Allowed(v), NothingNew(v), NEW k \in Index,
         client = "messages" => k = Fresh /\ v[k].state = "none"
  PROVE  /\ Allowed(Start(v, k))
         /\ \A j \in Index : j # k => Start(v, k)[j] = v[j]
         /\ client = "messages" => Start(v, k)[k].state = "open"
<1> DEFINE w == Start(v, k)
<1>1. v \in View /\ view \in View
  BY TypeFacts DEF Allowed
<1>2. /\ w \in View
      /\ \A j \in Index : w[j] =
           IF j = k /\ (client = "messages" \/ v[k].state = "none")
           THEN [state |-> "open", text |-> v[j].text] ELSE v[j]
  BY <1>1, StartAt
<1> HIDE DEF w
<1>3. ASSUME NEW j \in Index
      PROVE  /\ view[j].state \in {"none", "open", "closed"} /\ v[j].state \in {"none", "open", "closed"}
             /\ w[j].text = v[j].text
             /\ j # k => w[j] = v[j]
             /\ w[j].state = v[j].state \/ (v[j].state = "none" /\ w[j].state = "open")
             /\ client = "messages" /\ j = k => w[j].state = "open"
  BY <1>1, <1>2 DEF View, Viewed
<1>4. \A j \in Index :
       /\ w[j].state \in Stream!After(view[j].state)
       /\ w[j].text >= view[j].text
       /\ view[j].state = "closed" => w[j].text = view[j].text
       /\ w[j].state = "none" => w[j].text = 0
  BY <1>3 DEF Allowed, Stream!After
<1>5. \A j \in Index : view[j].state = "none" /\ w[j].state # "none" => j = k
  BY <1>3 DEF NothingNew
<1>6. Allowed(w)
  BY <1>2, <1>4, <1>5 DEF Allowed
<1> QED
  BY <1>3, <1>6 DEF w

LEMMA DeltaAllowed ==
  ASSUME TypeOK, NEW v, Allowed(v), NEW k \in Index, NEW n \in Nat,
         client = "messages" => v[k].state = "open"
  PROVE  /\ Allowed(Delta(v, k, n))
         /\ \A j \in Index : Delta(v, k, n)[j].state = v[j].state
<1> DEFINE w == Delta(v, k, n)
<1>1. v \in View /\ view \in View
  BY TypeFacts DEF Allowed
<1>2. /\ w \in View
      /\ \A j \in Index : w[j] =
           IF j = k /\ Heard(v, k)
           THEN [state |-> v[j].state, text |-> v[j].text + n] ELSE v[j]
  BY <1>1, DeltaAt
<1>3. Heard(v, k) => v[k].state = "open"
  BY DEF Heard
<1> HIDE DEF w
<1>4. ASSUME NEW j \in Index
      PROVE  /\ view[j].state \in {"none", "open", "closed"} /\ view[j].text \in Nat
             /\ w[j].state = v[j].state /\ v[j].text \in Nat
             /\ w[j].text >= v[j].text /\ w[j].text \in Nat
             /\ v[j].state # "open" => w[j] = v[j]
  <2>1. view[j] \in Viewed /\ v[j] \in Viewed /\ w[j] \in Viewed
    BY <1>1, <1>2 DEF View
  <2>2. v[j].state # "open" => w[j] = v[j]
    BY <1>2, <1>3
  <2>3. w[j].state = v[j].state /\ (w[j].text = v[j].text \/ w[j].text = v[j].text + n)
    <3>1. CASE j = k /\ Heard(v, k)
      <4>1. w[j] = [state |-> v[j].state, text |-> v[j].text + n]
        BY <1>2, <3>1
      <4> QED
        BY <4>1
    <3>2. CASE ~(j = k /\ Heard(v, k))
      <4>1. w[j] = v[j]
        BY <1>2, <3>2
      <4> QED
        BY <4>1
    <3> QED
      BY <3>1, <3>2
  <2> QED
    BY <2>1, <2>2, <2>3 DEF Viewed
<1>5. ASSUME NEW j \in Index
      PROVE  /\ w[j].state \in Stream!After(view[j].state)
             /\ w[j].text >= view[j].text
             /\ view[j].state = "closed" => w[j].text = view[j].text
             /\ w[j].state = "none" => w[j].text = 0
  <2>1. v[j].state \in Stream!After(view[j].state) /\ v[j].text >= view[j].text
        /\ (view[j].state = "closed" => v[j].text = view[j].text)
        /\ (v[j].state = "none" => v[j].text = 0)
    BY DEF Allowed
  <2>2. view[j].state = "closed" => v[j].state = "closed"
    BY <2>1 DEF Stream!After
  <2> QED
    BY <1>4, <2>1, <2>2
<1>6. Allowed(w)
  BY <1>2, <1>4, <1>5 DEF Allowed
<1> QED
  BY <1>4, <1>6 DEF w

\* What is shown extends the order, and is a growth of the abstract stream.
LEMMA ShowGrows ==
  ASSUME TypeOK, TypeOK', OrderInv, NEW v, Allowed(v), Show(v)
  PROVE  /\ OrderInv'
         /\ \A k \in Index : view'[k].state = "none" => view'[k].text = 0
         /\ Stream!Grow
<1> DEFINE started == {k \in Index : view[k].state = "none" /\ v[k].state # "none"}
<1>1. view' = v /\ order' = IF started = {} THEN order ELSE Append(order, CHOOSE k \in started : TRUE)
  BY DEF Show
<1>2. /\ view \in View /\ v \in View /\ order \in Seq(Index) /\ Len(order) \in Nat
      /\ \A j \in 1..Len(order) : order[j] \in Index
  BY TypeFacts DEF Allowed
<1>3. \A k \in Index : /\ view[k].state \in {"none", "open", "closed"} /\ v[k].state \in {"none", "open", "closed"}
                       /\ view[k].text \in Nat /\ v[k].text \in Nat
  BY <1>2 DEF View, Viewed
<1>4. \A k \in Index : view[k].state # "none" => v[k].state # "none"
  BY <1>3 DEF Allowed, Stream!After
<1>5. /\ Len(order') \in Nat
      /\ \A j \in 1..Len(order') : order'[j] \in Index
      /\ Len(order') = Len(order) \/ Len(order') = Len(order) + 1
      /\ \A j \in 1..Len(order) : order'[j] = order[j]
      /\ Len(order') = Len(order) + 1 => view[order'[Len(order) + 1]].state = "none"
      /\ OrderInv'
  <2>1. CASE started = {}
    <3>1. order' = order
      BY <1>1, <2>1
    <3>2. \A k \in Index : view'[k].state # "none" <=> view[k].state # "none"
      BY <1>1, <1>4, <2>1
    <3> QED
      BY <3>1, <3>2, <1>2 DEF OrderInv
  <2>2. CASE started # {}
    <3> DEFINE new == CHOOSE k \in started : TRUE
    <3>1. new \in started
      BY <2>2
    <3>2. new \in Index /\ view[new].state = "none" /\ v[new].state # "none"
      BY <3>1
    <3>3. \A k \in Index : view[k].state = "none" /\ v[k].state # "none" => k = new
      BY <3>2 DEF Allowed
    <3>4. order' = Append(order, new)
      BY <1>1, <2>2
    <3> HIDE DEF new, started
    <3>5. /\ Len(order') = Len(order) + 1 /\ \A j \in 1..Len(order) : order'[j] = order[j]
          /\ order'[Len(order) + 1] = new
      BY <1>2, <3>2, <3>4, AppendType
    <3>6. \A j \in 1..Len(order') : j \in 1..Len(order) \/ j = Len(order) + 1
      BY <1>2, <3>5
    <3>7. \A j \in 1..Len(order) : order[j] # new
      BY <3>2 DEF OrderInv
    <3>8. \A j, k \in 1..Len(order') : order'[j] = order'[k] => j = k
      BY <3>5, <3>6, <3>7 DEF OrderInv
    <3>9. ASSUME NEW k \in Index
          PROVE  view'[k].state # "none" <=> \E j \in 1..Len(order') : order'[j] = k
      <4>1. CASE k = new
        <5>1. Len(order) + 1 \in 1..Len(order')
          BY <1>2, <3>5
        <5> QED
          BY <4>1, <5>1, <1>1, <3>2, <3>5
      <4>2. CASE k # new
        <5>1. view'[k].state # "none" <=> view[k].state # "none"
          BY <4>2, <1>1, <1>4, <3>3
        <5>2. view[k].state # "none" <=> \E j \in 1..Len(order) : order[j] = k
          BY DEF OrderInv
        <5>3. (\E j \in 1..Len(order) : order[j] = k) <=> (\E j \in 1..Len(order') : order'[j] = k)
          <6>1. 1..Len(order) \subseteq 1..Len(order')
            BY <1>2, <3>5
          <6> QED
            BY <4>2, <6>1, <3>5, <3>6
        <5> QED
          BY <5>1, <5>2, <5>3
      <4> QED
        BY <4>1, <4>2
    <3>10. OrderInv'
      BY <3>8, <3>9 DEF OrderInv, Index
    <3> QED
      BY <1>2, <3>2, <3>5, <3>6, <3>10
  <2> QED
    BY <2>1, <2>2
<1> HIDE DEF started
<1>6. \A k \in Index : view'[k].state = "none" => view'[k].text = 0
  BY <1>1 DEF Allowed
<1> DEFINE state(j) == IF j <= Len(order) THEN view[order[j]].state ELSE "none"
           text(j) == IF j <= Len(order) THEN view[order[j]].text ELSE 0
           stateNext(j) == IF j <= Len(order') THEN view'[order'[j]].state ELSE "none"
           textNext(j) == IF j <= Len(order') THEN view'[order'[j]].text ELSE 0
<1>7. ASSUME NEW j \in Index
      PROVE  /\ stateNext(j) \in Stream!After(state(j))
             /\ textNext(j) >= text(j)
             /\ state(j) = "closed" => textNext(j) = text(j)
             /\ stateNext(j) = "none" => textNext(j) = 0
  <2>1. j \in Nat /\ j >= 1
    BY DEF Index
  <2>2. CASE j <= Len(order)
    <3>1. j \in 1..Len(order) /\ j <= Len(order')
      BY <2>1, <2>2, <1>2, <1>5
    <3>2. order'[j] = order[j] /\ order[j] \in Index
      BY <3>1, <1>2, <1>5
    <3> QED
      BY <2>2, <3>1, <3>2, <1>1 DEF Allowed
  <2>3. CASE j > Len(order) /\ j <= Len(order')
    <3>1. j = Len(order) + 1 /\ Len(order') = Len(order) + 1 /\ j \in 1..Len(order') /\ ~(j <= Len(order))
      BY <2>1, <2>3, <1>2, <1>5
    <3>2. order'[j] \in Index /\ view[order'[j]].state = "none"
      BY <3>1, <1>5
    <3>3. view'[order'[j]].state # "none"
      BY <3>1, <3>2, <1>5 DEF OrderInv
    <3> QED
      BY <3>1, <3>2, <3>3, <2>3, <1>1, <1>3 DEF Stream!After
  <2>4. CASE j > Len(order')
    <3>1. ~(j <= Len(order)) /\ ~(j <= Len(order'))
      BY <2>1, <2>4, <1>2, <1>5
    <3> QED
      BY <3>1 DEF Stream!After
  <2> QED
    BY <2>1, <2>2, <2>3, <2>4, <1>2, <1>5
<1>8. ASSUME NEW k \in Index, stateNext(k) # "none", NEW j \in 1..k
      PROVE  j \in Index /\ stateNext(j) # "none"
  <2>1. k <= Len(order') /\ k \in Nat /\ k <= MaxBlock /\ MaxBlock \in Nat
    BY <1>8, TypeFacts DEF Index
  <2>2. j \in Index /\ j \in 1..Len(order') /\ j <= Len(order')
    BY <2>1, <1>5 DEF Index
  <2>3. view'[order'[j]].state # "none"
    BY <2>2, <1>5 DEF OrderInv
  <2> QED
    BY <2>2, <2>3
<1>9. Index = Stream!Block /\ Index' = Index
  BY DEF Index, Stream!Block
<1>10. Stream!Grow
  BY <1>7, <1>8, <1>9 DEF Stream!Grow, Stream!Started
<1> QED
  BY <1>5, <1>6, <1>10

\* the blocks that are held have an index below the next one
StepInv(v) ==
  /\ client = "messages" => \A k \in Index : k > Len(blocks') => v[k].state = "none"
  /\ provider = "codex" /\ pc' # "end" =>
       \A k \in DOMAIN blocks' : k \in live' \/ blocks'[k].kind = "tool" => v[k].state = "open"

\* How a step shows something: it goes on, or returns.
LEMMA EmitStep ==
  ASSUME TypeOK, TypeOK', StreamInv, pc # "end", pc' # "end", UNCHANGED config,
         NEW v, Allowed(v), Emit(v), StepInv(v)
  PROVE  StreamInv' /\ Stream!Continue
<1>1. Show(v) /\ msg' = "started" /\ msg \notin {"ended", "error"} /\ view' = v
  BY DEF Emit, Show, StreamInv, ShownInv
<1>2. /\ OrderInv' /\ Stream!Grow
      /\ \A k \in Index : view'[k].state = "none" => view'[k].text = 0
  BY <1>1, ShowGrows DEF StreamInv
<1>3. ShownInv'
  BY <1>1, <1>2 DEF ShownInv, Index
<1>4. HeldInv'
  BY <1>1 DEF HeldInv, StepInv, config, Index
<1>5. Stream!Continue
  BY <1>1, <1>2 DEF Stream!Continue
<1> QED
  BY <1>2, <1>3, <1>4, <1>5 DEF StreamInv

LEMMA ReturnStep ==
  ASSUME TypeOK, TypeOK', StreamInv, pc # "end", UNCHANGED config,
         NEW how \in {"ok", "error"}, NEW v, Allowed(v), Return(how, v),
         client = "messages" => \A k \in Index : k > Len(blocks') => v[k].state = "none"
  PROVE  StreamInv' /\ Stream!StreamNext
<1> DEFINE opened == {k \in Index : v[k].state = "open"}
           w == IF how = "ok" THEN Stop(v, opened) ELSE v
<1>1. Show(w) /\ pc' = "end" /\ msg' = (IF how = "ok" THEN "ended" ELSE "error") /\ view' = w
      /\ msg \notin {"ended", "error"}
  BY DEF Return, Show, StreamInv, ShownInv
<1>2. /\ Allowed(Stop(v, opened))
      /\ \A k \in Index : k \notin opened => Stop(v, opened)[k] = v[k]
      /\ \A k \in Index : Stop(v, opened)[k].state = "open" => v[k].state = "open" /\ ~Heard(v, k)
  BY StopAllowed
<1>3. Allowed(w)
  BY <1>2
<1>4. how = "ok" => \A k \in Index : w[k].state # "open"
  BY <1>2 DEF Heard
<1>5. \A k \in Index : v[k].state = "none" => w[k].state = "none"
  BY <1>2
<1> HIDE DEF w, opened
<1>6. /\ OrderInv' /\ Stream!Grow
      /\ \A k \in Index : view'[k].state = "none" => view'[k].text = 0
  BY <1>1, <1>3, ShowGrows DEF StreamInv
<1>7. ShownInv'
  BY <1>1, <1>6 DEF ShownInv, Index
<1>8. HeldInv'
  BY <1>1, <1>5 DEF HeldInv, config, Index
<1>9. Stream!StreamNext
  <2>1. CASE how = "ok"
    <3>1. \A k \in Stream!Block : (IF k <= Len(order') THEN view'[order'[k]].state ELSE "none") # "open"
      <4>1. Len(order') \in Nat /\ \A j \in 1..Len(order') : order'[j] \in Index
        <5>1. order' \in Seq(Index')
          BY DEF TypeOK
        <5>2. order' \in Seq(Index)
          BY <5>1 DEF Index
        <5> QED
          BY <5>2
      <4>2. \A k \in Index : view'[k].state # "open"
        BY <1>1, <1>4, <2>1
      <4> QED
        BY <4>1, <4>2 DEF Stream!Block
    <3> QED
      BY <1>1, <1>6, <2>1, <3>1 DEF Stream!StreamNext, Stream!Succeed, Stream!Block, Index
  <2>2. CASE how = "error"
    BY <1>1, <1>6, <2>2 DEF Stream!StreamNext, Stream!Fail
  <2> QED
    BY <2>1, <2>2
<1> QED
  BY <1>6, <1>7, <1>8, <1>9 DEF StreamInv

LEMMA SilentStep ==
  ASSUME TypeOK, TypeOK', StreamInv, UNCHANGED config, Silent, pc' = "end" <=> pc = "end",
         client = "messages" => Len(blocks) <= Len(blocks'),
         provider = "codex" /\ pc' # "end" => UNCHANGED <<blocks, live>>
  PROVE  StreamInv' /\ UNCHANGED Stream!streamVars
<1>1. UNCHANGED <<msg, view, order>>
  BY DEF Silent, stream
<1>2. OrderInv' /\ ShownInv'
  BY <1>1 DEF StreamInv, OrderInv, ShownInv, Index
<1>3. HeldInv'
  <2>1. client = "messages" => \A k \in Index : k > Len(blocks') => view'[k].state = "none"
    <3>1. ASSUME client = "messages", NEW k \in Index, k > Len(blocks') PROVE k > Len(blocks)
      <4>1. Len(blocks) <= Len(blocks') /\ k \in Nat /\ Len(blocks) \in Nat
        BY <3>1, TypeFacts DEF Index
      <4>2. Len(blocks') \in Nat
        BY DEF TypeOK
      <4> QED
        BY <3>1, <4>1, <4>2
    <3> QED
      BY <1>1, <3>1 DEF StreamInv, HeldInv
  <2> QED
    BY <1>1, <2>1 DEF StreamInv, HeldInv, config, Index
<1>4. UNCHANGED Stream!streamVars
  BY <1>1 DEF Stream!streamVars, Index
<1> QED
  BY <1>2, <1>3, <1>4 DEF StreamInv

\* Every step keeps the invariant, and is a step of the abstract stream or none.
Shows == StreamInv' /\ [Stream!StreamNext]_(Stream!streamVars)

LEMMA Pairing ==
  ASSUME TypeOK
  PROVE  /\ provider = "anthropic" => client = "responses"
         /\ provider = "codex" => client = "messages"
         /\ client \in {"messages", "responses"}
BY DEF TypeOK, Pairs

LEMMA AnthropicStep ==
  ASSUME TypeOK, TypeOK', StreamInv, Anthropic
  PROVE  Shows
<1> USE DEF Shows
<1>1. provider = "anthropic" /\ client = "responses" /\ pc = "read" /\ UNCHANGED config
  BY Pairing DEF Anthropic, BlockStart, BlockDelta, BlockStop, MessageStop, BodyFails, BodyEnds, Receives, Reads
<1>2. \A v : StepInv(v)
  BY <1>1 DEF StepInv, config
<1>3. \A v : Heard(v, 0) <=> v[0].state = "open"
  BY <1>1 DEF Heard
<1>4. ASSUME NEW k \in Index, NEW kind \in {"text", "tool"}, BlockStart(k, kind) PROVE Shows
  <2>1. Allowed(Start(view, k))
    BY <1>1, SameAllowed, StartAllowed
  <2> QED
    BY <1>1, <1>2, <1>4, <2>1, EmitStep DEF BlockStart, GoOn, Stream!StreamNext
<1>5. ASSUME NEW k \in Index, BlockDelta(k) PROVE Shows
  <2>1. Allowed(Delta(view, k, 1))
    BY <1>1, SameAllowed, DeltaAllowed
  <2> QED
    BY <1>1, <1>2, <1>5, <2>1, EmitStep DEF BlockDelta, GoOn, Stream!StreamNext
<1>6. ASSUME NEW k \in Index, BlockStop(k) PROVE Shows
  <2>1. CASE k \in live
    <3>1. Allowed(Stop(view, {k}))
      BY <1>1, SameAllowed, StopAllowed DEF Heard
    <3> QED
      BY <1>1, <1>2, <1>6, <2>1, <3>1, EmitStep DEF BlockStop, GoOn, Stream!StreamNext
  <2>2. CASE k \notin live
    BY <1>1, <1>6, <2>2, SilentStep DEF BlockStop, GoOn
  <2> QED
    BY <2>1, <2>2
<1>7. CASE MessageStop
  <2>1. Silent /\ pc' = "read"
    BY <1>7 DEF MessageStop, GoOn, Silent, stream
  <2> QED
    BY <1>1, <2>1, SilentStep
<1>8. CASE BodyFails \/ BodyEnds
  <2>1. PICK how \in {"ok", "error"} : Return(how, view)
    BY <1>8 DEF BodyFails, BodyEnds
  <2> QED
    BY <1>1, <2>1, SameAllowed, ReturnStep
<1> QED
  BY <1>4, <1>5, <1>6, <1>7, <1>8 DEF Anthropic

LEMMA CodexStep ==
  ASSUME TypeOK, TypeOK', StreamInv, Codex
  PROVE  Shows
<1> USE DEF Shows
<1>1. provider = "codex" /\ client = "messages" /\ pc = "read" /\ UNCHANGED config
  BY Pairing DEF Codex, TurnDelta, ReasoningDone, ToolCall, GraceEnds, TurnCompleted, TurnFails, Turn, Reads
<1>2. /\ blocks \in Seq(Held) /\ Len(blocks) \in Nat /\ DOMAIN blocks = 1..Len(blocks) /\ live \subseteq DOMAIN blocks
      /\ DOMAIN blocks \subseteq Index /\ Fresh = Len(blocks) + 1 /\ Fresh \notin DOMAIN blocks
  BY TypeFacts DEF TypeOK, Fresh
<1>3. /\ \A k \in Index : k > Len(blocks) => view[k].state = "none"
      /\ \A k \in DOMAIN blocks : k \in live \/ blocks[k].kind = "tool" => view[k].state = "open"
  BY <1>1 DEF StreamInv, HeldInv
<1>4. Allowed(view) /\ NothingNew(view)
  BY SameAllowed
<1>5. ASSUME NEW ks, \A k \in ks : k \in DOMAIN blocks /\ (k \in live \/ blocks[k].kind = "tool")
      PROVE  /\ Allowed(Stop(view, ks)) /\ NothingNew(Stop(view, ks))
             /\ \A k \in Index : k \notin ks => Stop(view, ks)[k] = view[k]
             /\ \A k \in Index : view[k].state = "none" => Stop(view, ks)[k].state = "none"
  <2>1. \A k \in ks : view[k].state = "open"
    BY <1>3, <1>5
  <2>2. /\ Allowed(Stop(view, ks)) /\ NothingNew(Stop(view, ks))
        /\ \A k \in Index : k \notin ks => Stop(view, ks)[k] = view[k]
    BY <1>4, <2>1, StopAllowed
  <2> QED
    BY <2>1, <2>2
<1>6. ASSUME NEW k \in Index, NEW kind \in {"text", "thinking"}, TurnDelta(k, kind) PROVE Shows
  <2>1. CASE k = Fresh
    <3> DEFINE v == Delta(Start(view, k), k, 1)
    <3>1. blocks' = Append(blocks, [kind |-> kind, text |-> 1]) /\ live' = live \cup {k} /\ Emit(v) /\ pc' = "read"
      BY <1>6, <2>1 DEF TurnDelta, GoOn
    <3>2. view[k].state = "none"
      BY <1>2, <1>3, <2>1
    <3>3. /\ Allowed(Start(view, k)) /\ Start(view, k)[k].state = "open"
          /\ \A j \in Index : j # k => Start(view, k)[j] = view[j]
      BY <1>1, <1>4, <2>1, <3>2, StartAllowed
    <3>4. Allowed(v) /\ v[k].state = "open" /\ \A j \in Index : j # k => v[j].state = view[j].state
      BY <3>3, DeltaAllowed
    <3>5. /\ DOMAIN blocks' = 1..(Len(blocks) + 1) /\ Len(blocks') = Len(blocks) + 1
          /\ \A j \in DOMAIN blocks : blocks'[j] = blocks[j]
      BY <1>2, <3>1, AppendType, TypeFacts DEF Kind
    <3> HIDE DEF v
    <3>6. StepInv(v)
      <4>1. \A j \in Index : j > Len(blocks') => v[j].state = "none"
        BY <1>2, <1>3, <2>1, <3>4, <3>5 DEF Index
      <4>2. ASSUME NEW j \in DOMAIN blocks', j \in live' \/ blocks'[j].kind = "tool"
            PROVE  v[j].state = "open"
        <5>1. CASE j = k
          BY <3>4, <5>1
        <5>2. CASE j # k
          <6>1. j \in DOMAIN blocks /\ j \in Index
            BY <1>2, <2>1, <3>5, <5>2
          <6>2. j \in live \/ blocks[j].kind = "tool"
            BY <3>1, <3>5, <4>2, <5>2, <6>1
          <6> QED
            BY <1>3, <3>4, <5>2, <6>1, <6>2
        <5> QED
          BY <5>1, <5>2
      <4> QED
        BY <4>1, <4>2 DEF StepInv
    <3> QED
      BY <1>1, <3>1, <3>4, <3>6, EmitStep DEF Stream!StreamNext
  <2>2. CASE k # Fresh
    <3> DEFINE v == Delta(view, k, 1)
    <3>1. /\ k \in live /\ blocks[k].text < MaxPiece /\ blocks' = [blocks EXCEPT ![k].text = @ + 1] /\ live' = live
          /\ Emit(v) /\ pc' = "read"
      BY <1>6, <2>2 DEF TurnDelta, GoOn
    <3>2. view[k].state = "open" /\ k \in DOMAIN blocks
      BY <1>2, <1>3, <3>1
    <3>3. Allowed(v) /\ \A j \in Index : v[j].state = view[j].state
      BY <1>4, <3>2, DeltaAllowed
    <3>4. /\ Len(blocks') = Len(blocks) /\ DOMAIN blocks' = DOMAIN blocks
          /\ \A j \in DOMAIN blocks : blocks'[j].kind = blocks[j].kind
      BY <3>1, <3>2, PieceType
    <3> HIDE DEF v
    <3>5. StepInv(v)
      BY <1>2, <1>3, <3>1, <3>3, <3>4 DEF StepInv
    <3> QED
      BY <1>1, <3>1, <3>3, <3>5, EmitStep DEF Stream!StreamNext
  <2> QED
    BY <2>1, <2>2
<1>7. ASSUME NEW k \in Index, ReasoningDone(k) PROVE Shows
  <2> DEFINE v == Stop(view, {k})
  <2>1. /\ k \in live /\ blocks[k].kind = "thinking" /\ live' = live \ {k} /\ blocks' = blocks
        /\ Emit(v) /\ pc' = "read"
    BY <1>7 DEF ReasoningDone, GoOn
  <2>2. /\ Allowed(v) /\ \A j \in Index : j # k => v[j] = view[j]
        /\ \A j \in Index : view[j].state = "none" => v[j].state = "none"
    BY <1>2, <1>5, <2>1
  <2> HIDE DEF v
  <2>3. StepInv(v)
    BY <1>2, <1>3, <2>1, <2>2 DEF StepInv
  <2> QED
    BY <1>1, <2>1, <2>2, <2>3, EmitStep DEF Stream!StreamNext
<1>8. CASE ToolCall
  <2> DEFINE stopped == Stop(view, LiveText)
             started == Start(stopped, Fresh)
             shown == Delta(started, Fresh, 1)
  <2>1. /\ Fresh \in Index /\ live' = live \ LiveText
        /\ blocks' = Append(blocks, [kind |-> "tool", text |-> 1])
        /\ \/ \E how \in {"ok", "error"} : Return(how, Stop(shown, {Fresh}))
           \/ Emit(shown) /\ pc' = "read"
    BY <1>8, TypeFacts DEF ToolCall, AfterCall, GoOn
  <2>2. LiveText \subseteq live /\ Fresh \notin LiveText /\ view[Fresh].state = "none"
    BY <1>2, <1>3, <2>1 DEF LiveText
  <2>3. /\ Allowed(stopped) /\ NothingNew(stopped)
        /\ \A j \in Index : j \notin LiveText => stopped[j] = view[j]
        /\ \A j \in Index : view[j].state = "none" => stopped[j].state = "none"
    BY <1>2, <1>5, <2>2
  <2> HIDE DEF stopped
  <2>4. /\ Allowed(started) /\ started[Fresh].state = "open"
        /\ \A j \in Index : j # Fresh => started[j] = stopped[j]
    BY <1>1, <2>1, <2>2, <2>3, StartAllowed
  <2> HIDE DEF started
  <2>5. Allowed(shown) /\ \A j \in Index : shown[j].state = started[j].state
    BY <2>1, <2>4, DeltaAllowed
  <2> HIDE DEF shown
  <2>6. /\ DOMAIN blocks' = 1..(Len(blocks) + 1) /\ Len(blocks') = Len(blocks) + 1
        /\ \A j \in DOMAIN blocks : blocks'[j] = blocks[j]
    BY <1>2, <2>1, AppendType, TypeFacts DEF Kind
  <2>7. \A j \in Index : j > Len(blocks') => shown[j].state = "none"
    BY <1>2, <1>3, <2>3, <2>4, <2>5, <2>6 DEF Index
  <2>8. CASE \E how \in {"ok", "error"} : Return(how, Stop(shown, {Fresh}))
    <3>1. /\ Allowed(Stop(shown, {Fresh}))
          /\ \A j \in Index : j # Fresh => Stop(shown, {Fresh})[j] = shown[j]
      BY <2>4, <2>5, StopAllowed
    <3>2. ASSUME NEW j \in Index, j > Len(blocks') PROVE Stop(shown, {Fresh})[j].state = "none"
      <4>1. j # Fresh
        BY <1>2, <2>6, <3>2
      <4> QED
        BY <2>7, <3>1, <3>2, <4>1
    <3> QED
      BY <1>1, <2>8, <3>1, <3>2, ReturnStep
  <2>9. CASE Emit(shown) /\ pc' = "read"
    <3>1. ASSUME NEW j \in DOMAIN blocks', j \in live' \/ blocks'[j].kind = "tool"
          PROVE  shown[j].state = "open"
      <4>1. CASE j = Fresh
        BY <2>1, <2>4, <2>5, <4>1
      <4>2. CASE j # Fresh
        <5>1. j \in DOMAIN blocks /\ j \in Index
          BY <1>2, <2>6, <4>2
        <5>2. blocks'[j] = blocks[j] /\ (j \in live \/ blocks[j].kind = "tool") /\ j \notin LiveText
          BY <2>1, <2>6, <3>1, <5>1 DEF LiveText
        <5>3. view[j].state = "open"
          BY <1>3, <5>1, <5>2
        <5> QED
          BY <2>3, <2>4, <2>5, <4>2, <5>1, <5>2, <5>3
      <4> QED
        BY <4>1, <4>2
    <3>2. StepInv(shown)
      BY <2>7, <3>1 DEF StepInv
    <3> QED
      BY <1>1, <2>5, <2>9, <3>2, EmitStep DEF Stream!StreamNext
  <2> QED
    BY <2>1, <2>8, <2>9
<1>9. CASE GraceEnds
  <2> DEFINE calls == {k \in DOMAIN blocks : blocks[k].kind = "tool"}
             v == IF EmitFails THEN view ELSE Stop(view, calls)
  <2>1. (\E how \in {"ok", "error"} : Return(how, v)) /\ blocks' = blocks
    BY <1>9 DEF GraceEnds
  <2>2. Allowed(v) /\ \A j \in Index : view[j].state = "none" => v[j].state = "none"
    BY <1>4, <1>5
  <2> HIDE DEF v
  <2> QED
    BY <1>1, <1>3, <2>1, <2>2, ReturnStep
<1>10. CASE TurnCompleted
  <2>1. /\ UNCHANGED <<blocks, live>>
        /\ \/ pc' = "read" /\ Silent
           \/ Return("error", view)
           \/ Return("ok", Stop(view, LiveText))
    BY <1>10 DEF TurnCompleted, GoOn
  <2>2. Allowed(Stop(view, LiveText)) /\ \A j \in Index : view[j].state = "none" => Stop(view, LiveText)[j].state = "none"
    BY <1>2, <1>5 DEF LiveText
  <2>3. CASE pc' = "read" /\ Silent
    BY <1>1, <1>2, <2>1, <2>3, SilentStep
  <2>4. CASE Return("error", view)
    BY <1>1, <1>3, <1>4, <2>1, <2>4, ReturnStep
  <2>5. CASE Return("ok", Stop(view, LiveText))
    BY <1>1, <1>3, <2>1, <2>2, <2>5, ReturnStep
  <2> QED
    BY <2>1, <2>3, <2>4, <2>5
<1>11. CASE TurnFails
  <2>1. Return("error", view) /\ blocks' = blocks
    BY <1>11 DEF TurnFails
  <2> QED
    BY <1>1, <1>3, <1>4, <2>1, ReturnStep
<1> QED
  BY <1>6, <1>7, <1>8, <1>9, <1>10, <1>11 DEF Codex

\* OpenCode shows a block whole, under an index of its own.
LEMMA OpenCodeStep ==
  ASSUME TypeOK, TypeOK', StreamInv, OpenCode
  PROVE  Shows
<1> USE DEF Shows
<1>1. /\ Len(blocks) \in Nat /\ Fresh = Len(blocks) + 1 /\ (Fresh <= MaxBlock => Fresh \in Index)
      /\ client = "messages" => \A k \in Index : k > Len(blocks) => view[k].state = "none"
  BY TypeFacts DEF Fresh, StreamInv, HeldInv
<1>2. Allowed(view) /\ NothingNew(view)
  BY SameAllowed
\* a block shown whole
<1>3. ASSUME NEW kind \in Kind, Scan, Fresh <= MaxBlock,
             blocks' = Append(blocks, [kind |-> kind, text |-> 1]),
             Abandon \/ (Emit(Shown) /\ pc' \in {"read", "wait"})
      PROVE  Shows
  <2>1. provider = "opencode" /\ pc = "read" /\ UNCHANGED config /\ Fresh \in Index
    BY <1>1, <1>3 DEF Scan, Reads
  <2>2. Len(blocks') = Len(blocks) + 1
    BY <1>3, AppendType, TypeFacts
  <2>3. CASE Abandon
    <3>1. Silent /\ pc' = "wait" /\ Len(blocks) <= Len(blocks')
      BY <1>1, <2>2, <2>3 DEF Abandon, WaitFor
    <3> QED
      BY <2>1, <3>1, SilentStep
  <2>4. CASE Emit(Shown) /\ pc' \in {"read", "wait"}
    <3> DEFINE started == Start(view, Fresh)
               told == Delta(started, Fresh, 1)
    <3>1. /\ Allowed(started) /\ \A j \in Index : j # Fresh => started[j] = view[j]
          /\ client = "messages" => started[Fresh].state = "open"
      <4>1. client = "messages" => view[Fresh].state = "none"
        BY <1>1, <2>1
      <4> QED
        BY <1>2, <2>1, <4>1, StartAllowed
    <3> HIDE DEF started
    <3>2. Allowed(told) /\ \A j \in Index : told[j].state = started[j].state
      BY <2>1, <3>1, DeltaAllowed
    <3> HIDE DEF told
    <3>3. /\ Allowed(Stop(told, {Fresh}))
          /\ \A j \in Index : j # Fresh => Stop(told, {Fresh})[j] = told[j]
      <4>1. \A k \in Index : k \in {Fresh} /\ Heard(told, k) => told[k].state = "open"
        BY <3>1, <3>2 DEF Heard
      <4> QED
        BY <3>2, <4>1, StopAllowed
    <3>4. Shown = Stop(told, {Fresh})
      BY DEF Shown, told, started
    <3>5. ASSUME client = "messages", NEW j \in Index, j > Len(blocks')
          PROVE  Shown[j].state = "none"
      <4>1. j # Fresh /\ j > Len(blocks)
        BY <1>1, <2>2, <3>5 DEF Index
      <4> QED
        BY <1>1, <3>1, <3>2, <3>3, <3>4, <3>5, <4>1
    <3>6. StepInv(Shown)
      BY <2>1, <3>5 DEF StepInv
    <3>7. Allowed(Shown)
      BY <3>3, <3>4
    <3> QED
      BY <2>1, <2>4, <3>6, <3>7, EmitStep DEF Stream!StreamNext
  <2> QED
    BY <1>3, <2>3, <2>4
<1>4. ASSUME NEW kind \in {"text", "thinking"}, OutputPart(kind) PROVE Shows
  BY <1>3, <1>4 DEF OutputPart, GoOn, Kind
<1>5. CASE OutputCall
  BY <1>3, <1>5 DEF OutputCall, WaitFor, Kind
<1>6. CASE Wait
  <2>1. /\ Return(Outcome, view) /\ Outcome \in {"ok", "error"} /\ pc # "end"
        /\ UNCHANGED config /\ blocks' = blocks
    BY <1>6 DEF Wait, Outcome, TypeOK
  <2> QED
    BY <1>1, <1>2, <2>1, ReturnStep
<1>7. CASE \/ OutputError \/ OutputOther
           \/ (\E status \in {"exit0", "exit1"} : Exit(status)) \/ Killed
           \/ OutputEnds \/ ScanFails \/ Idle \/ Expire
  <2>1. /\ Silent /\ UNCHANGED config /\ (pc' = "end" <=> pc = "end")
        /\ UNCHANGED <<blocks, live>>
    <3>1. CASE OutputError \/ OutputOther
      BY <3>1 DEF OutputError, OutputOther, Scan, Reads, GoOn
    <3>2. CASE (\E status \in {"exit0", "exit1"} : Exit(status)) \/ Killed
      BY <3>2 DEF Killed, Exit, Silent
    <3>3. CASE OutputEnds \/ ScanFails
      BY <3>3 DEF OutputEnds, ScanFails, Reads, WaitFor, loop
    <3>4. CASE Idle \/ Expire
      BY <3>4 DEF Idle, Expire, Silent, loop
    <3> QED
      BY <1>7, <3>1, <3>2, <3>3, <3>4
  <2> QED
    BY <1>1, <2>1, SilentStep
<1> QED
  BY <1>4, <1>5, <1>6, <1>7 DEF OpenCode

LEMMA NextShows == TypeOK /\ StreamInv /\ [Next]_vars => Shows
<1> SUFFICES ASSUME TypeOK, StreamInv, [Next]_vars PROVE Shows
  OBVIOUS
<1>1. TypeOK'
  BY NextType
<1>2. CASE Leave \/ Begin \/ UNCHANGED vars
  <2>1. /\ Silent /\ UNCHANGED config /\ (pc' = "end" <=> pc = "end")
        /\ UNCHANGED <<blocks, live>>
    BY <1>2 DEF Leave, Begin, GoOn, Silent, vars, loop
  <2>2. Len(blocks) <= Len(blocks')
    BY <2>1, TypeFacts
  <2> QED
    BY <1>1, <2>1, <2>2, SilentStep DEF Shows
<1>3. CASE BeginFails
  <2>1. Return("error", view) /\ pc # "end" /\ UNCHANGED config /\ blocks' = blocks
    BY <1>3 DEF BeginFails
  <2>2. client = "messages" => \A k \in Index : k > Len(blocks') => view[k].state = "none"
    BY <2>1 DEF StreamInv, HeldInv
  <2> QED
    BY <1>1, <2>1, <2>2, SameAllowed, ReturnStep DEF Shows
<1> QED
  BY <1>1, <1>2, <1>3, AnthropicStep, CodexStep, OpenCodeStep DEF Next

LEMMA InitShows == Init => StreamInv /\ Stream!StreamInit
<1> SUFFICES ASSUME Init PROVE StreamInv /\ Stream!StreamInit
  OBVIOUS
<1>1. Len(order) = 0 /\ order = <<>>
  BY DEF Init
<1>2. \A k \in Index : view[k].state = "none" /\ view[k].text = 0
  BY DEF Init
<1>3. OrderInv
  BY <1>1, <1>2 DEF OrderInv
<1>4. ShownInv
  BY <1>2 DEF ShownInv, Init
<1>5. HeldInv
  BY <1>2 DEF HeldInv, Init
<1>6. Stream!StreamInit
  <2>1. \A j \in Index : ~(j <= Len(order))
    BY <1>1 DEF Index
  <2>2. Stream!Block = Index
    BY DEF Stream!Block, Index
  <2>3. msg \notin {"ended", "error"}
    BY DEF Init
  <2> QED
    BY <2>1, <2>2, <2>3 DEF Stream!StreamInit
<1> QED
  BY <1>3, <1>4, <1>5, <1>6 DEF StreamInv

LEMMA StreamInvariance == Spec => [](TypeOK /\ StreamInv)
<1>1. Init => TypeOK /\ StreamInv
  BY InitType, InitShows
<1>2. TypeOK /\ StreamInv /\ [Next]_vars => TypeOK' /\ StreamInv'
  BY NextType, NextShows DEF Shows
<1> QED
  BY <1>1, <1>2, PTL DEF Spec

\* The values of a turn have their types, whatever its upstream sends: the blocks
\* stay within their bound, and none is held open that does not exist.
THEOREM TypeCorrect == Spec => []TypeOK
BY StreamInvariance, PTL

\* Whatever the upstream sends, in whatever order, every step of a turn is one of
\* the stream a client is promised or changes nothing in it: for any number of
\* blocks and pieces, each provider and each client.
THEOREM TurnShowsStream == Spec => TurnImplementsStream
<1>1. Init => Stream!StreamInit
  BY InitShows
<1>2. TypeOK /\ StreamInv /\ [Next]_vars => [Stream!StreamNext]_(Stream!streamVars)
  BY NextShows DEF Shows
<1> QED
  BY <1>1, <1>2, StreamInvariance, PTL DEF Spec, TurnImplementsStream, Stream!StreamSpec
=============================================================================
