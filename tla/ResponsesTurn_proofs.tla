------------------------ MODULE ResponsesTurn_proofs ------------------------
(***************************************************************************)
(* Theorems about ResponsesTurn for any finite set of items, of any length.*)
(* The argument: between two events every block belongs to one item and    *)
(* has what the upstream has sent of that item, less what is in hand; what *)
(* the client sees of an unfinished block is at most what the block has,   *)
(* and of a finished one all of it.  A block is open as long as its item   *)
(* is not finished, and the terminal event closes the rest.  Nothing more  *)
(* is claimed of a turn that has failed than that its stream was in order. *)
(* The timer is argued about apart: a callback that may still expire the   *)
(* reader is one that nothing has come after.                              *)
(***************************************************************************)
EXTENDS ResponsesTurn, FiniteSetTheorems, SequenceTheorems, TLAPS

Content == [item : Item, text : Piece, input : Piece]

\* an event is between Read and the end of Handle
InHand == pc \in {"reset", "handle"}
Pending(type, i) == InHand /\ event.type = type /\ event.item = i

\* what the blocks have of an item, and whether they have its end
Landed(i) == IF Pending("delta", i) THEN sent[i] - 1 ELSE sent[i]
Finished(i) == phase[i] = "done" /\ ~Pending("done", i)

\* what is in hand is what the upstream has said last
EventInv ==
  InHand =>
    /\ event \in Event
    /\ event.type \in {"added", "delta", "done"} => event.item \in Item /\ status = "none"
    /\ event.type = "added" => phase[event.item] = "added"
    /\ event.type = "delta" => phase[event.item] = "added" /\ sent[event.item] > 0
    /\ event.type = "done" => phase[event.item] = "done" /\ event.content = sent[event.item]

\* a turn is terminal with all blocks closed, and nothing of an item comes after it
EndInv ==
  /\ pc = "end" <=> msg \in {"ended", "error"}
  /\ msg = "ended" => terminal
  /\ terminal => open = {} /\ (status # "none" \/ pc \in {"finalize", "end"})

Repaired ==
  \E k \in 1..Len(blocks) :
    /\ kind[blocks[k].item] = "read"
    /\ blocks[k].input = sent[blocks[k].item]
    /\ \A j \in 1..Len(blocks) : j # k => phase[blocks[j].item] = "done"

TermInv ==
  terminal /\ msg # "error" =>
    status \in {"completed", "incomplete"} \/ (Repaired /\ pc \in {"finalize", "end"})

\* a block is one item's, and an item's index is its block's
IndexInv ==
  /\ \A i \in Item : itemIndex[i] # 0 => blocks[itemIndex[i]].item = i
  /\ \A k \in 1..Len(blocks) : itemIndex[blocks[k].item] = k

\* the block of an item, and what is seen of it
ItemOk(i) ==
  LET k == itemIndex[i] IN
  /\ phase[i] = "new" => k = 0 /\ sent[i] = 0
  /\ Pending("added", i) => k = 0 /\ sent[i] = 0
  /\ Tool(i) /\ phase[i] # "new" /\ ~Pending("added", i) => k # 0
  /\ k = 0 /\ ~Pending("done", i) => Landed(i) = 0
  /\ k = 0 /\ Pending("done", i) /\ kind[i] = "message" => sent[i] = 0
  /\ k # 0 /\ phase[i] = "added" => blocks[k].text = Landed(i)
  /\ k # 0 /\ Pending("done", i) =>
       blocks[k].text = sent[i] \/ (blocks[k].text = 0 /\ kind[i] # "message")
  /\ k # 0 /\ Finished(i) =>
       /\ (IF Tool(i) THEN blocks[k].input ELSE blocks[k].text) = sent[i]
       /\ view[k].text = sent[i]
  /\ k # 0 /\ ~Tool(i) => view[k].text = blocks[k].text
  /\ k # 0 /\ ~Finished(i) /\ pc \notin {"finalize", "end"} => view[k].text <= blocks[k].text

ItemInv == msg # "error" => \A i \in Item : ItemOk(i)

OpenInv ==
  msg # "error" /\ ~terminal =>
    \A k \in 1..Len(blocks) : k \in open <=> ~Finished(blocks[k].item)

ViewInv ==
  \A k \in Index :
    /\ view[k].state = IF k > Len(blocks) THEN "none" ELSE IF k \in open THEN "open" ELSE "closed"
    /\ k > Len(blocks) => view[k].text = 0

IInv ==
  TypeOK /\ EventInv /\ EndInv /\ TermInv /\ IndexInv /\ ItemInv /\ OpenInv /\ ViewInv

----------------------------------------------------------------------------
\* There are no more blocks than items.
LEMMA Fits ==
  ASSUME NEW b \in Seq(Content), NEW f, \A k \in 1..Len(b) : f[b[k].item] = k
  PROVE  Len(b) <= Cardinality(Item) /\ Cardinality(Item) \in Nat
<1> DEFINE g == [k \in 1..Len(b) |-> b[k].item]
<1>1. \A k \in 1..Len(b) : b[k].item \in Item
  <2>1. \A k \in 1..Len(b) : b[k] \in Content
    OBVIOUS
  <2> QED
    BY <2>1 DEF Content
<1>2. g \in Injection(1..Len(b), Item)
  <2>1. g \in [1..Len(b) -> Item]
    BY <1>1
  <2>2. \A j, k \in 1..Len(b) : g[j] = g[k] => j = k
    OBVIOUS
  <2> HIDE DEF g
  <2> QED
    BY <2>1, <2>2 DEF Injection, IsInjective
<1>3. Cardinality(1..Len(b)) <= Cardinality(Item)
  <2> HIDE DEF g
  <2> QED
    BY <1>2, FS_Injection, TurnAssumption
<1>4. Cardinality(1..Len(b)) = Len(b)
  <2>1. Len(b) \in Nat
    OBVIOUS
  <2>2. Cardinality(1..Len(b)) = IF 1 > Len(b) THEN 0 ELSE Len(b) - 1 + 1
    BY <2>1, FS_Interval
  <2> QED
    BY <2>1, <2>2
<1> QED
  BY <1>3, <1>4, FS_CardinalityType, TurnAssumption

\* A new block is the next one, and takes no other item's place.
LEMMA BeginBlock ==
  ASSUME TypeOK, IndexInv, NEW i \in Item, NEW t \in Piece, itemIndex[i] = 0, Begin(i, t)
  PROVE  /\ blocks' \in Seq(Content) /\ Len(blocks') = NextIndex /\ Len(blocks') <= Cardinality(Item)
         /\ NextIndex \in Index
         /\ itemIndex' \in [Item -> 0..Len(blocks')]
         /\ IndexInv'
         /\ blocks'[NextIndex] = [item |-> i, text |-> t, input |-> 0]
         /\ \A k \in 1..Len(blocks) : blocks'[k] = blocks[k]
         /\ itemIndex'[i] = NextIndex
         /\ \A j \in Item : j # i => itemIndex'[j] = itemIndex[j]
<1>1. blocks \in Seq(Content) /\ itemIndex \in [Item -> 0..Len(blocks)] /\ Len(blocks) \in Nat
  BY DEF TypeOK, Content
<1>2. [item |-> i, text |-> t, input |-> 0] \in Content
  BY TurnAssumption DEF Content, Piece
<1>3. blocks' = Append(blocks, [item |-> i, text |-> t, input |-> 0])
  BY DEF Begin
<1>4. /\ blocks' \in Seq(Content) /\ Len(blocks') = NextIndex
      /\ blocks'[NextIndex] = [item |-> i, text |-> t, input |-> 0]
      /\ \A k \in 1..Len(blocks) : blocks'[k] = blocks[k]
  BY <1>1, <1>2, <1>3 DEF NextIndex
<1>5. /\ itemIndex' \in [Item -> 0..Len(blocks')]
      /\ itemIndex'[i] = NextIndex
      /\ \A j \in Item : j # i => itemIndex'[j] = itemIndex[j]
  BY <1>1, <1>4 DEF Begin, NextIndex
<1>6. IndexInv'
  <2>1. ASSUME NEW j \in Item, itemIndex'[j] # 0 PROVE blocks'[itemIndex'[j]].item = j
    <3>1. CASE j = i
      BY <3>1, <1>4, <1>5
    <3>2. CASE j # i
      <4>1. itemIndex'[j] = itemIndex[j] /\ itemIndex[j] \in 1..Len(blocks)
        BY <2>1, <3>2, <1>1, <1>5
      <4>2. blocks[itemIndex[j]].item = j
        BY <4>1 DEF IndexInv
      <4> QED
        BY <4>1, <4>2, <1>4
    <3> QED
      BY <3>1, <3>2
  <2>2. ASSUME NEW k \in 1..Len(blocks') PROVE itemIndex'[blocks'[k].item] = k
    <3>1. CASE k = NextIndex
      BY <3>1, <1>4, <1>5
    <3>2. CASE k # NextIndex
      <4>1. k \in 1..Len(blocks) /\ blocks[k].item \in Item
        <5>1. k \in 1..Len(blocks)
          BY <3>2, <1>1, <1>4 DEF NextIndex
        <5>2. blocks[k] \in Content
          BY <5>1, <1>1
        <5> QED
          BY <5>1, <5>2 DEF Content
      <4>2. itemIndex[blocks[k].item] = k
        BY <4>1 DEF IndexInv
      <4>3. blocks[k].item # i
        BY <4>1, <4>2
      <4> QED
        BY <4>1, <4>2, <4>3, <1>4, <1>5
    <3> QED
      BY <3>1, <3>2
  <2> QED
    BY <2>1, <2>2 DEF IndexInv
<1>7. Len(blocks') <= Cardinality(Item) /\ Cardinality(Item) \in Nat
  <2>1. \A k \in 1..Len(blocks') : itemIndex'[blocks'[k].item] = k
    BY <1>6 DEF IndexInv
  <2> QED
    BY <1>4, <2>1, Fits
<1>8. NextIndex \in Index
  BY <1>1, <1>4, <1>7 DEF NextIndex, Index
<1> QED
  BY <1>4, <1>5, <1>6, <1>7, <1>8

\* A block that is filled stays its item's.
LEMMA FillBlock ==
  ASSUME TypeOK, IndexInv, NEW k \in 1..Len(blocks), NEW b \in Content, b.item = blocks[k].item,
         blocks' = [blocks EXCEPT ![k] = b], itemIndex' = itemIndex
  PROVE  /\ blocks' \in Seq(Content) /\ Len(blocks') = Len(blocks)
         /\ IndexInv'
         /\ blocks'[k] = b
         /\ \A j \in 1..Len(blocks) : j # k => blocks'[j] = blocks[j]
<1>1. blocks \in Seq(Content) /\ itemIndex \in [Item -> 0..Len(blocks)] /\ Len(blocks) \in Nat
  BY DEF TypeOK, Content
<1>2. /\ blocks' \in Seq(Content) /\ Len(blocks') = Len(blocks)
      /\ blocks'[k] = b
      /\ \A j \in 1..Len(blocks) : j # k => blocks'[j] = blocks[j]
  BY <1>1
<1>3. \A j \in 1..Len(blocks) : blocks'[j].item = blocks[j].item
  BY <1>2
<1>4. IndexInv'
  BY <1>1, <1>2, <1>3 DEF IndexInv
<1> QED
  BY <1>2, <1>4

\* the types that the steps of the upstream and the timer leave alone
LEMMA TypeFacts ==
  ASSUME TypeOK
  PROVE  /\ blocks \in Seq(Content) /\ itemIndex \in [Item -> 0..Len(blocks)]
         /\ Len(blocks) \in Nat /\ Len(blocks) <= Cardinality(Item) /\ Cardinality(Item) \in Nat
         /\ 1..Len(blocks) \subseteq Index
         /\ \A i \in Item : sent[i] \in Piece
         /\ \A k \in 1..Len(blocks) : blocks[k].item \in Item /\ blocks[k].text \in Piece /\ blocks[k].input \in Piece
         /\ \A k \in Index : view[k].text \in Piece
         /\ Piece \subseteq Nat
<1>1. Cardinality(Item) \in Nat
  BY TurnAssumption, FS_CardinalityType
<1>2. blocks \in Seq(Content) /\ Len(blocks) \in Nat
  BY DEF TypeOK, Content
<1>3. \A k \in 1..Len(blocks) : blocks[k] \in Content
  BY <1>2
<1>4. \A k \in 1..Len(blocks) : blocks[k].item \in Item /\ blocks[k].text \in Piece /\ blocks[k].input \in Piece
  BY <1>3 DEF Content
<1>5. itemIndex \in [Item -> 0..Len(blocks)] /\ Len(blocks) <= Cardinality(Item) /\ 1..Len(blocks) \subseteq Index
  BY <1>1, <1>2 DEF TypeOK, Index
<1>6. (\A i \in Item : sent[i] \in Piece) /\ (\A k \in Index : view[k].text \in Piece)
  BY DEF TypeOK
<1>7. Piece \subseteq Nat
  BY DEF Piece
<1> QED
  BY <1>1, <1>2, <1>4, <1>5, <1>6, <1>7

LEMMA InitInv == Init => IInv
<1> SUFFICES ASSUME Init PROVE IInv
  OBVIOUS
<1>1. blocks = <<>> /\ Len(blocks) = 0 /\ Cardinality(Item) \in Nat
  BY TurnAssumption, FS_CardinalityType DEF Init
<1>2. TypeOK
  <2>1. 0 \in Piece /\ 0 \in 0..MaxPing /\ 0 \in 0..Len(blocks)
    BY <1>1, TurnAssumption DEF Piece
  <2>2. sent \in [Item -> Piece] /\ itemIndex \in [Item -> 0..Len(blocks)]
    BY <2>1 DEF Init
  <2>3. view \in [Index -> [state : {"none", "open", "closed"}, text : Piece]]
    BY <2>1 DEF Init
  <2>4. blocks \in Seq(Content) /\ Len(blocks) <= Cardinality(Item)
    BY <1>1
  <2> QED
    BY <2>1, <2>2, <2>3, <2>4 DEF Init, TypeOK, Content
<1>3. \A i \in Item : ItemOk(i)
  BY DEF Init, ItemOk, Landed, Pending, InHand, Finished, Tool
<1> QED
  BY <1>1, <1>2, <1>3 DEF Init, IInv, EventInv, InHand, EndInv, TermInv, IndexInv, ItemInv, OpenInv, ViewInv, Index

----------------------------------------------------------------------------
(* Steps aside, and the end                                                *)

\* A step that leaves the event, the blocks and the client's stream alone, and
\* goes on from Read or Reset at most.
LEMMA AsideInv ==
  ASSUME IInv, TypeOK', UNCHANGED <<upVars, event, collectorVars, msg, view>>,
         \/ UNCHANGED pc
         \/ pc = "reset" /\ pc' = "handle"
         \/ pc = "read" /\ pc' = "check"
         \/ pc = "check" /\ pc' = "finalize"
  PROVE  IInv'
<1> USE DEF IInv, upVars, collectorVars
<1>1. InHand' = InHand
  BY DEF InHand
<1>2. \A i \in Item, t \in Types : Pending(t, i)' = Pending(t, i)
  BY <1>1 DEF Pending
<1>3. \A i \in Item : Landed(i)' = Landed(i) /\ Finished(i)' = Finished(i) /\ Tool(i)' = Tool(i)
  BY <1>2 DEF Landed, Finished, Tool, Types
<1>4. EventInv'
  BY <1>1 DEF EventInv
<1>5. EndInv'
  BY DEF EndInv
<1>6. TermInv'
  BY DEF TermInv, Repaired
<1>7. IndexInv'
  BY DEF IndexInv
<1>8. ASSUME msg # "error", NEW i \in Item PROVE ItemOk(i)'
  <2>1. ItemOk(i)
    BY <1>8 DEF ItemInv
  <2> QED
    BY <2>1, <1>2, <1>3 DEF ItemOk, Types
<1>9. OpenInv'
  <2>1. \A k \in 1..Len(blocks) : blocks[k].item \in Item
    BY TypeFacts
  <2> QED
    BY <1>3, <2>1 DEF OpenInv
<1>10. ViewInv'
  BY DEF ViewInv
<1> QED
  BY <1>4, <1>5, <1>6, <1>7, <1>8, <1>9, <1>10 DEF ItemInv

\* A turn that fails leaves only what the client sees.
LEMMA FailInv ==
  ASSUME IInv, UNCHANGED collectorVars, GenerateFails(view)
  PROVE  IInv'
<1> USE DEF IInv, collectorVars, GenerateFails, Closed, upVars
<1>1. TypeOK'
  BY DEF TypeOK
<1>2. ViewInv'
  BY DEF ViewInv
<1>3. IndexInv'
  BY DEF IndexInv
<1> QED
  BY <1>1, <1>2, <1>3 DEF EventInv, InHand, EndInv, TermInv, ItemInv, OpenInv

----------------------------------------------------------------------------
(* The upstream                                                            *)

\* What every event that Read returns has in common.
LEMMA Arrival ==
  ASSUME IInv, NEW type \in Types, NEW i \in Item \cup {NoEvent}, NEW content \in Piece,
         \E signed, whole \in BOOLEAN : Arrive(type, i, content, signed, whole),
         phase' \in [Item -> {"new", "added", "done"}],
         sent' \in [Item -> Piece],
         status' \in {"none", "completed", "incomplete", "failed"},
         pings' \in 0..MaxPing
  PROVE  /\ TypeOK' /\ ViewInv' /\ IndexInv'
         /\ event'.type = type /\ event'.item = i /\ event'.content = content /\ event' \in Event
         /\ pc = "read" /\ pc' = "reset"
         /\ msg # "error" /\ msg' = msg
         /\ \A j \in Item : ItemOk(j)
         /\ \A j \in Item, t \in Types : ~Pending(t, j) /\ (Pending(t, j)' <=> t = type /\ j = i)
         /\ UNCHANGED <<kind, collectorVars, view>>
<1> PICK signed \in BOOLEAN, whole \in BOOLEAN : Arrive(type, i, content, signed, whole)
  OBVIOUS
<1>1. event' = [type |-> type, item |-> i, content |-> content, signed |-> signed, whole |-> whole]
  BY DEF Arrive
<1>2. event' \in Event
  BY <1>1 DEF Event
<1>3. event'.type = type /\ event'.item = i /\ event'.content = content
  BY <1>1
<1>4. pc = "read" /\ pc' = "reset" /\ UNCHANGED <<kind, cause, timerVars, cancelled, collectorVars, clientVars>>
  BY DEF Arrive
<1>5. TypeOK'
  BY <1>2, <1>4 DEF IInv, TypeOK, timerVars, collectorVars, clientVars
<1>6. ViewInv' /\ IndexInv'
  BY <1>4 DEF IInv, ViewInv, IndexInv, collectorVars, clientVars
<1>7. msg # "error" /\ msg' = msg
  BY <1>4 DEF IInv, EndInv, clientVars
<1>8. \A j \in Item : ItemOk(j)
  BY <1>7 DEF IInv, ItemInv
<1>9. \A j \in Item, t \in Types : ~Pending(t, j) /\ (Pending(t, j)' <=> t = type /\ j = i)
  BY <1>3, <1>4 DEF Pending, InHand
<1> QED
  BY <1>2, <1>3, <1>4, <1>5, <1>6, <1>7, <1>8, <1>9 DEF clientVars

LEMMA AddedInv ==
  ASSUME IInv, NEW i \in Item, SendAdded(i)
  PROVE  IInv'
<1>1. \E signed, whole \in BOOLEAN : Arrive("added", i, 0, signed, whole)
  BY DEF SendAdded
<1>2. status = "none" /\ phase[i] = "new" /\ phase' = [phase EXCEPT ![i] = "added"]
      /\ UNCHANGED <<sent, status, pings>>
  BY DEF SendAdded
<1>3. 0 \in Piece /\ "added" \in Types
  BY TurnAssumption DEF Piece, Types
<1>4. /\ phase' \in [Item -> {"new", "added", "done"}] /\ sent' \in [Item -> Piece]
      /\ status' \in {"none", "completed", "incomplete", "failed"} /\ pings' \in 0..MaxPing
  BY <1>2 DEF IInv, TypeOK
<1>5. /\ TypeOK' /\ ViewInv' /\ IndexInv'
      /\ event'.type = "added" /\ event'.item = i /\ event' \in Event
      /\ pc = "read" /\ pc' = "reset"
      /\ msg # "error" /\ msg' = msg
      /\ \A j \in Item : ItemOk(j)
      /\ \A j \in Item, t \in Types : ~Pending(t, j) /\ (Pending(t, j)' <=> t = "added" /\ j = i)
      /\ UNCHANGED <<kind, collectorVars, view>>
  BY <1>1, <1>2, <1>3, <1>4, Arrival
<1>6. phase'[i] = "added" /\ \A j \in Item : j # i => phase'[j] = phase[j]
  BY <1>2 DEF IInv, TypeOK
<1>7. ~terminal
  BY <1>2, <1>5 DEF IInv, EndInv
<1>8. \A j \in Item : /\ Landed(j)' = Landed(j) /\ Tool(j)' = Tool(j)
                      /\ Finished(j)' = Finished(j)
  BY <1>2, <1>5, <1>6 DEF Landed, Tool, Finished, Types
<1>9. \A j \in Item : ItemOk(j)'
  <2> SUFFICES ASSUME NEW j \in Item PROVE ItemOk(j)'
    OBVIOUS
  <2>1. ItemOk(j)
    BY <1>5
  <2>2. CASE j = i
    BY <2>1, <2>2, <1>2, <1>5, <1>6, <1>8 DEF ItemOk, Types, collectorVars, Finished
  <2>3. CASE j # i
    BY <2>1, <2>3, <1>2, <1>5, <1>6, <1>8 DEF ItemOk, Types, collectorVars
  <2> QED
    BY <2>2, <2>3
<1>10. OpenInv'
  <2>1. \A k \in 1..Len(blocks) : blocks[k].item \in Item
    BY TypeFacts DEF IInv
  <2> QED
    BY <2>1, <1>5, <1>7, <1>8 DEF IInv, OpenInv, collectorVars
<1>11. EventInv'
  BY <1>2, <1>5, <1>6 DEF EventInv
<1>12. EndInv' /\ TermInv'
  BY <1>2, <1>5, <1>7 DEF IInv, EndInv, TermInv, collectorVars
<1> QED
  BY <1>5, <1>9, <1>10, <1>11, <1>12 DEF IInv, ItemInv

LEMMA DeltaInv ==
  ASSUME IInv, NEW i \in Item, SendDelta(i)
  PROVE  IInv'
<1>1. \E signed, whole \in BOOLEAN : Arrive("delta", i, 1, signed, whole)
  BY DEF SendDelta
<1>2. /\ status = "none" /\ phase[i] # "done" /\ (phase[i] = "new" => ~Tool(i))
      /\ phase' = [phase EXCEPT ![i] = "added"]
      /\ sent' = [sent EXCEPT ![i] = @ + 1] /\ sent[i] < MaxPiece
      /\ UNCHANGED <<status, pings>>
  BY DEF SendDelta, Tool
<1>3. 1 \in Piece /\ "delta" \in Types /\ sent[i] \in Nat
  BY TypeFacts, TurnAssumption DEF Piece, Types, IInv
<1>4. sent[i] + 1 \in Piece
  BY <1>2, <1>3, TurnAssumption DEF Piece
<1>5. /\ phase' \in [Item -> {"new", "added", "done"}] /\ sent' \in [Item -> Piece]
      /\ status' \in {"none", "completed", "incomplete", "failed"} /\ pings' \in 0..MaxPing
  BY <1>2, <1>4 DEF IInv, TypeOK
<1>6. /\ TypeOK' /\ ViewInv' /\ IndexInv'
      /\ event'.type = "delta" /\ event'.item = i /\ event' \in Event
      /\ pc = "read" /\ pc' = "reset"
      /\ msg # "error" /\ msg' = msg
      /\ \A j \in Item : ItemOk(j)
      /\ \A j \in Item, t \in Types : ~Pending(t, j) /\ (Pending(t, j)' <=> t = "delta" /\ j = i)
      /\ UNCHANGED <<kind, collectorVars, view>>
  BY <1>1, <1>2, <1>3, <1>5, Arrival
<1>7. /\ phase'[i] = "added" /\ sent'[i] = sent[i] + 1
      /\ \A j \in Item : j # i => phase'[j] = phase[j] /\ sent'[j] = sent[j]
  BY <1>2 DEF IInv, TypeOK
<1>8. ~terminal
  BY <1>2, <1>6 DEF IInv, EndInv
<1>9. \A j \in Item : /\ Landed(j) = sent[j] /\ Landed(j)' = Landed(j) /\ Tool(j)' = Tool(j)
                      /\ Finished(j)' = Finished(j)
  BY <1>2, <1>3, <1>6, <1>7 DEF Landed, Tool, Finished, Types
<1>10. \A j \in Item : ItemOk(j)'
  <2> SUFFICES ASSUME NEW j \in Item PROVE ItemOk(j)'
    OBVIOUS
  <2>1. ItemOk(j)
    BY <1>6
  <2>2. CASE j = i
    <3>1. phase[i] = "new" \/ phase[i] = "added"
      BY <1>2 DEF IInv, TypeOK
    <3> QED
      BY <3>1, <2>1, <2>2, <1>2, <1>6, <1>7, <1>9 DEF ItemOk, Types, collectorVars, Finished
  <2>3. CASE j # i
    BY <2>1, <2>3, <1>2, <1>6, <1>7, <1>9 DEF ItemOk, Types, collectorVars
  <2> QED
    BY <2>2, <2>3
<1>11. OpenInv'
  <2>1. \A k \in 1..Len(blocks) : blocks[k].item \in Item
    BY TypeFacts DEF IInv
  <2> QED
    BY <2>1, <1>6, <1>8, <1>9 DEF IInv, OpenInv, collectorVars
<1>12. EventInv'
  BY <1>2, <1>3, <1>6, <1>7 DEF EventInv
<1>13. EndInv' /\ TermInv'
  BY <1>2, <1>6, <1>8 DEF IInv, EndInv, TermInv, collectorVars
<1> QED
  BY <1>6, <1>10, <1>11, <1>12, <1>13 DEF IInv, ItemInv

LEMMA DoneInv ==
  ASSUME IInv, NEW i \in Item, SendDone(i)
  PROVE  IInv'
<1>1. PICK content \in Piece : /\ \E signed, whole \in BOOLEAN : Arrive("done", i, content, signed, whole)
                               /\ sent[i] > 0 \/ kind[i] = "message" => content = sent[i]
                               /\ sent' = [sent EXCEPT ![i] = content]
  BY DEF SendDone
<1>2. status = "none" /\ phase[i] = "added" /\ phase' = [phase EXCEPT ![i] = "done"]
      /\ UNCHANGED <<status, pings>>
  BY DEF SendDone
<1>3. "done" \in Types /\ sent[i] \in Nat
  BY TypeFacts DEF Types, IInv
<1>5. /\ phase' \in [Item -> {"new", "added", "done"}] /\ sent' \in [Item -> Piece]
      /\ status' \in {"none", "completed", "incomplete", "failed"} /\ pings' \in 0..MaxPing
  BY <1>1, <1>2 DEF IInv, TypeOK
<1>6. /\ TypeOK' /\ ViewInv' /\ IndexInv'
      /\ event'.type = "done" /\ event'.item = i /\ event' \in Event /\ event'.content = content
      /\ pc = "read" /\ pc' = "reset"
      /\ msg # "error" /\ msg' = msg
      /\ \A j \in Item : ItemOk(j)
      /\ \A j \in Item, t \in Types : ~Pending(t, j) /\ (Pending(t, j)' <=> t = "done" /\ j = i)
      /\ UNCHANGED <<kind, collectorVars, view>>
  BY <1>1, <1>2, <1>3, <1>5, Arrival
<1>7. /\ phase'[i] = "done" /\ sent'[i] = content
      /\ \A j \in Item : j # i => phase'[j] = phase[j] /\ sent'[j] = sent[j]
  BY <1>1, <1>2 DEF IInv, TypeOK
<1>8. ~terminal
  BY <1>2, <1>6 DEF IInv, EndInv
<1>9. \A j \in Item : /\ Landed(j) = sent[j] /\ Landed(j)' = sent'[j] /\ Tool(j)' = Tool(j)
                      /\ Finished(j)' = Finished(j)
  BY <1>2, <1>6, <1>7 DEF Landed, Tool, Finished, Types
<1>10. \A j \in Item : ItemOk(j)'
  <2> SUFFICES ASSUME NEW j \in Item PROVE ItemOk(j)'
    OBVIOUS
  <2>1. ItemOk(j)
    BY <1>6
  <2>2. CASE j = i
    <3>1. sent[i] = 0 \/ content = sent[i]
      BY <1>1, <1>3
    <3> QED
      BY <3>1, <2>1, <2>2, <1>1, <1>2, <1>6, <1>7, <1>9 DEF ItemOk, Types, collectorVars, Finished
  <2>3. CASE j # i
    BY <2>1, <2>3, <1>2, <1>6, <1>7, <1>9 DEF ItemOk, Types, collectorVars
  <2> QED
    BY <2>2, <2>3
<1>11. OpenInv'
  <2>1. \A k \in 1..Len(blocks) : blocks[k].item \in Item
    BY TypeFacts DEF IInv
  <2> QED
    BY <2>1, <1>6, <1>8, <1>9 DEF IInv, OpenInv, collectorVars
<1>12. EventInv'
  BY <1>2, <1>3, <1>6, <1>7 DEF EventInv
<1>13. EndInv' /\ TermInv'
  BY <1>2, <1>6, <1>8 DEF IInv, EndInv, TermInv, collectorVars
<1> QED
  BY <1>6, <1>10, <1>11, <1>12, <1>13 DEF IInv, ItemInv

\* An event that is of no item leaves the items as they are.
LEMMA OtherInv ==
  ASSUME IInv, NEW type \in {"terminal", "ping"},
         \E signed, whole \in BOOLEAN : Arrive(type, NoEvent, 0, signed, whole),
         UNCHANGED <<phase, sent>>,
         status' \in {"none", "completed", "incomplete", "failed"},
         status = "none" \/ UNCHANGED status,
         status' # "none",
         pings' \in 0..MaxPing
  PROVE  IInv'
<1>1. 0 \in Piece /\ type \in Types
  BY TurnAssumption DEF Piece, Types
<1>2. phase' \in [Item -> {"new", "added", "done"}] /\ sent' \in [Item -> Piece]
  BY DEF IInv, TypeOK
<1>3. /\ TypeOK' /\ ViewInv' /\ IndexInv'
      /\ event'.type = type /\ event' \in Event
      /\ pc = "read" /\ pc' = "reset"
      /\ msg # "error" /\ msg' = msg
      /\ \A j \in Item : ItemOk(j)
      /\ \A j \in Item, t \in Types : ~Pending(t, j) /\ (Pending(t, j)' <=> t = type /\ j = NoEvent)
      /\ UNCHANGED <<kind, collectorVars, view>>
  BY <1>1, <1>2, Arrival
<1>4. \A j \in Item : /\ Landed(j)' = Landed(j) /\ Tool(j)' = Tool(j)
                      /\ Finished(j)' = Finished(j)
  BY <1>3 DEF Landed, Tool, Finished, Types
<1>5. \A j \in Item : ItemOk(j)'
  BY <1>3, <1>4 DEF ItemOk, Types, collectorVars
<1>6. OpenInv'
  <2>1. \A k \in 1..Len(blocks) : blocks[k].item \in Item
    BY TypeFacts DEF IInv
  <2> QED
    BY <2>1, <1>3, <1>4 DEF IInv, OpenInv, collectorVars
<1>7. EventInv'
  BY <1>3 DEF EventInv
<1>8. EndInv' /\ TermInv'
  BY <1>3 DEF IInv, EndInv, TermInv, collectorVars
<1> QED
  BY <1>3, <1>5, <1>6, <1>7, <1>8 DEF IInv, ItemInv

LEMMA SendInv ==
  ASSUME IInv, Send
  PROVE  IInv'
<1>1. CASE SendTerminal
  <2>1. \E signed, whole \in BOOLEAN : Arrive("terminal", NoEvent, 0, signed, whole)
    BY <1>1 DEF SendTerminal
  <2>2. pings' \in 0..MaxPing /\ status' \in {"completed", "incomplete", "failed"} /\ status = "none"
        /\ UNCHANGED <<phase, sent>>
    BY <1>1 DEF SendTerminal, IInv, TypeOK
  <2> QED
    BY <2>1, <2>2, OtherInv
<1>2. CASE SendPing
  <2>1. \E signed, whole \in BOOLEAN : Arrive("ping", NoEvent, 0, signed, whole)
    BY <1>2 DEF SendPing
  <2>2. pings' \in 0..MaxPing
    BY <1>2, TurnAssumption DEF SendPing, IInv, TypeOK
  <2>3. UNCHANGED <<status, phase, sent>> /\ status # "none"
    BY <1>2 DEF SendPing
  <2>4. status' \in {"none", "completed", "incomplete", "failed"}
    BY <2>3 DEF IInv, TypeOK
  <2> QED
    BY <2>1, <2>2, <2>3, <2>4, OtherInv
<1> QED
  BY <1>1, <1>2, AddedInv, DeltaInv, DoneInv DEF Send

----------------------------------------------------------------------------
(* The Collector                                                           *)

View == [Index -> [state : {"none", "open", "closed"}, text : Piece]]

\* What the steps that go on to the next event have in common.
LEMMA Going ==
  ASSUME IInv, pc = "handle", Handled,
         UNCHANGED <<client, gone>>, UNCHANGED msg \/ msg' = "started",
         blocks' \in Seq(Content), Len(blocks') <= Cardinality(Item),
         itemIndex' \in [Item -> 0..Len(blocks')],
         open' \subseteq 1..Len(blocks'),
         terminal' \in BOOLEAN,
         stopReason' \in {"end_turn", "tool_use", "max_tokens"},
         view' \in View
  PROVE  /\ TypeOK' /\ EventInv'
         /\ msg # "error" /\ msg' \notin {"ended", "error"} /\ pc' = "read" /\ ~InHand' /\ InHand
         /\ UNCHANGED <<kind, phase, sent, status>>
         /\ \A j \in Item : ItemOk(j)
         /\ \A j \in Item, t \in Types : ~Pending(t, j)'
         /\ \A j \in Item : Landed(j)' = sent[j] /\ (Finished(j)' <=> phase[j] = "done") /\ Tool(j)' = Tool(j)
<1>1. pc' = "read" /\ event' = NoEvent /\ UNCHANGED <<upVars, cause, timerVars, cancelled>>
  BY DEF Handled
<1>2. InHand /\ ~InHand'
  BY <1>1 DEF InHand
<1>3. msg \notin {"ended", "error"} /\ msg' \in {"none", "started"}
  BY DEF IInv, EndInv, TypeOK, clientVars
<1>4. TypeOK'
  BY <1>1, <1>3 DEF IInv, TypeOK, Content, View, upVars, timerVars, clientVars
<1>5. EventInv'
  BY <1>2 DEF EventInv
<1>6. \A j \in Item : ItemOk(j)
  BY <1>3 DEF IInv, ItemInv
<1>7. \A j \in Item, t \in Types : ~Pending(t, j)'
  BY <1>2 DEF Pending
<1>8. \A j \in Item : Landed(j)' = sent[j] /\ (Finished(j)' <=> phase[j] = "done") /\ Tool(j)' = Tool(j)
  BY <1>1, <1>7 DEF Landed, Finished, Tool, upVars, Types
<1> QED
  BY <1>1, <1>2, <1>3, <1>4, <1>5, <1>6, <1>7, <1>8 DEF upVars

\* An event of one item leaves the others as they are.
LEMMA OthersOk ==
  ASSUME IInv, pc = "handle", Handled \/ (pc' = "finalize" /\ UNCHANGED upVars),
         NEW j \in Item, ItemOk(j), event.item # j,
         itemIndex'[j] = itemIndex[j],
         itemIndex[j] # 0 => blocks'[itemIndex[j]] = blocks[itemIndex[j]]
                               /\ view'[itemIndex[j]] = view[itemIndex[j]]
  PROVE  ItemOk(j)'
<1>1. pc' \in {"read", "finalize"} /\ pc = "handle" /\ UNCHANGED upVars
  BY DEF Handled
<1>2. \A t \in Types : ~Pending(t, j) /\ ~Pending(t, j)'
  BY <1>1 DEF Pending, InHand
<1>3. Landed(j)' = Landed(j) /\ Finished(j)' = Finished(j) /\ Tool(j)' = Tool(j)
  BY <1>1, <1>2 DEF Landed, Finished, Tool, Types, upVars
<1> QED
  BY <1>1, <1>2, <1>3 DEF ItemOk, Types, upVars

\* An event of item i that starts its block with all that was sent of it.
LEMMA StartInv ==
  ASSUME IInv, pc = "handle", Handled, NEW i \in Item, event.item = i,
         itemIndex[i] = 0, ~terminal, UNCHANGED terminal,
         stopReason' \in {"end_turn", "tool_use", "max_tokens"},
         Begin(i, sent[i]), phase[i] # "new", Tool(i) => phase[i] # "done",
         NEW state \in {"open", "closed"}, state = "open" <=> phase[i] # "done",
         open' = IF state = "open" THEN open \cup {NextIndex} ELSE open,
         Emit(Shown(NextIndex, state, sent[i]))
  PROVE  IInv'
<1>1. sent[i] \in Piece /\ Len(blocks) \in Nat /\ NextIndex = Len(blocks) + 1
  BY TypeFacts DEF IInv, NextIndex
<1>2. /\ blocks' \in Seq(Content) /\ Len(blocks') = NextIndex /\ Len(blocks') <= Cardinality(Item)
      /\ NextIndex \in Index
      /\ itemIndex' \in [Item -> 0..Len(blocks')]
      /\ IndexInv'
      /\ blocks'[NextIndex] = [item |-> i, text |-> sent[i], input |-> 0]
      /\ \A k \in 1..Len(blocks) : blocks'[k] = blocks[k]
      /\ itemIndex'[i] = NextIndex
      /\ \A j \in Item : j # i => itemIndex'[j] = itemIndex[j]
  BY <1>1, BeginBlock DEF IInv
<1>3. /\ view' \in View
      /\ view'[NextIndex] = [state |-> state, text |-> sent[i]]
      /\ \A k \in Index : k # NextIndex => view'[k] = view[k]
  <2>1. view \in View /\ view' = [view EXCEPT ![NextIndex] = [state |-> state, text |-> sent[i]]]
    BY DEF Emit, Shown, View, IInv, TypeOK
  <2> QED
    BY <2>1, <1>1, <1>2 DEF View
<1>4. open \subseteq 1..Len(blocks) /\ open' \subseteq 1..Len(blocks')
  <2>1. open \subseteq 1..Len(blocks)
    BY DEF IInv, TypeOK
  <2>2. Len(blocks') = Len(blocks) + 1 /\ Len(blocks) \in Nat /\ NextIndex = Len(blocks) + 1
    BY <1>1, <1>2
  <2>3. open' \subseteq open \cup {NextIndex}
    OBVIOUS
  <2>4. \A k \in open \cup {NextIndex} : k \in 1..Len(blocks')
    BY <2>1, <2>2
  <2> QED
    BY <2>1, <2>3, <2>4
<1>5. UNCHANGED <<client, gone>> /\ msg' = "started"
  BY DEF Emit
<1>6. terminal' \in BOOLEAN
  BY DEF IInv, TypeOK
<1>7. /\ TypeOK' /\ EventInv'
      /\ msg # "error" /\ msg' \notin {"ended", "error"} /\ pc' = "read"
      /\ UNCHANGED <<kind, phase, sent, status>>
      /\ \A j \in Item : ItemOk(j)
      /\ \A j \in Item, t \in Types : ~Pending(t, j)'
      /\ \A j \in Item : Landed(j)' = sent[j] /\ (Finished(j)' <=> phase[j] = "done") /\ Tool(j)' = Tool(j)
  BY <1>2, <1>3, <1>4, <1>5, <1>6, Going
<1>8. ASSUME NEW j \in Item PROVE ItemOk(j)'
  <2>1. CASE j = i
    <3>1. blocks'[NextIndex].text = sent[i] /\ view'[NextIndex].text = sent[i] /\ NextIndex # 0 /\ sent[i] \in Nat
      BY <1>1, <1>2, <1>3 DEF Piece
    <3> QED
      BY <2>1, <1>2, <1>7, <3>1 DEF ItemOk, Types
  <2>2. CASE j # i
    <3>1. itemIndex[j] # 0 => itemIndex[j] \in 1..Len(blocks) /\ itemIndex[j] # NextIndex /\ itemIndex[j] \in Index
      BY TypeFacts, <1>1 DEF IInv
    <3> QED
      BY <2>2, <3>1, <1>2, <1>3, <1>7, OthersOk
  <2> QED
    BY <2>1, <2>2
<1>9. ASSUME NEW k \in 1..Len(blocks') PROVE k \in open' <=> phase[blocks'[k].item] # "done"
  <2>1. CASE k = NextIndex
    BY <2>1, <1>1, <1>2, <1>4
  <2>2. CASE k # NextIndex
    <3>1. k \in 1..Len(blocks) /\ blocks'[k] = blocks[k] /\ blocks[k].item \in Item
      <4>1. k \in 1..Len(blocks)
        BY <2>2, <1>1, <1>2
      <4> QED
        BY <4>1, <1>2, TypeFacts DEF IInv
    <3>2. blocks[k].item # i
      BY <3>1 DEF IInv, IndexInv
    <3>3. k \in open <=> ~Finished(blocks[k].item)
      BY <3>1, <1>7 DEF IInv, OpenInv
    <3>4. Finished(blocks[k].item) <=> phase[blocks[k].item] = "done"
      BY <3>2 DEF Finished, Pending
    <3> QED
      BY <2>2, <3>1, <3>3, <3>4
  <2> QED
    BY <2>1, <2>2
<1>10. ASSUME NEW k \in Index
       PROVE  /\ view'[k].state = IF k > Len(blocks') THEN "none" ELSE IF k \in open' THEN "open" ELSE "closed"
              /\ k > Len(blocks') => view'[k].text = 0
  <2>1. k \in Nat
    BY DEF Index
  <2>2. CASE k = NextIndex
    BY <2>1, <2>2, <1>1, <1>2, <1>3, <1>4
  <2>3. CASE k # NextIndex
    <3>1. /\ view[k].state = IF k > Len(blocks) THEN "none" ELSE IF k \in open THEN "open" ELSE "closed"
          /\ k > Len(blocks) => view[k].text = 0
      BY DEF IInv, ViewInv
    <3> QED
      BY <3>1, <2>1, <2>3, <1>1, <1>2, <1>3
  <2> QED
    BY <2>2, <2>3
<1>11. EndInv' /\ TermInv'
  BY <1>7 DEF EndInv, TermInv
<1>12. OpenInv'
  BY <1>7, <1>9 DEF OpenInv, Finished, Pending, InHand
<1>13. ViewInv'
  BY <1>10 DEF ViewInv, Index
<1> QED
  BY <1>2, <1>7, <1>8, <1>11, <1>12, <1>13 DEF IInv, ItemInv

\* An event of an item without a block that gives it none.
LEMMA KeepInv ==
  ASSUME IInv, pc = "handle", Handled, UNCHANGED <<blocks, itemIndex, open, terminal, clientVars>>,
         stopReason' \in {"end_turn", "tool_use", "max_tokens"},
         NEW i \in Item, event.item = i, ~terminal, itemIndex[i] = 0, ItemOk(i)'
  PROVE  IInv'
<1>1. /\ blocks' \in Seq(Content) /\ Len(blocks') <= Cardinality(Item)
      /\ itemIndex' \in [Item -> 0..Len(blocks')]
      /\ open' \subseteq 1..Len(blocks')
      /\ view' \in View
      /\ terminal' \in BOOLEAN
  BY TypeFacts DEF IInv, TypeOK, View, clientVars
<1>2. /\ TypeOK' /\ EventInv'
      /\ msg # "error" /\ msg' \notin {"ended", "error"} /\ pc' = "read"
      /\ UNCHANGED <<kind, phase, sent, status>>
      /\ \A j \in Item : ItemOk(j)
      /\ \A j \in Item : Landed(j)' = sent[j] /\ (Finished(j)' <=> phase[j] = "done") /\ Tool(j)' = Tool(j)
  BY <1>1, Going DEF clientVars
<1>3. ASSUME NEW j \in Item PROVE ItemOk(j)'
  <2>1. CASE j # i
    BY <2>1, <1>2, OthersOk DEF clientVars
  <2> QED
    BY <2>1
<1>4. \A k \in 1..Len(blocks) : blocks[k].item \in Item /\ blocks[k].item # i
  <2>1. \A k \in 1..Len(blocks) : blocks[k].item \in Item
    BY TypeFacts DEF IInv
  <2>2. \A k \in 1..Len(blocks) : itemIndex[blocks[k].item] # 0
    BY DEF IInv, IndexInv
  <2> QED
    BY <2>1, <2>2
<1>5. \A k \in 1..Len(blocks) : Finished(blocks[k].item)' <=> Finished(blocks[k].item)
  <2>1. \A j \in Item : j # i => (Finished(j) <=> phase[j] = "done")
    BY DEF Finished, Pending
  <2>2. \A j \in Item : j # i => (Finished(j)' <=> Finished(j))
    BY <2>1, <1>2
  <2>3. blocks' = blocks
    OBVIOUS
  <2> QED
    BY <1>4, <2>2, <2>3
<1>6. OpenInv'
  BY <1>2, <1>5 DEF IInv, OpenInv
<1>7. ViewInv' /\ IndexInv'
  BY DEF IInv, ViewInv, IndexInv, clientVars
<1>8. EndInv' /\ TermInv'
  BY <1>2 DEF EndInv, TermInv
<1> QED
  BY <1>2, <1>3, <1>6, <1>7, <1>8 DEF IInv, ItemInv

LEMMA HandleAddedInv ==
  ASSUME IInv, HandleAdded, NEW i \in Item, event.item = i
  PROVE  IInv'
<1>1. pc = "handle" /\ Handled /\ event.type = "added" /\ terminal' = terminal
  BY DEF HandleAdded, Handles
<1>2. status = "none" /\ phase[i] = "added"
  BY <1>1 DEF IInv, EventInv, InHand
<1>3. Pending("added", i) /\ ItemOk(i)
  BY <1>1, <1>2 DEF Pending, InHand, IInv, ItemInv, EndInv
<1>4. itemIndex[i] = 0 /\ sent[i] = 0 /\ ~terminal
  BY <1>1, <1>2, <1>3 DEF ItemOk, IInv, EndInv
<1>5. stopReason' \in {"end_turn", "tool_use", "max_tokens"}
  BY <1>1 DEF HandleAdded, IInv, TypeOK
<1>6. CASE Tool(i) \/ event.signed
  <2>1. Begin(i, 0) /\ open' = open \cup {NextIndex} /\ Emit(Shown(NextIndex, "open", 0))
    BY <1>6 DEF HandleAdded
  <2> QED
    BY <1>1, <1>2, <1>4, <1>5, <2>1, StartInv
<1>7. CASE ~(Tool(i) \/ event.signed)
  <2>1. UNCHANGED <<blocks, itemIndex, open, clientVars>>
    BY <1>7 DEF HandleAdded
  <2>2. ItemOk(i)'
    <3>1. UNCHANGED upVars /\ pc' = "read"
      BY <1>1 DEF Handled
    <3>2. ~(kind[i] \in Calls)
      BY <1>7 DEF Tool
    <3>3. itemIndex'[i] = 0 /\ sent'[i] = 0 /\ phase'[i] = "added" /\ ~(kind'[i] \in Calls)
      BY <1>2, <1>4, <2>1, <3>1, <3>2 DEF upVars
    <3> QED
      BY <3>1, <3>3 DEF ItemOk, Pending, Landed, Finished, InHand, Tool
  <2> QED
    BY <1>1, <1>2, <1>4, <1>5, <2>1, <2>2, KeepInv
<1> QED
  BY <1>6, <1>7

\* An event of item i that fills its block up to what was sent of it.
LEMMA FillInv ==
  ASSUME IInv, pc = "handle", Handled, NEW i \in Item, event.item = i, ~terminal, phase[i] # "new",
         UNCHANGED <<terminal, stopReason, itemIndex>>,
         NEW k \in 1..Len(blocks), itemIndex[i] = k,
         NEW b \in Content, b.item = i, blocks' = [blocks EXCEPT ![k] = b],
         open' = IF phase[i] = "done" THEN open \ {k} ELSE open,
         NEW t \in Piece,
         view' = Shown(k, IF phase[i] = "done" THEN "closed" ELSE "open", t),
         UNCHANGED <<client, gone>>, UNCHANGED msg \/ msg' = "started",
         phase[i] = "added" => b.text = sent[i] /\ t <= sent[i],
         phase[i] = "done" => t = sent[i] /\ (IF Tool(i) THEN b.input ELSE b.text) = sent[i],
         ~Tool(i) => t = b.text
  PROVE  IInv'
<1>1. k \in Nat /\ k # 0 /\ k \in Index /\ t \in Nat
  BY TypeFacts DEF IInv
<1>2. blocks[k].item = i
  BY <1>1 DEF IInv, IndexInv
<1>3. /\ blocks' \in Seq(Content) /\ Len(blocks') = Len(blocks)
      /\ IndexInv'
      /\ blocks'[k] = b
      /\ \A j \in 1..Len(blocks) : j # k => blocks'[j] = blocks[j]
  BY <1>2, FillBlock DEF IInv
<1> DEFINE state == IF phase[i] = "done" THEN "closed" ELSE "open"
<1>4. /\ view' \in View
      /\ view'[k] = [state |-> state, text |-> t]
      /\ \A j \in Index : j # k => view'[j] = view[j]
  <2>1. view \in View /\ view' = [view EXCEPT ![k] = [state |-> state, text |-> t]]
    BY DEF Shown, View, IInv, TypeOK
  <2>2. state \in {"none", "open", "closed"}
    OBVIOUS
  <2> HIDE DEF state
  <2> QED
    BY <2>1, <2>2, <1>1 DEF View
<1>5. open \subseteq 1..Len(blocks) /\ open' \subseteq 1..Len(blocks')
  BY <1>3 DEF IInv, TypeOK
<1>6. /\ Len(blocks') <= Cardinality(Item) /\ itemIndex' \in [Item -> 0..Len(blocks')]
      /\ terminal' \in BOOLEAN /\ stopReason' \in {"end_turn", "tool_use", "max_tokens"}
  BY <1>3, TypeFacts DEF IInv, TypeOK
<1>8. /\ TypeOK' /\ EventInv'
      /\ msg # "error" /\ msg' \notin {"ended", "error"} /\ pc' = "read" /\ InHand
      /\ UNCHANGED <<kind, phase, sent, status>>
      /\ \A j \in Item : ItemOk(j)
      /\ \A j \in Item, u \in Types : ~Pending(u, j)'
      /\ \A j \in Item : Landed(j)' = sent[j] /\ (Finished(j)' <=> phase[j] = "done") /\ Tool(j)' = Tool(j)
  BY <1>3, <1>4, <1>5, <1>6, Going
<1>9. ASSUME NEW j \in Item PROVE ItemOk(j)'
  <2>1. CASE j = i
    <3>1. phase[i] \in {"added", "done"} /\ sent[i] \in Nat
      BY TypeFacts DEF IInv, TypeOK, Piece
    <3>2. itemIndex'[i] = k /\ blocks'[k].text = b.text /\ blocks'[k].input = b.input /\ view'[k].text = t
      BY <1>3, <1>4
    <3> QED
      BY <2>1, <3>1, <3>2, <1>1, <1>8 DEF ItemOk, Types
  <2>2. CASE j # i
    <3>1. itemIndex[j] # 0 => itemIndex[j] \in 1..Len(blocks) /\ itemIndex[j] \in Index /\ itemIndex[j] # k
      BY <2>2, <1>2, TypeFacts DEF IInv, IndexInv
    <3> QED
      BY <2>2, <3>1, <1>3, <1>4, <1>8, OthersOk
  <2> QED
    BY <2>1, <2>2
<1>10. ASSUME NEW j \in 1..Len(blocks') PROVE j \in open' <=> phase[blocks'[j].item] # "done"
  <2>1. blocks[j].item \in Item /\ j \in 1..Len(blocks) /\ blocks'[j].item = blocks[j].item
    BY <1>2, <1>3, TypeFacts DEF IInv
  <2>2. j \in open <=> ~Finished(blocks[j].item)
    BY <2>1, <1>8 DEF IInv, OpenInv
  <2>3. CASE j = k
    <3>1. phase[i] # "done" => ~Finished(i)
      BY DEF Finished
    <3> QED
      BY <2>1, <2>2, <2>3, <3>1, <1>2
  <2>4. CASE j # k
    <3>1. blocks[j].item # i
      BY <2>1, <2>4 DEF IInv, IndexInv
    <3>2. Finished(blocks[j].item) <=> phase[blocks[j].item] = "done"
      BY <3>1 DEF Finished, Pending
    <3> QED
      BY <2>1, <2>2, <2>4, <3>2
  <2> QED
    BY <2>3, <2>4
<1>11. ASSUME NEW j \in Index
       PROVE  /\ view'[j].state = IF j > Len(blocks') THEN "none" ELSE IF j \in open' THEN "open" ELSE "closed"
              /\ j > Len(blocks') => view'[j].text = 0
  <2>1. CASE j = k
    <3>1. k \in open' <=> phase[i] # "done"
      BY <1>2, <1>3, <1>10
    <3>2. ~(k > Len(blocks'))
      BY <1>1, <1>3, TypeFacts DEF IInv
    <3> QED
      BY <2>1, <3>1, <3>2, <1>4
  <2>2. CASE j # k
    <3>1. /\ view[j].state = IF j > Len(blocks) THEN "none" ELSE IF j \in open THEN "open" ELSE "closed"
          /\ j > Len(blocks) => view[j].text = 0
      BY DEF IInv, ViewInv
    <3> QED
      BY <3>1, <2>2, <1>3, <1>4
  <2> QED
    BY <2>1, <2>2
<1>12. OpenInv'
  BY <1>8, <1>10 DEF OpenInv, Finished, Pending, InHand
<1>13. ViewInv'
  BY <1>11 DEF ViewInv, Index
<1>14. EndInv' /\ TermInv'
  BY <1>8 DEF EndInv, TermInv
<1> QED
  BY <1>3, <1>8, <1>9, <1>12, <1>13, <1>14 DEF IInv, ItemInv

\* What is known of the item of a delta, and of one that is done.
LEMMA ItemFacts ==
  ASSUME IInv, pc = "handle", NEW i \in Item, event.item = i, event.type \in {"delta", "done"}
  PROVE  /\ ~terminal /\ phase[i] = IF event.type = "delta" THEN "added" ELSE "done"
         /\ status = "none" /\ msg # "error"
         /\ event.type = "delta" => sent[i] > 0
         /\ event.type = "done" => event.content = sent[i]
         /\ ItemOk(i)
         /\ Pending("added", i) = FALSE
         /\ Pending("delta", i) = (event.type = "delta")
         /\ Pending("done", i) = (event.type = "done")
         /\ Finished(i) = FALSE
         /\ Landed(i) = IF event.type = "delta" THEN sent[i] - 1 ELSE sent[i]
         /\ itemIndex[i] # 0 => itemIndex[i] \in 1..Len(blocks) /\ itemIndex[i] \in open
                               /\ view[itemIndex[i]].state = "open" /\ blocks[itemIndex[i]].item = i
         /\ sent[i] \in Piece /\ Piece \subseteq Nat
<1>1. InHand
  BY DEF InHand
<1>2. /\ phase[i] = IF event.type = "delta" THEN "added" ELSE "done"
      /\ event.type = "delta" => sent[i] > 0
      /\ event.type = "done" => event.content = sent[i]
      /\ status = "none"
  BY <1>1 DEF IInv, EventInv
<1>3. ~terminal /\ msg # "error"
  BY <1>2 DEF IInv, EndInv
<1>4. ItemOk(i)
  BY <1>3 DEF IInv, ItemInv
<1>5. /\ Pending("added", i) = FALSE
      /\ Pending("delta", i) = (event.type = "delta")
      /\ Pending("done", i) = (event.type = "done")
  BY <1>1 DEF Pending
<1>6. Finished(i) = FALSE
  BY <1>2, <1>5 DEF Finished
<1>7. Landed(i) = IF event.type = "delta" THEN sent[i] - 1 ELSE sent[i]
  BY <1>5 DEF Landed
<1>8. sent[i] \in Piece /\ Piece \subseteq Nat
  BY TypeFacts DEF IInv
<1>9. ASSUME itemIndex[i] # 0
      PROVE  itemIndex[i] \in 1..Len(blocks) /\ itemIndex[i] \in open
               /\ view[itemIndex[i]].state = "open" /\ blocks[itemIndex[i]].item = i
  <2>1. itemIndex[i] \in 1..Len(blocks) /\ itemIndex[i] \in Index /\ ~(itemIndex[i] > Len(blocks))
    BY <1>9, TypeFacts DEF IInv
  <2>2. blocks[itemIndex[i]].item = i
    BY <1>9 DEF IInv, IndexInv
  <2>3. itemIndex[i] \in open
    BY <2>1, <2>2, <1>3, <1>6 DEF IInv, OpenInv
  <2> QED
    BY <2>1, <2>2, <2>3 DEF IInv, ViewInv
<1> QED
  BY <1>2, <1>3, <1>4, <1>5, <1>6, <1>7, <1>8, <1>9

LEMMA HandleDeltaInv ==
  ASSUME IInv, HandleDelta, NEW i \in Item, event.item = i
  PROVE  IInv'
<1>1. pc = "handle" /\ Handled /\ event.type = "delta" /\ UNCHANGED <<terminal, stopReason>>
  BY DEF HandleDelta, Handles
<1>2. /\ ~terminal /\ phase[i] = "added" /\ sent[i] > 0
      /\ ItemOk(i) /\ ~Pending("done", i) /\ ~Finished(i) /\ Landed(i) = sent[i] - 1
      /\ itemIndex[i] # 0 => itemIndex[i] \in 1..Len(blocks)
                            /\ view[itemIndex[i]].state = "open" /\ blocks[itemIndex[i]].item = i
      /\ sent[i] \in Nat
  BY <1>1, ItemFacts
<1>3. stopReason \in {"end_turn", "tool_use", "max_tokens"}
  BY DEF IInv, TypeOK
<1>4. CASE itemIndex[i] = 0
  <2>1. Begin(i, 1) /\ open' = open \cup {NextIndex} /\ Emit(Shown(NextIndex, "open", 1))
    BY <1>4 DEF HandleDelta, IndexOf
  <2>2. Landed(i) = 0
    BY <1>2, <1>4 DEF ItemOk
  <2>3. sent[i] = 1
    BY <2>2, <1>2
  <2>4. stopReason' \in {"end_turn", "tool_use", "max_tokens"}
    BY <1>1, <1>3
  <2> QED
    BY <1>1, <1>2, <1>4, <2>1, <2>3, <2>4, StartInv
<1>5. CASE itemIndex[i] # 0
  <2> DEFINE k == itemIndex[i]
             b == [blocks[k] EXCEPT !.text = sent[i]]
             t == view[k].text + 1
  <2>1. k \in 1..Len(blocks) /\ k \in Index /\ view[k].state = "open" /\ blocks[k].item = i
    BY <1>2, <1>5, TypeFacts DEF IInv
  <2>2. /\ blocks' = [blocks EXCEPT ![k].text = @ + 1]
        /\ Emit([view EXCEPT ![k].text = @ + 1])
        /\ UNCHANGED <<itemIndex, open>>
    BY <1>5 DEF HandleDelta, IndexOf
  <2>3. blocks[k].text = sent[i] - 1 /\ view[k].text <= blocks[k].text
    BY <1>1, <1>2, <1>5 DEF ItemOk
  <2>4. blocks \in Seq(Content) /\ blocks[k] \in Content /\ blocks[k].text \in Nat /\ view[k].text \in Nat
    <3>1. blocks \in Seq(Content) /\ view[k].text \in Piece /\ blocks[k].text \in Piece /\ Piece \subseteq Nat
      BY <2>1, TypeFacts DEF IInv
    <3>2. blocks[k] \in Content
      BY <2>1, <3>1
    <3> QED
      BY <3>1, <3>2
  <2>5. b \in Content /\ b.item = i /\ b.text = sent[i]
    BY <2>1, <2>4, TypeFacts DEF Content, IInv
  <2>6. blocks' = [blocks EXCEPT ![k] = b]
    <3>1. blocks[k].text + 1 = sent[i]
      BY <1>2, <2>3, <2>4
    <3> QED
      BY <2>2, <3>1
  <2>7. t \in Piece /\ t <= sent[i]
    <3>1. sent[i] \in 0..MaxPiece /\ MaxPiece \in Nat
      BY TypeFacts, TurnAssumption DEF IInv, Piece
    <3>2. t \in Nat /\ t <= sent[i]
      BY <1>2, <2>3, <2>4
    <3> HIDE DEF t
    <3>3. t \in 0..MaxPiece
      BY <3>1, <3>2
    <3> QED
      BY <3>2, <3>3 DEF Piece
  <2>8. view' = Shown(k, "open", t) /\ UNCHANGED <<client, gone>> /\ msg' = "started"
    <3>1. view[k] = [state |-> "open", text |-> view[k].text]
      <4>1. view[k] \in [state : {"none", "open", "closed"}, text : Piece]
        BY <2>1 DEF IInv, TypeOK
      <4> QED
        BY <4>1, <2>1
    <3>2. [view[k] EXCEPT !.text = @ + 1] = [state |-> "open", text |-> t]
      BY <3>1
    <3>3. [view EXCEPT ![k].text = @ + 1] = [view EXCEPT ![k] = [view[k] EXCEPT !.text = @ + 1]]
      OBVIOUS
    <3> QED
      BY <2>2, <3>2, <3>3 DEF Emit, Shown
  <2>9. ~Tool(i) => t = b.text
    <3>1. ~Tool(i) => view[k].text = blocks[k].text
      BY <1>2, <1>5 DEF ItemOk
    <3> QED
      BY <3>1, <2>3, <2>5, <1>2
  <2>10. open' = open /\ itemIndex' = itemIndex /\ itemIndex[i] = k
    BY <2>2
  <2> HIDE DEF k, b, t
  <2> QED
    BY <1>1, <1>2, <2>1, <2>5, <2>6, <2>7, <2>8, <2>9, <2>10, FillInv
<1> QED
  BY <1>4, <1>5

LEMMA HandleReadDeltaInv ==
  ASSUME IInv, HandleReadDelta, NEW i \in Item, event.item = i
  PROVE  IInv'
<1> DEFINE k == itemIndex[i]
           b == [blocks[k] EXCEPT !.text = sent[i]]
           t == view[k].text
<1>1. pc = "handle" /\ Handled /\ event.type = "delta" /\ Tool(i)
      /\ UNCHANGED <<itemIndex, open, terminal, stopReason, clientVars>>
      /\ blocks' = [blocks EXCEPT ![k].text = @ + 1]
  BY DEF HandleReadDelta, Handles, IndexOf, Tool, Calls
<1>2. /\ ~terminal /\ phase[i] = "added" /\ sent[i] > 0
      /\ ItemOk(i) /\ ~Pending("added", i) /\ ~Finished(i) /\ Landed(i) = sent[i] - 1
      /\ itemIndex[i] # 0 => itemIndex[i] \in 1..Len(blocks)
                            /\ view[itemIndex[i]].state = "open" /\ blocks[itemIndex[i]].item = i
      /\ sent[i] \in Nat
  BY <1>1, ItemFacts
<1>3. k # 0 /\ blocks[k].text = sent[i] - 1 /\ view[k].text <= blocks[k].text
  <2>1. k # 0
    BY <1>1, <1>2 DEF ItemOk
  <2> QED
    BY <2>1, <1>1, <1>2 DEF ItemOk
<1>4. k \in 1..Len(blocks) /\ k \in Index /\ view[k].state = "open" /\ blocks[k].item = i
  BY <1>2, <1>3, TypeFacts DEF IInv
<1>5. blocks \in Seq(Content) /\ blocks[k] \in Content /\ blocks[k].text \in Nat /\ t \in Piece /\ t \in Nat
  <2>1. blocks \in Seq(Content) /\ t \in Piece /\ blocks[k].text \in Piece /\ Piece \subseteq Nat
    BY <1>4, TypeFacts DEF IInv
  <2>2. blocks[k] \in Content
    BY <1>4, <2>1
  <2> QED
    BY <2>1, <2>2
<1>6. b \in Content /\ b.item = i /\ b.text = sent[i]
  BY <1>4, <1>5, TypeFacts DEF Content, IInv
<1>7. blocks' = [blocks EXCEPT ![k] = b]
  <2>1. blocks[k].text + 1 = sent[i]
    BY <1>2, <1>3, <1>5
  <2> QED
    BY <1>1, <2>1
<1>8. view' = Shown(k, "open", t) /\ UNCHANGED <<client, gone, msg>>
  <2>1. view[k] = [state |-> "open", text |-> t]
    <3>1. view[k] \in [state : {"none", "open", "closed"}, text : Piece]
      BY <1>4 DEF IInv, TypeOK
    <3> QED
      BY <3>1, <1>4
  <2>2. view = [view EXCEPT ![k] = view[k]]
    BY <1>4 DEF IInv, TypeOK
  <2> QED
    BY <1>1, <2>1, <2>2 DEF Shown, clientVars
<1>9. t <= sent[i] /\ itemIndex[i] = k /\ Tool(i) /\ pc = "handle" /\ Handled
      /\ terminal' = terminal /\ stopReason' = stopReason /\ itemIndex' = itemIndex /\ open' = open
  BY <1>1, <1>2, <1>3, <1>5
<1> HIDE DEF k, b, t
<1> QED
  BY <1>2, <1>4, <1>5, <1>6, <1>7, <1>8, <1>9, FillInv

\* The text and the input of a block that become the same.
LEMMA FillBoth ==
  ASSUME NEW c \in Content, NEW full \in Piece
  PROVE  [c EXCEPT !.text = full, !.input = full] = [item |-> c.item, text |-> full, input |-> full]
<1> DEFINE q == [c EXCEPT !.text = full]
<1>1. q \in Content /\ q.item = c.item /\ q.text = full
  BY DEF Content
<1>2. [q EXCEPT !.input = full] = [item |-> c.item, text |-> full, input |-> full]
  <2> HIDE DEF q
  <2>1. \A r \in Content : [r EXCEPT !.input = full] = [item |-> r.item, text |-> r.text, input |-> full]
    BY DEF Content
  <2> QED
    BY <1>1, <2>1
<1>3. [c EXCEPT !.text = full, !.input = full] = [q EXCEPT !.input = full]
  OBVIOUS
<1> QED
  BY <1>2, <1>3

LEMMA RepairReadInv ==
  ASSUME IInv, RepairRead, NEW i \in Item, event.item = i
  PROVE  IInv'
<1> DEFINE k == itemIndex[i]
           full == blocks[k].text + 1
           b == [item |-> i, text |-> full, input |-> full]
<1>1. pc = "handle" /\ event.type = "delta" /\ kind[i] = "read" /\ Tool(i) /\ open = {k}
  BY DEF RepairRead, Handles, Repairable, IndexOf, Tool, Calls
<1>2. /\ pc' = "finalize" /\ event' = NoEvent /\ terminal' = TRUE /\ open' = open \ {k}
      /\ UNCHANGED <<upVars, cause, timerVars, cancelled, itemIndex, stopReason>>
      /\ blocks' = [blocks EXCEPT ![k].text = full, ![k].input = full]
      /\ view' = Shown(k, "closed", full) /\ msg' = "started" /\ UNCHANGED <<client, gone>>
  BY DEF RepairRead, IndexOf, Emit
<1>3. /\ ~terminal /\ phase[i] = "added" /\ sent[i] > 0 /\ status = "none" /\ msg # "error"
      /\ ItemOk(i) /\ ~Pending("added", i) /\ Landed(i) = sent[i] - 1
      /\ itemIndex[i] # 0 => itemIndex[i] \in 1..Len(blocks) /\ blocks[itemIndex[i]].item = i
      /\ sent[i] \in Piece /\ sent[i] \in Nat
  BY <1>1, ItemFacts
<1>4. k # 0 /\ blocks[k].text = sent[i] - 1
  <2>1. k # 0
    BY <1>1, <1>3 DEF ItemOk
  <2> QED
    BY <2>1, <1>3 DEF ItemOk
<1>5. k \in 1..Len(blocks) /\ k \in Index /\ blocks[k].item = i
  BY <1>3, <1>4, TypeFacts DEF IInv
<1>6. full = sent[i] /\ blocks \in Seq(Content) /\ blocks[k] \in Content
  <2>1. blocks \in Seq(Content) /\ blocks[k].text \in Piece /\ Piece \subseteq Nat
    BY <1>5, TypeFacts DEF IInv
  <2>2. blocks[k] \in Content
    BY <1>5, <2>1
  <2> QED
    BY <2>1, <2>2, <1>3, <1>4
<1>7. b \in Content /\ b.item = i /\ b.text = sent[i] /\ b.input = sent[i]
  BY <1>3, <1>6 DEF Content
<1>8. blocks' = [blocks EXCEPT ![k] = b]
  <2>1. [blocks[k] EXCEPT !.text = full, !.input = full] = b
    <3>1. full \in Piece /\ blocks[k].item = i
      BY <1>3, <1>5, <1>6
    <3> HIDE DEF k, full
    <3> QED
      BY <3>1, <1>6, FillBoth
  <2> QED
    BY <1>2, <2>1
<1>9. itemIndex' = itemIndex /\ itemIndex[i] = k /\ open' = {}
  BY <1>1, <1>2
<1>10. view' = Shown(k, "closed", sent[i])
  BY <1>2, <1>6
<1> HIDE DEF k, full, b
<1>11. /\ blocks' \in Seq(Content) /\ Len(blocks') = Len(blocks)
       /\ IndexInv'
       /\ blocks'[k] = b
       /\ \A j \in 1..Len(blocks) : j # k => blocks'[j] = blocks[j]
  BY <1>5, <1>7, <1>8, <1>9, FillBlock DEF IInv
<1>12. /\ view' \in View
       /\ view'[k] = [state |-> "closed", text |-> sent[i]]
       /\ \A j \in Index : j # k => view'[j] = view[j]
  <2>1. view \in View
    BY DEF View, IInv, TypeOK
  <2> QED
    BY <2>1, <1>3, <1>5, <1>10 DEF View, Shown
<1>13. TypeOK'
  BY <1>2, <1>9, <1>11, <1>12 DEF IInv, TypeOK, Content, View, upVars, timerVars
<1>14. ~InHand' /\ EventInv'
  BY <1>2 DEF EventInv, InHand
<1>15. Repaired'
  <2>1. ASSUME NEW j \in 1..Len(blocks), j # k PROVE phase[blocks'[j].item] = "done"
    <3>1. blocks'[j].item = blocks[j].item
      BY <2>1, <1>11
    <3>2. Finished(blocks[j].item)
      BY <2>1, <1>1, <1>3 DEF IInv, OpenInv, k
    <3> QED
      BY <3>1, <3>2 DEF Finished
  <2>2. blocks'[k].item = i /\ blocks'[k].input = sent[i]
    BY <1>7, <1>11
  <2>3. UNCHANGED <<kind, sent, phase>>
    BY <1>2 DEF upVars
  <2> QED
    BY <2>1, <2>2, <2>3, <1>1, <1>5, <1>11 DEF Repaired
<1>16. EndInv' /\ TermInv'
  BY <1>2, <1>9, <1>15 DEF EndInv, TermInv
<1>17. ASSUME NEW j \in Item PROVE ItemOk(j)'
  <2>1. CASE j = i
    <3>1. UNCHANGED <<kind, sent, phase>>
      BY <1>2 DEF upVars
    <3>2. ~Pending("added", i)' /\ ~Pending("done", i)' /\ Landed(i)' = sent[i] /\ ~Finished(i)' /\ Tool(i)'
      BY <1>1, <1>3, <1>14, <3>1 DEF Pending, Landed, Finished, Tool
    <3>3. itemIndex'[i] = k /\ blocks'[k].text = sent[i] /\ k # 0
      BY <1>4, <1>7, <1>9, <1>11 DEF k
    <3> QED
      BY <2>1, <3>1, <3>2, <3>3, <1>2, <1>3 DEF ItemOk
  <2>2. CASE j # i
    <3>1. itemIndex[j] # 0 => itemIndex[j] \in 1..Len(blocks) /\ itemIndex[j] \in Index /\ itemIndex[j] # k
      BY <2>2, <1>5, TypeFacts DEF IInv, IndexInv
    <3>2. ItemOk(j)
      BY <1>3 DEF IInv, ItemInv
    <3> QED
      BY <2>2, <3>1, <3>2, <1>1, <1>2, <1>9, <1>11, <1>12, OthersOk
  <2> QED
    BY <2>1, <2>2
<1>18. OpenInv'
  BY <1>2 DEF OpenInv
<1>19. ASSUME NEW j \in Index
       PROVE  /\ view'[j].state = IF j > Len(blocks') THEN "none" ELSE IF j \in open' THEN "open" ELSE "closed"
              /\ j > Len(blocks') => view'[j].text = 0
  <2>1. CASE j = k
    <3>1. ~(k > Len(blocks'))
      BY <1>5, <1>11, TypeFacts DEF IInv
    <3> QED
      BY <2>1, <3>1, <1>9, <1>12
  <2>2. CASE j # k
    <3>1. /\ view[j].state = IF j > Len(blocks) THEN "none" ELSE IF j \in open THEN "open" ELSE "closed"
          /\ j > Len(blocks) => view[j].text = 0
      BY DEF IInv, ViewInv
    <3>2. open = {k}
      BY <1>1 DEF k
    <3> QED
      BY <3>1, <3>2, <2>2, <1>9, <1>11, <1>12
  <2> QED
    BY <2>1, <2>2
<1>20. ViewInv'
  BY <1>19 DEF ViewInv, Index
<1> QED
  BY <1>11, <1>13, <1>14, <1>16, <1>17, <1>18, <1>20 DEF IInv, ItemInv

LEMMA HandleDoneNewInv ==
  ASSUME IInv, HandleDoneNew, NEW i \in Item, event.item = i
  PROVE  IInv'
<1>1. pc = "handle" /\ Handled /\ event.type = "done" /\ itemIndex[i] = 0
      /\ terminal' = terminal /\ stopReason' = stopReason /\ open' = open
  BY DEF HandleDoneNew, Handles
<1>2. /\ ~terminal /\ phase[i] = "done" /\ ItemOk(i) /\ ~Pending("added", i) /\ Pending("done", i)
      /\ event.content = sent[i] /\ sent[i] \in Nat
  BY <1>1, ItemFacts
<1>3. stopReason' \in {"end_turn", "tool_use", "max_tokens"}
  BY <1>1 DEF IInv, TypeOK
<1>4. ~Tool(i)
  BY <1>1, <1>2 DEF ItemOk
<1>5. CASE kind[i] = "reasoning" /\ (event.signed \/ event.content > 0)
  <2>1. Begin(i, sent[i]) /\ Emit(Shown(NextIndex, "closed", sent[i]))
    BY <1>2, <1>5 DEF HandleDoneNew
  <2> QED
    BY <1>1, <1>2, <1>3, <1>4, <2>1, StartInv
<1>6. CASE ~(kind[i] = "reasoning" /\ (event.signed \/ event.content > 0))
  <2>1. UNCHANGED <<blocks, itemIndex, clientVars>>
    BY <1>6 DEF HandleDoneNew
  <2>2. sent[i] = 0
    <3>1. CASE kind[i] = "message"
      BY <3>1, <1>1, <1>2 DEF ItemOk
    <3>2. CASE kind[i] # "message"
      <4>1. kind[i] = "reasoning"
        BY <1>4, <3>2 DEF Tool, Calls, IInv, TypeOK
      <4> QED
        BY <4>1, <1>2, <1>6
    <3> QED
      BY <3>1, <3>2
  <2>3. ItemOk(i)'
    <3>1. UNCHANGED upVars /\ pc' = "read"
      BY <1>1 DEF Handled
    <3>2. itemIndex'[i] = 0 /\ sent'[i] = 0 /\ phase'[i] = "done" /\ ~(kind'[i] \in Calls)
      BY <1>1, <1>2, <1>4, <2>1, <2>2, <3>1 DEF upVars, Tool
    <3> QED
      BY <3>1, <3>2 DEF ItemOk, Pending, Landed, Finished, InHand, Tool
  <2>4. UNCHANGED <<blocks, itemIndex, open, terminal, clientVars>>
    BY <1>1, <2>1
  <2> QED
    BY <1>1, <1>2, <1>3, <2>3, <2>4, KeepInv
<1> QED
  BY <1>5, <1>6

LEMMA HandleDoneInv ==
  ASSUME IInv, HandleDone, NEW i \in Item, event.item = i
  PROVE  IInv'
<1> DEFINE k == itemIndex[i]
           full == blocks[k].text + Missing(k)
           b == IF Tool(i) THEN [blocks[k] EXCEPT !.input = sent[i]]
                ELSE [blocks[k] EXCEPT !.text = sent[i]]
<1>1. pc = "handle" /\ Handled /\ event.type = "done" /\ k # 0
      /\ terminal' = terminal /\ stopReason' = stopReason /\ itemIndex' = itemIndex
      /\ open' = open \ {k}
  BY DEF HandleDone, Handles
<1>2. /\ IF Tool(i) THEN blocks' = [blocks EXCEPT ![k].input = full]
         ELSE blocks' = [blocks EXCEPT ![k].text = IF kind[i] = "reasoning" THEN full ELSE @]
      /\ view' = Shown(k, "closed", IF kind[i] = "message" THEN view[k].text ELSE full)
      /\ UNCHANGED <<client, gone>> /\ msg' = "started"
  BY DEF HandleDone, Emit
<1>3. /\ ~terminal /\ phase[i] = "done" /\ ItemOk(i) /\ Pending("done", i)
      /\ event.content = sent[i] /\ sent[i] \in Piece /\ sent[i] \in Nat
      /\ k \in 1..Len(blocks) /\ blocks[k].item = i
  BY <1>1, ItemFacts
<1>4. blocks[k].text = sent[i] \/ (blocks[k].text = 0 /\ kind[i] # "message")
  BY <1>1, <1>3 DEF ItemOk
<1>5. full = sent[i]
  BY <1>3, <1>4 DEF Missing
<1>6. k \in Index /\ blocks \in Seq(Content) /\ blocks[k] \in Content
  <2>1. k \in Index /\ blocks \in Seq(Content)
    BY <1>3, TypeFacts DEF IInv
  <2> QED
    BY <2>1, <1>3
<1>7. b \in Content /\ b.item = i /\ (IF Tool(i) THEN b.input ELSE b.text) = sent[i]
  BY <1>3, <1>6 DEF Content
<1>8. blocks' = [blocks EXCEPT ![k] = b]
  <2>1. CASE Tool(i)
    BY <2>1, <1>2, <1>5
  <2>2. CASE ~Tool(i)
    <3>1. (IF kind[i] = "reasoning" THEN full ELSE blocks[k].text) = sent[i]
      <4>1. kind[i] \in {"message", "reasoning"}
        BY <2>2 DEF Tool, Calls, IInv, TypeOK
      <4> QED
        BY <4>1, <1>4, <1>5
    <3> QED
      BY <2>2, <3>1, <1>2
  <2> QED
    BY <2>1, <2>2
<1>9. view' = Shown(k, "closed", sent[i])
  <2>1. CASE kind[i] = "message"
    <3>1. ~Tool(i) /\ blocks[k].text = sent[i]
      BY <2>1, <1>4 DEF Tool, Calls
    <3>2. view[k].text = blocks[k].text
      BY <3>1, <1>1, <1>3 DEF ItemOk
    <3> QED
      BY <2>1, <3>1, <3>2, <1>2
  <2>2. CASE kind[i] # "message"
    BY <2>2, <1>2, <1>5
  <2> QED
    BY <2>1, <2>2
<1>10. itemIndex[i] = k /\ UNCHANGED <<client, gone>> /\ msg' = "started"
  BY <1>2
<1> HIDE DEF k, full, b
<1> QED
  BY <1>1, <1>3, <1>6, <1>7, <1>8, <1>9, <1>10, FillInv

\* The stops of closeOpen are all that changes for the client.
LEMMA CutFacts ==
  ASSUME IInv
  PROVE  /\ Cut \in View
         /\ \A k \in Index : /\ Cut[k].state = IF k > Len(blocks) THEN "none" ELSE "closed"
                             /\ k > Len(blocks) => Cut[k].text = 0
         /\ \A k \in 1..Len(blocks) :
              /\ Cut[k].text <= view[k].text
              /\ k \notin open \/ ~Tool(blocks[k].item) => Cut[k].text = view[k].text
<1>1. view \in View /\ open \subseteq 1..Len(blocks) /\ 0 \in Piece
  BY TurnAssumption DEF View, IInv, TypeOK, Piece
<1>2. \A k \in Index : k \in Nat /\ view[k].text \in Nat
  BY TypeFacts DEF Index, IInv
<1>3. Cut \in View
  <2>1. \A k \in Index : view[k] \in [state : {"none", "open", "closed"}, text : Piece]
    BY <1>1 DEF View
  <2>2. \A k \in Index : view[k].text \in Piece
    BY <2>1
  <2>3. \A k \in Index :
           [state |-> "closed",
            text |-> IF client = "responses" /\ Tool(blocks[k].item) THEN 0 ELSE view[k].text]
             \in [state : {"none", "open", "closed"}, text : Piece]
    BY <1>1, <2>2
  <2> QED
    BY <2>1, <2>3 DEF Cut, View
<1>4. ASSUME NEW k \in Index
      PROVE  /\ Cut[k].state = IF k > Len(blocks) THEN "none" ELSE "closed"
             /\ k > Len(blocks) => Cut[k].text = 0
  <2>1. /\ view[k].state = IF k > Len(blocks) THEN "none" ELSE IF k \in open THEN "open" ELSE "closed"
        /\ k > Len(blocks) => view[k].text = 0
    BY DEF IInv, ViewInv
  <2>2. k \in open => ~(k > Len(blocks))
    BY <1>1, TypeFacts DEF IInv
  <2> QED
    BY <2>1, <2>2 DEF Cut
<1>5. ASSUME NEW k \in 1..Len(blocks)
      PROVE  /\ Cut[k].text <= view[k].text
             /\ k \notin open \/ ~Tool(blocks[k].item) => Cut[k].text = view[k].text
  <2>1. k \in Index
    BY TypeFacts DEF IInv
  <2> QED
    BY <2>1, <1>2 DEF Cut
<1> QED
  BY <1>3, <1>4, <1>5

LEMMA HandleTerminalInv ==
  ASSUME IInv, HandleTerminal
  PROVE  IInv'
<1>1. pc = "handle" /\ event.type = "terminal" /\ open' = {} /\ terminal' = TRUE
      /\ stopReason' = (IF status = "incomplete" THEN "max_tokens" ELSE stopReason)
      /\ UNCHANGED <<blocks, itemIndex>>
  BY DEF HandleTerminal, Handles
<1>2. stopReason' \in {"end_turn", "tool_use", "max_tokens"}
  BY <1>1 DEF IInv, TypeOK
<1>3. CASE status \in {"completed", "incomplete"}
  <2>1. Handled
    BY <1>3 DEF HandleTerminal
  <2>2. view' = Cut /\ UNCHANGED <<client, gone>> /\ (UNCHANGED msg \/ msg' = "started")
    <3>1. CASE open = {}
      <4>1. Cut = [k \in Index |-> view[k]]
        BY <3>1 DEF Cut
      <4>2. view = [k \in Index |-> view[k]]
        BY DEF IInv, TypeOK
      <4> QED
        BY <3>1, <4>1, <4>2, <1>3 DEF HandleTerminal, clientVars
    <3>2. CASE open # {}
      BY <3>2, <1>3 DEF HandleTerminal, Emit
    <3> QED
      BY <3>1, <3>2
  <2>3. /\ blocks' \in Seq(Content) /\ Len(blocks') <= Cardinality(Item)
        /\ itemIndex' \in [Item -> 0..Len(blocks')]
        /\ open' \subseteq 1..Len(blocks') /\ terminal' \in BOOLEAN
    BY <1>1, TypeFacts DEF IInv
  <2>4. view' \in View
    BY <2>2, CutFacts
  <2>5. /\ TypeOK' /\ EventInv'
        /\ msg # "error" /\ msg' \notin {"ended", "error"} /\ pc' = "read" /\ InHand
        /\ UNCHANGED <<kind, phase, sent, status>>
        /\ \A j \in Item : ItemOk(j)
        /\ \A j \in Item, t \in Types : ~Pending(t, j)'
        /\ \A j \in Item : Landed(j)' = sent[j] /\ (Finished(j)' <=> phase[j] = "done") /\ Tool(j)' = Tool(j)
    BY <1>1, <1>2, <2>1, <2>2, <2>3, <2>4, Going
  <2>6. ASSUME NEW j \in Item PROVE ItemOk(j)'
    <3> DEFINE k == itemIndex[j]
    <3>1. ~Pending("added", j) /\ ~Pending("delta", j) /\ ~Pending("done", j)
      BY <1>1 DEF Pending
    <3>2. Landed(j) = sent[j] /\ (Finished(j) <=> phase[j] = "done")
      BY <3>1 DEF Landed, Finished
    <3>3. /\ k # 0 => view'[k].text <= view[k].text
          /\ k # 0 /\ (Finished(j) \/ ~Tool(j)) => view'[k].text = view[k].text
          /\ k # 0 => view[k].text \in Nat /\ view'[k].text \in Nat /\ blocks[k].text \in Nat
      <4>1. SUFFICES ASSUME k # 0
                     PROVE  /\ view'[k].text <= view[k].text
                            /\ Finished(j) \/ ~Tool(j) => view'[k].text = view[k].text
                            /\ view[k].text \in Nat /\ view'[k].text \in Nat /\ blocks[k].text \in Nat
        OBVIOUS
      <4>2. k \in 1..Len(blocks) /\ k \in Index /\ blocks[k].item = j
        BY <4>1, TypeFacts DEF IInv, IndexInv
      <4>3. Finished(j) => k \notin open
        <5>1. terminal => open = {}
          BY DEF IInv, EndInv
        <5> QED
          BY <4>2, <5>1, <2>5 DEF IInv, OpenInv
      <4>4. view[k].text \in Nat /\ view'[k].text \in Nat /\ blocks[k].text \in Nat
        <5>1. view[k].text \in Piece /\ blocks[k].text \in Piece /\ Piece \subseteq Nat
          BY <4>2, TypeFacts DEF IInv
        <5>2. view'[k].text \in Piece
          BY <4>2, <2>4 DEF View
        <5> QED
          BY <5>1, <5>2
      <4> QED
        BY <4>2, <4>3, <4>4, <2>2, CutFacts
    <3>4. itemIndex'[j] = k /\ blocks' = blocks /\ ItemOk(j)
      BY <1>1, <2>5
    <3> QED
      BY <3>1, <3>2, <3>3, <3>4, <2>5, <1>1 DEF ItemOk, Types
  <2>7. ViewInv'
    <3>1. \A k \in Index : /\ view'[k].state = IF k > Len(blocks) THEN "none" ELSE "closed"
                           /\ k > Len(blocks) => view'[k].text = 0
      BY <2>2, CutFacts
    <3> QED
      BY <3>1, <1>1 DEF ViewInv, Index
  <2>8. IndexInv' /\ OpenInv'
    BY <1>1 DEF IInv, IndexInv, OpenInv
  <2>9. EndInv' /\ TermInv'
    BY <1>1, <1>3, <2>5 DEF EndInv, TermInv
  <2> QED
    BY <2>5, <2>6, <2>7, <2>8, <2>9 DEF IInv, ItemInv
<1>4. CASE status \notin {"completed", "incomplete"}
  <2>1. GenerateFails(Cut)
    BY <1>4 DEF HandleTerminal
  <2>2. pc' = "end" /\ msg' = "error" /\ view' = Cut /\ ~InHand'
    BY <2>1 DEF GenerateFails, Closed, InHand
  <2>3. view' \in View
    BY <2>2, CutFacts
  <2>4. TypeOK'
    <3>1. /\ blocks' \in Seq(Content) /\ Len(blocks') <= Cardinality(Item)
          /\ itemIndex' \in [Item -> 0..Len(blocks')]
          /\ open' \subseteq 1..Len(blocks') /\ terminal' \in BOOLEAN
      BY <1>1, TypeFacts DEF IInv
    <3> QED
      BY <3>1, <1>2, <2>1, <2>3 DEF IInv, TypeOK, GenerateFails, Closed, upVars, Content, View
  <2>5. ViewInv'
    <3>1. \A k \in Index : /\ view'[k].state = IF k > Len(blocks) THEN "none" ELSE "closed"
                           /\ k > Len(blocks) => view'[k].text = 0
      BY <2>2, CutFacts
    <3> QED
      BY <3>1, <1>1 DEF ViewInv, Index
  <2>6. EventInv' /\ EndInv' /\ TermInv' /\ IndexInv' /\ ItemInv' /\ OpenInv'
    BY <1>1, <2>2 DEF IInv, EventInv, EndInv, TermInv, IndexInv, ItemInv, OpenInv
  <2> QED
    BY <2>4, <2>5, <2>6 DEF IInv
<1> QED
  BY <1>3, <1>4

LEMMA HandlePingInv ==
  ASSUME IInv, HandlePing
  PROVE  IInv'
<1>1. pc = "handle" /\ event.type = "ping" /\ Handled /\ UNCHANGED <<collectorVars, clientVars>>
  BY DEF HandlePing, Handles
<1>2. /\ blocks' \in Seq(Content) /\ Len(blocks') <= Cardinality(Item)
      /\ itemIndex' \in [Item -> 0..Len(blocks')]
      /\ open' \subseteq 1..Len(blocks')
      /\ view' \in View
      /\ terminal' \in BOOLEAN /\ stopReason' \in {"end_turn", "tool_use", "max_tokens"}
  BY <1>1, TypeFacts DEF IInv, TypeOK, View, clientVars, collectorVars
<1>3. /\ TypeOK' /\ EventInv'
      /\ msg # "error" /\ msg' \notin {"ended", "error"} /\ pc' = "read"
      /\ UNCHANGED <<kind, phase, sent, status>>
      /\ \A j \in Item : ItemOk(j)
      /\ \A j \in Item, t \in Types : ~Pending(t, j)'
      /\ \A j \in Item : Landed(j)' = sent[j] /\ (Finished(j)' <=> phase[j] = "done") /\ Tool(j)' = Tool(j)
  BY <1>1, <1>2, Going DEF clientVars
<1>4. \A j \in Item : /\ ~Pending("added", j) /\ ~Pending("done", j) /\ Landed(j) = sent[j]
                      /\ (Finished(j) <=> phase[j] = "done")
  BY <1>1 DEF Pending, Landed, Finished
<1>5. ASSUME NEW j \in Item PROVE ItemOk(j)'
  BY <1>1, <1>3, <1>4 DEF ItemOk, Types, collectorVars, clientVars
<1>6. OpenInv'
  <2>1. \A k \in 1..Len(blocks) : blocks[k].item \in Item
    BY TypeFacts DEF IInv
  <2> QED
    BY <2>1, <1>1, <1>3, <1>4 DEF IInv, OpenInv, collectorVars
<1>7. ViewInv' /\ IndexInv'
  BY <1>1 DEF IInv, ViewInv, IndexInv, collectorVars, clientVars
<1>8. EndInv' /\ TermInv'
  <2>1. UNCHANGED <<terminal, open, blocks, pings, msg>>
    BY <1>1 DEF collectorVars, clientVars, Handled, upVars
  <2>2. msg # "ended"
    BY <1>1 DEF IInv, EndInv
  <2>3. terminal => open = {} /\ status # "none" /\ status \in {"completed", "incomplete"}
    BY <1>1, <1>3 DEF IInv, EndInv, TermInv
  <2> QED
    BY <2>1, <2>2, <2>3, <1>1, <1>3 DEF EndInv, TermInv
<1> QED
  BY <1>3, <1>5, <1>6, <1>7, <1>8 DEF IInv, ItemInv

LEMMA HandleInv ==
  ASSUME IInv, Handle
  PROVE  IInv'
<1>1. ASSUME pc = "handle", event.type \in {"added", "delta", "done"} PROVE event.item \in Item
  BY <1>1 DEF IInv, EventInv, InHand
<1>2. CASE HandleAdded
  <2>1. PICK i \in Item : event.item = i
    BY <1>1, <1>2 DEF HandleAdded, Handles
  <2> QED
    BY <1>2, <2>1, HandleAddedInv
<1>3. CASE HandleDelta
  <2>1. PICK i \in Item : event.item = i
    BY <1>1, <1>3 DEF HandleDelta, Handles
  <2> QED
    BY <1>3, <2>1, HandleDeltaInv
<1>4. CASE HandleReadDelta
  <2>1. PICK i \in Item : event.item = i
    BY <1>1, <1>4 DEF HandleReadDelta, Handles
  <2> QED
    BY <1>4, <2>1, HandleReadDeltaInv
<1>5. CASE RepairRead
  <2>1. PICK i \in Item : event.item = i
    BY <1>1, <1>5 DEF RepairRead, Handles
  <2> QED
    BY <1>5, <2>1, RepairReadInv
<1>6. CASE HandleDoneNew
  <2>1. PICK i \in Item : event.item = i
    BY <1>1, <1>6 DEF HandleDoneNew, Handles
  <2> QED
    BY <1>6, <2>1, HandleDoneNewInv
<1>7. CASE HandleDone
  <2>1. PICK i \in Item : event.item = i
    BY <1>1, <1>7 DEF HandleDone, Handles
  <2> QED
    BY <1>7, <2>1, HandleDoneInv
<1>8. CASE RejectDone
  BY <1>8, FailInv DEF RejectDone
<1>9. CASE HandleTerminal
  BY <1>9, HandleTerminalInv
<1>10. CASE HandlePing
  BY <1>10, HandlePingInv
<1>11. CASE EmitRefused
  BY <1>11, FailInv DEF EmitRefused
<1> QED
  BY <1>2, <1>3, <1>4, <1>5, <1>6, <1>7, <1>8, <1>9, <1>10, <1>11 DEF Handle

----------------------------------------------------------------------------
(* The end of the turn                                                     *)

LEMMA CheckCauseInv ==
  ASSUME IInv, CheckCause
  PROVE  IInv'
<1>1. CASE timedOut \/ cause = "error"
  BY <1>1, FailInv DEF CheckCause
<1>2. CASE ~(timedOut \/ cause = "error")
  <2>1. /\ pc = "check" /\ pc' = "finalize"
        /\ UNCHANGED collectorVars
        /\ UNCHANGED <<upVars, event, cause, timerVars, cancelled, clientVars>>
    BY <1>2 DEF CheckCause
  <2>2. TypeOK'
    BY <2>1 DEF IInv, TypeOK, upVars, timerVars, collectorVars, clientVars
  <2>3. UNCHANGED <<upVars, event, collectorVars, msg, view>>
    BY <2>1 DEF clientVars
  <2> QED
    BY <2>1, <2>2, <2>3, AsideInv
<1> QED
  BY <1>1, <1>2

LEMMA FinalizeInv ==
  ASSUME IInv, Finalize
  PROVE  IInv'
<1>1. CASE Complete
  <2>1. /\ pc = "finalize" /\ terminal /\ open = {} /\ UNCHANGED collectorVars
        /\ pc' = "end" /\ timer' = {} /\ cancelled' = TRUE /\ event' = NoEvent
        /\ UNCHANGED <<upVars, cause, timedOut, quiet>> /\ UNCHANGED <<client, gone>>
        /\ msg' = "ended" /\ view' = Stopped(view, {k \in Index : view[k].state = "open"})
    BY <1>1 DEF Finalize, Complete, GenerateSucceeds, Closed
  <2>2. view' = view
    <3>1. \A k \in Index : view[k].state # "open"
      BY <2>1 DEF IInv, ViewInv
    <3>2. view' = [k \in Index |-> view[k]]
      BY <2>1, <3>1 DEF Stopped
    <3> QED
      BY <3>2 DEF IInv, TypeOK
  <2>3. TypeOK'
    <3>1. TypeOK
      BY DEF IInv
    <3> QED
      BY <3>1, <2>1, <2>2 DEF TypeOK, upVars, collectorVars
  <2>4. ~InHand /\ ~InHand' /\ msg # "error"
    BY <2>1 DEF InHand, IInv, EndInv
  <2>5. \A j \in Item, t \in Types : ~Pending(t, j) /\ ~Pending(t, j)'
    BY <2>4 DEF Pending
  <2>6. \A j \in Item : Landed(j)' = Landed(j) /\ (Finished(j)' <=> Finished(j)) /\ Tool(j)' = Tool(j)
    BY <2>1, <2>5 DEF Landed, Finished, Tool, upVars, Types
  <2>7. ASSUME NEW j \in Item PROVE ItemOk(j)'
    <3>1. ItemOk(j)
      BY <2>4 DEF IInv, ItemInv
    <3> QED
      BY <3>1, <2>1, <2>2, <2>5, <2>6 DEF ItemOk, upVars, collectorVars, Types
  <2>8. EventInv' /\ OpenInv'
    BY <2>1, <2>4 DEF EventInv, OpenInv, collectorVars
  <2>9. IndexInv' /\ ViewInv'
    BY <2>1, <2>2 DEF IInv, IndexInv, ViewInv, collectorVars
  <2>10. EndInv' /\ TermInv'
    BY <2>1, <2>4 DEF IInv, EndInv, TermInv, Repaired, upVars, collectorVars
  <2> QED
    BY <2>3, <2>7, <2>8, <2>9, <2>10 DEF IInv, ItemInv
<1>2. CASE ~Complete
  BY <1>2, FailInv DEF Finalize
<1> QED
  BY <1>1, <1>2

LEMMA NextInv == IInv /\ [Next]_vars => IInv'
<1> SUFFICES ASSUME IInv, [Next]_vars PROVE IInv'
  OBVIOUS
<1> USE DEF upVars, timerVars, collectorVars, clientVars
<1>1. CASE Send
  BY <1>1, SendInv
<1>2. CASE ReadFails
  <2>1. TypeOK'
    BY <1>2 DEF ReadFails, IInv, TypeOK
  <2> QED
    BY <1>2, <2>1, AsideInv DEF ReadFails
<1>3. CASE Leave
  <2>1. TypeOK'
    BY <1>3 DEF Leave, IInv, TypeOK
  <2> QED
    BY <1>3, <2>1, AsideInv DEF Leave
<1>4. CASE Fire
  <2>1. TypeOK'
    BY <1>4 DEF Fire, IInv, TypeOK
  <2> QED
    BY <1>4, <2>1, AsideInv DEF Fire
<1>5. CASE Expire
  <2>1. TypeOK'
    BY <1>5 DEF Expire, IInv, TypeOK
  <2> QED
    BY <1>5, <2>1, AsideInv DEF Expire
<1>6. CASE ExpireStale
  <2>1. TypeOK'
    BY <1>6 DEF ExpireStale, IInv, TypeOK
  <2> QED
    BY <1>6, <2>1, AsideInv DEF ExpireStale
<1>7. CASE Reset
  <2>1. timer' \subseteq {"armed", "fired", "stale"} /\ quiet' \in BOOLEAN /\ timedOut' = timedOut
    <3>1. timer \subseteq {"armed", "fired", "stale"} /\ quiet \in BOOLEAN
      BY DEF IInv, TypeOK
    <3>2. Outdated \subseteq {"fired", "stale", "armed"}
      <4>1. \A t \in timer \ {"armed"} : (IF t = "fired" THEN "stale" ELSE t) \in {"fired", "stale", "armed"}
        BY <3>1
      <4> QED
        BY <4>1 DEF Outdated
    <3>3. (timer' = Outdated \cup {"armed"} /\ quiet' = FALSE) \/ (timer' = timer /\ quiet' = quiet)
      BY <1>7 DEF Reset
    <3>4. timedOut' = timedOut
      BY <1>7 DEF Reset
    <3> QED
      BY <3>1, <3>2, <3>3, <3>4
  <2>2. TypeOK'
    BY <1>7, <2>1 DEF Reset, IInv, TypeOK
  <2> QED
    BY <1>7, <2>2, AsideInv DEF Reset
<1>8. CASE Handle
  BY <1>8, HandleInv
<1>9. CASE CheckCause
  BY <1>9, CheckCauseInv
<1>10. CASE Finalize
  BY <1>10, FinalizeInv
<1>11. CASE UNCHANGED vars
  <2>1. TypeOK'
    BY <1>11 DEF vars, IInv, TypeOK
  <2> QED
    BY <1>11, <2>1, AsideInv DEF vars
<1> QED
  BY <1>1, <1>2, <1>3, <1>4, <1>5, <1>6, <1>7, <1>8, <1>9, <1>10, <1>11 DEF Next

----------------------------------------------------------------------------
(* Theorems                                                                *)

LEMMA Inductive == Spec => []IInv
<1>1. Init => IInv
  BY InitInv
<1>2. IInv /\ [Next]_vars => IInv'
  BY NextInv
<1> QED
  BY <1>1, <1>2, PTL DEF Spec

\* The variables of a turn have their types: there is never a block more than
\* the response has items, and an item's index is one of a block that exists.
THEOREM TypeCorrect == Spec => []TypeOK
<1>1. IInv => TypeOK
  BY DEF IInv
<1> QED
  BY <1>1, Inductive, PTL

\* A turn succeeds only after a terminal event, or with one repaired Read and
\* nothing else unfinished (stream.go:371-373).
THEOREM TerminalOrRead == Spec => []SuccessIsTerminal
<1>1. IInv => SuccessIsTerminal
  <2> SUFFICES ASSUME IInv, msg = "ended"
               PROVE  \/ status \in {"completed", "incomplete"}
                      \/ Repaired
    BY DEF SuccessIsTerminal, Repaired
  <2>1. terminal
    BY DEF IInv, EndInv
  <2> QED
    BY <2>1 DEF IInv, TermInv
<1> QED
  BY <1>1, Inductive, PTL

\* A successful turn shows every finished item, and all text of a cut one, once,
\* and its Result agrees with that (stream.go:114-233).
THEOREM NothingLostOrRepeated == Spec => []ShownIsSent
<1>1. IInv => ShownIsSent
  <2> SUFFICES ASSUME IInv, msg = "ended", NEW i \in Item, sent[i] > 0, phase[i] = "done" \/ ~Tool(i)
               PROVE  \E k \in Index :
                        /\ BlocksOf(i) = {k}
                        /\ view[k].text = sent[i]
                        /\ (IF Tool(i) THEN blocks[k].input ELSE blocks[k].text) = sent[i]
    BY DEF ShownIsSent
  <2>1. pc = "end" /\ ItemOk(i)
    BY DEF IInv, EndInv, ItemInv
  <2>2. ~Pending("added", i) /\ ~Pending("delta", i) /\ ~Pending("done", i)
    BY <2>1 DEF Pending, InHand
  <2>3. Landed(i) = sent[i] /\ (Finished(i) <=> phase[i] = "done")
    BY <2>2 DEF Landed, Finished
  <2>4. itemIndex[i] # 0
    <3>1. sent[i] \in Nat
      BY TypeFacts DEF IInv
    <3> QED
      BY <3>1, <2>1, <2>2, <2>3 DEF ItemOk
  <2>5. phase[i] # "new" /\ phase[i] \in {"new", "added", "done"}
    BY <2>1, <2>4 DEF ItemOk, IInv, TypeOK
  <2> DEFINE k == itemIndex[i]
  <2>6. k \in 1..Len(blocks) /\ k \in Index
    BY <2>4, TypeFacts DEF IInv
  <2>7. BlocksOf(i) = {k}
    <3>1. blocks[k].item = i
      BY <2>4 DEF IInv, IndexInv
    <3>2. \A j \in 1..Len(blocks) : blocks[j].item = i => j = k
      BY DEF IInv, IndexInv
    <3> QED
      BY <3>1, <3>2, <2>6 DEF BlocksOf
  <2>8. /\ view[k].text = sent[i]
        /\ (IF Tool(i) THEN blocks[k].input ELSE blocks[k].text) = sent[i]
    BY <2>1, <2>2, <2>3, <2>4, <2>5 DEF ItemOk
  <2> HIDE DEF k
  <2> QED
    BY <2>6, <2>7, <2>8
<1> QED
  BY <1>1, Inductive, PTL

----------------------------------------------------------------------------
(* The refinement of BlockStream                                           *)

\* what a step may do to the client's block k
Keeps(k) == view'[k] = view[k]
Begins(k) == k > Len(blocks)
Moves(k) ==
  /\ k \in open
  /\ view'[k].state \in {"open", "closed"}
  /\ \/ view'[k].text >= view[k].text
     \/ client = "responses" /\ Tool(blocks[k].item)

\* A step leaves a block of the client as it is, begins it, or moves one that
\* is open; and no block changes its item.
LEMMA HandleSteps ==
  ASSUME IInv, Handle
  PROVE  /\ \A k \in Index : Keeps(k) \/ Begins(k) \/ Moves(k)
         /\ \A k \in 1..Len(blocks) : k \in 1..Len(blocks') /\ blocks'[k].item = blocks[k].item
         /\ pc = "handle" /\ msg' # "ended" /\ client' = client /\ kind' = kind
<1>1. view \in View /\ blocks \in Seq(Content) /\ Len(blocks) \in Nat
  BY TypeFacts DEF IInv, TypeOK, View
<1>2. pc = "handle" /\ client' = client /\ kind' = kind
  BY DEF Handle, HandleAdded, HandleDelta, HandleReadDelta, RepairRead, HandleDoneNew, HandleDone,
         RejectDone, HandleTerminal, HandlePing, EmitRefused, Handles, Handled, Emit, GenerateFails,
         Closed, upVars, clientVars
<1>3. msg # "ended"
  BY <1>2 DEF IInv, EndInv
<1>4. ASSUME NEW i, NEW t, Begin(i, t)
      PROVE  \A k \in 1..Len(blocks) : k \in 1..Len(blocks') /\ blocks'[k].item = blocks[k].item
  BY <1>1, <1>4 DEF Begin
<1>5. ASSUME NEW state, NEW t, view' = Shown(NextIndex, state, t)
      PROVE  \A k \in Index : Keeps(k) \/ Begins(k)
  BY <1>1, <1>5 DEF View, Shown, Keeps, Begins, NextIndex, Index
<1>6. ASSUME NEW k \in 1..Len(blocks), NEW state \in {"open", "closed"}, NEW t, k \in open,
             view' = Shown(k, state, t),
             t >= view[k].text \/ (client = "responses" /\ Tool(blocks[k].item))
      PROVE  \A j \in Index : Keeps(j) \/ Moves(j)
  <2>1. k \in Index
    BY TypeFacts DEF IInv
  <2>2. view'[k] = [state |-> state, text |-> t] /\ \A j \in Index : j # k => view'[j] = view[j]
    BY <1>1, <1>6, <2>1 DEF View, Shown
  <2> QED
    BY <1>6, <2>2 DEF Keeps, Moves
<1>7. ASSUME NEW b, NEW k \in 1..Len(blocks), b.item = blocks[k].item, blocks' = [blocks EXCEPT ![k] = b]
      PROVE  \A j \in 1..Len(blocks) : j \in 1..Len(blocks') /\ blocks'[j].item = blocks[j].item
  <2>1. Len(blocks') = Len(blocks)
    BY <1>1, <1>7
  <2>2. blocks'[k] = b /\ \A j \in 1..Len(blocks) : j # k => blocks'[j] = blocks[j]
    BY <1>1, <1>7
  <2> QED
    BY <2>1, <2>2, <1>7
<1>8. \A k \in 1..Len(blocks) : k \in Index /\ view[k].text \in Nat /\ blocks[k].text \in Nat
  BY TypeFacts DEF IInv
<1>9. CASE HandleAdded
  <2>1. CASE Tool(event.item) \/ event.signed
    BY <2>1, <1>2, <1>3, <1>4, <1>5, <1>9 DEF HandleAdded, Emit
  <2>2. CASE ~(Tool(event.item) \/ event.signed)
    BY <2>2, <1>2, <1>3, <1>9 DEF HandleAdded, clientVars, Keeps
  <2> QED
    BY <2>1, <2>2
<1>10. CASE HandleDelta
  <2>1. PICK i \in Item : event.item = i
    BY <1>2, <1>10 DEF HandleDelta, Handles, IInv, EventInv, InHand
  <2>2. CASE itemIndex[i] = 0
    BY <2>1, <2>2, <1>2, <1>3, <1>4, <1>5, <1>10 DEF HandleDelta, IndexOf, Emit
  <2>3. CASE itemIndex[i] # 0
    <3> DEFINE k == itemIndex[i]
    <3>1. k \in 1..Len(blocks) /\ k \in open /\ view[k].state = "open"
      BY <2>1, <2>3, <1>2, <1>10, ItemFacts DEF HandleDelta, Handles
    <3>2. /\ blocks' = [blocks EXCEPT ![k] = [blocks[k] EXCEPT !.text = @ + 1]]
          /\ view' = [view EXCEPT ![k].text = @ + 1]
          /\ msg' = "started"
      BY <2>1, <2>3, <1>10 DEF HandleDelta, IndexOf, Emit
    <3>3. [blocks[k] EXCEPT !.text = @ + 1].item = blocks[k].item
      <4>1. blocks[k] \in Content
        BY <3>1, <1>1
      <4> QED
        BY <4>1 DEF Content
    <3>4. /\ view'[k].state = "open" /\ view'[k].text = view[k].text + 1
          /\ \A j \in Index : j # k => view'[j] = view[j]
      <4>1. view[k] \in [state : {"none", "open", "closed"}, text : Piece] /\ k \in Index
        BY <3>1, <1>1, <1>8 DEF View
      <4> QED
        BY <4>1, <3>1, <3>2, <1>1 DEF View
    <3>5. \A j \in Index : Keeps(j) \/ Moves(j)
      BY <3>1, <3>4, <1>8 DEF Keeps, Moves
    <3> HIDE DEF k
    <3> QED
      BY <3>1, <3>2, <3>3, <3>5, <1>2, <1>7
  <2> QED
    BY <2>2, <2>3
<1>11. CASE HandleReadDelta
  <2>1. PICK i \in Item : event.item = i
    BY <1>2, <1>11 DEF HandleReadDelta, Handles, IInv, EventInv, InHand
  <2> DEFINE k == itemIndex[i]
  <2>2. event.type = "delta" /\ Tool(i)
    BY <2>1, <1>11 DEF HandleReadDelta, Handles, Tool, Calls
  <2>3. k # 0
    BY <2>1, <2>2, <1>2, ItemFacts DEF ItemOk
  <2>4. k \in 1..Len(blocks) /\ blocks[k] \in Content
    <3>1. k \in 1..Len(blocks)
      BY <2>1, <2>2, <2>3, <1>2, ItemFacts
    <3> QED
      BY <3>1, <1>1
  <2>5. blocks' = [blocks EXCEPT ![k] = [blocks[k] EXCEPT !.text = @ + 1]] /\ UNCHANGED clientVars
    BY <2>1, <1>11 DEF HandleReadDelta, IndexOf
  <2>6. [blocks[k] EXCEPT !.text = @ + 1].item = blocks[k].item
    BY <2>4 DEF Content
  <2>7. \A j \in Index : Keeps(j)
    BY <2>5 DEF Keeps, clientVars
  <2> HIDE DEF k
  <2> QED
    BY <2>4, <2>5, <2>6, <2>7, <1>2, <1>3, <1>7 DEF clientVars
<1>12. CASE RepairRead
  <2>1. PICK i \in Item : event.item = i
    BY <1>2, <1>12 DEF RepairRead, Handles, IInv, EventInv, InHand
  <2> DEFINE k == itemIndex[i]
             full == blocks[k].text + 1
  <2>2. event.type = "delta" /\ Tool(i)
    BY <2>1, <1>12 DEF RepairRead, Handles, Tool, Calls
  <2>3. k # 0 /\ view[k].text <= blocks[k].text
    BY <2>1, <2>2, <1>2, ItemFacts DEF ItemOk
  <2>4. k \in 1..Len(blocks) /\ k \in open /\ blocks[k] \in Content
    <3>1. k \in 1..Len(blocks) /\ k \in open
      BY <2>1, <2>2, <2>3, <1>2, ItemFacts
    <3> QED
      BY <3>1, <1>1
  <2>5. /\ blocks' = [blocks EXCEPT ![k] = [blocks[k] EXCEPT !.text = full, !.input = full]]
        /\ view' = Shown(k, "closed", full) /\ msg' = "started"
    BY <2>1, <1>12 DEF RepairRead, IndexOf, Emit
  <2>6. [blocks[k] EXCEPT !.text = full, !.input = full].item = blocks[k].item
    <3> HIDE DEF full
    <3>1. \A r \in Content : [[r EXCEPT !.text = full] EXCEPT !.input = full].item = r.item
      BY DEF Content
    <3> QED
      BY <2>4, <3>1
  <2>7. full >= view[k].text
    BY <2>3, <2>4, <1>8
  <2> HIDE DEF k, full
  <2>8. \A j \in Index : Keeps(j) \/ Moves(j)
    BY <2>4, <2>5, <2>7, <1>6
  <2> QED
    BY <2>4, <2>5, <2>6, <2>8, <1>2, <1>7
<1>13. CASE HandleDoneNew
  <2> DEFINE i == event.item
  <2>1. CASE kind[i] = "reasoning" /\ (event.signed \/ event.content > 0)
    BY <2>1, <1>2, <1>3, <1>4, <1>5, <1>13 DEF HandleDoneNew, Emit
  <2>2. CASE ~(kind[i] = "reasoning" /\ (event.signed \/ event.content > 0))
    BY <2>2, <1>2, <1>3, <1>13 DEF HandleDoneNew, clientVars, Keeps
  <2> QED
    BY <2>1, <2>2
<1>14. CASE HandleDone
  <2>1. PICK i \in Item : event.item = i
    BY <1>2, <1>14 DEF HandleDone, Handles, IInv, EventInv, InHand
  <2> DEFINE k == itemIndex[i]
             full == blocks[k].text + Missing(k)
             t == IF kind[i] = "message" THEN view[k].text ELSE full
             b == IF Tool(i) THEN [blocks[k] EXCEPT !.input = full]
                  ELSE [blocks[k] EXCEPT !.text = IF kind[i] = "reasoning" THEN full ELSE @]
  <2>2. event.type = "done" /\ k # 0
    BY <2>1, <1>14 DEF HandleDone, Handles
  <2>3. /\ k \in 1..Len(blocks) /\ k \in open /\ blocks[k] \in Content
        /\ event.content \in Nat /\ view[k].text <= blocks[k].text
    <3>1. /\ k \in 1..Len(blocks) /\ k \in open /\ event.content \in Nat
          /\ ItemOk(i) /\ ~Finished(i)
      BY <2>1, <2>2, <1>2, ItemFacts
    <3>2. view[k].text <= blocks[k].text
      BY <2>2, <3>1, <1>2 DEF ItemOk
    <3> QED
      BY <3>1, <3>2, <1>1
  <2>4. /\ blocks' = [blocks EXCEPT ![k] = b]
        /\ view' = Shown(k, "closed", t) /\ msg' = "started"
    BY <2>1, <1>14 DEF HandleDone, Emit
  <2>5. b.item = blocks[k].item
    BY <2>3 DEF Content
  <2>6. t >= view[k].text
    <3>1. Missing(k) \in Nat
      BY <2>3 DEF Missing
    <3> QED
      BY <3>1, <2>3, <1>8
  <2> HIDE DEF k, full, t, b
  <2>7. \A j \in Index : Keeps(j) \/ Moves(j)
    BY <2>3, <2>4, <2>6, <1>6
  <2> QED
    BY <2>3, <2>4, <2>5, <2>7, <1>2, <1>7
<1>15. CASE RejectDone \/ EmitRefused
  BY <1>2, <1>15 DEF RejectDone, EmitRefused, GenerateFails, collectorVars, Keeps
<1>16. CASE HandleTerminal
  <2>1. msg' # "ended" /\ blocks' = blocks /\ (view' = view \/ view' = Cut)
    BY <1>3, <1>16 DEF HandleTerminal, GenerateFails, Emit, clientVars
  <2>2. ASSUME NEW k \in Index, view' = Cut PROVE Keeps(k) \/ Moves(k)
    <3>1. CASE k \in open
      <4>1. /\ view'[k].state = "closed"
            /\ view'[k].text = IF client = "responses" /\ Tool(blocks[k].item) THEN 0 ELSE view[k].text
        BY <2>2, <3>1 DEF Cut
      <4>2. view[k].text \in Nat
        BY TypeFacts DEF IInv
      <4> QED
        BY <3>1, <4>1, <4>2 DEF Moves
    <3>2. CASE k \notin open
      BY <2>2, <3>2 DEF Cut, Keeps
    <3> QED
      BY <3>1, <3>2
  <2> QED
    BY <2>1, <2>2, <1>2 DEF Keeps
<1>17. CASE HandlePing
  BY <1>2, <1>3, <1>17 DEF HandlePing, collectorVars, clientVars, Keeps
<1> QED
  BY <1>9, <1>10, <1>11, <1>12, <1>13, <1>14, <1>15, <1>16, <1>17 DEF Handle

\* The same of every step, and when the turn ends.
LEMMA Steps ==
  ASSUME IInv, [Next]_vars
  PROVE  \/ UNCHANGED <<client, kind, blocks, view, msg>>
         \/ /\ \A k \in Index : Keeps(k) \/ Begins(k) \/ Moves(k)
            /\ \A k \in 1..Len(blocks) : k \in 1..Len(blocks') /\ blocks'[k].item = blocks[k].item
            /\ client' = client /\ kind' = kind
            /\ msg \notin {"ended", "error"}
            /\ msg' = "ended" => open' = {}
<1> USE DEF upVars, timerVars, collectorVars, clientVars
<1>1. CASE Handle
  <2>1. msg \notin {"ended", "error"}
    BY <1>1, HandleSteps DEF IInv, EndInv
  <2> QED
    BY <1>1, <2>1, HandleSteps
<1>2. CASE CheckCause
  BY <1>2 DEF CheckCause, GenerateFails, Closed, Keeps, IInv, EndInv
<1>3. CASE Finalize
  <2>1. pc = "finalize" /\ client' = client /\ kind' = kind /\ blocks' = blocks /\ open' = open
    BY <1>3 DEF Finalize, GenerateFails, GenerateSucceeds, Closed
  <2>2. view' = view /\ (msg' = "ended" => open = {})
    <3>1. CASE Complete
      <4>1. open = {} /\ view' = Stopped(view, {k \in Index : view[k].state = "open"})
        BY <1>3, <3>1 DEF Finalize, Complete, GenerateSucceeds
      <4>2. \A k \in Index : view[k].state # "open"
        BY <4>1 DEF IInv, ViewInv
      <4>3. view' = [k \in Index |-> view[k]]
        BY <4>1, <4>2 DEF Stopped
      <4> QED
        BY <4>1, <4>3 DEF IInv, TypeOK
    <3>2. CASE ~Complete
      BY <1>3, <3>2 DEF Finalize, GenerateFails
    <3> QED
      BY <3>1, <3>2
  <2>3. msg \notin {"ended", "error"}
    BY <2>1 DEF IInv, EndInv
  <2> QED
    BY <2>1, <2>2, <2>3 DEF Keeps
<1>4. CASE Send
  BY <1>4 DEF Send, SendAdded, SendDelta, SendDone, SendTerminal, SendPing, Arrive
<1>5. CASE ReadFails \/ Leave \/ Fire \/ Expire \/ ExpireStale \/ Reset
  BY <1>5 DEF ReadFails, Leave, Fire, Expire, ExpireStale, Reset
<1>6. CASE UNCHANGED vars
  BY <1>6 DEF vars
<1> QED
  BY <1>1, <1>2, <1>3, <1>4, <1>5, <1>6 DEF Next

\* What the client has seen of a block grows, and of a closed one stays.
LEMMA SeenGrows ==
  ASSUME IInv, IInv', NEW k \in Index, Keeps(k) \/ Begins(k) \/ Moves(k),
         k \in 1..Len(blocks) => k \in 1..Len(blocks') /\ blocks'[k].item = blocks[k].item,
         client' = client, kind' = kind
  PROVE  /\ view'[k].state \in Stream!After(view[k].state)
         /\ Seen(k)' >= Seen(k)
         /\ view[k].state = "closed" => Seen(k)' = Seen(k)
         /\ view'[k].state = "none" => Seen(k)' = 0
<1>1. /\ view[k].state = IF k > Len(blocks) THEN "none" ELSE IF k \in open THEN "open" ELSE "closed"
      /\ k > Len(blocks) => view[k].text = 0
  BY DEF IInv, ViewInv
<1>2. /\ view'[k].state \in {"none", "open", "closed"}
      /\ view'[k].state = "none" => view'[k].text = 0
  BY DEF IInv, ViewInv
<1>3. view[k].text \in Nat /\ view'[k].text \in Nat /\ Len(blocks) \in Nat /\ k \in Nat /\ k > 0
  <2>1. /\ view \in View /\ view' \in View
    BY DEF IInv, TypeOK, View
  <2>2. Len(blocks) \in Nat /\ Piece \subseteq Nat
    BY TypeFacts DEF IInv
  <2>3. view[k].text \in Piece /\ view'[k].text \in Piece
    BY <2>1 DEF View
  <2>4. k \in Nat /\ k > 0
    BY DEF Index
  <2> QED
    BY <2>2, <2>3, <2>4
<1>4. Seen(k) = IF client = "responses" /\ view[k].state = "open" /\ Tool(blocks[k].item) THEN 0
                ELSE view[k].text
  BY DEF Seen
<1>5. Seen(k)' = IF client = "responses" /\ view'[k].state = "open" /\ kind[blocks'[k].item] \in Calls THEN 0
                 ELSE view'[k].text
  BY DEF Seen, Tool
<1>6. CASE Begins(k)
  BY <1>1, <1>2, <1>3, <1>4, <1>5, <1>6 DEF Begins, Stream!After
<1>7. CASE Keeps(k) /\ ~Begins(k)
  <2>1. blocks'[k].item = blocks[k].item
    BY <1>3, <1>7 DEF Begins
  <2>2. Seen(k)' = Seen(k) /\ Seen(k) \in Nat
    BY <2>1, <1>3, <1>4, <1>5, <1>7 DEF Keeps, Tool
  <2>3. view'[k].state = view[k].state
    BY <1>7 DEF Keeps
  <2> QED
    BY <2>2, <2>3, <1>1, <1>2, <1>4, <1>7 DEF Begins, Stream!After
<1>8. CASE Moves(k) /\ ~Begins(k)
  <2>1. blocks'[k].item = blocks[k].item
    BY <1>3, <1>8 DEF Begins
  <2>2. view[k].state = "open" /\ view'[k].state \in {"open", "closed"}
    BY <1>1, <1>8 DEF Begins, Moves
  <2>3. Seen(k)' >= Seen(k)
    <3>1. CASE client = "responses" /\ Tool(blocks[k].item)
      BY <3>1, <2>2, <1>3, <1>4, <1>5
    <3>2. CASE ~(client = "responses" /\ Tool(blocks[k].item))
      BY <3>2, <2>1, <2>2, <1>3, <1>4, <1>5, <1>8 DEF Moves, Tool
    <3> QED
      BY <3>1, <3>2
  <2> QED
    BY <2>2, <2>3 DEF Stream!After
<1> QED
  BY <1>6, <1>7, <1>8

\* Every step is one of the abstract stream, or none.
LEMMA Simulates ==
  ASSUME IInv, IInv', [Next]_vars
  PROVE  [Stream!StreamNext]_(Stream!streamVars)
<1> DEFINE end == IF msg = "ended" THEN "ok" ELSE IF msg = "error" THEN "error" ELSE "no"
<1>1. CASE UNCHANGED <<client, kind, blocks, view, msg>>
  <2>1. \A k \in Index : Seen(k)' = Seen(k)
    BY <1>1 DEF Seen, Tool
  <2>2. Index' = Index
    BY DEF Index
  <2> QED
    BY <1>1, <2>1, <2>2 DEF Stream!streamVars
<1>2. CASE /\ \A k \in Index : Keeps(k) \/ Begins(k) \/ Moves(k)
           /\ \A k \in 1..Len(blocks) : k \in 1..Len(blocks') /\ blocks'[k].item = blocks[k].item
           /\ client' = client /\ kind' = kind
           /\ msg \notin {"ended", "error"}
           /\ msg' = "ended" => open' = {}
  <2>1. \A k \in Index :
          /\ view'[k].state \in Stream!After(view[k].state)
          /\ Seen(k)' >= Seen(k)
          /\ view[k].state = "closed" => Seen(k)' = Seen(k)
          /\ view'[k].state = "none" => Seen(k)' = 0
    BY <1>2, SeenGrows
  <2>2. \A k \in Index : view'[k].state # "none" <=> k <= Len(blocks')
    <3>1. Len(blocks') \in Nat
      BY DEF IInv, TypeOK
    <3> QED
      BY <3>1 DEF IInv, ViewInv, Index
  <2>3. \A k \in Index : view'[k].state # "none" => \A j \in 1..k : j \in Index /\ view'[j].state # "none"
    <3>1. Len(blocks') \in Nat /\ Cardinality(Item) \in Nat
      <4>1. Len(blocks') \in Nat
        BY DEF IInv, TypeOK
      <4> QED
        BY <4>1, TypeFacts DEF IInv
    <3>2. ASSUME NEW k \in Index, view'[k].state # "none", NEW j \in 1..k
          PROVE  j \in Index /\ view'[j].state # "none"
      <4>1. k <= Len(blocks')
        BY <3>2, <2>2
      <4>2. j \in Index /\ j <= Len(blocks')
        BY <3>1, <3>2, <4>1 DEF Index
      <4> QED
        BY <4>2, <2>2
    <3> QED
      BY <3>2
  <2>4. Index = Stream!Block
    BY DEF Index, Stream!Block
  <2>5. Stream!Grow
    BY <2>1, <2>3, <2>4 DEF Stream!Grow, Stream!Started, Index
  <2>6. msg' = "ended" => \A k \in Index : view'[k].state # "open"
    BY <1>2 DEF IInv, ViewInv, Index
  <2>7. end = "no" /\ end' \in {"no", "ok", "error"} /\ (end' = "ok" => msg' = "ended")
    BY <1>2
  <2> QED
    BY <2>4, <2>5, <2>6, <2>7 DEF Stream!StreamNext, Stream!Continue, Stream!Succeed, Stream!Fail
<1> QED
  BY <1>1, <1>2, Steps

\* Both encoders show the client a well-formed stream of blocks, whatever the
\* upstream interleaves (stream.go:60-286).
THEOREM TurnShowsStream == Spec => ImplementsBlockStream
<1>1. Init => Stream!StreamInit
  <2>1. ASSUME Init, NEW k \in Index PROVE view[k].state = "none" /\ Seen(k) = 0
    BY <2>1 DEF Init, Seen
  <2> QED
    BY <2>1 DEF Init, Stream!StreamInit, Stream!Block, Index
<1>2. IInv /\ IInv' /\ [Next]_vars => [Stream!StreamNext]_(Stream!streamVars)
  BY Simulates
<1> QED
  BY <1>1, <1>2, Inductive, PTL DEF Spec, ImplementsBlockStream, Stream!StreamSpec

----------------------------------------------------------------------------
(* The idle timer                                                          *)

\* Only a callback of the current generation is "fired", and it fired because
\* nothing has come for the timeout.
WaitInv == "fired" \in timer => quiet

LEMMA EventWaits ==
  ASSUME TypeOK, WaitInv, Send
  PROVE  WaitInv' /\ UNCHANGED timedOut
<1>1. UNCHANGED timerVars
  BY DEF Send, SendAdded, SendDelta, SendDone, SendTerminal, SendPing, Arrive
<1> QED
  BY <1>1 DEF WaitInv, timerVars

LEMMA NextWaits == TypeOK /\ WaitInv /\ [Next]_vars => WaitInv' /\ (timedOut' # timedOut => quiet)
<1> SUFFICES ASSUME TypeOK, WaitInv, [Next]_vars
             PROVE  WaitInv' /\ (timedOut' # timedOut => quiet)
  OBVIOUS
<1>1. CASE Send
  BY <1>1, EventWaits
<1> USE DEF WaitInv
<1>2. CASE ReadFails \/ Leave
  BY <1>2 DEF ReadFails, Leave, upVars, timerVars
<1>3. CASE Fire
  BY <1>3 DEF Fire, upVars
<1>4. CASE Expire \/ ExpireStale
  BY <1>4 DEF Expire, ExpireStale, upVars
<1>5. CASE Reset
  <2>1. "fired" \notin Outdated \cup {"armed"}
    BY DEF Outdated
  <2> QED
    BY <1>5, <2>1 DEF Reset, upVars, timerVars
<1>6. CASE Handle \/ CheckCause \/ Finalize
  <2>1. /\ UNCHANGED upVars
        /\ UNCHANGED timerVars \/ (timer' = {} /\ UNCHANGED <<timedOut, quiet>>)
    <3>1. CASE Handle
      BY <3>1 DEF Handle, HandleAdded, HandleDelta, HandleReadDelta, RepairRead, HandleDoneNew, HandleDone,
                  RejectDone, HandleTerminal, HandlePing, EmitRefused, Handled, GenerateFails, Closed
    <3>2. CASE CheckCause \/ Finalize
      BY <3>2 DEF CheckCause, Finalize, GenerateFails, GenerateSucceeds, Closed
    <3> QED
      BY <1>6, <3>1, <3>2
  <2> QED
    BY <2>1 DEF upVars, timerVars
<1>7. CASE UNCHANGED vars
  BY <1>7 DEF vars, upVars, timerVars
<1> QED
  BY <1>1, <1>2, <1>3, <1>4, <1>5, <1>6, <1>7 DEF Next

LEMMA Waiting == Spec => [](IInv /\ WaitInv)
<1>1. Init => WaitInv
  BY DEF Init, WaitInv
<1>2. IInv => TypeOK
  BY DEF IInv
<1> QED
  BY <1>1, <1>2, NextWaits, Inductive, PTL DEF Spec

\* A stream is timed out only when nothing has come for the whole timeout: a
\* callback overtaken by bytes is stale and does nothing (timeout.go:58-78).
THEOREM NoTimeoutOfLiveStream == Spec => TimeoutIsIdle
<1>1. TypeOK /\ WaitInv /\ [Next]_vars => [timedOut' # timedOut => quiet]_vars
  BY NextWaits
<1>2. IInv => TypeOK
  BY DEF IInv
<1> QED
  BY <1>1, <1>2, Waiting, PTL DEF Spec, TimeoutIsIdle
=============================================================================
