------------------------- MODULE CodexSessions_proofs -------------------------
(***************************************************************************)
(* Theorems about CodexSessions for any number of requests, keys and       *)
(* slots.  The properties follow from one inductive invariant: turns keep  *)
(* to their key, a turn has one driver, a turn nobody drives is in the     *)
(* table with a timer and holds a parked slot, and a turn that is over for *)
(* its driver is over for everyone.                                        *)
(***************************************************************************)
EXTENDS CodexSessions, FiniteSetTheorems, TLAPS

\* a turn whose request may have leased a server
Started(t) == pc[t] \notin {"new", "abandon", "fresh"}

\* a turn whose own driver has ended it in good health
Over(t) ==
  \/ <<t, "good">> \in calls
  \/ cleanup[t] \in {"unparkGood", "reuse"}
  \/ lease[t] = "idle"

KeyInv ==
  /\ \A r \in Req : pc[r] \in {"park", "publish", "unpark"} => key[r] \in Key
  /\ \A r \in Req : pc[r] \in Driving =>
       turn[r] \in Turn /\ key[turn[r]] = key[r] /\ Started(turn[r])
  /\ \A k \in Key : sessions[k] \in Turn =>
       key[sessions[k]] = k /\ Started(sessions[k])
  /\ \A t \in Turn, g \in Nat : <<t, g>> \in armed \cup expiring =>
       key[t] \in Key /\ Started(t) /\ g \in 1..parks[t]
  /\ \A t \in Turn : Over(t) => Started(t)

DriverInv ==
  /\ OneDriver
  /\ \A r \in Req : pc[r] \in Driving => turn[r] \in claimed

ParkInv ==
  /\ IsFiniteSet(parkedSlots)
  /\ Cardinality(parkedSlots) <= Limit - 1
  /\ \A r \in Req : pc[r] = "publish" =>
       turn[r] \in parkedSlots \/ cleanup[turn[r]] # "none"
  /\ \A t \in Turn : Unattended(t) => t \in parkedSlots

OverInv ==
  \A t \in Turn : Over(t) => ~Driven(t) /\ \A k \in Key : sessions[k] # t

ClosedInv == sessionsClosed => \A k \in Key : sessions[k] = NoTurn

IInv ==
  TypeOK /\ KeyInv /\ DriverInv /\ ParkInv /\ NothingOrphaned /\ OverInv /\ ClosedInv

----------------------------------------------------------------------------
(* Types and keys.  A call records whose turn it cleans up, so the types   *)
(* hold only because a call that drives has a turn.                        *)
LEMMA TypeInit == Init => TypeOK
<1> SUFFICES ASSUME Init PROVE TypeOK
  OBVIOUS
<1> USE DEF Init, Turn
<1>1. /\ key \in [Req -> Key \cup {NoKey}]
      /\ pc \in [Req -> Stages]
      /\ turn \in [Req -> Turn \cup {NoTurn}]
      /\ victim \in [Req -> Turn \cup {NoTurn}]
      /\ lease \in [Turn -> {"none", "held", "idle", "closed"}]
  BY DEF Stages
<1>2. /\ sessions \in [Key -> Turn \cup {NoTurn}]
      /\ sessionsClosed \in BOOLEAN
      /\ claimed \in SUBSET Turn
      /\ parkedSlots \in SUBSET Turn
  OBVIOUS
<1>3. /\ timer \in [Turn -> Nat]
      /\ parks \in [Turn -> Nat]
  OBVIOUS
<1>4. /\ armed \in SUBSET (Turn \X Nat)
      /\ expiring \in SUBSET (Turn \X Nat)
      /\ calls \in SUBSET (Turn \X Health)
  OBVIOUS
<1>5. cleanup \in [Turn -> {"none", "unparkGood", "unparkBad", "reuse", "close",
                             "done"}]
  OBVIOUS
<1> QED
  BY <1>1, <1>2, <1>3, <1>4, <1>5 DEF TypeOK

LEMMA TypeNext == TypeOK /\ KeyInv /\ [Next]_vars => TypeOK'
<1> SUFFICES ASSUME TypeOK, KeyInv, [Next]_vars PROVE TypeOK'
  OBVIOUS
<1> USE SessionAssumption DEF TypeOK, Stages, Turn, Health, Go, tableVars, timerVars
<1>1. ASSUME NEW r \in Req, NEW k \in Key \cup {NoKey},
             ClaimNothing(r, k) \/ ClaimBusy(r, k) \/ ClaimAbandon(r, k) \/ Claim(r, k)
      PROVE  TypeOK'
  <2>1. CASE ClaimNothing(r, k)
    BY <2>1 DEF ClaimNothing
  <2>2. CASE ClaimBusy(r, k)
    BY <2>2 DEF ClaimBusy
  <2>3. CASE ClaimAbandon(r, k)
    BY <2>3 DEF ClaimAbandon, Claimable
  <2>4. CASE Claim(r, k)
    BY <2>4 DEF Claim, Claimable
  <2> QED
    BY <1>1, <2>1, <2>2, <2>3, <2>4
<1>2. ASSUME NEW r \in Req, Acquire(r) \/ AcquireFails(r) \/ Abandoned(r) \/ ClaimUnpark(r)
      PROVE  TypeOK'
  BY <1>2 DEF Acquire, AcquireFails, Abandoned, ClaimUnpark
<1>3. ASSUME NEW r \in Req,
             Answer(r) \/ Begin(r) \/ Complete(r) \/ ToolsReady(r) \/ Interrupt(r)
      PROVE  TypeOK'
  BY <1>3 DEF Answer, Begin, Complete, ToolsReady, Interrupt
<1>4. ASSUME NEW r \in Req, BeginFails(r) \/ Leave(r)
      PROVE  TypeOK'
  BY <1>4 DEF BeginFails, Leave, KeyInv, Driving
<1>5. ASSUME NEW r \in Req,
             Reserve(r) \/ Replaced(r) \/ PublishClosed(r) \/ PublishUnpark(r)
      PROVE  TypeOK'
  BY <1>5 DEF Reserve, Replaced, PublishClosed, PublishUnpark, KeyInv, Driving
<1>6. ASSUME NEW r \in Req, Publish(r)
      PROVE  TypeOK'
  BY <1>6 DEF Publish, Displaced, Arm, KeyInv, Driving
<1>7. ASSUME NEW r \in Req, Finish(r)
      PROVE  TypeOK'
  BY <1>7 DEF Finish, DropEntry, KeyInv, Driving
<1>8. ASSUME NEW t \in Turn, TimerFires(t) \/ ExpireSome(t)
      PROVE  TypeOK'
  <2>1. CASE TimerFires(t)
    BY <2>1 DEF TimerFires
  <2>2. ASSUME NEW g \in 1..parks[t], Expire(t, g)
        PROVE  TypeOK'
    <3>1. calls' \in SUBSET (Turn \X Health)
      BY <2>2 DEF Expire, Health
    <3>2. sessions' \in [Key -> Turn \cup {NoTurn}]
      BY <2>2 DEF Expire
    <3> QED
      BY <2>2, <3>1, <3>2 DEF Expire
  <2> QED
    BY <1>8, <2>1, <2>2 DEF ExpireSome
<1>9. ASSUME NEW t \in Turn, CleanupStep(t)
      PROVE  TypeOK'
  <2>1. ASSUME NEW health \in Health, CleanupBegin(t, health)
        PROVE  TypeOK'
    BY <2>1 DEF CleanupBegin
  <2>2. CASE CleanupUnpark(t)
    BY <2>2 DEF CleanupUnpark
  <2>3. CASE CleanupRelease(t)
    BY <2>3 DEF CleanupRelease
  <2> QED
    BY <1>9, <2>1, <2>2, <2>3 DEF CleanupStep
<1>10. CASE ClosePending
  BY <1>10 DEF ClosePending
<1>11. CASE UNCHANGED vars
  BY <1>11 DEF vars
<1> QED
  BY <1>1, <1>2, <1>3, <1>4, <1>5, <1>6, <1>7, <1>8, <1>9, <1>10, <1>11
  DEF Next, Arrive, Advance

----------------------------------------------------------------------------
(* A started turn keeps its key: only requests that have not started       *)
(* choose one, and their turns are nobody else's yet.                      *)
LEMMA KeyNext == TypeOK /\ KeyInv /\ [Next]_vars => KeyInv'
<1> SUFFICES ASSUME TypeOK, KeyInv, [Next]_vars PROVE KeyInv'
  OBVIOUS
<1> USE SessionAssumption DEF TypeOK, Turn, Go, tableVars, timerVars,
        KeyInv, Started, Over, Driving
<1>1. ASSUME NEW r \in Req, NEW k \in Key \cup {NoKey},
             ClaimNothing(r, k) \/ ClaimBusy(r, k)
      PROVE  KeyInv'
  BY <1>1 DEF ClaimNothing, ClaimBusy
<1>2. ASSUME NEW r \in Req, NEW k \in Key \cup {NoKey}, ClaimAbandon(r, k)
      PROVE  KeyInv'
  BY <1>2 DEF ClaimAbandon, Claimable
<1>3. ASSUME NEW r \in Req, NEW k \in Key \cup {NoKey}, Claim(r, k)
      PROVE  KeyInv'
  BY <1>3 DEF Claim, Claimable
<1>4. ASSUME NEW r \in Req, Acquire(r)
      PROVE  KeyInv'
  BY <1>4 DEF Acquire
<1>5. ASSUME NEW r \in Req, AcquireFails(r) \/ Abandoned(r) \/ Replaced(r)
      PROVE  KeyInv'
  BY <1>5 DEF AcquireFails, Abandoned, Replaced
<1>6. ASSUME NEW r \in Req,
             Answer(r) \/ Begin(r) \/ Complete(r) \/ Interrupt(r) \/ PublishClosed(r)
      PROVE  KeyInv'
  BY <1>6 DEF Answer, Begin, Complete, Interrupt, PublishClosed
<1>7. ASSUME NEW r \in Req, ToolsReady(r)
      PROVE  KeyInv'
  BY <1>7 DEF ToolsReady
<1>8. ASSUME NEW r \in Req, BeginFails(r)
      PROVE  KeyInv'
  BY <1>8 DEF BeginFails
<1>9. ASSUME NEW r \in Req, ClaimUnpark(r) \/ PublishUnpark(r)
      PROVE  KeyInv'
  BY <1>9 DEF ClaimUnpark, PublishUnpark
<1>10. ASSUME NEW r \in Req, Reserve(r)
      PROVE  KeyInv'
  BY <1>10 DEF Reserve
<1>11. ASSUME NEW r \in Req, Publish(r)
      PROVE  KeyInv'
  BY <1>11 DEF Publish, Arm
<1>12. ASSUME NEW r \in Req, Finish(r)
      PROVE  KeyInv'
  BY <1>12 DEF Finish, DropEntry
<1>13. ASSUME NEW r \in Req, Leave(r)
      PROVE  KeyInv'
  BY <1>13 DEF Leave
<1>14. ASSUME NEW t \in Turn, TimerFires(t)
      PROVE  KeyInv'
  BY <1>14 DEF TimerFires
<1>15. ASSUME NEW t \in Turn, NEW g \in 1..parks[t], Expire(t, g)
      PROVE  KeyInv'
  BY <1>15 DEF Expire
<1>16. ASSUME NEW t \in Turn, NEW health \in Health, CleanupBegin(t, health)
      PROVE  KeyInv'
  BY <1>16 DEF CleanupBegin
<1>17. ASSUME NEW t \in Turn, CleanupUnpark(t) \/ CleanupRelease(t)
      PROVE  KeyInv'
  BY <1>17 DEF CleanupUnpark, CleanupRelease
<1>18. CASE ClosePending
  BY <1>18 DEF ClosePending
<1>19. CASE UNCHANGED vars
  BY <1>19 DEF vars
<1> QED
  BY <1>1, <1>2, <1>3, <1>4, <1>5, <1>6, <1>7, <1>8, <1>9, <1>10, <1>11, <1>12, <1>13,
     <1>14, <1>15, <1>16, <1>17, <1>18, <1>19
  DEF Next, Arrive, Advance, ExpireSome, CleanupStep

----------------------------------------------------------------------------
(* A turn has one driver: a claim takes a turn without one, and a parking  *)
(* gives the turn up in the step that makes it claimable again.            *)
LEMMA DriverNext == TypeOK /\ KeyInv /\ DriverInv /\ [Next]_vars => DriverInv'
<1> SUFFICES ASSUME TypeOK, KeyInv, DriverInv, [Next]_vars PROVE DriverInv'
  OBVIOUS
<1> USE SessionAssumption DEF TypeOK, Turn, Go, tableVars, timerVars,
        DriverInv, OneDriver, Driving
<1>1. ASSUME NEW r \in Req, NEW k \in Key \cup {NoKey},
             ClaimNothing(r, k) \/ ClaimBusy(r, k)
      PROVE  DriverInv'
  BY <1>1 DEF ClaimNothing, ClaimBusy
<1>2. ASSUME NEW r \in Req, NEW k \in Key \cup {NoKey}, ClaimAbandon(r, k)
      PROVE  DriverInv'
  BY <1>2 DEF ClaimAbandon, Claimable
<1>3. ASSUME NEW r \in Req, NEW k \in Key \cup {NoKey}, Claim(r, k)
      PROVE  DriverInv'
  BY <1>3 DEF Claim, Claimable
<1>4. ASSUME NEW r \in Req, Acquire(r)
      PROVE  DriverInv'
  BY <1>4 DEF Acquire, KeyInv, Started
<1>5. ASSUME NEW r \in Req, AcquireFails(r) \/ Abandoned(r) \/ Replaced(r)
      PROVE  DriverInv'
  BY <1>5 DEF AcquireFails, Abandoned, Replaced
<1>6. ASSUME NEW r \in Req,
             Answer(r) \/ Begin(r) \/ Complete(r) \/ Interrupt(r) \/ PublishClosed(r)
      PROVE  DriverInv'
  BY <1>6 DEF Answer, Begin, Complete, Interrupt, PublishClosed
<1>7. ASSUME NEW r \in Req, ToolsReady(r)
      PROVE  DriverInv'
  BY <1>7 DEF ToolsReady
<1>8. ASSUME NEW r \in Req, BeginFails(r)
      PROVE  DriverInv'
  BY <1>8 DEF BeginFails
<1>9. ASSUME NEW r \in Req, ClaimUnpark(r) \/ PublishUnpark(r)
      PROVE  DriverInv'
  BY <1>9 DEF ClaimUnpark, PublishUnpark
<1>10. ASSUME NEW r \in Req, Reserve(r)
      PROVE  DriverInv'
  BY <1>10 DEF Reserve
<1>11. ASSUME NEW r \in Req, Publish(r)
      PROVE  DriverInv'
  BY <1>11 DEF Publish, Arm
<1>12. ASSUME NEW r \in Req, Finish(r)
      PROVE  DriverInv'
  BY <1>12 DEF Finish, DropEntry
<1>13. ASSUME NEW r \in Req, Leave(r)
      PROVE  DriverInv'
  BY <1>13 DEF Leave
<1>14. ASSUME NEW t \in Turn, TimerFires(t)
      PROVE  DriverInv'
  BY <1>14 DEF TimerFires
<1>15. ASSUME NEW t \in Turn, NEW g \in 1..parks[t], Expire(t, g)
      PROVE  DriverInv'
  BY <1>15 DEF Expire
<1>16. ASSUME NEW t \in Turn, NEW health \in Health, CleanupBegin(t, health)
      PROVE  DriverInv'
  BY <1>16 DEF CleanupBegin
<1>17. ASSUME NEW t \in Turn, CleanupUnpark(t) \/ CleanupRelease(t)
      PROVE  DriverInv'
  BY <1>17 DEF CleanupUnpark, CleanupRelease
<1>18. CASE ClosePending
  BY <1>18 DEF ClosePending
<1>19. CASE UNCHANGED vars
  BY <1>19 DEF vars
<1> QED
  BY <1>1, <1>2, <1>3, <1>4, <1>5, <1>6, <1>7, <1>8, <1>9, <1>10, <1>11, <1>12, <1>13,
     <1>14, <1>15, <1>16, <1>17, <1>18, <1>19
  DEF Next, Arrive, Advance, ExpireSome, CleanupStep

----------------------------------------------------------------------------
(* A turn becomes unattended only when it is parked.  Every other way out  *)
(* of Driving leaves a cleanup call behind.                                *)
LEMMA UnattendedNext ==
  ASSUME TypeOK, KeyInv, DriverInv, [Next]_vars, NEW t \in Turn, Unattended(t)'
  PROVE  \/ Unattended(t) /\ (t \in parkedSlots => t \in parkedSlots')
         \/ \E r \in Req : Publish(r) /\ turn[r] = t
<1> DEFINE Kept == Unattended(t) /\ (t \in parkedSlots => t \in parkedSlots')
<1> USE SessionAssumption DEF TypeOK, Turn, Go, tableVars, timerVars, Unattended, Driven,
        BeingCleaned, Held, Driving
<1>1. ASSUME NEW r \in Req, NEW k \in Key \cup {NoKey},
             ClaimNothing(r, k) \/ ClaimBusy(r, k)
      PROVE  Kept
  BY <1>1 DEF ClaimNothing, ClaimBusy
<1>2. ASSUME NEW r \in Req, NEW k \in Key \cup {NoKey}, ClaimAbandon(r, k)
      PROVE  Kept
  BY <1>2 DEF ClaimAbandon, Claimable
<1>3. ASSUME NEW r \in Req, NEW k \in Key \cup {NoKey}, Claim(r, k)
      PROVE  Kept
  BY <1>3 DEF Claim, Claimable
<1>4. ASSUME NEW r \in Req, Acquire(r)
      PROVE  Kept
  BY <1>4 DEF Acquire
<1>5. ASSUME NEW r \in Req, AcquireFails(r) \/ Abandoned(r) \/ Replaced(r)
      PROVE  Kept
  BY <1>5 DEF AcquireFails, Abandoned, Replaced
<1>6. ASSUME NEW r \in Req,
             Answer(r) \/ Begin(r) \/ Complete(r) \/ Interrupt(r) \/ PublishClosed(r)
      PROVE  Kept
  BY SMTT(20), <1>6 DEF Answer, Begin, Complete, Interrupt, PublishClosed
<1>7. ASSUME NEW r \in Req, ToolsReady(r) \/ Reserve(r)
      PROVE  Kept
  BY <1>7 DEF ToolsReady, Reserve
<1>8. ASSUME NEW r \in Req, BeginFails(r)
      PROVE  Kept
  BY <1>8 DEF BeginFails, Health
<1>9. ASSUME NEW r \in Req, ClaimUnpark(r) \/ PublishUnpark(r)
      PROVE  Kept
  <2>1. pc'[r] \in Driving /\ turn' = turn
    BY <1>9 DEF ClaimUnpark, PublishUnpark
  <2>2. turn[r] # t
    BY <2>1
  <2>3. \A q \in Req : q # r => pc'[q] = pc[q]
    BY <1>9 DEF ClaimUnpark, PublishUnpark
  <2> QED
    BY <1>9, <2>1, <2>2, <2>3 DEF ClaimUnpark, PublishUnpark
<1>10. ASSUME NEW r \in Req, Publish(r), turn[r] # t
      PROVE  Kept
  BY <1>10 DEF Publish
<1>11. ASSUME NEW r \in Req, Finish(r)
      PROVE  Kept
  BY <1>11 DEF Finish, Health
<1>12. ASSUME NEW r \in Req, Leave(r)
      PROVE  Kept
  BY <1>12 DEF Leave
<1>13. ASSUME NEW u \in Turn, TimerFires(u)
      PROVE  Kept
  BY <1>13 DEF TimerFires
<1>14. ASSUME NEW u \in Turn, NEW g \in 1..parks[u], Expire(u, g)
      PROVE  Kept
  BY <1>14 DEF Expire
<1>15. ASSUME NEW u \in Turn, NEW health \in Health, CleanupBegin(u, health)
      PROVE  Kept
  BY <1>15 DEF CleanupBegin
<1>16. ASSUME NEW u \in Turn, CleanupUnpark(u) \/ CleanupRelease(u)
      PROVE  Kept
  <2>1. CASE CleanupUnpark(u)
    BY <2>1 DEF CleanupUnpark
  <2>2. CASE CleanupRelease(u)
    BY <2>2 DEF CleanupRelease
  <2> QED
    BY <1>16, <2>1, <2>2
<1>17. CASE ClosePending
  BY <1>17 DEF ClosePending
<1>18. CASE UNCHANGED vars
  BY <1>18 DEF vars
<1> QED
  BY <1>1, <1>2, <1>3, <1>4, <1>5, <1>6, <1>7, <1>8, <1>9, <1>10, <1>11, <1>12, <1>13,
     <1>14, <1>15, <1>16, <1>17, <1>18
  DEF Next, Arrive, Advance, ExpireSome, CleanupStep

----------------------------------------------------------------------------
(* A turn about to be published holds its parked slot, unless somebody has *)
(* cleaned it up; hence every unattended turn holds one.                   *)
LEMMA PublishingNext ==
  ASSUME TypeOK, KeyInv, DriverInv, ParkInv, [Next]_vars,
         NEW r \in Req, pc'[r] = "publish"
  PROVE  turn'[r] \in parkedSlots' \/ cleanup'[turn'[r]] # "none"
<1> DEFINE Goal == turn'[r] \in parkedSlots' \/ cleanup'[turn'[r]] # "none"
<1> USE DEF TypeOK, Turn, Go, tableVars, timerVars
<1>1. ASSUME NEW q \in Req, Arrive(q)
      PROVE  Goal
  BY <1>1 DEF Arrive, ClaimNothing, ClaimBusy, ClaimAbandon, Claim, ParkInv
<1>2. ASSUME NEW q \in Req, Acquire(q) \/ AcquireFails(q)
      PROVE  Goal
  BY <1>2 DEF Acquire, AcquireFails, ParkInv
<1>3. ASSUME NEW q \in Req,
             \/ Abandoned(q) \/ Answer(q) \/ Begin(q) \/ BeginFails(q) \/ Complete(q)
             \/ ToolsReady(q) \/ Interrupt(q) \/ Replaced(q) \/ PublishClosed(q)
      PROVE  Goal
  BY <1>3 DEF Abandoned, Answer, Begin, BeginFails, Complete, ToolsReady, Interrupt,
       Replaced, PublishClosed, ParkInv
<1>4. ASSUME NEW q \in Req, Publish(q) \/ Finish(q) \/ Leave(q)
      PROVE  Goal
  BY <1>4 DEF Publish, Finish, Leave, ParkInv
<1>5. ASSUME NEW q \in Req, Reserve(q)
      PROVE  Goal
  BY <1>5 DEF Reserve, ParkInv
<1>6. ASSUME NEW q \in Req, ClaimUnpark(q) \/ PublishUnpark(q)
      PROVE  Goal
  <2>1. q # r /\ pc[r] = "publish" /\ turn' = turn /\ cleanup' = cleanup
    BY <1>6 DEF ClaimUnpark, PublishUnpark
  <2>2. turn[q] # turn[r]
    BY <1>6, <2>1 DEF ClaimUnpark, PublishUnpark, DriverInv, OneDriver, Driving
  <2> QED
    BY <1>6, <2>1, <2>2 DEF ClaimUnpark, PublishUnpark, ParkInv
<1>7. ASSUME NEW t \in Turn, TimerFires(t) \/ ExpireSome(t)
      PROVE  Goal
  BY <1>7 DEF TimerFires, ExpireSome, Expire, ParkInv
<1>8. ASSUME NEW t \in Turn, CleanupStep(t)
      PROVE  Goal
  <2>1. pc[r] = "publish" /\ turn' = turn /\ turn[r] \in Turn
    BY <1>8 DEF CleanupStep, CleanupBegin, CleanupUnpark, CleanupRelease, KeyInv, Driving
  <2>2. ASSUME NEW health \in Health, CleanupBegin(t, health)
        PROVE  Goal
    BY <2>1, <2>2 DEF CleanupBegin, ParkInv
  <2>3. CASE CleanupUnpark(t) \/ CleanupRelease(t)
    BY <2>1, <2>3 DEF CleanupUnpark, CleanupRelease, ParkInv
  <2> QED
    BY <1>8, <2>2, <2>3 DEF CleanupStep
<1>9. CASE ClosePending \/ UNCHANGED vars
  BY <1>9 DEF ClosePending, vars, ParkInv
<1> QED
  BY <1>1, <1>2, <1>3, <1>4, <1>5, <1>6, <1>7, <1>8, <1>9 DEF Next, Advance

LEMMA ParkNext ==
  TypeOK /\ KeyInv /\ DriverInv /\ ParkInv /\ [Next]_vars => ParkInv'
<1> SUFFICES ASSUME TypeOK, KeyInv, DriverInv, ParkInv, [Next]_vars PROVE ParkInv'
  OBVIOUS
<1>1. IsFiniteSet(parkedSlots') /\ Cardinality(parkedSlots') <= Limit - 1
  <2>1. CASE parkedSlots' \subseteq parkedSlots
    <3>1. IsFiniteSet(parkedSlots') /\ Cardinality(parkedSlots') <= Cardinality(parkedSlots)
      BY <2>1, FS_Subset DEF ParkInv
    <3> QED
      BY <3>1, SessionAssumption, FS_CardinalityType DEF ParkInv
  <2>2. ASSUME NEW t, parkedSlots' = parkedSlots \cup {t}, CanReserve(t)
        PROVE  IsFiniteSet(parkedSlots') /\ Cardinality(parkedSlots') <= Limit - 1
    <3>1. CASE t \in parkedSlots
      BY <3>1, <2>2, <2>1
    <3>2. CASE t \notin parkedSlots
      <4>1. Cardinality(parkedSlots) < Limit - 1
        BY <3>2, <2>2 DEF CanReserve, ParkedLimit
      <4>2. /\ IsFiniteSet(parkedSlots')
            /\ Cardinality(parkedSlots') = Cardinality(parkedSlots) + 1
        BY <3>2, <2>2, FS_AddElement DEF ParkInv
      <4> QED
        BY <4>1, <4>2, SessionAssumption, FS_CardinalityType DEF ParkInv
    <3> QED
      BY <3>1, <3>2
  <2>3. parkedSlots' \subseteq parkedSlots \/ \E t \in Turn \cup {NoTurn} :
          parkedSlots' = parkedSlots \cup {t} /\ CanReserve(t)
    <3> USE DEF TypeOK, tableVars, timerVars
    <3>1. ASSUME NEW r \in Req, Arrive(r)
          PROVE  parkedSlots' = parkedSlots
      BY <3>1 DEF Arrive, ClaimNothing, ClaimBusy, ClaimAbandon, Claim
    <3>2. ASSUME NEW r \in Req, Acquire(r) \/ AcquireFails(r)
          PROVE  parkedSlots' = parkedSlots
      BY <3>2 DEF Acquire, AcquireFails
    <3>3. ASSUME NEW r \in Req, Advance(r), ~Reserve(r)
          PROVE  parkedSlots' \subseteq parkedSlots
      BY <3>3 DEF Advance, Abandoned, ClaimUnpark, Answer, Begin, BeginFails,
           Complete, ToolsReady, Interrupt, Publish, Replaced, PublishClosed,
           PublishUnpark, Finish, Leave
    <3>4. ASSUME NEW r \in Req, Reserve(r)
          PROVE  \/ parkedSlots' = parkedSlots
                 \/ parkedSlots' = parkedSlots \cup {turn[r]} /\ CanReserve(turn[r])
      BY <3>4 DEF Reserve
    <3>5. ASSUME NEW t \in Turn, TimerFires(t) \/ ExpireSome(t) \/ CleanupStep(t)
          PROVE  parkedSlots' \subseteq parkedSlots
      BY <3>5 DEF TimerFires, ExpireSome, Expire, CleanupStep, CleanupBegin,
           CleanupUnpark, CleanupRelease
    <3>6. CASE ClosePending \/ UNCHANGED vars
      BY <3>6 DEF ClosePending, vars
    <3> QED
      BY <3>1, <3>2, <3>3, <3>4, <3>5, <3>6 DEF Next
  <2> QED
    BY <2>1, <2>2, <2>3
<1>2. ASSUME NEW r \in Req, pc'[r] = "publish"
      PROVE  turn'[r] \in parkedSlots' \/ cleanup'[turn'[r]] # "none"
  BY <1>2, PublishingNext
<1>3. ASSUME NEW t \in Turn, Unattended(t)'
      PROVE  t \in parkedSlots'
  <2>1. CASE Unattended(t) /\ (t \in parkedSlots => t \in parkedSlots')
    BY <2>1 DEF ParkInv
  <2>2. ASSUME NEW r \in Req, Publish(r), turn[r] = t
        PROVE  t \in parkedSlots'
    <3>1. t \in parkedSlots \/ cleanup[t] # "none"
      BY <2>2 DEF Publish, Go, ParkInv
    <3>2. cleanup' = cleanup /\ parkedSlots' = parkedSlots
      BY <2>2 DEF Publish
    <3> QED
      BY <1>3, <3>1, <3>2 DEF Unattended, BeingCleaned
  <2> QED
    BY <1>3, <2>1, <2>2, UnattendedNext
<1> QED
  BY <1>1, <1>2, <1>3 DEF ParkInv

----------------------------------------------------------------------------
(* Whoever removes an unattended turn from the table or takes its timer    *)
(* drives it or cleans it up.                                              *)
LEMMA OrphanNext ==
  TypeOK /\ KeyInv /\ DriverInv /\ NothingOrphaned /\ [Next]_vars => NothingOrphaned'
<1> SUFFICES ASSUME TypeOK, KeyInv, DriverInv, NothingOrphaned, [Next]_vars,
                    NEW t \in Turn, Unattended(t)'
             PROVE  /\ sessions'[key'[t]] = t
                    /\ t \notin claimed'
                    /\ \E g \in 1..parks'[t] : <<t, g>> \in armed' \cup expiring'
  BY DEF NothingOrphaned
<1> DEFINE Found == /\ sessions'[key'[t]] = t
                    /\ t \notin claimed'
                    /\ \E g \in 1..parks'[t] : <<t, g>> \in armed' \cup expiring'
<1> USE SessionAssumption DEF TypeOK, Turn, Go, tableVars, timerVars
<1>1. ASSUME NEW r \in Req, Publish(r), turn[r] = t
      PROVE  Found
  <2>1. key[t] = key[r] /\ key[r] \in Key
    BY <1>1 DEF Publish, KeyInv, Driving
  <2>2. parks'[t] \in 1..parks'[t] /\ <<t, parks'[t]>> \in armed'
    BY <1>1 DEF Publish, Arm
  <2> QED
    BY <1>1, <2>1, <2>2 DEF Publish
<1>2. ASSUME Unattended(t)
      PROVE  Found
  <2> PICK g \in 1..parks[t] : <<t, g>> \in armed \cup expiring
    BY <1>2 DEF NothingOrphaned
  <2>1. sessions[key[t]] = t /\ t \notin claimed /\ key[t] \in Key /\ Started(t)
    BY <1>2 DEF NothingOrphaned, KeyInv
  <2>2. ~BeingCleaned(t)' /\ ~Driven(t)'
    BY DEF Unattended
  <2> USE DEF Started
  <2>3. ASSUME NEW r \in Req, NEW k \in Key \cup {NoKey},
               ClaimNothing(r, k) \/ ClaimBusy(r, k)
        PROVE  Found
    BY <2>1, <2>3 DEF ClaimNothing, ClaimBusy
  <2>4. ASSUME NEW r \in Req, NEW k \in Key \cup {NoKey}, ClaimAbandon(r, k)
        PROVE  Found
    BY <2>1, <2>2, <2>4 DEF ClaimAbandon, Claimable, BeingCleaned, Health
  <2>5. ASSUME NEW r \in Req, NEW k \in Key \cup {NoKey}, Claim(r, k)
        PROVE  Found
    <3>1. sessions[k] # t
      BY <2>2, <2>5 DEF Claim, Claimable, Driven, Driving
    <3> QED
      BY <2>1, <2>5, <3>1 DEF Claim, Claimable
  <2>6. ASSUME NEW r \in Req, Acquire(r)
        PROVE  Found
    BY <2>1, <2>6 DEF Acquire
  <2>7. ASSUME NEW r \in Req,
               \/ AcquireFails(r) \/ Abandoned(r) \/ Replaced(r) \/ Answer(r) \/ Begin(r)
               \/ Complete(r) \/ Interrupt(r) \/ PublishClosed(r)
        PROVE  Found
    BY <2>1, <2>7 DEF AcquireFails, Abandoned, Replaced, Answer, Begin, Complete,
         Interrupt, PublishClosed
  <2>8. ASSUME NEW r \in Req,
               \/ ToolsReady(r) \/ Reserve(r) \/ BeginFails(r) \/ ClaimUnpark(r)
               \/ PublishUnpark(r) \/ Leave(r)
        PROVE  Found
    BY <2>1, <2>8 DEF ToolsReady, Reserve, BeginFails, ClaimUnpark, PublishUnpark, Leave
  <2>9. ASSUME NEW r \in Req, Publish(r), turn[r] # t
        PROVE  Found
    <3>1. key[r] = key[t] => <<t, "bad">> \in calls'
      BY <2>1, <2>9 DEF Publish, Displaced
    <3>2. key[r] # key[t]
      BY <2>2, <3>1 DEF BeingCleaned, Health
    <3>3. t \notin claimed' /\ sessions'[key'[t]] = t
      BY <2>1, <2>9, <3>2 DEF Publish
    <3>4. parks'[t] = parks[t] /\ armed \subseteq armed' /\ expiring' = expiring
      BY <2>9 DEF Publish, Arm
    <3> QED
      BY <3>3, <3>4
  <2>10. ASSUME NEW r \in Req, Finish(r)
         PROVE  Found
    <3>1. turn[r] # t
      BY <2>2, <2>10 DEF Finish, BeingCleaned, Health
    <3> QED
      BY <2>1, <2>10, <3>1 DEF Finish, DropEntry
  <2>11. ASSUME NEW u \in Turn, TimerFires(u)
         PROVE  Found
    BY <2>1, <2>11 DEF TimerFires
  <2>12. ASSUME NEW u \in Turn, NEW h \in 1..parks[u], Expire(u, h)
         PROVE  Found
    <3>1. u # t
      BY <2>1, <2>2, <2>12 DEF Expire, BeingCleaned, Health
    <3> QED
      BY <2>1, <2>12, <3>1 DEF Expire
  <2>13. ASSUME NEW u \in Turn, NEW health \in Health, CleanupBegin(u, health)
         PROVE  Found
    <3>1. armed' = armed \/ u # t
      BY <2>2, <2>13 DEF CleanupBegin, BeingCleaned
    <3> QED
      BY <2>1, <2>13, <3>1 DEF CleanupBegin
  <2>14. ASSUME NEW u \in Turn, CleanupUnpark(u) \/ CleanupRelease(u)
         PROVE  Found
    BY <2>1, <2>14 DEF CleanupUnpark, CleanupRelease
  <2>15. ~ClosePending
    <3>1. ClosePending => <<sessions[key[t]], "bad">> \in calls'
      BY <2>1 DEF ClosePending
    <3> QED
      BY <2>1, <2>2, <3>1 DEF BeingCleaned, Health
  <2>16. CASE UNCHANGED vars
    BY <2>1, <2>16 DEF vars
  <2> QED
    BY <2>3, <2>4, <2>5, <2>6, <2>7, <2>8, <2>9, <2>10, <2>11, <2>12, <2>13, <2>14,
       <2>15, <2>16, <1>1
    DEF Next, Arrive, Advance, ExpireSome, CleanupStep
<1> QED
  BY <1>1, <1>2, UnattendedNext

----------------------------------------------------------------------------
(* Only the driver ends a turn in good health, and it drops the entry of   *)
(* the turn first.                                                         *)
LEMMA OverNext == TypeOK /\ KeyInv /\ DriverInv /\ OverInv /\ [Next]_vars => OverInv'
<1> SUFFICES ASSUME TypeOK, KeyInv, DriverInv, OverInv, [Next]_vars PROVE OverInv'
  OBVIOUS
<1> USE SessionAssumption DEF TypeOK, Turn, Go, tableVars, timerVars,
        OverInv, Over, Driven, Driving
<1>1. ASSUME NEW r \in Req, NEW k \in Key \cup {NoKey},
             ClaimNothing(r, k) \/ ClaimBusy(r, k)
      PROVE  OverInv'
  BY <1>1 DEF ClaimNothing, ClaimBusy
<1>2. ASSUME NEW r \in Req, NEW k \in Key \cup {NoKey}, ClaimAbandon(r, k)
      PROVE  OverInv'
  BY <1>2 DEF ClaimAbandon, Claimable
<1>3. ASSUME NEW r \in Req, NEW k \in Key \cup {NoKey}, Claim(r, k)
      PROVE  OverInv'
  BY <1>3 DEF Claim, Claimable
<1>4. ASSUME NEW r \in Req, Acquire(r)
      PROVE  OverInv'
  BY <1>4 DEF Acquire, KeyInv, Started
<1>5. ASSUME NEW r \in Req, AcquireFails(r) \/ Abandoned(r) \/ Replaced(r)
      PROVE  OverInv'
  BY <1>5 DEF AcquireFails, Abandoned, Replaced
<1>6. ASSUME NEW r \in Req,
             Answer(r) \/ Begin(r) \/ Complete(r) \/ Interrupt(r) \/ PublishClosed(r)
      PROVE  OverInv'
  BY <1>6 DEF Answer, Begin, Complete, Interrupt, PublishClosed
<1>7. ASSUME NEW r \in Req, ToolsReady(r)
      PROVE  OverInv'
  BY <1>7 DEF ToolsReady
<1>8. ASSUME NEW r \in Req, BeginFails(r)
      PROVE  OverInv'
  BY <1>8 DEF BeginFails
<1>9. ASSUME NEW r \in Req, ClaimUnpark(r) \/ PublishUnpark(r)
      PROVE  OverInv'
  BY <1>9 DEF ClaimUnpark, PublishUnpark
<1>10. ASSUME NEW r \in Req, Reserve(r)
      PROVE  OverInv'
  BY <1>10 DEF Reserve
<1>11. ASSUME NEW r \in Req, Publish(r)
      PROVE  OverInv'
  BY <1>11 DEF Publish, Arm
<1>12. ASSUME NEW r \in Req, Finish(r)
      PROVE  OverInv'
  <2>1. turn[r] \in Turn /\ key[turn[r]] = key[r]
    BY <1>12 DEF Finish, KeyInv
  <2>2. \A q \in Req : q # r /\ pc[q] \in Driving => turn[q] # turn[r]
    BY <1>12 DEF Finish, DriverInv, OneDriver
  <2>3. \A k \in Key : sessions'[k] # turn[r]
    BY <1>12, <2>1 DEF Finish, DropEntry, KeyInv
  <2>4. \A t \in Turn : Over(t)' => t = turn[r] \/ Over(t)
    BY <1>12 DEF Finish
  <2>5. \A t \in Turn : Driven(t)' => Driven(t) /\ t # turn[r]
    BY <1>12, <2>2 DEF Finish
  <2>6. \A k \in Key : sessions'[k] # NoTurn => sessions'[k] = sessions[k]
    BY <1>12 DEF Finish, DropEntry
  <2> HIDE DEF Over, Driven
  <2> QED
    BY <2>3, <2>4, <2>5, <2>6
<1>13. ASSUME NEW r \in Req, Leave(r)
      PROVE  OverInv'
  BY <1>13 DEF Leave
<1>14. ASSUME NEW t \in Turn, TimerFires(t)
      PROVE  OverInv'
  BY <1>14 DEF TimerFires
<1>15. ASSUME NEW t \in Turn, NEW g \in 1..parks[t], Expire(t, g)
      PROVE  OverInv'
  BY <1>15 DEF Expire
<1>16. ASSUME NEW t \in Turn, NEW health \in Health, CleanupBegin(t, health)
      PROVE  OverInv'
  BY <1>16 DEF CleanupBegin
<1>17. ASSUME NEW t \in Turn, CleanupUnpark(t) \/ CleanupRelease(t)
      PROVE  OverInv'
  BY <1>17 DEF CleanupUnpark, CleanupRelease
<1>18. CASE ClosePending
  BY <1>18 DEF ClosePending
<1>19. CASE UNCHANGED vars
  BY <1>19 DEF vars
<1> QED
  BY <1>1, <1>2, <1>3, <1>4, <1>5, <1>6, <1>7, <1>8, <1>9, <1>10, <1>11, <1>12, <1>13,
     <1>14, <1>15, <1>16, <1>17, <1>18, <1>19
  DEF Next, Arrive, Advance, ExpireSome, CleanupStep

----------------------------------------------------------------------------
(* Nothing is published once the table is closed.                          *)
LEMMA ClosedNext == TypeOK /\ ClosedInv /\ [Next]_vars => ClosedInv'
<1> SUFFICES ASSUME TypeOK, ClosedInv, [Next]_vars PROVE ClosedInv'
  OBVIOUS
<1> USE SessionAssumption DEF TypeOK, Turn, Go, tableVars, timerVars, ClosedInv
<1>1. ASSUME NEW r \in Req, NEW k \in Key \cup {NoKey},
             ClaimNothing(r, k) \/ ClaimBusy(r, k)
      PROVE  ClosedInv'
  BY <1>1 DEF ClaimNothing, ClaimBusy
<1>2. ASSUME NEW r \in Req, NEW k \in Key \cup {NoKey}, ClaimAbandon(r, k)
      PROVE  ClosedInv'
  BY <1>2 DEF ClaimAbandon, Claimable
<1>3. ASSUME NEW r \in Req, NEW k \in Key \cup {NoKey}, Claim(r, k)
      PROVE  ClosedInv'
  BY <1>3 DEF Claim, Claimable
<1>4. ASSUME NEW r \in Req, Acquire(r)
      PROVE  ClosedInv'
  BY <1>4 DEF Acquire
<1>5. ASSUME NEW r \in Req, AcquireFails(r) \/ Abandoned(r) \/ Replaced(r)
      PROVE  ClosedInv'
  BY <1>5 DEF AcquireFails, Abandoned, Replaced
<1>6. ASSUME NEW r \in Req,
             Answer(r) \/ Begin(r) \/ Complete(r) \/ Interrupt(r) \/ PublishClosed(r)
      PROVE  ClosedInv'
  BY <1>6 DEF Answer, Begin, Complete, Interrupt, PublishClosed
<1>7. ASSUME NEW r \in Req, ToolsReady(r)
      PROVE  ClosedInv'
  BY <1>7 DEF ToolsReady
<1>8. ASSUME NEW r \in Req, BeginFails(r)
      PROVE  ClosedInv'
  BY <1>8 DEF BeginFails
<1>9. ASSUME NEW r \in Req, ClaimUnpark(r) \/ PublishUnpark(r)
      PROVE  ClosedInv'
  BY <1>9 DEF ClaimUnpark, PublishUnpark
<1>10. ASSUME NEW r \in Req, Reserve(r)
      PROVE  ClosedInv'
  BY <1>10 DEF Reserve
<1>11. ASSUME NEW r \in Req, Publish(r)
      PROVE  ClosedInv'
  BY <1>11 DEF Publish, MayPublish
<1>12. ASSUME NEW r \in Req, Finish(r)
      PROVE  ClosedInv'
  BY <1>12 DEF Finish, DropEntry
<1>13. ASSUME NEW r \in Req, Leave(r)
      PROVE  ClosedInv'
  BY <1>13 DEF Leave
<1>14. ASSUME NEW t \in Turn, TimerFires(t)
      PROVE  ClosedInv'
  BY <1>14 DEF TimerFires
<1>15. ASSUME NEW t \in Turn, NEW g \in 1..parks[t], Expire(t, g)
      PROVE  ClosedInv'
  BY <1>15 DEF Expire
<1>16. ASSUME NEW t \in Turn, NEW health \in Health, CleanupBegin(t, health)
      PROVE  ClosedInv'
  BY <1>16 DEF CleanupBegin
<1>17. ASSUME NEW t \in Turn, CleanupUnpark(t) \/ CleanupRelease(t)
      PROVE  ClosedInv'
  BY <1>17 DEF CleanupUnpark, CleanupRelease
<1>18. CASE ClosePending
  BY <1>18 DEF ClosePending
<1>19. CASE UNCHANGED vars
  BY <1>19 DEF vars
<1> QED
  BY <1>1, <1>2, <1>3, <1>4, <1>5, <1>6, <1>7, <1>8, <1>9, <1>10, <1>11, <1>12, <1>13,
     <1>14, <1>15, <1>16, <1>17, <1>18, <1>19
  DEF Next, Arrive, Advance, ExpireSome, CleanupStep

----------------------------------------------------------------------------
LEMMA InvInit == Init => IInv
<1> SUFFICES ASSUME Init PROVE IInv
  OBVIOUS
<1>1. TypeOK
  BY TypeInit
<1>2. KeyInv
  BY SessionAssumption DEF Init, KeyInv, Started, Over, Driving, Turn
<1>3. DriverInv
  BY DEF Init, DriverInv, OneDriver, Driving
<1>4. ParkInv
  BY SessionAssumption, FS_EmptySet DEF Init, ParkInv, Unattended, Held
<1>5. NothingOrphaned
  BY DEF Init, NothingOrphaned, Unattended, Held
<1>6. OverInv
  BY DEF Init, OverInv, Over
<1>7. ClosedInv
  BY DEF Init, ClosedInv
<1> QED
  BY <1>1, <1>2, <1>3, <1>4, <1>5, <1>6, <1>7 DEF IInv

\* Keys, drivers, tokens, table and cleanups belong together in every state.
THEOREM Invariant == Spec => []IInv
<1>1. IInv /\ [Next]_vars => IInv'
  BY TypeNext, KeyNext, DriverNext, ParkNext, OrphanNext, OverNext, ClosedNext DEF IInv
<1> QED
  BY <1>1, InvInit, PTL DEF Spec

----------------------------------------------------------------------------
\* Every variable of the session table keeps its type.
THEOREM TypeCorrect == Spec => []TypeOK
<1>1. IInv => TypeOK
  BY DEF IInv
<1> QED
  BY <1>1, Invariant, PTL

\* Whatever claims, replacements, expiries and closes do, fewer turns than
\* there are slots wait for their client: ReservedSlot.
THEOREM SlotReserved == Spec => []ReservedSlot
<1>1. IInv => ReservedSlot
  <2> SUFFICES ASSUME IInv PROVE ReservedSlot
    OBVIOUS
  <2> DEFINE Waiting == {t \in Turn : Unattended(t)}
  <2>1. Waiting \subseteq parkedSlots
    BY DEF IInv, ParkInv
  <2>2. IsFiniteSet(Waiting) /\ Cardinality(Waiting) <= Cardinality(parkedSlots)
    BY <2>1, FS_Subset DEF IInv, ParkInv
  <2>3. Cardinality(Waiting) \in Nat /\ Cardinality(parkedSlots) \in Nat
    BY <2>2, FS_CardinalityType DEF IInv, ParkInv
  <2> QED
    BY <2>2, <2>3, SessionAssumption DEF IInv, ParkInv, ReservedSlot
<1> QED
  BY <1>1, Invariant, PTL

\* Two requests never work on one turn: OneDriver.
THEOREM DriverUnique == Spec => []OneDriver
<1>1. IInv => OneDriver
  BY DEF IInv, DriverInv
<1> QED
  BY <1>1, Invariant, PTL

\* A turn nobody works for can be resumed and will be expired:
\* NothingOrphaned.
THEOREM NoOrphan == Spec => []NothingOrphaned
<1>1. IInv => NothingOrphaned
  BY DEF IInv
<1> QED
  BY <1>1, Invariant, PTL

\* A server is reused only after its turn is over for everyone:
\* ReuseAfterUse.
THEOREM ReuseSafe == Spec => []ReuseAfterUse
<1>1. IInv => ReuseAfterUse
  BY DEF IInv, OverInv, Over, ReuseAfterUse
<1> QED
  BY <1>1, Invariant, PTL

\* closePending leaves no turn parked: CloseLeavesNothingParked.
THEOREM CloseParksNothing == Spec => []CloseLeavesNothingParked
<1>1. IInv => CloseLeavesNothingParked
  <2> SUFFICES ASSUME IInv, sessionsClosed, NEW t \in Turn, Unattended(t)
               PROVE  FALSE
    BY DEF CloseLeavesNothingParked
  <2>1. sessions[key[t]] = t
    BY DEF IInv, NothingOrphaned
  <2>2. PICK g \in 1..parks[t] : <<t, g>> \in armed \cup expiring
    BY DEF IInv, NothingOrphaned
  <2>3. key[t] \in Key
    BY <2>2 DEF IInv, KeyInv, TypeOK
  <2> QED
    BY <2>1, <2>3, SessionAssumption DEF IInv, ClosedInv, Turn
<1> QED
  BY <1>1, Invariant, PTL

----------------------------------------------------------------------------
(* The parked slots that are lost: what the finding about                  *)
(* ParkedSlotHasTurn depends on.                                           *)

Kept(t) == Driven(t) \/ sessions[key[t]] = t \/ BeingCleaned(t)

TokenInv == \A t \in parkedSlots : key[t] \in Key /\ Started(t) /\ Kept(t)

LEMMA TokenNext == TypeOK /\ KeyInv /\ TokenInv /\ [Next]_vars => TokenInv'
<1> SUFFICES ASSUME TypeOK, KeyInv, TokenInv, [Next]_vars, NEW t \in parkedSlots'
             PROVE  (key[t] \in Key /\ Started(t) /\ Kept(t))'
  BY DEF TokenInv
<1> DEFINE Goal == (key[t] \in Key /\ Started(t) /\ Kept(t))'
<1> USE SessionAssumption DEF TypeOK, Turn, Go, tableVars, timerVars, TokenInv, Kept, Driven,
        BeingCleaned, Driving, Started
<1>0. ASSUME NEW r \in Req, pc[r] \in Driving, pc'[r] \in Driving, \A q \in Req : q # r => pc'[q] = pc[q],
             UNCHANGED <<turn, key, sessions, calls, cleanup>>, t \in parkedSlots
      PROVE  Goal
  <2>1. key'[t] \in Key /\ Started(t)' /\ Kept(t)
    BY <1>0
  <2>2. Driven(t) => Driven(t)'
    BY <1>0
  <2> QED
    BY <1>0, <2>1, <2>2
<1>1. ASSUME NEW r \in Req, NEW k \in Key \cup {NoKey}, ClaimNothing(r, k) \/ ClaimBusy(r, k)
      PROVE  Goal
  BY <1>1 DEF ClaimNothing, ClaimBusy
<1>2. ASSUME NEW r \in Req, NEW k \in Key \cup {NoKey}, ClaimAbandon(r, k)
      PROVE  Goal
  <2>1. /\ pc[r] = "new" /\ pc' = [pc EXCEPT ![r] = "abandon"] /\ key' = [key EXCEPT ![r] = k]
        /\ k \in Key /\ sessions' = [sessions EXCEPT ![k] = NoTurn]
        /\ calls' = calls \cup {<<sessions[k], "bad">>} /\ UNCHANGED <<turn, parkedSlots, cleanup>>
    BY <1>2 DEF ClaimAbandon, Claimable
  <2>2. key[t] \in Key /\ Started(t) /\ Kept(t) /\ t \in Req /\ t # r
    BY <2>1
  <2>3. key'[t] = key[t] /\ pc'[t] = pc[t]
    BY <2>1, <2>2
  <2>4. CASE Driven(t)
    BY <2>1, <2>2, <2>3, <2>4
  <2>5. CASE BeingCleaned(t)
    BY <2>1, <2>2, <2>3, <2>5
  <2>6. CASE sessions[key[t]] = t
    <3>1. sessions'[key[t]] = t \/ <<t, "bad">> \in calls'
      BY <2>1, <2>2, <2>6
    <3> QED
      BY <2>2, <2>3, <3>1 DEF Health
  <2> QED
    BY <2>2, <2>4, <2>5, <2>6
<1>3. ASSUME NEW r \in Req, NEW k \in Key \cup {NoKey}, Claim(r, k)
      PROVE  Goal
  BY <1>3 DEF Claim, Claimable
<1>4. ASSUME NEW r \in Req, Acquire(r)
      PROVE  Goal
  BY <1>4 DEF Acquire
<1>5. ASSUME NEW r \in Req, AcquireFails(r) \/ Abandoned(r) \/ Replaced(r)
      PROVE  Goal
  BY <1>5 DEF AcquireFails, Abandoned, Replaced
<1>6. ASSUME NEW r \in Req,
             Answer(r) \/ Begin(r) \/ Complete(r) \/ Interrupt(r) \/ PublishClosed(r)
      PROVE  Goal
  <2>1. /\ pc[r] \in Driving /\ pc'[r] \in Driving /\ \A q \in Req : q # r => pc'[q] = pc[q]
        /\ UNCHANGED <<turn, key, sessions, calls, cleanup, parkedSlots>>
    BY <1>6 DEF Answer, Begin, Complete, Interrupt, PublishClosed
  <2> QED
    BY <1>0, <2>1
<1>7. ASSUME NEW r \in Req, ToolsReady(r)
      PROVE  Goal
  <2>1. /\ pc[r] \in Driving /\ pc'[r] \in Driving /\ \A q \in Req : q # r => pc'[q] = pc[q]
        /\ UNCHANGED <<turn, key, sessions, calls, cleanup, parkedSlots>>
    BY <1>7 DEF ToolsReady
  <2> QED
    BY <1>0, <2>1
<1>8. ASSUME NEW r \in Req, Reserve(r)
      PROVE  Goal
  <2>1. /\ pc[r] = "park" /\ pc'[r] \in {"publish", "interrupt"} /\ \A q \in Req : q # r => pc'[q] = pc[q]
        /\ UNCHANGED <<turn, key, sessions, calls, cleanup>> /\ parkedSlots' \subseteq parkedSlots \cup {turn[r]}
    BY <1>8 DEF Reserve
  <2>2. CASE t = turn[r]
    <3>1. key[t] \in Key /\ pc[t] \notin {"new", "abandon", "fresh"} /\ t \in Req
      BY <2>1, <2>2 DEF KeyInv
    <3> QED
      BY <2>1, <2>2, <3>1
  <2>3. CASE t # turn[r]
    BY <1>0, <2>1, <2>3
  <2> QED
    BY <2>2, <2>3
<1>9. ASSUME NEW r \in Req, BeginFails(r)
      PROVE  Goal
  <2>1. /\ pc[r] = "begin" /\ pc'[r] = "leave" /\ \A q \in Req : q # r => pc'[q] = pc[q]
        /\ calls' = calls \cup {<<turn[r], "bad">>} /\ UNCHANGED <<key, turn, sessions, parkedSlots, cleanup>>
    BY <1>9 DEF BeginFails
  <2>2. CASE t = turn[r]
    BY <2>1, <2>2 DEF Health
  <2>3. CASE t # turn[r]
    BY <2>1, <2>3
  <2> QED
    BY <2>2, <2>3
<1>10. ASSUME NEW r \in Req, ClaimUnpark(r) \/ PublishUnpark(r)
      PROVE  Goal
  <2>1. /\ pc[r] \in Driving /\ pc'[r] \in Driving /\ \A q \in Req : q # r => pc'[q] = pc[q]
        /\ UNCHANGED <<turn, key, sessions, calls, cleanup>> /\ parkedSlots' \subseteq parkedSlots
    BY <1>10 DEF ClaimUnpark, PublishUnpark
  <2> QED
    BY <1>0, <2>1
<1>11. ASSUME NEW r \in Req, Publish(r)
      PROVE  Goal
  <2>1. key[turn[r]] = key[r] /\ key[r] \in Key
    BY <1>11 DEF Publish, KeyInv
  <2>2. /\ pc[r] = "publish" /\ \A q \in Req : q # r => pc'[q] = pc[q] /\ turn'[q] = turn[q]
        /\ pc'[r] \in {"done", "replace"}
        /\ sessions' = [sessions EXCEPT ![key[r]] = turn[r]]
        /\ calls' = calls \cup (Displaced(r) \X {"bad"}) /\ UNCHANGED <<key, parkedSlots, cleanup>>
    BY <1>11 DEF Publish
  <2>3. key[t] \in Key /\ Started(t)' /\ Kept(t)
    BY <2>2
  <2>4. CASE t = turn[r]
    BY <2>1, <2>2, <2>3, <2>4
  <2>5. CASE t # turn[r] /\ Driven(t)
    <3>1. PICK q \in Req : turn[q] = t /\ pc[q] \in Driving
      BY <2>5
    <3>2. q # r
      BY <2>5, <3>1
    <3> QED
      BY <2>2, <2>3, <3>1, <3>2
  <2>6. CASE t # turn[r] /\ BeingCleaned(t)
    BY <2>2, <2>3, <2>6
  <2>7. CASE t # turn[r] /\ sessions[key[t]] = t
    <3>1. sessions'[key[t]] = t \/ <<t, "bad">> \in calls'
      BY <2>1, <2>2, <2>3, <2>7 DEF Displaced
    <3> QED
      BY <2>2, <2>3, <3>1 DEF Health
  <2> QED
    BY <2>3, <2>4, <2>5, <2>6, <2>7
<1>12. ASSUME NEW r \in Req, Finish(r)
      PROVE  Goal
  BY <1>12 DEF Finish, DropEntry, Health
<1>13. ASSUME NEW r \in Req, Leave(r)
      PROVE  Goal
  BY <1>13 DEF Leave
<1>14. ASSUME NEW u \in Turn, TimerFires(u)
      PROVE  Goal
  BY <1>14 DEF TimerFires
<1>15. ASSUME NEW u \in Turn, NEW g \in 1..parks[u], Expire(u, g)
      PROVE  Goal
  BY <1>15 DEF Expire, Health
<1>16. ASSUME NEW u \in Turn, NEW health \in Health, CleanupBegin(u, health)
      PROVE  Goal
  BY <1>16 DEF CleanupBegin
<1>17. ASSUME NEW u \in Turn, CleanupUnpark(u) \/ CleanupRelease(u)
      PROVE  Goal
  BY <1>17 DEF CleanupUnpark, CleanupRelease
<1>18. CASE ClosePending
  BY <1>18 DEF ClosePending, Health
<1>19. CASE UNCHANGED vars
  BY <1>19 DEF vars
<1> QED
  BY <1>1, <1>2, <1>3, <1>4, <1>5, <1>6, <1>7, <1>8, <1>9, <1>10, <1>11, <1>12, <1>13,
     <1>14, <1>15, <1>16, <1>17, <1>18, <1>19
  DEF Next, Arrive, Advance, ExpireSome, CleanupStep

\* A token of p.parkedSlots belongs to a turn that is worked on, in the table or
\* about to be cleaned up, or to one whose cleanup has already given a token
\* back: the only way to lose a slot is to park a turn that has been cleaned up
\* (session.go:49-63, 138-181).
OnlyEndedTurnsKeepSlots ==
  \A t \in parkedSlots :
    \/ Driven(t)
    \/ sessions[key[t]] = t
    \/ \E health \in Health : <<t, health>> \in calls
    \/ cleanup[t] \in {"unparkGood", "unparkBad"}
    \/ cleanup[t] \in {"reuse", "close", "done"}

\* A token is left without a turn that uses it only where the turn's cleanup has
\* already given one back, for any number of requests, keys and slots.
THEOREM SlotLostOnlyAfterCleanup == Spec => []OnlyEndedTurnsKeepSlots
<1>1. Init => TokenInv
  BY DEF Init, TokenInv
<1>2. IInv /\ TokenInv /\ [Next]_vars => TokenInv'
  BY TokenNext DEF IInv
<1>3. IInv /\ TokenInv => OnlyEndedTurnsKeepSlots
  BY DEF IInv, TypeOK, TokenInv, Kept, BeingCleaned, OnlyEndedTurnsKeepSlots
<1> QED
  BY <1>1, <1>2, <1>3, Invariant, PTL DEF Spec
----------------------------------------------------------------------------
(* Waiting for a server of the pool, and for the end of a cleanup.         *)

\* Whoever waits for a cleanup has asked for it or found it asked for; only a
\* turn that has begun is cleaned up, and a cleanup that is over has returned
\* the server.
VictimInv ==
  /\ \A r \in Req : pc[r] \in {"abandon", "replace", "leave"} =>
       victim[r] \in Turn /\ BeingCleaned(victim[r])
  /\ \A t \in Turn : BeingCleaned(t) => Started(t)
  /\ \A t \in Turn : cleanup[t] = "done" => lease[t] # "held"

LEMMA VictimNext == TypeOK /\ KeyInv /\ VictimInv /\ [Next]_vars => VictimInv'
<1> SUFFICES ASSUME TypeOK, KeyInv, VictimInv, [Next]_vars PROVE VictimInv'
  OBVIOUS
<1> USE SessionAssumption DEF TypeOK, Turn, Go, tableVars, timerVars, VictimInv, BeingCleaned,
        Started, Health
\* a step of a request that asks for no cleanup and does not begin to wait for one
<1>0. ASSUME NEW r \in Req, \A q \in Req : q # r => pc'[q] = pc[q] /\ victim'[q] = victim[q],
             pc'[r] \notin {"abandon", "replace", "leave"},
             Started(r) => Started(r)',
             UNCHANGED <<calls, cleanup, lease>>
      PROVE  VictimInv'
  BY <1>0
<1>1. ASSUME NEW r \in Req, NEW k \in Key \cup {NoKey},
             ClaimNothing(r, k) \/ ClaimBusy(r, k) \/ Claim(r, k)
      PROVE  VictimInv'
  <2>1. /\ pc[r] = "new" /\ \A q \in Req : q # r => pc'[q] = pc[q] /\ victim'[q] = victim[q]
        /\ pc'[r] \notin {"abandon", "replace", "leave"} /\ UNCHANGED <<calls, cleanup, lease>>
    BY <1>1 DEF ClaimNothing, ClaimBusy, Claim
  <2> QED
    BY <1>0, <2>1
<1>2. ASSUME NEW r \in Req, NEW k \in Key \cup {NoKey}, ClaimAbandon(r, k)
      PROVE  VictimInv'
  <2>1. /\ pc[r] = "new" /\ pc' = [pc EXCEPT ![r] = "abandon"]
        /\ sessions[k] \in Turn /\ Started(sessions[k])
        /\ victim' = [victim EXCEPT ![r] = sessions[k]]
        /\ calls' = calls \cup {<<sessions[k], "bad">>} /\ UNCHANGED <<lease, cleanup>>
    BY <1>2 DEF ClaimAbandon, Claimable, KeyInv
  <2> QED
    BY <2>1
<1>3. ASSUME NEW r \in Req, Acquire(r)
      PROVE  VictimInv'
  <2>1. /\ pc[r] = "fresh" /\ pc' = [pc EXCEPT ![r] = "begin"] /\ lease' = [lease EXCEPT ![r] = "held"]
        /\ UNCHANGED <<victim, calls, cleanup>>
    BY <1>3 DEF Acquire
  <2>2. cleanup[r] # "done"
    BY <2>1
  <2> QED
    BY <2>1, <2>2
<1>4. ASSUME NEW r \in Req, AcquireFails(r) \/ Abandoned(r) \/ Replaced(r)
      PROVE  VictimInv'
  <2>1. /\ pc[r] \in {"fresh", "abandon", "replace"}
        /\ pc'[r] \in {"fresh", "done"} /\ (pc[r] = "replace" => pc'[r] = "done")
        /\ \A q \in Req : q # r => pc'[q] = pc[q] /\ victim'[q] = victim[q]
        /\ UNCHANGED <<calls, cleanup, lease>>
    BY <1>4 DEF AcquireFails, Abandoned, Replaced
  <2> QED
    BY <1>0, <2>1
<1>5. ASSUME NEW r \in Req, ClaimUnpark(r) \/ Answer(r) \/ Begin(r) \/ Complete(r) \/ Interrupt(r)
      PROVE  VictimInv'
  <2>1. /\ pc'[r] \in Driving /\ \A q \in Req : q # r => pc'[q] = pc[q] /\ victim'[q] = victim[q]
        /\ UNCHANGED <<calls, cleanup, lease>>
    BY <1>5 DEF ClaimUnpark, Answer, Begin, Complete, Interrupt, Driving
  <2> QED
    BY <1>0, <2>1 DEF Driving
<1>6. ASSUME NEW r \in Req, ToolsReady(r) \/ Reserve(r) \/ PublishClosed(r) \/ PublishUnpark(r)
      PROVE  VictimInv'
  <2>1. /\ pc'[r] \in Driving /\ \A q \in Req : q # r => pc'[q] = pc[q] /\ victim'[q] = victim[q]
        /\ UNCHANGED <<calls, cleanup, lease>>
    BY <1>6 DEF ToolsReady, Reserve, PublishClosed, PublishUnpark, Driving
  <2> QED
    BY <1>0, <2>1 DEF Driving
<1>7. ASSUME NEW r \in Req, BeginFails(r) \/ Finish(r)
      PROVE  VictimInv'
  <2>1. turn[r] \in Turn /\ Started(turn[r]) /\ pc[r] \in Driving
    BY <1>7 DEF BeginFails, Finish, KeyInv, Driving
  <2>2. /\ pc' = [pc EXCEPT ![r] = "leave"] /\ victim' = [victim EXCEPT ![r] = turn[r]]
        /\ \E health \in Health : calls' = calls \cup {<<turn[r], health>>}
        /\ UNCHANGED <<lease, cleanup>>
    BY <1>7 DEF BeginFails, Finish
  <2> QED
    BY <2>1, <2>2
<1>8. ASSUME NEW r \in Req, Publish(r)
      PROVE  VictimInv'
  <2>1. key[r] \in Key /\ pc[r] = "publish"
    BY <1>8 DEF Publish, KeyInv
  <2>2. /\ \A q \in Req : q # r => pc'[q] = pc[q] /\ victim'[q] = victim[q]
        /\ victim'[r] = sessions[key[r]] /\ UNCHANGED <<lease, cleanup>>
    BY <1>8 DEF Publish
  <2>3. CASE Displaced(r) = {}
    <3>1. pc'[r] = "done" /\ calls' = calls
      BY <1>8, <2>3 DEF Publish
    <3> QED
      BY <1>0, <2>1, <2>2, <3>1
  <2>4. CASE Displaced(r) # {}
    <3>1. Displaced(r) = {sessions[key[r]]} /\ sessions[key[r]] # NoTurn
      BY <2>4 DEF Displaced
    <3>2. /\ sessions[key[r]] \in Turn /\ Started(sessions[key[r]])
      BY <2>1, <3>1 DEF KeyInv
    <3>3. pc'[r] = "replace"
      BY <1>8, <2>4 DEF Publish
    <3>4. calls' = calls \cup ({sessions[key[r]]} \X {"bad"})
      BY <1>8, <3>1, Zenon DEF Publish
    <3>5. {sessions[key[r]]} \X {"bad"} = {<<sessions[key[r]], "bad">>}
      OBVIOUS
    <3> QED
      BY <2>1, <2>2, <3>2, <3>3, <3>4, <3>5
  <2> QED
    BY <2>3, <2>4
<1>9. ASSUME NEW r \in Req, Leave(r)
      PROVE  VictimInv'
  BY <1>9 DEF Leave
<1>10. ASSUME NEW u \in Turn, TimerFires(u)
      PROVE  VictimInv'
  BY <1>10 DEF TimerFires
<1>11. ASSUME NEW u \in Turn, NEW g \in 1..parks[u], Expire(u, g)
      PROVE  VictimInv'
  <2>1. key[u] \in Key /\ Started(u)
    BY <1>11 DEF Expire, KeyInv
  <2>2. (calls' = calls \/ calls' = calls \cup {<<u, "bad">>}) /\ UNCHANGED <<pc, victim, lease, cleanup>>
    BY <1>11 DEF Expire
  <2> QED
    BY <2>1, <2>2
<1>12. ASSUME NEW u \in Turn, NEW health \in Health, CleanupBegin(u, health)
      PROVE  VictimInv'
  <2>1. /\ <<u, health>> \in calls /\ calls' = calls \ {<<u, health>>}
        /\ cleanup'[u] # "none" /\ (cleanup'[u] = "done" => cleanup[u] = "done")
        /\ \A t \in Turn : t # u => cleanup'[t] = cleanup[t]
        /\ UNCHANGED <<pc, victim, lease>>
    BY <1>12 DEF CleanupBegin
  <2> QED
    BY <2>1
<1>13. ASSUME NEW u \in Turn, CleanupUnpark(u) \/ CleanupRelease(u)
      PROVE  VictimInv'
  BY <1>13 DEF CleanupUnpark, CleanupRelease
<1>14. CASE ClosePending
  <2>1. /\ UNCHANGED <<pc, victim, lease, cleanup>> /\ calls \subseteq calls'
        /\ \A t \in Turn, health \in Health : <<t, health>> \in calls' =>
             <<t, health>> \in calls \/ \E k \in Key : sessions[k] = t
    BY <1>14 DEF ClosePending
  <2> QED
    BY <2>1 DEF KeyInv
<1>15. CASE UNCHANGED vars
  BY <1>15 DEF vars
<1> HIDE DEF TypeOK, Turn, Go, tableVars, timerVars, VictimInv, BeingCleaned, Started, Health
<1> QED
  BY <1>1, <1>2, <1>3, <1>4, <1>5, <1>6, <1>7, <1>8, <1>9, <1>10, <1>11, <1>12, <1>13, <1>14, <1>15
  DEF Next, Arrive, Advance, ExpireSome, CleanupStep

\* r is blocked: every server is held, or its cleanup has not returned
Waits(r) ==
  \/ pc[r] = "fresh" /\ Cardinality(Held) >= Limit
  \/ pc[r] \in {"abandon", "replace", "leave"} /\ cleanup[victim[r]] # "done"

\* r waits for the server of t, or for the cleanup of t
WaitsFor(r, t) ==
  \/ pc[r] = "fresh" /\ t \in Held
  \/ pc[r] \in {"abandon", "replace", "leave"} /\ t = victim[r]

Cleaning(t) ==
  \/ \E health \in Health : <<t, health>> \in calls
  \/ cleanup[t] \notin {"none", "done"}

WaitsForWorkOnly ==
  \A r \in Req : Waits(r) => \E t \in Turn : WaitsFor(r, t) /\ (Driven(t) \/ Cleaning(t))

\* A request that is blocked waits for a turn that somebody drives or that is
\* being cleaned up, and never for parked turns only: whatever the clients of
\* parked turns do, new traffic gets a server (codex.go:54, session.go:38-48).
THEOREM NeverBehindParkedOnly == Spec => []WaitsForWorkOnly
<1>1. Init => VictimInv
  BY DEF Init, VictimInv, BeingCleaned
<1>2. IInv /\ ReservedSlot /\ VictimInv => WaitsForWorkOnly
  <2> SUFFICES ASSUME IInv, ReservedSlot, VictimInv, NEW r \in Req, Waits(r)
               PROVE  \E t \in Turn : WaitsFor(r, t) /\ (Driven(t) \/ Cleaning(t))
    BY DEF WaitsForWorkOnly
  <2>1. \A t \in Turn : BeingCleaned(t) /\ (t \in Held \/ cleanup[t] # "done") => Cleaning(t)
    BY DEF VictimInv, BeingCleaned, Cleaning, Held
  <2>2. CASE pc[r] = "fresh" /\ Cardinality(Held) >= Limit
    <3>1. \E t \in Held : ~Unattended(t)
      <4> SUFFICES ASSUME \A t \in Held : Unattended(t) PROVE FALSE
        OBVIOUS
      <4>1. Held = {t \in Turn : Unattended(t)} /\ Held \subseteq parkedSlots
        BY DEF Held, Unattended, IInv, ParkInv
      <4>2. Cardinality(Held) \in Nat
        BY <4>1, FS_Subset, FS_CardinalityType DEF IInv, ParkInv
      <4> QED
        BY <2>2, <4>1, <4>2, SessionAssumption DEF ReservedSlot
    <3>2. PICK t \in Held : ~Unattended(t)
      BY <3>1
    <3>3. t \in Turn /\ (Driven(t) \/ BeingCleaned(t))
      BY <3>2 DEF Unattended, Held
    <3> QED
      BY <2>1, <2>2, <3>2, <3>3 DEF WaitsFor
  <2>3. CASE pc[r] \in {"abandon", "replace", "leave"} /\ cleanup[victim[r]] # "done"
    BY <2>1, <2>3 DEF VictimInv, WaitsFor
  <2> QED
    BY <2>2, <2>3 DEF Waits
<1>3. IInv => TypeOK /\ KeyInv
  BY DEF IInv
<1> QED
  BY <1>1, <1>2, <1>3, VictimNext, Invariant, SlotReserved, PTL DEF Spec
=============================================================================
