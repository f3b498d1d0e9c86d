-------------------------- MODULE SelfUpdate_proofs --------------------------
(***************************************************************************)
(* Theorems about SelfUpdate for any number of processes and releases.     *)
(* Two arguments run side by side: a process that moves the executable     *)
(* away holds a verified copy (NeverLost), whatever the lock does; and as  *)
(* long as no lock of a process inside is removed, whoever is inside owns  *)
(* the lock file, so the executable is changed by one process at a time.   *)
(* When only old locks are removed that still is true of the processes     *)
(* whose time is not over.                                                 *)
(***************************************************************************)
EXTENDS SelfUpdate, TLAPS

\* what a process holds follows from where it is
StagedInv ==
  \A p \in Proc :
    /\ pc[p] \in Section \cup {"locate", "lock", "inspect", "takeover"} =>
         target[p] \in Version
    /\ pc[p] \in Replacing \cup {"verify"} => staged[p] = target[p]
    /\ pc[p] \in Replacing => verified[p]
    /\ verified[p] =>
         pc[p] \in Replacing \cup {"dropBackup", "discard", "unlock", "done", "dead"}

\* whoever is inside owns the lock file
OwnerInv ==
  ~broken => \A p \in Proc : pc[p] \in Section => lock # NoLock /\ lock.owner = p

\* and so does whoever is inside with time left, unless a lock that is not old
\* was removed from under it
TimelyInv ==
  ~stolen =>
    \A p \in Proc \ late : pc[p] \in Section => lock # NoLock /\ lock.owner = p

\* nobody takes a lock over, nor removes another's, before one is old
AgeInv ==
  /\ lock # NoLock /\ lock.old => lock.owner \in late
  /\ late = {} => ~stolen /\ \A p \in Proc : pc[p] # "takeover"

FileInv == StagedInv /\ NeverLost

LockInv == OwnerInv /\ TimelyInv /\ AgeInv

IInv == TypeOK /\ FileInv /\ LockInv /\ ReportedInstalled
----------------------------------------------------------------------------
\* the initial state satisfies the invariant
LEMMA InitInv == Init => IInv
<1> SUFFICES ASSUME Init PROVE IInv
  OBVIOUS
<1> USE VersionAssumption DEF Init, Version, File, None
<1>1. TypeOK
  <2>1. latest \in Version /\ exe \in File /\ backup \in File
    OBVIOUS
  <2>2. /\ pc \in [Proc -> PC]
        /\ attempt \in [Proc -> 0..1]
        /\ staged \in [Proc -> File]
        /\ current \in [Proc -> File]
        /\ target \in [Proc -> File]
    BY DEF PC
  <2>3. /\ verified \in [Proc -> BOOLEAN]
        /\ late \subseteq Proc
        /\ broken \in BOOLEAN
        /\ stolen \in BOOLEAN
    OBVIOUS
  <2> QED
    BY <2>1, <2>2, <2>3 DEF TypeOK
<1>2. FileInv
  BY DEF FileInv, StagedInv, NeverLost, Section, Replacing
<1>3. LockInv
  BY DEF LockInv, OwnerInv, TimelyInv, AgeInv, Section
<1>4. ReportedInstalled
  BY DEF ReportedInstalled, At
<1> QED
  BY <1>1, <1>2, <1>3, <1>4 DEF IInv

\* a step preserves the types
LEMMA StepTypes == TypeOK /\ [Next]_vars => TypeOK'
<1> SUFFICES ASSUME TypeOK, [Next]_vars PROVE TypeOK'
  OBVIOUS
<1> USE VersionAssumption
    DEF TypeOK, PC, Running, Section, At, Goto, files, history, locking
<1>1. CASE Publish
  BY <1>1 DEF Publish, Version
<1>2. CASE LockAges
  <2>1. lock' \in [owner : Proc, old : BOOLEAN] /\ late' \subseteq Proc
    BY <1>2 DEF LockAges
  <2> QED
    BY <1>2, <2>1 DEF LockAges
<1>3. ASSUME NEW p \in Proc, Step(p) PROVE TypeOK'
  <2>1. CASE Start(p) \/ CleanupStat(p) \/ CleanupRemove(p) \/ Dispatch(p)
    BY <2>1 DEF Start, CleanupStat, CleanupRemove, Dispatch, File
  <2>2. CASE Fetch(p) \/ FetchFails(p) \/ Locate(p)
    BY <2>2 DEF Fetch, FetchFails, Locate, File
  <2>3. CASE CreateLock(p)
    <3>1. lock' \in [owner : Proc, old : BOOLEAN]
      BY <2>3 DEF CreateLock
    <3> QED
      BY <2>3, <3>1 DEF CreateLock
  <2>4. CASE LockExists(p) \/ InspectLock(p) \/ LockFails(p) \/ TakeOver(p) \/ Unlock(p)
    <3>1. attempt' \in [Proc -> 0..1] /\ pc' \in [Proc -> PC]
      BY <2>4 DEF LockExists, InspectLock, LockFails, Removes, TakeOver, Unlock,
        NextAttempt
    <3>2. broken' \in BOOLEAN /\ stolen' \in BOOLEAN
      BY <2>4 DEF LockExists, InspectLock, LockFails, Removes, TakeOver, Unlock
    <3> QED
      BY <2>4, <3>1, <3>2
      DEF LockExists, InspectLock, LockFails, Removes, TakeOver, Unlock
  <2>5. CASE Stage(p) \/ StageFails(p) \/ Verify(p) \/ VerifyFails(p)
    BY <2>5 DEF Stage, StageFails, Verify, VerifyFails
  <2>6. CASE UnlinkOld(p) \/ MoveOld(p) \/ MoveOldFails(p)
    BY <2>6 DEF UnlinkOld, MoveOld, MoveOldFails, File
  <2>7. CASE MoveNew(p) \/ MoveNewFails(p) \/ Rollback(p) \/ RollbackFails(p)
    BY <2>7 DEF MoveNew, MoveNewFails, Rollback, RollbackFails, File
  <2>8. CASE DropBackup(p) \/ InspectExe(p) \/ Discard(p) \/ Crash(p)
    BY <2>8 DEF DropBackup, InspectExe, Discard, Crash, File
  <2> QED
    BY <1>3, <2>1, <2>2, <2>3, <2>4, <2>5, <2>6, <2>7, <2>8 DEF Step
<1>4. CASE UNCHANGED vars
  BY <1>4 DEF vars
<1> QED
  BY <1>1, <1>2, <1>3, <1>4 DEF Next

----------------------------------------------------------------------------
(* A copy of macaz always remains                                          *)

\* Every step keeps a verified copy: the only step that removes the executable
\* is taken by a process with a spare one, and a process gives its spare up
\* only to install it, or after it has seen an executable.
LEMMA StepFiles == TypeOK /\ FileInv /\ [Next]_vars => FileInv'
<1> SUFFICES ASSUME TypeOK, FileInv, [Next]_vars PROVE FileInv'
  OBVIOUS
<1> USE VersionAssumption
    DEF TypeOK, FileInv, StagedInv, NeverLost, Spare, PC, Running, Section,
        Replacing, At, Goto, files, history, locking, None, File, Version
<1>1. CASE Publish \/ LockAges
  BY <1>1 DEF Publish, LockAges
<1>2. ASSUME NEW p \in Proc, Step(p) PROVE FileInv'
  <2>1. CASE Start(p) \/ CleanupStat(p) \/ CleanupRemove(p) \/ Dispatch(p)
    BY <2>1 DEF Start, CleanupStat, CleanupRemove, Dispatch
  <2>2. CASE Fetch(p)
    <3>1. latest > current[p] => latest \in Version
      OBVIOUS
    <3> QED
      BY <2>2, <3>1 DEF Fetch
  <2>3. CASE FetchFails(p) \/ Locate(p)
    BY <2>3 DEF FetchFails, Locate
  <2>4. CASE CreateLock(p) \/ LockExists(p)
    BY <2>4 DEF CreateLock, LockExists
  <2>5. CASE InspectLock(p) \/ LockFails(p) \/ TakeOver(p) \/ Unlock(p)
    BY <2>5 DEF InspectLock, LockFails, TakeOver, Unlock, NextAttempt
  <2>6. CASE Stage(p) \/ StageFails(p) \/ Verify(p) \/ VerifyFails(p)
    <3>1. StagedInv'
      BY <2>6 DEF Stage, StageFails, Verify, VerifyFails
    <3>2. ASSUME exe = None PROVE \E q \in Proc : Spare(q)'
      <4>1. PICK q \in Proc : Spare(q)
        BY <3>2
      <4>2. CASE VerifyFails(p)
        \* a spare is verified, the file p gives up may be one only if another is
        BY <4>1, <4>2, <3>2 DEF VerifyFails
      <4> QED
        BY <2>6, <4>1, <4>2 DEF Stage, StageFails, Verify
    <3> QED
      BY <2>6, <3>1, <3>2 DEF Stage, StageFails, Verify, VerifyFails
  <2>7. CASE UnlinkOld(p) \/ MoveOldFails(p) \/ MoveNewFails(p) \/ RollbackFails(p)
    BY <2>7 DEF UnlinkOld, MoveOldFails, MoveNewFails, RollbackFails
  <2>8. CASE MoveOld(p)
    <3>1. Spare(p)'
      BY <2>8 DEF MoveOld
    <3> QED
      BY <2>8, <3>1 DEF MoveOld
  <2>9. CASE MoveNew(p) \/ Rollback(p)
    BY <2>9 DEF MoveNew, Rollback
  <2>10. CASE DropBackup(p) \/ InspectExe(p)
    BY <2>10 DEF DropBackup, InspectExe
  <2>11. CASE Discard(p)
    BY <2>11 DEF Discard
  <2>12. CASE Crash(p)
    BY <2>12 DEF Crash
  <2> QED
    BY <1>2, <2>1, <2>2, <2>3, <2>4, <2>5, <2>6, <2>7, <2>8, <2>9, <2>10,
       <2>11, <2>12 DEF Step
<1>3. CASE UNCHANGED vars
  BY <1>3 DEF vars
<1> QED
  BY <1>1, <1>2, <1>3 DEF Next
----------------------------------------------------------------------------
(* The lock                                                                *)

\* Every step keeps the lock with the process inside: a process enters by
\* creating the file, and only a removal that the history variable records can
\* take it away before the process leaves.
LEMMA StepLock == TypeOK /\ LockInv /\ [Next]_vars => LockInv'
<1> SUFFICES ASSUME TypeOK, LockInv, [Next]_vars PROVE LockInv'
  OBVIOUS
<1> USE LockAssumption
    DEF TypeOK, LockInv, OwnerInv, TimelyInv, AgeInv, PC, Running, Section, At, Goto,
        files, history, locking
<1>1. CASE Publish
  BY <1>1 DEF Publish
<1>2. CASE LockAges
  <2>1. lock' # NoLock /\ lock'.owner = lock.owner
    BY <1>2 DEF LockAges
  <2> QED
    BY <1>2, <2>1 DEF LockAges
<1>3. ASSUME NEW p \in Proc, Step(p) PROVE LockInv'
  <2>1. CASE Start(p) \/ CleanupStat(p) \/ CleanupRemove(p) \/ Dispatch(p)
    BY <2>1 DEF Start, CleanupStat, CleanupRemove, Dispatch
  <2>2. CASE Fetch(p) \/ FetchFails(p) \/ Locate(p)
    BY <2>2 DEF Fetch, FetchFails, Locate
  <2>3. CASE CreateLock(p)
    <3>1. lock' = [owner |-> p, old |-> FALSE]
      BY <2>3 DEF CreateLock
    <3>2. [owner |-> p, old |-> FALSE] \in [owner : Proc, old : BOOLEAN]
      OBVIOUS
    <3>3. lock' # NoLock /\ lock'.owner = p
      BY <3>1, <3>2
    <3> QED
      BY <2>3, <3>3 DEF CreateLock
  <2>4. CASE LockExists(p) \/ InspectLock(p) \/ LockFails(p)
    BY <2>4 DEF LockExists, InspectLock, LockFails, NextAttempt
  <2>5. CASE TakeOver(p)
    <3>1. pc' = [pc EXCEPT ![p] = "lock"] \/ pc' = [pc EXCEPT ![p] = "done"]
      BY <2>5 DEF TakeOver, NextAttempt
    <3>2. /\ late' = late /\ lock' = NoLock /\ late # {}
          /\ (broken => broken') /\ (stolen => stolen')
      BY <2>5 DEF TakeOver, Removes
    <3>3. ASSUME NEW q \in Proc, pc'[q] \in Section, lock.owner = q
          PROVE  broken' /\ (stolen' \/ q \in late)
      <4>1. q # p /\ pc[q] \in Section
        BY <2>5, <3>1, <3>3 DEF TakeOver
      <4> QED
        BY <2>5, <3>3, <4>1 DEF TakeOver, Removes
    <3> QED
      BY <3>1, <3>2, <3>3
  <2>6. CASE Unlock(p)
    <3>1. CASE UNCHANGED <<lock, history>>
      BY <2>6, <3>1 DEF Unlock
    <3>2. CASE Removes(p)
      <4>1. /\ pc[p] = "unlock" /\ pc' = [pc EXCEPT ![p] = "done"]
            /\ late' = late /\ lock' = NoLock
            /\ (broken => broken') /\ (stolen => stolen')
        BY <2>6, <3>2 DEF Unlock, Removes
      <4>2. ASSUME NEW q \in Proc, pc'[q] \in Section, lock # NoLock, lock.owner = q
            PROVE  broken' /\ (stolen' \/ q \in late)
        BY <3>2, <4>1, <4>2 DEF Removes
      <4>3. late = {} => ~stolen'
        BY <3>2, <4>1 DEF Removes
      <4> QED
        BY <4>1, <4>2, <4>3
    <3> QED
      BY <2>6, <3>1, <3>2 DEF Unlock
  <2>7. CASE Stage(p) \/ StageFails(p) \/ Verify(p) \/ VerifyFails(p)
    BY <2>7 DEF Stage, StageFails, Verify, VerifyFails
  <2>8. CASE UnlinkOld(p) \/ MoveOld(p) \/ MoveOldFails(p)
    BY <2>8 DEF UnlinkOld, MoveOld, MoveOldFails
  <2>9. CASE MoveNew(p) \/ MoveNewFails(p) \/ Rollback(p) \/ RollbackFails(p)
    BY <2>9 DEF MoveNew, MoveNewFails, Rollback, RollbackFails
  <2>10. CASE DropBackup(p) \/ InspectExe(p) \/ Discard(p)
    BY <2>10 DEF DropBackup, InspectExe, Discard
  <2>11. CASE Crash(p)
    BY <2>11 DEF Crash
  <2> QED
    BY <1>3, <2>1, <2>2, <2>3, <2>4, <2>5, <2>6, <2>7, <2>8, <2>9, <2>10,
       <2>11 DEF Step
<1>4. CASE UNCHANGED vars
  BY <1>4 DEF vars
<1> QED
  BY <1>1, <1>2, <1>3, <1>4 DEF Next

\* the owner of the lock is alone inside
LEMMA OwnerAlone ==
  OwnerInv /\ ~broken =>
    \A p, q \in Proc : pc[p] \in Section /\ pc[q] \in Section => p = q
BY DEF OwnerInv

\* and alone of those with time left
LEMMA TimelyAlone == TimelyInv /\ AgeInv => Exclusive
BY DEF TimelyInv, AgeInv, Exclusive

\* a step keeps the executable of an update that is about to report it
LEMMA StepReport ==
  TypeOK /\ StagedInv /\ OwnerInv /\ ReportedInstalled /\ [Next]_vars
    => ReportedInstalled'
<1> SUFFICES ASSUME TypeOK, StagedInv, OwnerInv, ReportedInstalled, [Next]_vars,
                    ~broken', NEW r \in Proc, At(r, "dropBackup")'
             PROVE  exe' = target'[r]
  BY DEF ReportedInstalled
<1> USE DEF TypeOK, ReportedInstalled, PC, Running, Section, At, Goto, files,
            history, locking
<1>1. ~broken
  <2>1. ASSUME NEW p \in Proc, Step(p), broken PROVE broken'
    BY <2>1 DEF Step, Start, CleanupStat, CleanupRemove, Dispatch, Fetch,
       FetchFails, Locate, CreateLock, LockExists, InspectLock, LockFails, Removes,
       TakeOver, Unlock,
       Stage, StageFails, Verify, VerifyFails, UnlinkOld, MoveOld, MoveOldFails,
       MoveNew, MoveNewFails, Rollback, RollbackFails, DropBackup, InspectExe,
       Discard, Crash
  <2> QED
    BY <2>1 DEF Next, Publish, LockAges, vars
<1>2. ASSUME NEW p \in Proc, Step(p) PROVE exe' = target'[r]
  <2>1. CASE MoveNew(p)
    <3>1. p = r
      BY <1>1, <2>1, OwnerAlone DEF MoveNew
    <3> QED
      BY <2>1, <3>1 DEF MoveNew, StagedInv, Replacing
  <2>2. CASE MoveOld(p) \/ Rollback(p)
    <3>1. p # r /\ pc[p] \in Section /\ pc[r] \in Section
      BY <2>2 DEF MoveOld, Rollback
    <3> QED
      BY <1>1, <3>1, OwnerAlone
  <2>3. CASE Fetch(p)
    BY <1>1, <2>3 DEF Fetch
  <2>4. CASE ~(MoveNew(p) \/ MoveOld(p) \/ Rollback(p) \/ Fetch(p))
    <3>1. exe' = exe /\ target' = target /\ At(r, "dropBackup")
      BY <1>2, <2>4 DEF Step, Start, CleanupStat, CleanupRemove, Dispatch,
         FetchFails, Locate, CreateLock, LockExists, InspectLock, LockFails,
         NextAttempt,
         TakeOver, Unlock, Stage, StageFails, Verify, VerifyFails, UnlinkOld,
         MoveOldFails, MoveNewFails, RollbackFails, DropBackup, InspectExe,
         Discard, Crash
    <3> QED
      BY <1>1, <3>1
  <2> QED
    BY <2>1, <2>2, <2>3, <2>4
<1>3. CASE Publish \/ LockAges \/ UNCHANGED vars
  BY <1>1, <1>3 DEF Publish, LockAges, vars
<1> QED
  BY <1>2, <1>3 DEF Next

----------------------------------------------------------------------------
\* the invariant holds in every reachable state
LEMMA Invariant == Spec => []IInv
<1>1. IInv /\ [Next]_vars => IInv'
  BY StepTypes, StepFiles, StepLock, StepReport DEF IInv, FileInv, LockInv
<1> QED
  BY <1>1, InitInv, PTL DEF Spec

\* every variable keeps its type
THEOREM TypeCorrect == Spec => []TypeOK
<1>1. IInv => TypeOK
  BY DEF IInv
<1> QED
  BY <1>1, Invariant, PTL

\* Whatever crashes, fails or overlaps, a missing executable has a verified
\* copy beside it that no process is about to remove.
THEOREM CopyRemains == Spec => []NeverLost
<1>1. IInv => NeverLost
  BY DEF IInv, FileInv
<1> QED
  BY <1>1, Invariant, PTL

\* One updater is inside until a lock is old, and then one whose time is not over,
\* unless a lock that is not old is removed (updater.go:466-497).
THEOREM LockExclusive == Spec => []Exclusive
<1>1. IInv => Exclusive
  BY TimelyAlone DEF IInv, LockInv
<1> QED
  BY <1>1, Invariant, PTL

\* A reported update is in place while updaters exclude each other.
THEOREM UpdateInPlace == Spec => []ReportedInstalled
<1>1. IInv => ReportedInstalled
  BY DEF IInv
<1> QED
  BY <1>1, Invariant, PTL
=============================================================================
