------------------------ MODULE CredentialFile_proofs ------------------------
(***************************************************************************)
(* Theorems about CredentialFile for any number of calls, processes and    *)
(* refreshes.  The mutex is exclusive in a process and the lock directory  *)
(* between processes, so while a call is inside fn nobody else writes the  *)
(* credential, and what the call has read is what the file still holds.    *)
(***************************************************************************)
EXTENDS CredentialFile, TLAPS

\* a refreshed credential is on its way to the file
Saving == {"save", "verify", "rename"}

\* the stages of WithLock with the directory made, and of a.mu
Locking == InFn \cup {"unlock", "remove"}

\* a call past Enter holds its process's mutex
MuInv == \A c \in Call : pc[c] \in Locking \cup {"mkdir"} => mu[procOf[c]] = c

\* with the keyring there is one process and neither directory nor agent
KeyringInv ==
  ~local =>
    /\ dir = NoCall
    /\ pcAgent = "idle"
    /\ taken = {}
    /\ \A c, d \in Call : procOf[c] = procOf[d]
    /\ \A c \in Call : pc[c] \notin {"mkdir", "remove", "verify", "rename", "reload"}

\* the directory is that of the call that runs, or of a dead or failed one, or
\* the agent's
DirInv ==
  /\ dir \in Call => pc[dir] \in Locking \cup {"dead", "failed"}
  /\ local /\ taken = {} => \A c \in Call : pc[c] \in Locking => dir = c
  /\ taken = {} /\ agentLocks /\ pcAgent # "idle" => dir = Agent

\* a call that lost the directory inside fn does not own one when it leaves
TakenInv ==
  \A c \in Call : <<c, "fn">> \in taken =>
    dir # c /\ pc[c] \in InFn \cup {"unlock", "failed", "dead"}

\* no lock was taken over between a Stat and its Remove
NoneTakenLate == \A c \in Call : <<c, "remove">> \notin taken

\* then a call removes what it has made
RemoveInv == NoneTakenLate => \A c \in Call : pc[c] = "remove" => dir = c

\* what a call compares, and what is still in the file unless it was raced
WindowInv ==
  \A c \in Call :
    /\ pc[c] \in {"verify", "rename"} => seen[c].refresh = cred[c].refresh
    /\ pc[c] = "rename" /\ c \notin raced => seen[c] = file

LockInv == TypeOK /\ MuInv /\ KeyringInv /\ DirInv /\ TakenInv

\* What the call inside has read is what the file still holds, and the server's
\* valid token is in the file or with the one party that is about to write it.
FileInv ==
  agentLocks /\ Undisturbed =>
    /\ ~reused
    /\ \A c \in Call :
         /\ pc[c] \in Saving \cup {"refresh"} => cred[c] = file
         /\ pc[c] \in {"verify", "rename"} => seen[c] = file
         /\ pc[c] # "reload"
         /\ pc[c] \in Saving => next[c].refresh = valid
         /\ pc[c] = "refresh" /\ mode[c] = "force" => file.access = rejected[c]
    /\ pcAgent = "write" => credAgent.refresh = valid
    /\ pcAgent # "write" /\ (\A c \in Call : pc[c] \notin Saving) => file.refresh = valid

IInv == LockInv /\ RemoveInv /\ WindowInv /\ FileInv
----------------------------------------------------------------------------
(* Types                                                                   *)

\* the types hold at the start
LEMMA InitTypes == Init => TypeOK
<1> SUFFICES ASSUME Init PROVE TypeOK
  OBVIOUS
<1> USE CredentialAssumption DEF Init, Credential, Gen, Zero, Stages, InFn
<1>1. /\ local \in BOOLEAN
      /\ agentLocks \in BOOLEAN
      /\ procOf \in [Call -> Proc]
      /\ mu \in [Proc -> Call \cup {NoCall}]
      /\ dir \in Call \cup {Agent, NoCall}
  OBVIOUS
<1>2. file \in Credential /\ gen \in Gen /\ valid \in Gen
  OBVIOUS
<1>3. /\ pc \in [Call -> Stages]
      /\ mode \in [Call -> {"get", "force", "again"}]
      /\ ok \in [Call -> BOOLEAN]
  OBVIOUS
<1>4. /\ cred \in [Call -> Credential]
      /\ next \in [Call -> Credential]
      /\ seen \in [Call -> Credential]
  OBVIOUS
<1>5. got \in [Call -> Gen] /\ rejected \in [Call -> Gen]
  OBVIOUS
<1>6. pcAgent \in {"idle", "locked", "write"} /\ credAgent \in Credential
  OBVIOUS
<1>7. lost \in BOOLEAN /\ reused \in BOOLEAN
  BY Zenon
<1>8. taken \in SUBSET (Call \X {"fn", "remove"}) /\ raced \in SUBSET Call
  BY Zenon
<1> QED
  BY <1>1, <1>2, <1>3, <1>4, <1>5, <1>6, <1>7, <1>8 DEF TypeOK

\* what the end of fn leaves of a call's locals
LEMMA LeaveTypes ==
  ASSUME TypeOK, NEW c \in Call, NEW access \in Gen, Leave(c, access)
  PROVE  /\ cred' \in [Call -> Credential]
         /\ next' \in [Call -> Credential]
         /\ seen' \in [Call -> Credential]
         /\ got' \in [Call -> Gen]
         /\ rejected' \in [Call -> Gen]
<1> USE CredentialAssumption
<1>1. Zero \in Credential /\ 0 \in Gen
  BY DEF Zero, Credential, Gen
<1> QED
  BY <1>1 DEF TypeOK, Leave

\* a granted refresh stays within the bound on refreshes
LEMMA GrantTypes ==
  ASSUME TypeOK, NEW t, NEW rotated \in BOOLEAN, Grant(t, rotated)
  PROVE  gen' \in Gen /\ valid' \in Gen /\ gen + 1 \in Gen
BY CredentialAssumption DEF TypeOK, Grant, Gen

\* every step keeps the types
LEMMA NextTypes == TypeOK /\ [Next]_vars => TypeOK'
<1> SUFFICES ASSUME TypeOK, [Next]_vars PROVE TypeOK'
  OBVIOUS
<1> USE DEF Go, Stages, InFn, fixed, serverVars, callVars, frameVars, agentVars, ghostVars
<1>1. ASSUME NEW c \in Call, Enter(c) \/ Mkdir(c) \/ LockFails(c)
      PROVE  TypeOK'
  <2>1. CASE Enter(c)
    <3>1. /\ pc' \in [Call -> Stages]
          /\ ok' \in [Call -> BOOLEAN]
          /\ mu' \in [Proc -> Call \cup {NoCall}]
      BY <2>1 DEF TypeOK, Enter
    <3> QED
      BY <2>1, <3>1 DEF TypeOK, Enter
  <2>2. CASE Mkdir(c)
    BY <2>2 DEF TypeOK, Mkdir
  <2>3. CASE LockFails(c)
    BY <2>3 DEF TypeOK, LockFails, Unlocked
  <2> QED
    BY <1>1, <2>1, <2>2, <2>3
<1>2. ASSUME NEW c \in Call, Load(c) \/ LoadFails(c)
      PROVE  TypeOK'
  <2>1. file.access \in Gen /\ 0 \in Gen
    BY CredentialAssumption DEF TypeOK, Credential, Gen
  <2>2. CASE Return(c, "load", file.access) /\ Load(c)
    BY <2>1, <2>2, LeaveTypes DEF TypeOK, Load, Return
  <2>3. CASE ~Return(c, "load", file.access) /\ Load(c)
    BY <2>3 DEF TypeOK, Load
  <2>4. CASE LoadFails(c)
    BY <2>1, <2>4, LeaveTypes DEF TypeOK, LoadFails, Fail
  <2> QED
    BY <1>2, <2>2, <2>3, <2>4
<1>3. ASSUME NEW c \in Call, Refresh(c)
      PROVE  TypeOK'
  <2>1. PICK rotated \in BOOLEAN :
          /\ Grant(cred[c].refresh, rotated)
          /\ next' = [next EXCEPT ![c] = Granted(c, rotated)]
    BY <1>3 DEF Refresh
  <2>2. gen' \in Gen /\ valid' \in Gen /\ Granted(c, rotated) \in Credential
    BY <2>1, GrantTypes DEF TypeOK, Granted, Credential
  <2> QED
    BY <1>3, <2>1, <2>2 DEF TypeOK, Refresh
<1>4. ASSUME NEW c \in Call, RefreshFails(c)
      PROVE  TypeOK'
  <2>1. gen' \in Gen /\ valid' \in Gen
    BY <1>4, GrantTypes DEF TypeOK, RefreshFails
  <2>2. 0 \in Gen
    BY CredentialAssumption DEF Gen
  <2>3. lost' \in BOOLEAN /\ reused' \in BOOLEAN
    BY <1>4 DEF TypeOK, RefreshFails
  <2> QED
    BY <1>4, <2>1, <2>2, <2>3, LeaveTypes DEF TypeOK, RefreshFails, Fail
<1>5. ASSUME NEW c \in Call, SaveKeyring(c) \/ Rename(c) \/ Reload(c)
      PROVE  TypeOK'
  <2>1. next[c] \in Credential /\ next[c].access \in Gen /\ file.access \in Gen
    BY DEF TypeOK, Credential
  <2> QED
    BY <1>5, <2>1, LeaveTypes
    DEF TypeOK, SaveKeyring, Rename, Reload, Return, AboutToRename
<1>6. ASSUME NEW c \in Call, ReadOriginal(c) \/ Verify(c)
      PROVE  TypeOK'
  BY <1>6 DEF TypeOK, ReadOriginal, Verify, AboutToRename
<1>7. ASSUME NEW c \in Call, SaveFails(c)
      PROVE  TypeOK'
  <2>1. 0 \in Gen
    BY CredentialAssumption DEF Gen
  <2>2. lost' \in BOOLEAN
    BY <1>7 DEF TypeOK, SaveFails, Rotated
  <2> QED
    BY <1>7, <2>1, <2>2, LeaveTypes DEF TypeOK, SaveFails, Fail
<1>8. ASSUME NEW c \in Call, CheckOwner(c) \/ RemoveLock(c)
      PROVE  TypeOK'
  BY <1>8 DEF TypeOK, CheckOwner, RemoveLock, Result, Unlocked
<1>9. ASSUME NEW c \in Call, Accepted(c) \/ Rejected(c) \/ Retry(c)
      PROVE  TypeOK'
  <2>1. 0 \in Gen
    BY CredentialAssumption DEF Gen
  <2> QED
    BY <1>9, <2>1 DEF TypeOK, Accepted, Rejected, Retry
<1>10. ASSUME NEW p \in Proc, Crash(p)
       PROVE  TypeOK'
  <2>1. Zero \in Credential /\ 0 \in Gen
    BY CredentialAssumption DEF Zero, Credential, Gen
  <2>2. /\ pc' \in [Call -> Stages]
        /\ cred' \in [Call -> Credential]
        /\ next' \in [Call -> Credential]
        /\ seen' \in [Call -> Credential]
        /\ rejected' \in [Call -> Gen]
        /\ got' \in [Call -> Gen]
    BY <1>10, <2>1 DEF TypeOK, Crash
  <2>3. mu' \in [Proc -> Call \cup {NoCall}] /\ lost' \in BOOLEAN
    BY <1>10 DEF TypeOK, Crash
  <2> QED
    BY <1>10, <2>2, <2>3 DEF TypeOK, Crash
<1>11. ASSUME AgentStep
       PROVE  TypeOK'
  <2>1. CASE AgentLock
    BY <2>1 DEF TypeOK, AgentLock
  <2>2. CASE AgentRefresh
    <3>1. /\ gen' \in Gen
          /\ valid' \in Gen
          /\ credAgent' \in Credential
      BY <2>2, GrantTypes DEF TypeOK, AgentRefresh, Credential
    <3> QED
      BY <2>2, <3>1 DEF TypeOK, AgentRefresh, AgentUnlocked
  <2>3. CASE AgentWrite
    <3>1. Zero \in Credential
      BY CredentialAssumption DEF Zero, Credential, Gen
    <3> QED
      BY <2>3, <3>1 DEF TypeOK, AgentWrite, AgentUnlocked, AboutToRename
  <2> QED
    BY <1>11, <2>1, <2>2, <2>3 DEF AgentStep
<1>12. CASE UNCHANGED vars
  BY <1>12 DEF TypeOK, vars
<1> QED
  BY <1>1, <1>2, <1>3, <1>4, <1>5, <1>6, <1>7, <1>8, <1>9, <1>10, <1>11, <1>12
  DEF Next, Step

----------------------------------------------------------------------------
(* The mutex and the lock directory                                        *)

\* nobody holds anything at the start
LEMMA InitLock == Init => LockInv
BY InitTypes, CredentialAssumption
DEF Init, LockInv, MuInv, KeyringInv, DirInv, TakenInv, InFn, Locking

\* only a call that finds the mutex free takes it, and only its holder frees it
LEMMA MuNext == TypeOK /\ MuInv /\ KeyringInv /\ [Next]_vars => MuInv'
<1> SUFFICES ASSUME TypeOK, MuInv, KeyringInv, [Next]_vars PROVE MuInv'
  OBVIOUS
<1> USE CredentialAssumption DEF TypeOK, MuInv, Locking, InFn, Stages, Go, fixed
<1>1. ASSUME NEW c \in Call, Enter(c) \/ Mkdir(c) \/ LockFails(c)
      PROVE  MuInv'
  BY <1>1 DEF Enter, Mkdir, LockFails, Unlocked
<1>2. ASSUME NEW c \in Call, Load(c) \/ LoadFails(c) \/ Refresh(c) \/ RefreshFails(c)
      PROVE  MuInv'
  BY <1>2 DEF Load, LoadFails, Refresh, RefreshFails, Return, Fail
<1>3. ASSUME NEW c \in Call, SaveKeyring(c) \/ ReadOriginal(c) \/ Verify(c)
      PROVE  MuInv'
  BY <1>3 DEF SaveKeyring, ReadOriginal, Verify, Return
<1>4. ASSUME NEW c \in Call, Rename(c) \/ Reload(c) \/ SaveFails(c)
      PROVE  MuInv'
  BY <1>4 DEF Rename, Reload, SaveFails, Return, Fail
<1>5. ASSUME NEW c \in Call, CheckOwner(c) \/ RemoveLock(c)
      PROVE  MuInv'
  BY <1>5 DEF CheckOwner, RemoveLock, Unlocked, Result
<1>6. ASSUME NEW c \in Call, Accepted(c) \/ Rejected(c) \/ Retry(c)
      PROVE  MuInv'
  BY <1>6 DEF Accepted, Rejected, Retry
<1>7. ASSUME NEW p \in Proc, Crash(p)
      PROVE  MuInv'
  BY <1>7 DEF Crash
<1>8. ASSUME AgentStep
      PROVE  MuInv'
  BY <1>8 DEF AgentStep, AgentLock, AgentRefresh, AgentWrite
<1>9. CASE UNCHANGED vars
  BY <1>9 DEF vars
<1> QED
  BY <1>1, <1>2, <1>3, <1>4, <1>5, <1>6, <1>7, <1>8, <1>9 DEF Next, Step

\* without a local file the lock directory and the agent are never used
LEMMA KeyringNext == TypeOK /\ KeyringInv /\ [Next]_vars => KeyringInv'
<1> SUFFICES ASSUME TypeOK, KeyringInv, [Next]_vars PROVE KeyringInv'
  OBVIOUS
<1> USE CredentialAssumption DEF TypeOK, KeyringInv, Stages, InFn, Go, fixed, agentVars, ghostVars
<1>1. ASSUME NEW c \in Call, Enter(c) \/ Mkdir(c) \/ LockFails(c)
      PROVE  KeyringInv'
  BY <1>1 DEF Enter, Mkdir, LockFails
<1>2. ASSUME NEW c \in Call, Load(c) \/ LoadFails(c) \/ Refresh(c) \/ RefreshFails(c)
      PROVE  KeyringInv'
  BY <1>2 DEF Load, LoadFails, Refresh, RefreshFails, Return, Fail
<1>3. ASSUME NEW c \in Call, SaveKeyring(c) \/ ReadOriginal(c) \/ Verify(c)
      PROVE  KeyringInv'
  BY <1>3 DEF SaveKeyring, ReadOriginal, Verify, Return
<1>4. ASSUME NEW c \in Call, Rename(c) \/ Reload(c) \/ SaveFails(c)
      PROVE  KeyringInv'
  BY <1>4 DEF Rename, Reload, SaveFails, Return, Fail
<1>5. ASSUME NEW c \in Call, CheckOwner(c) \/ RemoveLock(c)
      PROVE  KeyringInv'
  BY <1>5 DEF CheckOwner, RemoveLock, Result
<1>6. ASSUME NEW c \in Call, Accepted(c) \/ Rejected(c) \/ Retry(c)
      PROVE  KeyringInv'
  BY <1>6 DEF Accepted, Rejected, Retry
<1>7. ASSUME NEW p \in Proc, Crash(p)
      PROVE  KeyringInv'
  BY <1>7 DEF Crash
<1>8. ASSUME AgentStep
      PROVE  KeyringInv'
  BY <1>8 DEF AgentStep, AgentLock, AgentRefresh, AgentWrite
<1>9. CASE UNCHANGED vars
  BY <1>9 DEF vars
<1> QED
  BY <1>1, <1>2, <1>3, <1>4, <1>5, <1>6, <1>7, <1>8, <1>9 DEF Next, Step

\* the directory belongs to the one call inside, until an agent takes it over
LEMMA DirNext == TypeOK /\ KeyringInv /\ DirInv /\ [Next]_vars => DirInv'
<1> SUFFICES ASSUME TypeOK, KeyringInv, DirInv, [Next]_vars PROVE DirInv'
  OBVIOUS
<1> USE CredentialAssumption
    DEF TypeOK, DirInv, Locking, InFn, Stages, Go, fixed, agentVars, ghostVars
<1>1. ASSUME NEW c \in Call, Enter(c) \/ Mkdir(c) \/ LockFails(c)
      PROVE  DirInv'
  BY <1>1 DEF Enter, Mkdir, LockFails
<1>2. ASSUME NEW c \in Call, Load(c) \/ LoadFails(c) \/ Refresh(c) \/ RefreshFails(c)
      PROVE  DirInv'
  BY <1>2 DEF Load, LoadFails, Refresh, RefreshFails, Return, Fail
<1>3. ASSUME NEW c \in Call, SaveKeyring(c) \/ ReadOriginal(c) \/ Verify(c)
      PROVE  DirInv'
  BY <1>3 DEF SaveKeyring, ReadOriginal, Verify, Return
<1>4. ASSUME NEW c \in Call, Rename(c) \/ Reload(c) \/ SaveFails(c)
      PROVE  DirInv'
  BY <1>4 DEF Rename, Reload, SaveFails, Return, Fail
<1>5. ASSUME NEW c \in Call, CheckOwner(c) \/ RemoveLock(c)
      PROVE  DirInv'
  BY <1>5 DEF CheckOwner, RemoveLock, Result, KeyringInv
<1>6. ASSUME NEW c \in Call, Accepted(c) \/ Rejected(c) \/ Retry(c)
      PROVE  DirInv'
  BY <1>6 DEF Accepted, Rejected, Retry
<1>7. ASSUME NEW p \in Proc, Crash(p)
      PROVE  DirInv'
  BY <1>7 DEF Crash
<1>8. ASSUME AgentStep
      PROVE  DirInv'
  <2>1. CASE AgentLock
    <3>1. UNCHANGED <<fixed, pc>> /\ (UNCHANGED dir \/ dir' = Agent)
      BY <2>1 DEF AgentLock
    <3>2. agentLocks => dir' = Agent
      BY <2>1 DEF AgentLock
    <3>3. taken' = {} => /\ taken = {}
                         /\ \/ UNCHANGED dir
                            \/ dir = NoCall
                            \/ dir \in Call /\ pc[dir] \in {"dead", "failed"}
      BY <2>1 DEF AgentLock
    <3>4. \A c \in Call : local /\ taken' = {} /\ pc[c] \in Locking => UNCHANGED dir
      BY <3>3
    <3> QED
      BY <3>1, <3>2, <3>3, <3>4
  <2>2. CASE AgentRefresh
    <3>1. UNCHANGED <<fixed, pc, taken>>
      BY <2>2 DEF AgentRefresh, ghostVars
    <3>2. CASE UNCHANGED dir
      BY <2>2, <3>1, <3>2 DEF AgentRefresh
    <3>3. CASE dir' = AgentUnlocked /\ pcAgent' = "idle"
      BY <2>2, <3>1, <3>3 DEF AgentRefresh, AgentUnlocked
    <3> QED
      BY <2>2, <3>2, <3>3 DEF AgentRefresh
  <2>3. CASE AgentWrite
    BY <2>3 DEF AgentWrite, AgentUnlocked, ghostVars
  <2> QED
    BY <1>8, <2>1, <2>2, <2>3 DEF AgentStep
<1>9. CASE UNCHANGED vars
  BY <1>9 DEF vars
<1> QED
  BY <1>1, <1>2, <1>3, <1>4, <1>5, <1>6, <1>7, <1>8, <1>9 DEF Next, Step

\* a lock that was taken over is not given back to its former owner
LEMMA TakenNext ==
  TypeOK /\ KeyringInv /\ DirInv /\ TakenInv /\ [Next]_vars => TakenInv'
<1> SUFFICES ASSUME TypeOK, KeyringInv, DirInv, TakenInv, [Next]_vars PROVE TakenInv'
  OBVIOUS
<1> USE CredentialAssumption DEF TypeOK, TakenInv, InFn, Stages, Go, ghostVars
<1>1. ASSUME NEW c \in Call, Enter(c) \/ Mkdir(c) \/ LockFails(c)
      PROVE  TakenInv'
  BY <1>1 DEF Enter, Mkdir, LockFails
<1>2. ASSUME NEW c \in Call, Load(c) \/ LoadFails(c) \/ Refresh(c) \/ RefreshFails(c)
      PROVE  TakenInv'
  BY <1>2 DEF Load, LoadFails, Refresh, RefreshFails, Return, Fail
<1>3. ASSUME NEW c \in Call, SaveKeyring(c) \/ ReadOriginal(c) \/ Verify(c)
      PROVE  TakenInv'
  BY <1>3 DEF SaveKeyring, ReadOriginal, Verify, Return
<1>4. ASSUME NEW c \in Call, Rename(c) \/ Reload(c) \/ SaveFails(c)
      PROVE  TakenInv'
  BY <1>4 DEF Rename, Reload, SaveFails, Return, Fail
<1>5. ASSUME NEW c \in Call, CheckOwner(c) \/ RemoveLock(c)
      PROVE  TakenInv'
  BY <1>5 DEF CheckOwner, RemoveLock, Result, KeyringInv
<1>6. ASSUME NEW c \in Call, Accepted(c) \/ Rejected(c) \/ Retry(c)
      PROVE  TakenInv'
  BY <1>6 DEF Accepted, Rejected, Retry
<1>7. ASSUME NEW p \in Proc, Crash(p)
      PROVE  TakenInv'
  BY <1>7 DEF Crash
<1>8. ASSUME AgentStep
      PROVE  TakenInv'
  BY <1>8 DEF AgentStep, AgentLock, AgentRefresh, AgentWrite, AgentUnlocked, DirInv,
    Locking
<1>9. CASE UNCHANGED vars
  BY <1>9 DEF vars
<1> QED
  BY <1>1, <1>2, <1>3, <1>4, <1>5, <1>6, <1>7, <1>8, <1>9 DEF Next, Step

\* the parts of LockInv together are inductive
LEMMA NextLock == LockInv /\ [Next]_vars => LockInv'
BY NextTypes, MuNext, KeyringNext, DirNext, TakenNext DEF LockInv

\* Who holds the mutex and who made the lock directory (store.go:150-215).
THEOREM LockInvariant == Spec => []LockInv
BY InitLock, NextLock, PTL DEF Spec

----------------------------------------------------------------------------
(* The window of the comparison, and the window before Remove              *)

\* every write marks the calls that have made their comparison
LEMMA WindowNext == TypeOK /\ KeyringInv /\ WindowInv /\ [Next]_vars => WindowInv'
<1> SUFFICES ASSUME TypeOK, KeyringInv, WindowInv, [Next]_vars PROVE WindowInv'
  OBVIOUS
<1> USE DEF TypeOK, WindowInv, Stages, InFn, Go, callVars, frameVars, ghostVars
<1>1. ASSUME NEW c \in Call, Enter(c) \/ Mkdir(c) \/ LockFails(c)
      PROVE  WindowInv'
  BY <1>1 DEF Enter, Mkdir, LockFails
<1>2. ASSUME NEW c \in Call, Load(c) \/ LoadFails(c) \/ Refresh(c) \/ RefreshFails(c)
      PROVE  WindowInv'
  BY <1>2 DEF Load, LoadFails, Refresh, RefreshFails, Return, Fail, Leave
<1>3. ASSUME NEW c \in Call, ReadOriginal(c) \/ Verify(c)
      PROVE  WindowInv'
  BY <1>3 DEF ReadOriginal, Verify
<1>4. ASSUME NEW c \in Call, Rename(c)
      PROVE  WindowInv'
  BY <1>4 DEF Rename, Return, Leave, AboutToRename
<1>5. ASSUME NEW c \in Call, SaveKeyring(c)
      PROVE  WindowInv'
  BY <1>5 DEF SaveKeyring, Return, Leave, KeyringInv
<1>6. ASSUME NEW c \in Call, Reload(c) \/ SaveFails(c)
      PROVE  WindowInv'
  BY <1>6 DEF Reload, SaveFails, Return, Fail, Leave
<1>7. ASSUME NEW c \in Call,
             \/ CheckOwner(c) \/ RemoveLock(c)
             \/ Accepted(c) \/ Rejected(c) \/ Retry(c)
      PROVE  WindowInv'
  BY <1>7 DEF CheckOwner, RemoveLock, Result, Accepted, Rejected, Retry
<1>8. ASSUME NEW p \in Proc, Crash(p)
      PROVE  WindowInv'
  BY <1>8 DEF Crash
<1>9. ASSUME AgentStep
      PROVE  WindowInv'
  BY <1>9 DEF AgentStep, AgentLock, AgentRefresh, AgentWrite, AboutToRename
<1>10. CASE UNCHANGED vars
  BY <1>10 DEF vars
<1> QED
  BY <1>1, <1>2, <1>3, <1>4, <1>5, <1>6, <1>7, <1>8, <1>9, <1>10 DEF Next, Step

\* only a call's own Remove, or a takeover that is recorded, ends its ownership
LEMMA RemoveNext == TypeOK /\ KeyringInv /\ RemoveInv /\ [Next]_vars => RemoveInv'
<1> SUFFICES ASSUME TypeOK, KeyringInv, RemoveInv, [Next]_vars PROVE RemoveInv'
  OBVIOUS
<1> USE CredentialAssumption DEF TypeOK, RemoveInv, NoneTakenLate, Stages, InFn, Go, ghostVars
<1>1. ASSUME NEW c \in Call, Enter(c) \/ Mkdir(c) \/ LockFails(c)
      PROVE  RemoveInv'
  BY <1>1 DEF Enter, Mkdir, LockFails
<1>2. ASSUME NEW c \in Call, Load(c) \/ LoadFails(c) \/ Refresh(c) \/ RefreshFails(c)
      PROVE  RemoveInv'
  BY <1>2 DEF Load, LoadFails, Refresh, RefreshFails, Return, Fail
<1>3. ASSUME NEW c \in Call, SaveKeyring(c) \/ ReadOriginal(c) \/ Verify(c)
      PROVE  RemoveInv'
  BY <1>3 DEF SaveKeyring, ReadOriginal, Verify, Return
<1>4. ASSUME NEW c \in Call, Rename(c) \/ Reload(c) \/ SaveFails(c)
      PROVE  RemoveInv'
  BY <1>4 DEF Rename, Reload, SaveFails, Return, Fail
<1>5. ASSUME NEW c \in Call, CheckOwner(c) \/ RemoveLock(c)
      PROVE  RemoveInv'
  BY <1>5 DEF CheckOwner, RemoveLock, Result
<1>6. ASSUME NEW c \in Call, Accepted(c) \/ Rejected(c) \/ Retry(c)
      PROVE  RemoveInv'
  BY <1>6 DEF Accepted, Rejected, Retry
<1>7. ASSUME NEW p \in Proc, Crash(p)
      PROVE  RemoveInv'
  BY <1>7 DEF Crash
<1>8. ASSUME AgentStep
      PROVE  RemoveInv'
  BY <1>8 DEF AgentStep, AgentLock, AgentRefresh, AgentWrite, AgentUnlocked
<1>9. CASE UNCHANGED vars
  BY <1>9 DEF vars
<1> QED
  BY <1>1, <1>2, <1>3, <1>4, <1>5, <1>6, <1>7, <1>8, <1>9 DEF Next, Step

----------------------------------------------------------------------------
(* One call at a time, and what it has read                                *)

\* whether the credential is a file, whose, and who calls from where never change
LEMMA FixedNext == [Next]_vars => UNCHANGED fixed
<1> SUFFICES ASSUME [Next]_vars PROVE UNCHANGED fixed
  OBVIOUS
<1>1. ASSUME NEW c \in Call, Step(c)
      PROVE  UNCHANGED fixed
  BY <1>1
  DEF Step, Enter, Mkdir, LockFails, Load, LoadFails, Refresh, RefreshFails,
    SaveKeyring, ReadOriginal, Verify, Rename, Reload, SaveFails, CheckOwner,
    RemoveLock, Accepted, Rejected, Retry
<1>2. ASSUME NEW p \in Proc, Crash(p)
      PROVE  UNCHANGED fixed
  BY <1>2 DEF Crash
<1>3. CASE AgentStep
  BY <1>3 DEF AgentStep, AgentLock, AgentRefresh, AgentWrite
<1>4. CASE UNCHANGED vars
  BY <1>4 DEF vars, fixed
<1> QED
  BY <1>1, <1>2, <1>3, <1>4 DEF Next

\* Two calls of one process are kept apart by the mutex, two of different
\* processes, or a call and an agent, by the directory.
LEMMA AloneInside ==
  ASSUME LockInv, taken = {}
  PROVE  /\ \A c, d \in Call : Inside(c) /\ Inside(d) => c = d
         /\ agentLocks /\ pcAgent # "idle" => \A c \in Call : ~Inside(c)
<1> USE CredentialAssumption DEF LockInv, TypeOK, Inside, Locking
<1>1. ASSUME NEW c \in Call, NEW d \in Call, Inside(c), Inside(d)
      PROVE  c = d
  <2>1. CASE local
    BY <1>1, <2>1 DEF DirInv
  <2>2. CASE ~local
    BY <1>1, <2>2 DEF KeyringInv, MuInv
  <2> QED
    BY <2>1, <2>2
<1>2. ASSUME agentLocks, pcAgent # "idle", NEW c \in Call, Inside(c)
      PROVE  FALSE
  <2>1. local /\ dir = Agent
    BY <1>2 DEF DirInv, KeyringInv
  <2> QED
    BY <1>2, <2>1 DEF DirInv
<1> QED
  BY <1>1, <1>2

\* the first credential is the one the server accepts
LEMMA InitFile == Init => FileInv
<1> SUFFICES ASSUME Init PROVE FileInv
  OBVIOUS
<1>1. \A c \in Call : pc[c] = "mutex"
  BY DEF Init
<1>2. file.refresh = valid /\ pcAgent = "idle" /\ ~reused
  BY DEF Init, Zero
<1> QED
  BY <1>1, <1>2 DEF FileInv, Saving

\* Nothing that was lost or taken over is ever undone.
LEMMA DisturbedForEver == TypeOK /\ [Next]_vars /\ Undisturbed' => Undisturbed
<1> SUFFICES ASSUME TypeOK, [Next]_vars
             PROVE  (lost => lost') /\ taken \subseteq taken'
  BY DEF Undisturbed
<1> USE DEF ghostVars
<1>1. ASSUME NEW c \in Call,
             \/ Enter(c) \/ Mkdir(c) \/ LockFails(c)
             \/ Load(c) \/ LoadFails(c) \/ Refresh(c)
      PROVE  lost' = lost /\ taken' = taken
  BY <1>1 DEF Enter, Mkdir, LockFails, Load, LoadFails, Refresh
<1>2. ASSUME NEW c \in Call, RefreshFails(c) \/ SaveFails(c)
      PROVE  (lost => lost') /\ taken' = taken
  <2>1. CASE RefreshFails(c)
    <3>1. taken' = taken
      BY <2>1 DEF RefreshFails
    <3>2. CASE lost' = lost
      BY <3>1, <3>2
    <3>3. CASE \E rotated \in BOOLEAN : lost' = (lost \/ rotated)
      <4>1. PICK rotated \in BOOLEAN : lost' = (lost \/ rotated)
        BY <3>3
      <4> QED
        BY <3>1, <4>1, Zenon
    <3> QED
      BY <2>1, <3>2, <3>3 DEF RefreshFails
  <2>2. CASE SaveFails(c)
    <3>1. taken' = taken /\ lost' = (lost \/ Rotated(c))
      BY <2>2 DEF SaveFails
    <3> QED
      BY <3>1, Zenon
  <2> QED
    BY <1>2, <2>1, <2>2
<1>3. ASSUME NEW c \in Call,
             SaveKeyring(c) \/ ReadOriginal(c) \/ Verify(c) \/ Rename(c) \/ Reload(c)
      PROVE  lost' = lost /\ taken' = taken
  BY <1>3 DEF SaveKeyring, ReadOriginal, Verify, Rename, Reload
<1>4. ASSUME NEW c \in Call,
             \/ CheckOwner(c) \/ RemoveLock(c)
             \/ Accepted(c) \/ Rejected(c) \/ Retry(c)
      PROVE  lost' = lost /\ taken' = taken
  BY <1>4 DEF CheckOwner, RemoveLock, Accepted, Rejected, Retry
<1>5. ASSUME NEW p \in Proc, Crash(p)
      PROVE  (lost => lost') /\ taken' = taken
  BY <1>5 DEF Crash
<1>6. ASSUME AgentStep
      PROVE  lost' = lost /\ taken \subseteq taken'
  BY <1>6 DEF AgentStep, AgentLock, AgentRefresh, AgentWrite
<1>7. CASE UNCHANGED vars
  BY <1>7 DEF vars
<1>8. CASE \E c \in Call : Step(c)
  <2>1. PICK c \in Call : Step(c)
    BY <1>8
  <2> QED
    BY <2>1, <1>1, <1>2, <1>3, <1>4, Zenon DEF Step
<1>9. CASE \E p \in Proc : Crash(p)
  BY <1>5, <1>9
<1> QED
  BY <1>6, <1>7, <1>8, <1>9 DEF Next

\* one call at a time refreshes and writes, so that what it has read is current
LEMMA NextFile == LockInv /\ FileInv /\ [Next]_vars => FileInv'
<1> SUFFICES ASSUME LockInv, FileInv, [Next]_vars, agentLocks', Undisturbed'
             PROVE  FileInv'
  BY DEF FileInv
<1>1. Undisturbed
  BY DisturbedForEver DEF LockInv
<1>0. agentLocks
  BY FixedNext DEF fixed
<1>2. /\ \A c, d \in Call : Inside(c) /\ Inside(d) => c = d
      /\ pcAgent # "idle" => \A c \in Call : ~Inside(c)
  BY <1>1, <1>0, AloneInside DEF Undisturbed
<1>3. TypeOK
  BY DEF LockInv
<1> USE <1>0, <1>1, <1>3
    DEF TypeOK, FileInv, Saving, InFn, Stages, Go, serverVars, agentVars, ghostVars
<1>4. ASSUME NEW c \in Call, Enter(c) \/ Mkdir(c) \/ LockFails(c)
      PROVE  FileInv'
  BY <1>4 DEF Enter, Mkdir, LockFails, callVars, frameVars
<1>5. ASSUME NEW c \in Call, Load(c) \/ LoadFails(c)
      PROVE  FileInv'
  BY <1>5 DEF Load, LoadFails, Usable, Return, Fail, Leave
<1>6. ASSUME NEW c \in Call, Refresh(c)
      PROVE  FileInv'
  <2>1. pcAgent = "idle" /\ \A d \in Call \ {c} : ~Inside(d)
    BY <1>2, <1>6 DEF Refresh, Inside
  <2>2. pc'[c] = "save" /\ cred'[c] = file' /\ next'[c].refresh = valid'
    BY <1>6 DEF Refresh, Grant, Granted
  <2>3. \A d \in Call \ {c} : pc'[d] \notin InFn
    BY <1>6, <2>1 DEF Refresh, Inside
  <2>4. pcAgent' = "idle" /\ ~reused'
    BY <1>6, <2>1 DEF Refresh
  <2> QED
    BY <2>2, <2>3, <2>4
<1>7. ASSUME NEW c \in Call, RefreshFails(c)
      PROVE  FileInv'
  <2>1. pcAgent = "idle" /\ \A d \in Call \ {c} : ~Inside(d)
    BY <1>2, <1>7 DEF RefreshFails, Fail, Inside
  <2>2. cred[c].refresh = valid
    BY <1>7, <2>1 DEF RefreshFails, Fail, Inside
  <2>3. valid' = valid /\ ~reused'
    BY <1>7, <2>2 DEF RefreshFails, Grant, Undisturbed
  <2>4. \A d \in Call : pc'[d] \notin InFn
    BY <1>7, <2>1 DEF RefreshFails, Fail, Inside
  <2> QED
    BY <1>7, <2>1, <2>2, <2>3, <2>4 DEF RefreshFails, Fail
<1>8. ASSUME NEW c \in Call, ReadOriginal(c) \/ Verify(c)
      PROVE  FileInv'
  <2>1. pcAgent = "idle" /\ \A d \in Call \ {c} : ~Inside(d)
    BY <1>2, <1>8 DEF ReadOriginal, Verify, Inside
  <2> QED
    BY <1>8, <2>1 DEF ReadOriginal, Verify, callVars, frameVars, Inside
<1>9. ASSUME NEW c \in Call, SaveKeyring(c) \/ Rename(c) \/ Reload(c) \/ SaveFails(c)
      PROVE  FileInv'
  <2>1. pcAgent = "idle" /\ \A d \in Call \ {c} : ~Inside(d)
    BY <1>2, <1>9 DEF SaveKeyring, Rename, Reload, SaveFails, Return, Fail, Inside
  <2>2. \A d \in Call : pc'[d] \notin InFn
    BY <1>9, <2>1 DEF SaveKeyring, Rename, Reload, SaveFails, Return, Fail, Inside
  <2>3. valid' = valid /\ reused' = reused /\ pcAgent' = "idle"
    BY <1>9, <2>1 DEF SaveKeyring, Rename, Reload, SaveFails
  <2>4. file'.refresh = valid
    BY <1>9 DEF SaveKeyring, Rename, Reload, SaveFails, Return, Fail, Rotated,
      Undisturbed
  <2> QED
    BY <2>2, <2>3, <2>4
<1>10. ASSUME NEW c \in Call, CheckOwner(c) \/ RemoveLock(c)
       PROVE  FileInv'
  BY <1>10 DEF CheckOwner, RemoveLock, Result, callVars, frameVars
<1>11. ASSUME NEW c \in Call, Accepted(c) \/ Rejected(c) \/ Retry(c)
       PROVE  FileInv'
  BY <1>11 DEF Accepted, Rejected, Retry, frameVars
<1>12. ASSUME NEW p \in Proc, Crash(p)
       PROVE  FileInv'
  <2>1. file' = file /\ valid' = valid /\ ~reused' /\ UNCHANGED <<pcAgent, credAgent>>
    BY <1>12 DEF Crash
  <2>2. ASSUME NEW d \in Call, pc'[d] # "dead"
        PROVE  /\ pc'[d] = pc[d] /\ cred'[d] = cred[d] /\ next'[d] = next[d]
               /\ seen'[d] = seen[d] /\ mode'[d] = mode[d] /\ rejected'[d] = rejected[d]
    <3> DEFINE dying == {c \in Call : procOf[c] = p /\ pc[c] \notin {"done", "failed", "dead"}}
    <3>1. d \notin dying
      BY <1>12, <2>2 DEF Crash
    <3> QED
      BY <1>12, <3>1 DEF Crash
  <2>3. ASSUME NEW d \in Call, pc[d] \in Saving, pc'[d] = "dead"
        PROVE  file.refresh = valid
    BY <1>12, <2>3 DEF Crash, Rotated, Undisturbed
  <2>4. \A d \in Call : pc'[d] = "dead" \/ pc'[d] = pc[d]
    BY <1>12 DEF Crash
  <2> QED
    BY <2>1, <2>2, <2>3, <2>4
<1>13. ASSUME AgentStep
       PROVE  FileInv'
  <2>1. CASE AgentLock
    BY <2>1 DEF AgentLock, callVars, frameVars
  <2>2. CASE AgentRefresh
    <3>1. \A c \in Call : ~Inside(c)
      BY <1>2, <2>2 DEF AgentRefresh
    <3> QED
      BY <2>2, <3>1 DEF AgentRefresh, Grant, Inside
  <2>3. CASE AgentWrite
    <3>1. \A c \in Call : ~Inside(c)
      BY <1>2, <2>3 DEF AgentWrite
    <3> QED
      BY <2>3, <3>1 DEF AgentWrite, Inside
  <2> QED
    BY <1>13, <2>1, <2>2, <2>3 DEF AgentStep
<1>14. CASE UNCHANGED vars
  BY <1>14 DEF vars
<1> QED
  BY <1>4, <1>5, <1>6, <1>7, <1>8, <1>9, <1>10, <1>11, <1>12, <1>13, <1>14
  DEF Next, Step

\* The inductive invariant: who holds the mutex and the directory, and what a
\* call has read of a credential nobody else can have replaced.
THEOREM Invariant == Spec => []IInv
<1>1. Init => IInv
  BY InitLock, InitFile DEF IInv, Init, RemoveInv, WindowInv
<1>2. IInv /\ [Next]_vars => IInv'
  BY NextLock, RemoveNext, WindowNext, NextFile DEF IInv, LockInv
<1> QED
  BY <1>1, <1>2, PTL DEF Spec

----------------------------------------------------------------------------
(* The properties                                                          *)

\* Every variable has its type in every reachable state.
THEOREM TypeCorrect == Spec => []TypeOK
<1>1. IInv => TypeOK
  BY DEF IInv, LockInv
<1> QED
  BY <1>1, Invariant, PTL

\* Mutex and lock directory admit one call at a time to the credential, for
\* any number of calls and processes, crashes and timeouts included, as long
\* as no live lock is taken over (store.go:150-215).
THEOREM LockExclusive == Spec => []Exclusive
<1>1. IInv => Exclusive
  BY AloneInside DEF IInv, Exclusive
<1> QED
  BY <1>1, Invariant, PTL

\* Calls of all processes and an agent that honors the lock never spend a
\* refresh token twice (auth.go:214-280).
THEOREM TokenOnce == Spec => []TokenSpentOnce
<1>1. IInv => TokenSpentOnce
  BY DEF IInv, FileInv, TokenSpentOnce
<1> QED
  BY <1>1, Invariant, PTL

\* When no call is inside the lock, the file holds the refresh token that the
\* server accepts (auth.go:282-305, store.go:219-240).
THEOREM FileHoldsValid == Spec => []FileCurrent
<1>1. IInv => FileCurrent
  BY DEF IInv, FileInv, FileCurrent, Inside, InFn, Saving
<1> QED
  BY <1>1, Invariant, PTL

\* A call that lost its lock to a takeover while it ran never returns a
\* credential (store.go:196-208).
THEOREM TakeoverIsReported == Spec => []TakeoverReported
<1>1. IInv => TakeoverReported
  BY DEF IInv, LockInv, TakenInv, TakeoverReported, InFn
<1> QED
  BY <1>1, Invariant, PTL

\* After a 401 a token is refreshed only while it is the stored one: a call
\* that finds it replaced uses the replacement (auth.go:239-241, 265-267).
THEOREM RefreshSingleFlight == Spec => SingleFlight
<1>1. IInv /\ [Next]_vars =>
        [\A c \in Call :
           /\ agentLocks
           /\ Undisturbed
           /\ mode[c] = "force"
           /\ pc[c] = "refresh"
           /\ pc'[c] = "save"
           => file.access = rejected[c]]_vars
  BY DEF IInv, FileInv
<1> QED
  BY <1>1, Invariant, PTL DEF Spec, SingleFlight

\* A write replaces a rotated refresh token only if that was written in the
\* window between the call's own comparison and its rename: for any agent,
\* with or without the lock, and any other calls (store.go:217-218, 423-467).
THEOREM NoStaleWrite == Spec => NoStaleReplace
<1>1. IInv /\ [Next]_vars =>
        [\A c \in Call :
           /\ pc[c] = "rename"
           /\ pc'[c] = "unlock"
           /\ file' # file
           /\ c \notin raced
           => file.refresh = cred[c].refresh]_vars
  BY DEF IInv, WindowInv
<1> QED
  BY <1>1, Invariant, PTL DEF Spec, NoStaleReplace

\* A call removes the directory of another party only after a takeover between
\* a Stat and its Remove (store.go:196-213).
THEOREM RemovesOwnLock == Spec => OwnLockOnly
<1>1. IInv /\ [Next]_vars =>
        [\A c \in Call :
           /\ pc[c] = "remove"
           /\ pc'[c] # "remove"
           /\ dir' # dir
           => dir = c \/ \E d \in Call : <<d, "remove">> \in taken]_vars
  BY DEF IInv, RemoveInv, NoneTakenLate
<1> QED
  BY <1>1, Invariant, PTL DEF Spec, OwnLockOnly

----------------------------------------------------------------------------
(* What a call leaves behind.                                              *)

\* the mutex of a process is held by one of its calls, on the way to its release
OwnerInv ==
  \A p \in Proc : mu[p] # NoCall =>
    mu[p] \in Call /\ procOf[mu[p]] = p /\ pc[mu[p]] \in Locking \cup {"mkdir"}

\* whoever takes a call out of the lock frees the mutex of its process
LEMMA OwnerNext == TypeOK /\ KeyringInv /\ OwnerInv /\ [Next]_vars => OwnerInv'
<1> SUFFICES ASSUME TypeOK, KeyringInv, OwnerInv, [Next]_vars PROVE OwnerInv'
  OBVIOUS
<1> USE CredentialAssumption DEF TypeOK, OwnerInv, Locking, InFn, Go, fixed
<1>1. ASSUME NEW c \in Call, Enter(c) \/ Mkdir(c) \/ LockFails(c)
      PROVE  OwnerInv'
  BY <1>1 DEF Enter, Mkdir, LockFails, Unlocked, KeyringInv
<1>2. ASSUME NEW c \in Call, Load(c) \/ LoadFails(c) \/ Refresh(c) \/ RefreshFails(c)
      PROVE  OwnerInv'
  BY <1>2 DEF Load, LoadFails, Refresh, RefreshFails, Return, Fail
<1>3. ASSUME NEW c \in Call, SaveKeyring(c) \/ ReadOriginal(c) \/ Verify(c)
      PROVE  OwnerInv'
  BY <1>3 DEF SaveKeyring, ReadOriginal, Verify, Return
<1>4. ASSUME NEW c \in Call, Rename(c) \/ Reload(c) \/ SaveFails(c)
      PROVE  OwnerInv'
  BY <1>4 DEF Rename, Reload, SaveFails, Return, Fail
<1>5. ASSUME NEW c \in Call, CheckOwner(c) \/ RemoveLock(c)
      PROVE  OwnerInv'
  BY <1>5 DEF CheckOwner, RemoveLock, Unlocked, Result
<1>6. ASSUME NEW c \in Call, Accepted(c) \/ Rejected(c) \/ Retry(c)
      PROVE  OwnerInv'
  BY <1>6 DEF Accepted, Rejected, Retry
<1>7. ASSUME NEW p \in Proc, Crash(p)
      PROVE  OwnerInv'
  BY <1>7 DEF Crash
<1>8. ASSUME AgentStep
      PROVE  OwnerInv'
  BY <1>8 DEF AgentStep, AgentLock, AgentRefresh, AgentWrite
<1>9. CASE UNCHANGED vars
  BY <1>9 DEF vars
<1> QED
  BY <1>1, <1>2, <1>3, <1>4, <1>5, <1>6, <1>7, <1>8, <1>9 DEF Next, Step

\* the mutex is free again, and the directory too unless the call reports an
\* error or is dead
NothingLeftLocked ==
  \A c \in Call :
    /\ pc[c] \in {"mutex", "have", "done"} => dir # c
    /\ pc[c] \in {"mutex", "have", "done", "failed", "dead"} => \A p \in Proc : mu[p] # c

\* A call that has returned has left the mutex free, whatever failed or was taken
\* over, and a call that returns a credential has left no lock directory: one that
\* Stat or Remove failed to deal with belongs to a call that reports the error, or
\* to a dead process (store.go:150-215).
THEOREM LocksReleased == Spec => []NothingLeftLocked
<1>1. Init => OwnerInv
  BY DEF Init, OwnerInv
<1>2. IInv /\ OwnerInv /\ [Next]_vars => OwnerInv'
  BY OwnerNext DEF IInv, LockInv
<1>3. IInv /\ OwnerInv => NothingLeftLocked
  BY CredentialAssumption DEF IInv, LockInv, DirInv, OwnerInv, NothingLeftLocked, Locking, InFn
<1> QED
  BY <1>1, <1>2, <1>3, Invariant, PTL DEF Spec
=============================================================================
