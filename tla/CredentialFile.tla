---------------------------- MODULE CredentialFile ----------------------------
(***************************************************************************)
(* The OAuth credential macaz shares with a local agent: the lock          *)
(* directory and the compare-then-rename write of localagentsauth/store.go *)
(* and the two refresh paths of openai/auth.go, called by a request that   *)
(* retries once after a 401 (openai.go).                                   *)
(*                                                                         *)
(* Calls run in one or more macaz processes; an accountAuth mutex orders   *)
(* those of one process, the lock directory those of all.  An agent, which *)
(* owns the file, refreshes the same credential: Pi takes the lock and     *)
(* takes a stale one over, the Codex CLI does not look at it.  With the    *)
(* keyring in place of a file there is only the mutex.  Every system call  *)
(* on the directory may fail, also the one that should remove it.          *)
(*                                                                         *)
(* A token is the number of the refresh that issued it.  The authorization *)
(* server accepts one refresh token at a time and may rotate it.           *)
(***************************************************************************)
EXTENDS Integers, FiniteSets

CONSTANTS
  Call,         \* requests that need the credential
  Proc,         \* macaz processes
  Agent,        \* the local agent
  NoCall,
  MaxGen,       \* bound on refreshes granted by the server
  MaxTaken      \* bound on takeovers of a live process's lock

ASSUME CredentialAssumption ==
  /\ MaxGen \in Nat
  /\ MaxTaken \in Nat
  /\ NoCall \notin Call
  /\ Agent \notin Call \cup {NoCall}

VARIABLES
  local,       \* a.local # nil: a file of a local agent, not the keyring
  agentLocks,  \* that agent honors auth.json.lock
  procOf,      \* the process of each call
  mu,          \* holder of accountAuth.mu in each process
  dir,         \* who made the lock directory that exists, if any
  file,        \* the stored credential
  gen,         \* how many refreshes the server has granted
  valid,       \* the refresh token the server accepts
  pc,          \* where each call is
  mode,        \* why: credentials, forceRefresh after a 401, credentials again
  ok,          \* no error so far inside WithLock
  cred,        \* local credential of the Locked functions
  next,        \* the refreshed credential to be saved
  seen,        \* original in UpdateOAuth
  got,         \* access token of the result
  rejected,    \* rejectedAccess
  pcAgent, credAgent,
  lost,        \* a rotated refresh token was received by nobody's file
  reused,      \* macaz sent a refresh token that was spent
  taken,       \* calls whose lock was taken over while they ran, and where
  raced        \* calls about to rename over a file written since they compared it

vars == <<local, agentLocks, procOf, mu, dir, file, gen, valid, pc, mode, ok, cred,
          next, seen, got, rejected, pcAgent, credAgent, lost, reused, taken,
          raced>>

frameVars == <<cred, next, seen, rejected>>
callVars == <<mode, ok, frameVars, got>>
serverVars == <<gen, valid>>
agentVars == <<pcAgent, credAgent>>
ghostVars == <<lost, reused, taken, raced>>
fixed == <<local, agentLocks, procOf>>

Gen == 0..MaxGen

Credential == [access : Gen, refresh : Gen]

\* the stages of fn, which WithLock runs
InFn == {"load", "refresh", "save", "verify", "rename", "reload"}

Stages == {"mutex", "mkdir", "unlock", "remove", "have", "done", "failed",
           "dead"} \cup InFn

TypeOK ==
  /\ local \in BOOLEAN
  /\ agentLocks \in BOOLEAN
  /\ procOf \in [Call -> Proc]
  /\ mu \in [Proc -> Call \cup {NoCall}]
  /\ dir \in Call \cup {Agent, NoCall}
  /\ file \in Credential
  /\ gen \in Gen
  /\ valid \in Gen
  /\ pc \in [Call -> Stages]
  /\ mode \in [Call -> {"get", "force", "again"}]
  /\ ok \in [Call -> BOOLEAN]
  /\ cred \in [Call -> Credential]
  /\ next \in [Call -> Credential]
  /\ seen \in [Call -> Credential]
  /\ got \in [Call -> Gen]
  /\ rejected \in [Call -> Gen]
  /\ pcAgent \in {"idle", "locked", "write"}
  /\ credAgent \in Credential
  /\ lost \in BOOLEAN
  /\ reused \in BOOLEAN
  /\ taken \in SUBSET (Call \X {"fn", "remove"})
  /\ raced \in SUBSET Call

Zero == [access |-> 0, refresh |-> 0]

\* Processes that share a keyring are beyond what the code coordinates, and no
\* agent knows of it.
Init ==
  /\ local \in BOOLEAN
  /\ agentLocks \in BOOLEAN
  /\ procOf \in [Call -> Proc]
  /\ ~local => agentLocks /\ \A c, d \in Call : procOf[c] = procOf[d]
  /\ mu = [p \in Proc |-> NoCall]
  /\ dir = NoCall
  /\ file = Zero
  /\ gen = 0
  /\ valid = 0
  /\ pc = [c \in Call |-> "mutex"]
  /\ mode = [c \in Call |-> "get"]
  /\ ok = [c \in Call |-> TRUE]
  /\ cred = [c \in Call |-> Zero]
  /\ next = [c \in Call |-> Zero]
  /\ seen = [c \in Call |-> Zero]
  /\ got = [c \in Call |-> 0]
  /\ rejected = [c \in Call |-> 0]
  /\ pcAgent = "idle"
  /\ credAgent = Zero
  /\ lost = FALSE
  /\ reused = FALSE
  /\ taken = {}
  /\ raced = {}

Go(c, from, to) ==
  /\ pc[c] = from
  /\ pc' = [pc EXCEPT ![c] = to]

----------------------------------------------------------------------------
(* credentials and forceRefresh take a.mu, then WithLock                   *)

Enter(c) ==
  /\ Go(c, "mutex", IF local THEN "mkdir" ELSE "load")
  /\ mu[procOf[c]] = NoCall
  /\ mu' = [mu EXCEPT ![procOf[c]] = c]
  /\ ok' = [ok EXCEPT ![c] = TRUE]
  /\ UNCHANGED <<fixed, dir, file, serverVars, mode, frameVars, got, agentVars,
                 ghostVars>>

\* bug: take the lock directory somebody else has made
Mkdir_Ignore(c) ==
  /\ Go(c, "mkdir", "load")
  /\ dir' = c
  /\ UNCHANGED <<fixed, mu, file, serverVars, callVars, agentVars, ghostVars>>

\* Mkdir succeeds, and the Stat that follows at once sees the same directory
Mkdir(c) ==
  /\ Go(c, "mkdir", "load")
  /\ dir = NoCall
  /\ dir' = c
  /\ UNCHANGED <<fixed, mu, file, serverVars, callVars, agentVars, ghostVars>>

Unlocked(c) == [mu EXCEPT ![procOf[c]] = NoCall]

\* The deadline of 35 seconds, or Mkdir fails.  When only the Stat after it
\* fails, the call gives up and leaves its new directory there.
LockFails(c) ==
  /\ Go(c, "mkdir", "failed")
  /\ \/ UNCHANGED dir
     \/ dir = NoCall /\ dir' = c
  /\ mu' = Unlocked(c)
  /\ UNCHANGED <<fixed, file, serverVars, callVars, agentVars, ghostVars>>

----------------------------------------------------------------------------
(* credentialsLocked, forceRefreshLocked                                   *)

\* the locals of fn go out of scope
Leave(c, access) ==
  /\ cred' = [cred EXCEPT ![c] = Zero]
  /\ next' = [next EXCEPT ![c] = Zero]
  /\ seen' = [seen EXCEPT ![c] = Zero]
  /\ rejected' = [rejected EXCEPT ![c] = 0]
  /\ got' = [got EXCEPT ![c] = access]

\* fn ends with a credential
Return(c, from, access) ==
  /\ Go(c, from, "unlock")
  /\ Leave(c, access)
  /\ UNCHANGED ok

\* fn ends with an error: no credential, no network, no space
Fail(c, from) ==
  /\ Go(c, from, "unlock")
  /\ Leave(c, 0)
  /\ ok' = [ok EXCEPT ![c] = FALSE]

\* bug: refresh although another call has replaced the rejected token
Usable_NeverForced(c) == mode[c] # "force"

\* The stored access token will do.  Whether it has expired is the clock's.
Usable(c) == mode[c] = "force" => file.access # rejected[c]

Load(c) ==
  /\ \/ /\ Usable(c)
        /\ Return(c, "load", file.access)
     \/ /\ mode[c] = "force" => ~Usable(c)
        /\ Go(c, "load", "refresh")
        /\ cred' = [cred EXCEPT ![c] = file]
        /\ UNCHANGED <<ok, next, seen, got, rejected>>
  /\ UNCHANGED <<fixed, mu, dir, file, serverVars, mode, agentVars, ghostVars>>

LoadFails(c) ==
  /\ Fail(c, "load")
  /\ UNCHANGED <<fixed, mu, dir, file, serverVars, mode, agentVars, ghostVars>>

\* the server grants a refresh for token t
Grant(t, rotated) ==
  /\ t = valid
  /\ gen < MaxGen
  /\ gen' = gen + 1
  /\ valid' = IF rotated THEN gen + 1 ELSE valid

\* bug: keep the old refresh token although the server rotated it
Granted_KeepRefresh(c, rotated) == [access |-> gen + 1, refresh |-> cred[c].refresh]

\* an answer without a refresh token keeps the old one
Granted(c, rotated) ==
  [access |-> gen + 1, refresh |-> IF rotated THEN gen + 1 ELSE cred[c].refresh]

Refresh(c) ==
  /\ Go(c, "refresh", "save")
  /\ \E rotated \in BOOLEAN :
       /\ Grant(cred[c].refresh, rotated)
       /\ next' = [next EXCEPT ![c] = Granted(c, rotated)]
  /\ UNCHANGED <<fixed, mu, dir, file, mode, ok, cred, seen, got, rejected,
                 agentVars, ghostVars>>

\* the request or its answer is lost, or the server refuses the token
RefreshFails(c) ==
  /\ Fail(c, "refresh")
  /\ \/ /\ UNCHANGED serverVars
        /\ reused' = (reused \/ cred[c].refresh # valid)
        /\ UNCHANGED lost
     \/ \E rotated \in BOOLEAN :
          /\ Grant(cred[c].refresh, rotated)
          /\ lost' = (lost \/ rotated)
          /\ UNCHANGED reused
  /\ UNCHANGED <<fixed, mu, dir, file, mode, agentVars, taken, raced>>

----------------------------------------------------------------------------
(* saveCredential                                                          *)

\* secrets.Set
SaveKeyring(c) ==
  /\ ~local
  /\ Return(c, "save", next[c].access)
  /\ file' = next[c]
  /\ UNCHANGED <<fixed, mu, dir, serverVars, mode, agentVars, ghostVars>>

\* UpdateOAuth reads the file and compares the refresh token
ReadOriginal(c) ==
  /\ local
  /\ Go(c, "save", IF file.refresh = cred[c].refresh THEN "verify" ELSE "reload")
  /\ seen' = [seen EXCEPT ![c] = file]
  /\ UNCHANGED <<fixed, mu, dir, file, serverVars, mode, ok, cred, next, got,
                 rejected, agentVars, ghostVars>>

\* bug: trust the comparison that UpdateOAuth has made
Verify_Trust(c) ==
  /\ Go(c, "verify", "rename")
  /\ raced' = raced \ {c}
  /\ UNCHANGED <<fixed, mu, dir, file, serverVars, callVars, agentVars, lost, reused,
                 taken>>

\* writeJSONIfUnchanged reads it again
Verify(c) ==
  /\ Go(c, "verify", IF file = seen[c] THEN "rename" ELSE "reload")
  /\ raced' = raced \ {c}
  /\ UNCHANGED <<fixed, mu, dir, file, serverVars, callVars, agentVars, lost, reused,
                 taken>>

AboutToRename == {c \in Call : pc[c] = "rename"}

\* writeJSON: the temporary file is complete and replaces the credential
Rename(c) ==
  /\ Return(c, "rename", next[c].access)
  /\ file' = next[c]
  /\ raced' = AboutToRename \ {c}
  /\ UNCHANGED <<fixed, mu, dir, serverVars, mode, agentVars, lost, reused, taken>>

\* not updated: use what the file holds now
Reload(c) ==
  /\ Return(c, "reload", file.access)
  /\ UNCHANGED <<fixed, mu, dir, file, serverVars, mode, agentVars, ghostVars>>

Rotated(c) == next[c].refresh # cred[c].refresh

SaveFails(c) ==
  /\ \E from \in {"save", "verify", "rename", "reload"} : Fail(c, from)
  /\ lost' = (lost \/ Rotated(c))
  /\ UNCHANGED <<fixed, mu, dir, file, serverVars, mode, agentVars, reused, taken,
                 raced>>

----------------------------------------------------------------------------
(* The end of WithLock, and the request                                    *)

Result(c) == IF ok[c] THEN "have" ELSE "failed"

\* bug: a call whose lock was taken over keeps the mutex
CheckOwner_KeepsMutex(c) ==
  /\ \/ local /\ dir = c /\ Go(c, "unlock", "remove")
     \/ Go(c, "unlock", IF local THEN "failed" ELSE Result(c))
  /\ UNCHANGED <<fixed, mu, dir, file, serverVars, callVars, agentVars, ghostVars>>

\* bug: do not compare the directory with the one that was made
CheckOwner_Never(c) ==
  /\ \/ local /\ Go(c, "unlock", "remove") /\ UNCHANGED mu
     \/ ~local /\ Go(c, "unlock", Result(c)) /\ mu' = Unlocked(c)
  /\ UNCHANGED <<fixed, dir, file, serverVars, callVars, agentVars, ghostVars>>

\* Stat: a directory that is gone, or another one, makes the call an error,
\* and so does a Stat that fails, which leaves the directory there
CheckOwner(c) ==
  /\ \/ local /\ dir = c /\ Go(c, "unlock", "remove") /\ UNCHANGED mu
     \/ Go(c, "unlock", IF local THEN "failed" ELSE Result(c)) /\ mu' = Unlocked(c)
  /\ UNCHANGED <<fixed, dir, file, serverVars, callVars, agentVars, ghostVars>>

\* Remove takes whatever directory is there by now, or fails and leaves it
RemoveLock(c) ==
  /\ \/ Go(c, "remove", Result(c)) /\ dir' = NoCall
     \/ Go(c, "remove", "failed") /\ UNCHANGED dir
  /\ mu' = Unlocked(c)
  /\ UNCHANGED <<fixed, file, serverVars, callVars, agentVars, ghostVars>>

\* authorize has the token and the upstream accepts it
Accepted(c) ==
  /\ Go(c, "have", "done")
  /\ mode[c] # "force"
  /\ got' = [got EXCEPT ![c] = 0]
  /\ UNCHANGED <<fixed, mu, dir, file, serverVars, mode, ok, frameVars, agentVars,
                 ghostVars>>

\* 401: the first time the token is refreshed
Rejected(c) ==
  /\ \/ /\ mode[c] = "get"
        /\ Go(c, "have", "mutex")
        /\ mode' = [mode EXCEPT ![c] = "force"]
        /\ rejected' = [rejected EXCEPT ![c] = got[c]]
     \/ /\ mode[c] = "again"
        /\ Go(c, "have", "failed")
        /\ UNCHANGED <<mode, rejected>>
  /\ got' = [got EXCEPT ![c] = 0]
  /\ UNCHANGED <<fixed, mu, dir, file, serverVars, ok, cred, next, seen, agentVars,
                 ghostVars>>

\* the result of forceRefresh is dropped: authorize loads the credential again
Retry(c) ==
  /\ mode[c] = "force"
  /\ Go(c, "have", "mutex")
  /\ mode' = [mode EXCEPT ![c] = "again"]
  /\ got' = [got EXCEPT ![c] = 0]
  /\ UNCHANGED <<fixed, mu, dir, file, serverVars, ok, frameVars, agentVars,
                 ghostVars>>

----------------------------------------------------------------------------
(* The environment: crashes and the agent                                  *)

\* a process dies with its calls; its lock directory stays
Crash(p) ==
  LET dying == {c \in Call : procOf[c] = p /\ pc[c] \notin {"done", "failed", "dead"}}
  IN /\ dying # {}
     /\ pc' = [c \in Call |-> IF c \in dying THEN "dead" ELSE pc[c]]
     /\ cred' = [c \in Call |-> IF c \in dying THEN Zero ELSE cred[c]]
     /\ next' = [c \in Call |-> IF c \in dying THEN Zero ELSE next[c]]
     /\ seen' = [c \in Call |-> IF c \in dying THEN Zero ELSE seen[c]]
     /\ rejected' = [c \in Call |-> IF c \in dying THEN 0 ELSE rejected[c]]
     /\ got' = [c \in Call |-> IF c \in dying THEN 0 ELSE got[c]]
     /\ mu' = [mu EXCEPT ![p] = NoCall]
     /\ lost' = (lost \/ \E c \in dying : pc[c] \in {"save", "verify", "rename"}
                                           /\ Rotated(c))
     /\ UNCHANGED <<fixed, dir, file, serverVars, mode, ok, agentVars, reused, taken,
                    raced>>

\* The agent finds the lock free, or not refreshed for too long because its
\* holder is dead, has failed to remove it, or was suspended while its heartbeat
\* should have run.
AgentLock ==
  /\ pcAgent = "idle"
  /\ gen < MaxGen
  /\ IF ~agentLocks THEN UNCHANGED <<dir, taken>> ELSE
       /\ dir' = Agent
       /\ \/ dir = NoCall /\ UNCHANGED taken
          \/ dir \in Call /\ pc[dir] \in {"dead", "failed"} /\ UNCHANGED taken
          \/ /\ dir \in Call
             /\ pc[dir] \notin {"dead", "failed"}
             /\ Cardinality(taken) < MaxTaken
             /\ taken' = taken \cup
                  {<<dir, IF pc[dir] = "remove" THEN "remove" ELSE "fn">>}
  /\ pcAgent' = "locked"
  /\ UNCHANGED <<fixed, mu, file, serverVars, pc, callVars, credAgent, lost, reused,
                 raced>>

AgentUnlocked == IF agentLocks /\ dir = Agent THEN NoCall ELSE dir

\* the agent refreshes the token it finds, or finds it spent
AgentRefresh ==
  /\ pcAgent = "locked"
  /\ \/ /\ \E rotated \in BOOLEAN :
             /\ Grant(file.refresh, rotated)
             /\ credAgent' = [access |-> gen + 1, refresh |-> valid']
        /\ pcAgent' = "write"
        /\ UNCHANGED dir
     \/ /\ file.refresh # valid \/ gen = MaxGen
        /\ pcAgent' = "idle"
        /\ dir' = AgentUnlocked
        /\ UNCHANGED <<serverVars, credAgent>>
  /\ UNCHANGED <<fixed, mu, file, pc, callVars, ghostVars>>

AgentWrite ==
  /\ pcAgent = "write"
  /\ pcAgent' = "idle"
  /\ file' = credAgent
  /\ dir' = AgentUnlocked
  /\ credAgent' = Zero
  /\ raced' = AboutToRename
  /\ UNCHANGED <<fixed, mu, serverVars, pc, callVars, lost, reused, taken>>

AgentStep == local /\ (AgentLock \/ AgentRefresh \/ AgentWrite)
----------------------------------------------------------------------------
Step(c) ==
  \/ Enter(c) \/ Mkdir(c) \/ LockFails(c)
  \/ Load(c) \/ LoadFails(c) \/ Refresh(c) \/ RefreshFails(c)
  \/ SaveKeyring(c) \/ ReadOriginal(c) \/ Verify(c) \/ Rename(c) \/ Reload(c)
  \/ SaveFails(c)
  \/ CheckOwner(c) \/ RemoveLock(c) \/ Accepted(c) \/ Rejected(c) \/ Retry(c)

Next ==
  \/ \E c \in Call : Step(c)
  \/ \E p \in Proc : Crash(p)
  \/ AgentStep

Spec == Init /\ [][Next]_vars

(***************************************************************************)
(* A call goes on: reads, writes and HTTP requests end, and sync.Mutex     *)
(* hands over to a starving waiter, hence strong fairness on Enter.  The   *)
(* environment and the agent may stop at any time.                         *)
(***************************************************************************)
Fairness == \A c \in Call : SF_vars(Enter(c)) /\ WF_vars(Step(c))

FairSpec == Spec /\ Fairness
----------------------------------------------------------------------------
(* Properties                                                              *)

\* no lock was taken from a live process, and no rotated token was lost to a
\* crash, a lost answer or a full disk
Undisturbed == taken = {} /\ ~lost

Inside(c) == pc[c] \in InFn

\* The lock directory and the mutex admit one call at a time to the stored
\* credential, and keep out an agent that honors the lock, crashes and
\* timeouts included (store.go:150-215).
Exclusive ==
  taken = {} =>
    /\ \A c, d \in Call : Inside(c) /\ Inside(d) => c = d
    /\ agentLocks /\ pcAgent # "idle" => \A c \in Call : ~Inside(c)

\* No refresh token is spent twice: calls of all processes and a locking
\* agent see each other's rotations (auth.go:214-280).
TokenSpentOnce == agentLocks /\ Undisturbed => ~reused

\* At rest the file holds the refresh token the server accepts, so the user
\* need not log in again.
FileCurrent ==
  agentLocks /\ Undisturbed /\ pcAgent = "idle" /\ (\A c \in Call : ~Inside(c)) =>
    file.refresh = valid

\* A call whose lock was taken over before fn ended reports an error: its
\* result may be stale (store.go:196-208).
TakeoverReported ==
  \A c \in Call : <<c, "fn">> \in taken => pc[c] \notin {"have", "done"}

\* Concurrent 401s are single-flight: a token is refreshed only while it is
\* the one stored (auth.go:239-241, 265-267).
SingleFlight ==
  [][\A c \in Call :
       /\ agentLocks
       /\ Undisturbed
       /\ mode[c] = "force"
       /\ pc[c] = "refresh"
       /\ pc'[c] = "save"
       => file.access = rejected[c]]_vars

\* "expectedRefresh prevents a stale refresh from replacing a token rotated by
\* an agent that does not honor file locks" (store.go:217-218), up to the
\* comparison: whatever agent, takeover or other call wrote the credential, a
\* rotated token is replaced only if it was written in the window between
\* writeJSONIfUnchanged's own comparison and its rename (store.go:428-433, 467).
NoStaleReplace ==
  [][\A c \in Call :
       /\ pc[c] = "rename"
       /\ pc'[c] = "unlock"
       /\ file' # file
       /\ c \notin raced
       => file.refresh = cred[c].refresh]_vars

\* A call removes the lock directory of the agent or of another call only if a
\* lock was taken over between a Stat and its Remove, whatever was taken over
\* before that (store.go:196-213).
OwnLockOnly ==
  [][\A c \in Call :
       /\ pc[c] = "remove"
       /\ pc'[c] # "remove"
       /\ dir' # dir
       => dir = c \/ \E d \in Call : <<d, "remove">> \in taken]_vars

\* Every call ends, also when a crashed process or a failed call has left its
\* lock behind.
CallEnds == \A c \in Call : <>(pc[c] \in {"done", "failed", "dead"})
=============================================================================
