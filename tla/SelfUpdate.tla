----------------------------- MODULE SelfUpdate -----------------------------
(***************************************************************************)
(* `macaz update` (internal/updater): processes that replace the           *)
(* executable they were started from, through a lock file, a staged        *)
(* download beside the executable and a backup to roll back to.  Every     *)
(* macaz command first removes the backup of an earlier update             *)
(* (CleanupOldExecutable, called at the head of app.Run).                  *)
(*                                                                         *)
(* A process may stop for good between any two system calls (Crash); every *)
(* system call and the download may fail, the removals whose errors are    *)
(* ignored included; a lock file may become older than ten minutes while   *)
(* its owner is gone or merely suspended (LockAges).                       *)
(***************************************************************************)
EXTENDS Integers, FiniteSets

CONSTANTS Proc,         \* macaz processes, each runs one command
          MaxVersion,   \* releases are numbered 1..MaxVersion
          NoLock        \* the lock file does not exist

ASSUME VersionAssumption == MaxVersion \in Nat \ {0}
ASSUME LockAssumption == NoLock \notin [owner : Proc, old : BOOLEAN]

Version == 1..MaxVersion
None == 0                    \* no file of that name
File == Version \cup {None}  \* a binary is identified by its version

VARIABLES
  latest,     \* the release GitHub answers with
  exe,        \* what is at the executable's path
  backup,     \* .macaz.macaz-update-backup
  lock,       \* .macaz.macaz-update-lock: its creator, and whether its mtime is old
  staged,     \* each process's .macaz-update-* file
  verified,   \* its digest and its reported version were found right
  pc,         \* where each process is
  current,    \* the version a process runs
  target,     \* the version it has fetched
  attempt,    \* acquireUpdateLock's loop
  late,       \* processes whose two minutes (updateRunTimeout) are over
  broken,     \* history: a lock whose creator was still inside was removed
  stolen      \* history: such a lock was removed before it was old

files == <<exe, backup, staged, verified>>
history == <<broken, stolen>>
locking == <<lock, attempt, late, history>>
vars == <<latest, files, locking, pc, current, target>>

\* between acquireUpdateLock and the deferred releaseLock
Section == {"stage", "verify", "unlinkOld", "moveOld", "moveNew", "rollback",
            "dropBackup", "inspectExe", "discard", "unlock"}

\* inside replaceExecutable, or about to look at what it left behind
Replacing == {"unlinkOld", "moveOld", "moveNew", "rollback", "inspectExe"}

Running == {"cleanup", "unlinkBackup", "command", "fetch", "locate", "lock",
            "inspect", "takeover"} \cup Section

PC == Running \cup {"new", "done", "dead"}

TypeOK ==
  /\ latest \in Version
  /\ exe \in File
  /\ backup \in File
  /\ lock \in [owner : Proc, old : BOOLEAN] \cup {NoLock}
  /\ staged \in [Proc -> File]
  /\ verified \in [Proc -> BOOLEAN]
  /\ pc \in [Proc -> PC]
  /\ current \in [Proc -> File]
  /\ target \in [Proc -> File]
  /\ attempt \in [Proc -> 0..1]
  /\ late \subseteq Proc
  /\ broken \in BOOLEAN
  /\ stolen \in BOOLEAN

Init ==
  /\ latest = 1
  /\ exe = 1
  /\ backup = None
  /\ lock = NoLock
  /\ staged = [p \in Proc |-> None]
  /\ verified = [p \in Proc |-> FALSE]
  /\ pc = [p \in Proc |-> "new"]
  /\ current = [p \in Proc |-> None]
  /\ target = [p \in Proc |-> None]
  /\ attempt = [p \in Proc |-> 0]
  /\ late = {}
  /\ broken = FALSE
  /\ stolen = FALSE

At(p, here) == pc[p] = here
Goto(p, there) == pc' = [pc EXCEPT ![p] = there]

----------------------------------------------------------------------------
(* The environment                                                         *)

Publish ==
  /\ latest < MaxVersion
  /\ latest' = latest + 1
  /\ UNCHANGED <<files, locking, pc, current, target>>

\* ten minutes pass: the creator, if it lives, has been suspended, and its
\* context has expired
LockAges ==
  /\ lock # NoLock /\ ~lock.old
  /\ lock' = [lock EXCEPT !.old = TRUE]
  /\ late' = late \cup {lock.owner}
  /\ UNCHANGED <<latest, files, attempt, history, pc, current, target>>

\* the process is killed: no deferred function runs
Crash(p) ==
  /\ pc[p] \in Running
  /\ Goto(p, "dead")
  /\ UNCHANGED <<latest, files, locking, current, target>>

----------------------------------------------------------------------------
(* app.Run and CleanupOldExecutable                                        *)

Start(p) ==
  /\ At(p, "new") /\ exe # None
  /\ current' = [current EXCEPT ![p] = exe]
  /\ Goto(p, "cleanup")
  /\ UNCHANGED <<latest, files, locking, target>>

\* os.Stat(executable): without an executable the backup is left alone
CleanupStat(p) ==
  /\ At(p, "cleanup")
  /\ Goto(p, IF exe = None THEN "command" ELSE "unlinkBackup")
  /\ UNCHANGED <<latest, files, locking, current, target>>

\* os.Remove(backup), whose error app.Run ignores
CleanupRemove(p) ==
  /\ At(p, "unlinkBackup")
  /\ backup' \in {None, backup}
  /\ Goto(p, "command")
  /\ UNCHANGED <<latest, exe, staged, verified, locking, current, target>>

\* the command is `update`, or any other one
Dispatch(p) ==
  /\ At(p, "command")
  /\ Goto(p, "fetch") \/ Goto(p, "done")
  /\ UNCHANGED <<latest, files, locking, current, target>>

----------------------------------------------------------------------------
(* Client.Update up to the lock                                            *)

\* the newest release is compared with the version this process runs
Fetch(p) ==
  /\ At(p, "fetch")
  /\ target' = [target EXCEPT ![p] = latest]
  /\ Goto(p, IF latest > current[p] THEN "locate" ELSE "done")
  /\ UNCHANGED <<latest, files, locking, current>>

\* no release, an unusable asset, a checksum file that disagrees
FetchFails(p) ==
  /\ At(p, "fetch")
  /\ Goto(p, "done")
  /\ UNCHANGED <<latest, files, locking, current, target>>

\* os.Stat(executable)
Locate(p) ==
  /\ At(p, "locate")
  /\ Goto(p, IF exe = None THEN "done" ELSE "lock")
  /\ UNCHANGED <<latest, files, locking, current, target>>

----------------------------------------------------------------------------
(* acquireUpdateLock                                                       *)

NextAttempt(p) ==
  IF attempt[p] = 0
    THEN attempt' = [attempt EXCEPT ![p] = 1] /\ Goto(p, "lock")
    ELSE UNCHANGED attempt /\ Goto(p, "done")

\* bug: without O_EXCL
CreateLock_Overwrites(p) ==
  /\ At(p, "lock")
  /\ lock' = [owner |-> p, old |-> FALSE]
  /\ Goto(p, "stage")
  /\ UNCHANGED <<latest, files, attempt, late, history, current, target>>

\* O_CREATE|O_EXCL
CreateLock(p) ==
  /\ At(p, "lock")
  /\ lock = NoLock
  /\ lock' = [owner |-> p, old |-> FALSE]
  /\ Goto(p, "stage")
  /\ UNCHANGED <<latest, files, attempt, late, history, current, target>>

LockExists(p) ==
  /\ At(p, "lock")
  /\ lock # NoLock
  /\ Goto(p, "inspect")
  /\ UNCHANGED <<latest, files, locking, current, target>>

\* os.Stat(lockPath): gone, taken recently, or stale
InspectLock(p) ==
  /\ At(p, "inspect")
  /\ \/ lock = NoLock /\ NextAttempt(p)
     \/ lock # NoLock /\ ~lock.old /\ Goto(p, "done") /\ UNCHANGED attempt
     \/ lock # NoLock /\ lock.old /\ Goto(p, "takeover") /\ UNCHANGED attempt
  /\ UNCHANGED <<latest, files, lock, late, history, current, target>>

\* os.OpenFile, os.Stat or os.Remove fails, the last one also on a lock that is
\* gone
LockFails(p) ==
  /\ pc[p] \in {"lock", "inspect", "takeover"}
  /\ Goto(p, "done")
  /\ UNCHANGED <<latest, files, locking, current, target>>

\* what a removal of the lock by p does to the process it belongs to
Removes(p) ==
  LET live == lock # NoLock /\ lock.owner # p /\ pc[lock.owner] \in Section
  IN /\ lock' = NoLock
     /\ broken' = (broken \/ live)
     /\ stolen' = (stolen \/ (live /\ ~lock.old))

\* os.Remove(lockPath) removes whatever lock is there by now
TakeOver(p) ==
  /\ At(p, "takeover")
  /\ lock # NoLock
  /\ Removes(p)
  /\ NextAttempt(p)
  /\ UNCHANGED <<latest, files, late, current, target>>

\* the deferred releaseLock: closes and removes the path unconditionally, and
\* does not look at the error
Unlock(p) ==
  /\ At(p, "unlock")
  /\ Removes(p) \/ UNCHANGED <<lock, history>>
  /\ Goto(p, "done")
  /\ UNCHANGED <<latest, files, attempt, late, current, target>>

----------------------------------------------------------------------------
(* Client.Update under the lock                                            *)

\* os.CreateTemp beside the executable
Stage(p) ==
  /\ At(p, "stage")
  /\ staged' = [staged EXCEPT ![p] = target[p]]
  /\ Goto(p, "verify")
  /\ UNCHANGED <<latest, exe, backup, verified, locking, current, target>>

StageFails(p) ==
  /\ At(p, "stage")
  /\ Goto(p, "unlock")
  /\ UNCHANGED <<latest, files, locking, current, target>>

\* downloadFile, the digest, chmod and `<staged> version`
Verify(p) ==
  /\ At(p, "verify") /\ p \notin late
  /\ verified' = [verified EXCEPT ![p] = TRUE]
  /\ Goto(p, "unlinkOld")
  /\ UNCHANGED <<latest, exe, backup, staged, locking, current, target>>

VerifyFails(p) ==
  /\ At(p, "verify")
  /\ Goto(p, "discard")
  /\ UNCHANGED <<latest, files, locking, current, target>>

\* replaceExecutable: os.Remove(backup)
UnlinkOld(p) ==
  /\ At(p, "unlinkOld")
  /\ \/ backup' = None /\ Goto(p, "moveOld")
     \/ UNCHANGED backup /\ Goto(p, "inspectExe")
  /\ UNCHANGED <<latest, exe, staged, verified, locking, current, target>>

\* os.Rename(executable, backup)
MoveOld(p) ==
  /\ At(p, "moveOld") /\ exe # None
  /\ backup' = exe
  /\ exe' = None
  /\ Goto(p, "moveNew")
  /\ UNCHANGED <<latest, staged, verified, locking, current, target>>

MoveOldFails(p) ==
  /\ At(p, "moveOld")
  /\ Goto(p, "inspectExe")
  /\ UNCHANGED <<latest, files, locking, current, target>>

\* os.Rename(stagedPath, executable)
MoveNew(p) ==
  /\ At(p, "moveNew")
  /\ exe' = staged[p]
  /\ staged' = [staged EXCEPT ![p] = None]
  /\ Goto(p, "dropBackup")
  /\ UNCHANGED <<latest, backup, verified, locking, current, target>>

\* bug: the error of the second rename is ignored
MoveNewFails_Ignored(p) ==
  /\ At(p, "moveNew")
  /\ Goto(p, "dropBackup")
  /\ UNCHANGED <<latest, files, locking, current, target>>

MoveNewFails(p) ==
  /\ At(p, "moveNew")
  /\ Goto(p, "rollback")
  /\ UNCHANGED <<latest, files, locking, current, target>>

\* os.Rename(backup, executable)
Rollback(p) ==
  /\ At(p, "rollback") /\ backup # None
  /\ exe' = backup
  /\ backup' = None
  /\ Goto(p, "inspectExe")
  /\ UNCHANGED <<latest, staged, verified, locking, current, target>>

RollbackFails(p) ==
  /\ At(p, "rollback")
  /\ Goto(p, "inspectExe")
  /\ UNCHANGED <<latest, files, locking, current, target>>

\* the last removal of replaceExecutable, whose error is ignored
DropBackup(p) ==
  /\ At(p, "dropBackup")
  /\ backup' \in {None, backup}
  /\ Goto(p, "unlock")
  /\ UNCHANGED <<latest, exe, staged, verified, locking, current, target>>

\* bug: the staged file is removed by every error path
InspectExe_Discards(p) ==
  /\ At(p, "inspectExe")
  /\ Goto(p, "discard")
  /\ UNCHANGED <<latest, files, locking, current, target>>

\* the staged file is kept, and its path reported, when no executable is left
InspectExe(p) ==
  /\ At(p, "inspectExe")
  /\ Goto(p, IF exe = None THEN "unlock" ELSE "discard")
  /\ UNCHANGED <<latest, files, locking, current, target>>

\* the deferred removal of the staged file, whose error is ignored
Discard(p) ==
  /\ At(p, "discard")
  /\ staged' \in {staged, [staged EXCEPT ![p] = None]}
  /\ Goto(p, "unlock")
  /\ UNCHANGED <<latest, exe, backup, verified, locking, current, target>>

----------------------------------------------------------------------------
Step(p) ==
  \/ Start(p) \/ CleanupStat(p) \/ CleanupRemove(p) \/ Dispatch(p)
  \/ Fetch(p) \/ FetchFails(p) \/ Locate(p)
  \/ CreateLock(p) \/ LockExists(p) \/ InspectLock(p) \/ LockFails(p)
  \/ TakeOver(p)
  \/ Stage(p) \/ StageFails(p) \/ Verify(p) \/ VerifyFails(p)
  \/ UnlinkOld(p) \/ MoveOld(p) \/ MoveOldFails(p)
  \/ MoveNew(p) \/ MoveNewFails(p) \/ Rollback(p) \/ RollbackFails(p)
  \/ DropBackup(p) \/ InspectExe(p) \/ Discard(p) \/ Unlock(p)
  \/ Crash(p)

Next == Publish \/ LockAges \/ \E p \in Proc : Step(p)

Spec == Init /\ [][Next]_vars

----------------------------------------------------------------------------
(* Properties                                                              *)

\* A verified binary always remains beside the executable's path when nothing
\* is at the path itself, and the process it belongs to is not about to remove
\* it: the update keeps its staged file exactly when the executable is gone
\* (updater.go:281-287), so neither a crash between the two renames, nor a
\* failed rollback, nor a second updater or a cleanup in the middle of it
\* loses every copy.
Spare(p) == staged[p] # None /\ verified[p] /\ ~At(p, "discard")

NeverLost == exe # None \/ \E p \in Proc : Spare(p)

\* Updaters exclude each other until a lock is ten minutes old, and after that
\* at most one whose own time is not over is inside, whatever locks are left
\* behind, taken over from dead or suspended processes, or not removed
\* (updater.go:466-497).  What the lock cannot prevent is that the second of two
\* processes that found the same old lock removes the first one's new one, or
\* that a suspended process removes its successor's when it goes on (stolen).
Exclusive ==
  LET Inside == {p \in Proc : pc[p] \in Section}
  IN /\ late = {} => \A p, q \in Inside : p = q
     /\ ~stolen => \A p, q \in Inside \ late : p = q

\* While no lock of a process inside is removed, an update that has moved its release
\* into place and is about to report it (app.go:134) finds that release at the
\* executable's path: no rollback, cleanup or other update has replaced it.
ReportedInstalled ==
  ~broken => \A p \in Proc : At(p, "dropBackup") => exe = target[p]
=============================================================================
