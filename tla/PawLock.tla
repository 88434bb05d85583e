------------------------------- MODULE PawLock ------------------------------
(***************************************************************************)
(* The session lock of paw/session-store.ts at the granularity of its file *)
(* system calls.  session.lock is created with open(wx), which makes an    *)
(* empty file, and filled by a second call; a status check reads it and    *)
(* judges it by the pid's liveness (same host only) and the heartbeat's    *)
(* age; a stale lock is unlinked and created again.  Nothing ties the      *)
(* unlink to the file that was judged.                                     *)
(*                                                                         *)
(* A process is a pid on a host; it never comes back after a crash (no pid *)
(* is reused).  Time is abstracted to the moment the heartbeat of the lock *)
(* in place gets older than its ttl.                                       *)
(***************************************************************************)
EXTENDS Naturals

CONSTANTS
  Procs,        \* the processes that use the session
  Host,         \* the host each process runs on
  Refreshers,   \* processes that call refreshPawSessionLockHeartbeat
  MaxAttempts,  \* the loop bound of acquirePawSessionLock, 5 in the code
  MayExpire,    \* whether a heartbeat may get older than its ttl
  MaxCrashes,   \* bound: how many processes may die
  NoLock        \* no file at session.lock

Locks == [owner : Procs, written : BOOLEAN, expired : BOOLEAN]

ASSUME LockAssumption ==
  /\ Host \in [Procs -> STRING]
  /\ Refreshers \subseteq Procs
  /\ MaxAttempts \in Nat \ {0}
  /\ MayExpire \in BOOLEAN
  /\ MaxCrashes \in Nat
  /\ NoLock \notin Locks

VARIABLES
  lockFile,   \* the file at session.lock: who created it, whether it has its
              \* content, whether its heartbeat is too old; or NoLock
  pc,         \* where each process is
  attempt,    \* acquirePawSessionLock's loop counter
  judged,     \* the lock a process found stale, or its own one, about to unlink
  crashes,    \* how many processes have died
  incidents   \* history, a set of:
              \*   "takenAlive": a lock of a live process was judged stale
              \*   "clobbered": a file was unlinked or replaced that was not
              \*   the one the process had judged

lockVars == <<lockFile, pc, attempt, judged, crashes, incidents>>

(* Where a process is: outside, in acquirePawSessionLock ("create" ..
   "cleanup"), holding the lock, in a heartbeat refresh, in release, dead. *)
Labels == {"idle", "create", "status", "remove", "recreate", "lastStatus",
           "fill", "cleanup", "held", "rename", "unlink", "dead"}

(* Between open(wx) and the end of its last call a process believes the file
   at session.lock is its own. *)
OwningLabels == {"fill", "cleanup", "held", "rename", "unlink"}

(* acquirePawSessionLock has returned and release has not begun. *)
Holding(p) == pc[p] \in {"held", "rename"}

Alive(p) == pc[p] # "dead"

LockInit ==
  /\ lockFile = NoLock
  /\ pc = [p \in Procs |-> "idle"]
  /\ attempt = [p \in Procs |-> 0]
  /\ judged = [p \in Procs |-> NoLock]
  /\ crashes = 0
  /\ incidents = {}

Goto(p, label) == pc' = [pc EXCEPT ![p] = label]

(* The loop counter goes out of scope. *)
LeaveLoop(p) == attempt' = [attempt EXCEPT ![p] = 0]

(* Bookkeeping: the file unlinked or replaced now is not the expected one. *)
NoteClobber(expected) ==
  incidents' = IF lockFile # NoLock /\ lockFile.owner # expected
               THEN incidents \cup {"clobbered"} ELSE incidents

(* unlink, ignoring ENOENT: removeFileIfExists *)
Unlink(expected) ==
  /\ lockFile' = NoLock
  /\ NoteClobber(expected)

(* Mutant: the heartbeat's age is ignored. *)
MutStaleNoTtl(p, lock) == Host[lock.owner] = Host[p] /\ ~Alive(lock.owner)

(* getPawSessionLockStaleReason # null *)
Stale(p, lock) ==
  \/ Host[lock.owner] = Host[p] /\ ~Alive(lock.owner)
  \/ lock.expired

(* getPawSessionLockStatus: what a process that reads the file now gets.  An
   empty file is not JSON, so the read throws. *)
LockStatus(p) ==
  IF lockFile = NoLock THEN "unlocked"
  ELSE IF ~lockFile.written THEN "throws"
  ELSE IF Stale(p, lockFile) THEN "stale"
  ELSE "locked"

-----------------------------------------------------------------------------
(* acquirePawSessionLock is called. *)
Begin(p) ==
  /\ pc[p] = "idle"
  /\ Goto(p, "create")
  /\ UNCHANGED <<lockFile, attempt, judged, crashes, incidents>>

(* Mutants: the loop has no bound, and its counter does not count. *)
MutUnboundedLoop(p) ==
  /\ attempt' = [attempt EXCEPT ![p] = @ + 1]
  /\ Goto(p, "create")

MutCounterStuck(p) ==
  /\ UNCHANGED attempt
  /\ Goto(p, "create")

(* The end of a loop iteration that acquired nothing. *)
NextAttempt(p) ==
  /\ attempt' = [attempt EXCEPT ![p] = @ + 1]
  /\ Goto(p, IF attempt[p] + 1 < MaxAttempts THEN "create" ELSE "lastStatus")

(* Mutant: open(lockFile, "w") *)
MutCreateOverwrites(p) ==
  /\ pc[p] \in {"create", "recreate"}
  /\ lockFile' = [owner |-> p, written |-> FALSE, expired |-> FALSE]
  /\ Goto(p, "fill")
  /\ LeaveLoop(p)
  /\ UNCHANGED <<judged, crashes, incidents>>

(* tryCreateLockFile, open(lockFile, "wx"): the first try of an iteration or
   the one after a stale lock was removed. *)
Create(p) ==
  /\ pc[p] \in {"create", "recreate"}
  /\ lockFile = NoLock
  /\ lockFile' = [owner |-> p, written |-> FALSE, expired |-> FALSE]
  /\ Goto(p, "fill")
  /\ LeaveLoop(p)
  /\ UNCHANGED <<judged, crashes, incidents>>

(* EEXIST on the first try, and on the second one. *)
CreateRefused(p) ==
  /\ pc[p] = "create"
  /\ lockFile # NoLock
  /\ Goto(p, "status")
  /\ UNCHANGED <<lockFile, attempt, judged, crashes, incidents>>

RecreateRefused(p) ==
  /\ pc[p] = "recreate"
  /\ lockFile # NoLock
  /\ NextAttempt(p)
  /\ UNCHANGED <<lockFile, judged, crashes, incidents>>

(* tryCreateLockFile, writeFile and sync: the content goes to the file that
   was opened, which is not at session.lock any more if it was unlinked. *)
Fill(p) ==
  /\ pc[p] = "fill"
  /\ lockFile' = IF lockFile # NoLock /\ lockFile.owner = p
                 THEN [lockFile EXCEPT !.written = TRUE] ELSE lockFile
  /\ Goto(p, "held")
  /\ UNCHANGED <<attempt, judged, crashes, incidents>>

(* writeFile or sync fails; the file is removed again and the error thrown. *)
FillFails(p) ==
  /\ pc[p] = "fill"
  /\ Goto(p, "cleanup")
  /\ UNCHANGED <<lockFile, attempt, judged, crashes, incidents>>

Cleanup(p) ==
  /\ pc[p] = "cleanup"
  /\ Unlink(p)
  /\ Goto(p, "idle")
  /\ UNCHANGED <<attempt, judged, crashes>>

(* The status check of an iteration.  The lock is gone: try again. *)
StatusUnlocked(p) ==
  /\ pc[p] = "status"
  /\ LockStatus(p) = "unlocked"
  /\ NextAttempt(p)
  /\ UNCHANGED <<lockFile, judged, crashes, incidents>>

(* It is live, and the call returns live_lock; or unreadable, and it throws. *)
StatusRefused(p) ==
  /\ pc[p] = "status"
  /\ LockStatus(p) \in {"locked", "throws"}
  /\ Goto(p, "idle")
  /\ LeaveLoop(p)
  /\ UNCHANGED <<lockFile, judged, crashes, incidents>>

(* It is stale, and is removed next: whatever is there then. *)
StatusStale(p) ==
  /\ pc[p] = "status"
  /\ LockStatus(p) = "stale"
  /\ Goto(p, "remove")
  /\ judged' = [judged EXCEPT ![p] = lockFile]
  /\ incidents' = IF Alive(lockFile.owner)
                  THEN incidents \cup {"takenAlive"} ELSE incidents
  /\ UNCHANGED <<lockFile, attempt, crashes>>

RemoveStale(p) ==
  /\ pc[p] = "remove"
  /\ Unlink(judged[p].owner)
  /\ Goto(p, "recreate")
  /\ judged' = [judged EXCEPT ![p] = NoLock]
  /\ UNCHANGED <<attempt, crashes>>

(* The status check after the loop: live_lock, or the call throws. *)
LastStatus(p) ==
  /\ pc[p] = "lastStatus"
  /\ Goto(p, "idle")
  /\ LeaveLoop(p)
  /\ UNCHANGED <<lockFile, judged, crashes, incidents>>

(* Mutant: a lock that has got too old is not its owner's any more. *)
MutOwnOnlyIfFresh(p) == LockStatus(p) = "locked" /\ lockFile.owner = p

(* The file, stale or not, can be read and is p's own. *)
ReadsOwnLock(p) == LockStatus(p) \in {"locked", "stale"} /\ lockFile.owner = p

(* refreshPawSessionLockHeartbeat: the status check, which only asks for
   ownership, and the rename that replaces whatever is there by then. *)
RefreshCheck(p) ==
  /\ pc[p] = "held" /\ p \in Refreshers
  /\ ReadsOwnLock(p)
  /\ Goto(p, "rename")
  /\ UNCHANGED <<lockFile, attempt, judged, crashes, incidents>>

RefreshRename(p) ==
  /\ pc[p] = "rename"
  /\ lockFile' = [owner |-> p, written |-> TRUE, expired |-> FALSE]
  /\ NoteClobber(p)
  /\ Goto(p, "held")
  /\ UNCHANGED <<attempt, judged, crashes>>

(* releasePawSessionLock: the caller's own lock is unlinked, stale or not. *)
ReleaseCheck(p) ==
  /\ pc[p] = "held"
  /\ ReadsOwnLock(p)
  /\ Goto(p, "unlink")
  /\ UNCHANGED <<lockFile, attempt, judged, crashes, incidents>>

(* It returns false, or throws on an unreadable file. *)
ReleaseNothing(p) ==
  /\ pc[p] = "held"
  /\ ~ReadsOwnLock(p)
  /\ Goto(p, "idle")
  /\ UNCHANGED <<lockFile, attempt, judged, crashes, incidents>>

ReleaseUnlink(p) ==
  /\ pc[p] = "unlink"
  /\ Unlink(p)
  /\ Goto(p, "idle")
  /\ UNCHANGED <<attempt, judged, crashes>>

(* The process dies: kill -9, an uncaught error, a power cut. *)
Crash(p) ==
  /\ Alive(p) /\ crashes < MaxCrashes
  /\ crashes' = crashes + 1
  /\ Goto(p, "dead")
  /\ judged' = [judged EXCEPT ![p] = NoLock]
  /\ LeaveLoop(p)
  /\ UNCHANGED <<lockFile, incidents>>

(* heartbeat_ts + ttl passes.  A lock that is still empty has its timestamp
   already; it is judged only once it can be read. *)
Expire ==
  /\ MayExpire /\ lockFile # NoLock /\ ~lockFile.expired
  /\ lockFile' = [lockFile EXCEPT !.expired = TRUE]
  /\ UNCHANGED <<pc, attempt, judged, crashes, incidents>>

(* The steps of acquirePawSessionLock after its call *)
AcquireStep(p) ==
  \/ Create(p)
  \/ CreateRefused(p)
  \/ RecreateRefused(p)
  \/ Fill(p)
  \/ FillFails(p)
  \/ Cleanup(p)
  \/ StatusUnlocked(p)
  \/ StatusRefused(p)
  \/ StatusStale(p)
  \/ RemoveStale(p)
  \/ LastStatus(p)

ReleaseStep(p) == ReleaseCheck(p) \/ ReleaseNothing(p) \/ ReleaseUnlink(p)

RefreshStep(p) == RefreshCheck(p) \/ RefreshRename(p)

LockNext ==
  \/ \E p \in Procs : \/ Begin(p)
                      \/ AcquireStep(p)
                      \/ RefreshStep(p)
                      \/ ReleaseStep(p)
                      \/ Crash(p)
  \/ Expire

LockSpec == LockInit /\ [][LockNext]_lockVars

(* Fairness: a live process finishes the calls it has begun (the event loop
   completes its file system calls), releases what it holds, asks for the
   lock again (a caller that was refused runs its command again), and time
   passes. *)
LockFairness ==
  /\ \A p \in Procs : /\ WF_lockVars(Begin(p))
                      /\ WF_lockVars(AcquireStep(p))
                      /\ WF_lockVars(RefreshRename(p))
                      /\ WF_lockVars(ReleaseStep(p))
  /\ WF_lockVars(Expire)

FairLockSpec == LockSpec /\ LockFairness

-----------------------------------------------------------------------------
(* Type invariant. *)
LockTypeOK ==
  /\ lockFile \in Locks \cup {NoLock}
  /\ pc \in [Procs -> Labels]
  /\ attempt \in [Procs -> 0..MaxAttempts]
  /\ judged \in [Procs -> Locks \cup {NoLock}]
  /\ crashes \in 0..MaxCrashes
  /\ incidents \subseteq {"takenAlive", "clobbered"}

(* What SPEC.md 12 promises, "never silent concurrent writes": no two
   processes hold the session at the same time. *)
MutualExclusion == \A p, q \in Procs : Holding(p) /\ Holding(q) => p = q

(* Two processes hold the session only after one of two things happened: a
   live process' lock got too old and was taken over, or an unlink or rename
   hit a file other than the one its process had judged.  Crashes, write
   errors, takeovers from dead processes and contention alone never do it. *)
ExclusiveUnlessRaced == incidents = {} => MutualExclusion

(* A process that is alive and outside every call leaves no lock behind: the
   lock in place is of a dead process or of one that is using it, whatever
   was clobbered. *)
NoOrphanLock ==
  lockFile # NoLock /\ Alive(lockFile.owner)
    => pc[lockFile.owner] \in OwningLabels

(* Every call of acquirePawSessionLock returns or throws. *)
AcquireReturns ==
  \A p \in Procs : pc[p] = "create" ~> pc[p] \in {"idle", "held", "dead"}

(* A readable lock of a dead process, from this or another host, goes away
   as long as somebody asks for the lock ("auto-reclaimed", SPEC.md 9.3). *)
DeadLockReclaimed ==
  (lockFile # NoLock /\ lockFile.written /\ ~Alive(lockFile.owner))
    ~> (lockFile = NoLock \/ Alive(lockFile.owner))
=============================================================================
