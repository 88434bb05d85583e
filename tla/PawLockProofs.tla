---------------------------- MODULE PawLockProofs ---------------------------
(***************************************************************************)
(* Theorems about PawLock for any number of processes and hosts, any loop  *)
(* bound and any number of crashes, with or without heartbeat expiry.      *)
(*                                                                         *)
(* The argument: while nothing was clobbered and no live lock was taken    *)
(* over, the file at session.lock belongs to every process that believes   *)
(* it owns it, so there is at most one; the only unlink that can break     *)
(* this is RemoveStale, and what it judged belonged to a dead process.     *)
(***************************************************************************)
EXTENDS PawLock, TLAPS

(* Only after the acquire loop has its counter reached the bound. *)
AttemptsLeft ==
  \A p \in Procs : pc[p] # "lastStatus" => attempt[p] < MaxAttempts

(* A process that believes it owns the file does. *)
OwnersOwnFile ==
  incidents = {} => \A p \in Procs : pc[p] \in OwningLabels
                                       => lockFile # NoLock /\ lockFile.owner = p

(* What a process is about to remove is a lock it has read, of a dead owner
   unless a live lock was taken over. *)
JudgedIsDead ==
  \A p \in Procs : pc[p] = "remove"
    => /\ judged[p] # NoLock
       /\ incidents = {} => ~Alive(judged[p].owner)

(* An empty file is still being written, or its creator is dead. *)
EmptyIsBeingFilled ==
  lockFile # NoLock /\ ~lockFile.written /\ Alive(lockFile.owner)
    => pc[lockFile.owner] \in {"fill", "cleanup"}

(* The inductive invariant. *)
LInv ==
  /\ LockTypeOK
  /\ AttemptsLeft
  /\ OwnersOwnFile
  /\ JudgedIsDead
  /\ EmptyIsBeingFilled
  /\ NoOrphanLock

(* With no file and every process outside, LInv holds. *)
LEMMA LockInitInv ==
  ASSUME LockInit
  PROVE  LInv
BY LockAssumption DEF LockInit, LInv, LockTypeOK, AttemptsLeft, OwnersOwnFile,
     JudgedIsDead, EmptyIsBeingFilled, NoOrphanLock, Alive, Labels, OwningLabels

(* Every step of the protocol keeps the types; the loop counter stays within
   its bound because NextAttempt leaves the loop at the last attempt. *)
LEMMA PreservesLockTypeOK ==
  ASSUME LInv, LockNext
  PROVE  LockTypeOK'
<1> USE LockAssumption DEF LInv, LockTypeOK, Locks, Goto, LeaveLoop, Labels, AttemptsLeft
<1>1. ASSUME NEW p \in Procs, Begin(p) PROVE LockTypeOK'
  BY <1>1 DEF Begin
<1>2. ASSUME NEW p \in Procs, Create(p) PROVE LockTypeOK'
  BY <1>2 DEF Create
<1>3. ASSUME NEW p \in Procs, CreateRefused(p) PROVE LockTypeOK'
  BY <1>3 DEF CreateRefused
<1>4. ASSUME NEW p \in Procs, RecreateRefused(p) PROVE LockTypeOK'
  BY <1>4 DEF RecreateRefused, NextAttempt
<1>5. ASSUME NEW p \in Procs, Fill(p) PROVE LockTypeOK'
  BY <1>5 DEF Fill
<1>6. ASSUME NEW p \in Procs, FillFails(p) PROVE LockTypeOK'
  BY <1>6 DEF FillFails
<1>7. ASSUME NEW p \in Procs, Cleanup(p) PROVE LockTypeOK'
  BY <1>7 DEF Cleanup, Unlink, NoteClobber
<1>8. ASSUME NEW p \in Procs, StatusUnlocked(p) PROVE LockTypeOK'
  BY <1>8 DEF StatusUnlocked, NextAttempt
<1>9. ASSUME NEW p \in Procs, StatusRefused(p) PROVE LockTypeOK'
  BY <1>9 DEF StatusRefused
<1>10. ASSUME NEW p \in Procs, StatusStale(p) PROVE LockTypeOK'
  BY <1>10 DEF StatusStale, LockStatus, Stale
<1>11. ASSUME NEW p \in Procs, RemoveStale(p) PROVE LockTypeOK'
  BY <1>11 DEF RemoveStale, Unlink, NoteClobber
<1>12. ASSUME NEW p \in Procs, LastStatus(p) PROVE LockTypeOK'
  BY <1>12 DEF LastStatus
<1>13. ASSUME NEW p \in Procs, RefreshCheck(p) PROVE LockTypeOK'
  BY <1>13 DEF RefreshCheck, ReadsOwnLock, LockStatus
<1>14. ASSUME NEW p \in Procs, RefreshRename(p) PROVE LockTypeOK'
  BY <1>14 DEF RefreshRename, NoteClobber
<1>15. ASSUME NEW p \in Procs, ReleaseCheck(p) PROVE LockTypeOK'
  BY <1>15 DEF ReleaseCheck, ReadsOwnLock, LockStatus
<1>16. ASSUME NEW p \in Procs, ReleaseNothing(p) PROVE LockTypeOK'
  BY <1>16 DEF ReleaseNothing, ReadsOwnLock, LockStatus, Stale
<1>17. ASSUME NEW p \in Procs, ReleaseUnlink(p) PROVE LockTypeOK'
  BY <1>17 DEF ReleaseUnlink, Unlink, NoteClobber
<1>18. ASSUME NEW p \in Procs, Crash(p) PROVE LockTypeOK'
  BY <1>18 DEF Crash
<1>19. CASE Expire
  BY <1>19 DEF Expire
<1> QED
  BY <1>1, <1>2, <1>3, <1>4, <1>5, <1>6, <1>7, <1>8, <1>9, <1>10, <1>11, <1>12, <1>13, <1>14, <1>15, <1>16, <1>17, <1>18, <1>19
     DEF LockNext, AcquireStep, RefreshStep, ReleaseStep

(* A process in the loop has an attempt left. *)
LEMMA PreservesAttemptsLeft ==
  ASSUME LInv, LockNext
  PROVE  AttemptsLeft'
<1> USE LockAssumption DEF LInv, LockTypeOK, Locks, Goto, LeaveLoop, AttemptsLeft
<1>1. ASSUME NEW p \in Procs, Begin(p) PROVE AttemptsLeft'
  BY <1>1 DEF Begin
<1>2. ASSUME NEW p \in Procs, Create(p) PROVE AttemptsLeft'
  BY <1>2 DEF Create
<1>3. ASSUME NEW p \in Procs, CreateRefused(p) PROVE AttemptsLeft'
  BY <1>3 DEF CreateRefused
<1>4. ASSUME NEW p \in Procs, RecreateRefused(p) PROVE AttemptsLeft'
  BY <1>4 DEF RecreateRefused, NextAttempt
<1>5. ASSUME NEW p \in Procs, Fill(p) PROVE AttemptsLeft'
  BY <1>5 DEF Fill
<1>6. ASSUME NEW p \in Procs, FillFails(p) PROVE AttemptsLeft'
  BY <1>6 DEF FillFails
<1>7. ASSUME NEW p \in Procs, Cleanup(p) PROVE AttemptsLeft'
  BY <1>7 DEF Cleanup, Unlink, NoteClobber
<1>8. ASSUME NEW p \in Procs, StatusUnlocked(p) PROVE AttemptsLeft'
  BY <1>8 DEF StatusUnlocked, NextAttempt
<1>9. ASSUME NEW p \in Procs, StatusRefused(p) PROVE AttemptsLeft'
  BY <1>9 DEF StatusRefused
<1>10. ASSUME NEW p \in Procs, StatusStale(p) PROVE AttemptsLeft'
  BY <1>10 DEF StatusStale, LockStatus, Stale
<1>11. ASSUME NEW p \in Procs, RemoveStale(p) PROVE AttemptsLeft'
  BY <1>11 DEF RemoveStale, Unlink, NoteClobber
<1>12. ASSUME NEW p \in Procs, LastStatus(p) PROVE AttemptsLeft'
  BY <1>12 DEF LastStatus
<1>13. ASSUME NEW p \in Procs, RefreshCheck(p) PROVE AttemptsLeft'
  BY <1>13 DEF RefreshCheck, ReadsOwnLock, LockStatus
<1>14. ASSUME NEW p \in Procs, RefreshRename(p) PROVE AttemptsLeft'
  BY <1>14 DEF RefreshRename, NoteClobber
<1>15. ASSUME NEW p \in Procs, ReleaseCheck(p) PROVE AttemptsLeft'
  BY <1>15 DEF ReleaseCheck, ReadsOwnLock, LockStatus
<1>16. ASSUME NEW p \in Procs, ReleaseNothing(p) PROVE AttemptsLeft'
  BY <1>16 DEF ReleaseNothing, ReadsOwnLock, LockStatus, Stale
<1>17. ASSUME NEW p \in Procs, ReleaseUnlink(p) PROVE AttemptsLeft'
  BY <1>17 DEF ReleaseUnlink, Unlink, NoteClobber
<1>18. ASSUME NEW p \in Procs, Crash(p) PROVE AttemptsLeft'
  BY <1>18 DEF Crash
<1>19. CASE Expire
  BY <1>19 DEF Expire
<1> QED
  BY <1>1, <1>2, <1>3, <1>4, <1>5, <1>6, <1>7, <1>8, <1>9, <1>10, <1>11, <1>12, <1>13, <1>14, <1>15, <1>16, <1>17, <1>18, <1>19
     DEF LockNext, AcquireStep, RefreshStep, ReleaseStep

(* As long as nothing was raced, a process between open(wx) and its last call
   has its own file at session.lock. *)
LEMMA PreservesOwnersOwnFile ==
  ASSUME LInv, LockNext
  PROVE  OwnersOwnFile'
<1> USE LockAssumption DEF LInv, LockTypeOK, Locks, Goto, LeaveLoop, OwningLabels, Alive, OwnersOwnFile, JudgedIsDead, NoOrphanLock
<1>1. ASSUME NEW p \in Procs, Begin(p) PROVE OwnersOwnFile'
  BY <1>1 DEF Begin
<1>2. ASSUME NEW p \in Procs, Create(p) PROVE OwnersOwnFile'
  <2> SUFFICES ASSUME incidents' = {}, NEW q \in Procs, pc'[q] \in OwningLabels
               PROVE  lockFile' # NoLock /\ lockFile'.owner = q
    BY DEF OwnersOwnFile
  <2>1. /\ lockFile' \in Locks
        /\ lockFile'.owner = p
        /\ incidents = {}
    BY <1>2 DEF Create
  <2>2. q = p
    BY <1>2, <2>1 DEF Create
  <2> QED
    BY <2>1, <2>2
<1>3. ASSUME NEW p \in Procs, CreateRefused(p) PROVE OwnersOwnFile'
  BY <1>3 DEF CreateRefused
<1>4. ASSUME NEW p \in Procs, RecreateRefused(p) PROVE OwnersOwnFile'
  BY <1>4 DEF RecreateRefused, NextAttempt
<1>5. ASSUME NEW p \in Procs, Fill(p) PROVE OwnersOwnFile'
  <2> SUFFICES ASSUME incidents' = {}, NEW q \in Procs, pc'[q] \in OwningLabels
               PROVE  lockFile' # NoLock /\ lockFile'.owner = q
    BY DEF OwnersOwnFile
  <2>1. pc[q] \in OwningLabels /\ incidents = {}
    BY <1>5 DEF Fill
  <2>2. lockFile \in Locks /\ lockFile.owner = q
    BY <2>1
  <2>3. lockFile' \in Locks /\ lockFile'.owner = lockFile.owner
    BY <1>5, <2>2 DEF Fill
  <2> QED
    BY <2>2, <2>3
<1>6. ASSUME NEW p \in Procs, FillFails(p) PROVE OwnersOwnFile'
  BY <1>6 DEF FillFails
<1>7. ASSUME NEW p \in Procs, Cleanup(p) PROVE OwnersOwnFile'
  BY <1>7 DEF Cleanup, Unlink, NoteClobber
<1>8. ASSUME NEW p \in Procs, StatusUnlocked(p) PROVE OwnersOwnFile'
  BY <1>8 DEF StatusUnlocked, NextAttempt
<1>9. ASSUME NEW p \in Procs, StatusRefused(p) PROVE OwnersOwnFile'
  BY <1>9 DEF StatusRefused
<1>10. ASSUME NEW p \in Procs, StatusStale(p) PROVE OwnersOwnFile'
  BY <1>10 DEF StatusStale, LockStatus, Stale
<1>11. ASSUME NEW p \in Procs, RemoveStale(p) PROVE OwnersOwnFile'
  BY <1>11 DEF RemoveStale, Unlink, NoteClobber
<1>12. ASSUME NEW p \in Procs, LastStatus(p) PROVE OwnersOwnFile'
  BY <1>12 DEF LastStatus
<1>13. ASSUME NEW p \in Procs, RefreshCheck(p) PROVE OwnersOwnFile'
  BY <1>13 DEF RefreshCheck, ReadsOwnLock, LockStatus
<1>14. ASSUME NEW p \in Procs, RefreshRename(p) PROVE OwnersOwnFile'
  <2> SUFFICES ASSUME incidents' = {}, NEW q \in Procs, pc'[q] \in OwningLabels
               PROVE  lockFile' # NoLock /\ lockFile'.owner = q
    BY DEF OwnersOwnFile
  <2>1. /\ lockFile' \in Locks
        /\ lockFile'.owner = p
        /\ incidents = {}
    BY <1>14 DEF RefreshRename, NoteClobber
  <2>2. q = p
    BY <1>14, <2>1 DEF RefreshRename, NoteClobber
  <2> QED
    BY <2>1, <2>2
<1>15. ASSUME NEW p \in Procs, ReleaseCheck(p) PROVE OwnersOwnFile'
  BY <1>15 DEF ReleaseCheck, ReadsOwnLock, LockStatus
<1>16. ASSUME NEW p \in Procs, ReleaseNothing(p) PROVE OwnersOwnFile'
  BY <1>16 DEF ReleaseNothing, ReadsOwnLock, LockStatus, Stale
<1>17. ASSUME NEW p \in Procs, ReleaseUnlink(p) PROVE OwnersOwnFile'
  BY <1>17 DEF ReleaseUnlink, Unlink, NoteClobber
<1>18. ASSUME NEW p \in Procs, Crash(p) PROVE OwnersOwnFile'
  BY <1>18 DEF Crash
<1>19. CASE Expire
  BY <1>19 DEF Expire
<1> QED
  BY <1>1, <1>2, <1>3, <1>4, <1>5, <1>6, <1>7, <1>8, <1>9, <1>10, <1>11, <1>12, <1>13, <1>14, <1>15, <1>16, <1>17, <1>18, <1>19
     DEF LockNext, AcquireStep, RefreshStep, ReleaseStep

(* As long as nothing was raced, only locks of dead processes are judged
   stale. *)
LEMMA PreservesJudgedIsDead ==
  ASSUME LInv, LockNext
  PROVE  JudgedIsDead'
<1> USE LockAssumption DEF LInv, LockTypeOK, Locks, Goto, LeaveLoop, Alive, JudgedIsDead
<1>1. ASSUME NEW p \in Procs, Begin(p) PROVE JudgedIsDead'
  BY <1>1 DEF Begin
<1>2. ASSUME NEW p \in Procs, Create(p) PROVE JudgedIsDead'
  BY <1>2 DEF Create
<1>3. ASSUME NEW p \in Procs, CreateRefused(p) PROVE JudgedIsDead'
  BY <1>3 DEF CreateRefused
<1>4. ASSUME NEW p \in Procs, RecreateRefused(p) PROVE JudgedIsDead'
  BY <1>4 DEF RecreateRefused, NextAttempt
<1>5. ASSUME NEW p \in Procs, Fill(p) PROVE JudgedIsDead'
  BY <1>5 DEF Fill
<1>6. ASSUME NEW p \in Procs, FillFails(p) PROVE JudgedIsDead'
  BY <1>6 DEF FillFails
<1>7. ASSUME NEW p \in Procs, Cleanup(p) PROVE JudgedIsDead'
  BY <1>7 DEF Cleanup, Unlink, NoteClobber
<1>8. ASSUME NEW p \in Procs, StatusUnlocked(p) PROVE JudgedIsDead'
  BY <1>8 DEF StatusUnlocked, NextAttempt
<1>9. ASSUME NEW p \in Procs, StatusRefused(p) PROVE JudgedIsDead'
  BY <1>9 DEF StatusRefused
<1>10. ASSUME NEW p \in Procs, StatusStale(p) PROVE JudgedIsDead'
  BY <1>10 DEF StatusStale, LockStatus, Stale
<1>11. ASSUME NEW p \in Procs, RemoveStale(p) PROVE JudgedIsDead'
  BY <1>11 DEF RemoveStale, Unlink, NoteClobber
<1>12. ASSUME NEW p \in Procs, LastStatus(p) PROVE JudgedIsDead'
  BY <1>12 DEF LastStatus
<1>13. ASSUME NEW p \in Procs, RefreshCheck(p) PROVE JudgedIsDead'
  BY <1>13 DEF RefreshCheck, ReadsOwnLock, LockStatus
<1>14. ASSUME NEW p \in Procs, RefreshRename(p) PROVE JudgedIsDead'
  BY <1>14 DEF RefreshRename, NoteClobber
<1>15. ASSUME NEW p \in Procs, ReleaseCheck(p) PROVE JudgedIsDead'
  BY <1>15 DEF ReleaseCheck, ReadsOwnLock, LockStatus
<1>16. ASSUME NEW p \in Procs, ReleaseNothing(p) PROVE JudgedIsDead'
  BY <1>16 DEF ReleaseNothing, ReadsOwnLock, LockStatus, Stale
<1>17. ASSUME NEW p \in Procs, ReleaseUnlink(p) PROVE JudgedIsDead'
  BY <1>17 DEF ReleaseUnlink, Unlink, NoteClobber
<1>18. ASSUME NEW p \in Procs, Crash(p) PROVE JudgedIsDead'
  BY <1>18 DEF Crash
<1>19. CASE Expire
  BY <1>19 DEF Expire
<1> QED
  BY <1>1, <1>2, <1>3, <1>4, <1>5, <1>6, <1>7, <1>8, <1>9, <1>10, <1>11, <1>12, <1>13, <1>14, <1>15, <1>16, <1>17, <1>18, <1>19
     DEF LockNext, AcquireStep, RefreshStep, ReleaseStep

(* An empty lock of a live process is still being filled or cleaned up. *)
LEMMA PreservesEmptyIsBeingFilled ==
  ASSUME LInv, LockNext
  PROVE  EmptyIsBeingFilled'
<1> USE LockAssumption DEF LInv, LockTypeOK, Locks, Goto, LeaveLoop, Alive, EmptyIsBeingFilled
<1>1. ASSUME NEW p \in Procs, Begin(p) PROVE EmptyIsBeingFilled'
  BY <1>1 DEF Begin
<1>2. ASSUME NEW p \in Procs, Create(p) PROVE EmptyIsBeingFilled'
  BY <1>2 DEF Create
<1>3. ASSUME NEW p \in Procs, CreateRefused(p) PROVE EmptyIsBeingFilled'
  BY <1>3 DEF CreateRefused
<1>4. ASSUME NEW p \in Procs, RecreateRefused(p) PROVE EmptyIsBeingFilled'
  BY <1>4 DEF RecreateRefused, NextAttempt
<1>5. ASSUME NEW p \in Procs, Fill(p) PROVE EmptyIsBeingFilled'
  BY <1>5 DEF Fill
<1>6. ASSUME NEW p \in Procs, FillFails(p) PROVE EmptyIsBeingFilled'
  BY <1>6 DEF FillFails
<1>7. ASSUME NEW p \in Procs, Cleanup(p) PROVE EmptyIsBeingFilled'
  BY <1>7 DEF Cleanup, Unlink, NoteClobber
<1>8. ASSUME NEW p \in Procs, StatusUnlocked(p) PROVE EmptyIsBeingFilled'
  BY <1>8 DEF StatusUnlocked, NextAttempt
<1>9. ASSUME NEW p \in Procs, StatusRefused(p) PROVE EmptyIsBeingFilled'
  BY <1>9 DEF StatusRefused
<1>10. ASSUME NEW p \in Procs, StatusStale(p) PROVE EmptyIsBeingFilled'
  BY <1>10 DEF StatusStale, LockStatus, Stale
<1>11. ASSUME NEW p \in Procs, RemoveStale(p) PROVE EmptyIsBeingFilled'
  BY <1>11 DEF RemoveStale, Unlink, NoteClobber
<1>12. ASSUME NEW p \in Procs, LastStatus(p) PROVE EmptyIsBeingFilled'
  BY <1>12 DEF LastStatus
<1>13. ASSUME NEW p \in Procs, RefreshCheck(p) PROVE EmptyIsBeingFilled'
  BY <1>13 DEF RefreshCheck, ReadsOwnLock, LockStatus
<1>14. ASSUME NEW p \in Procs, RefreshRename(p) PROVE EmptyIsBeingFilled'
  BY <1>14 DEF RefreshRename, NoteClobber
<1>15. ASSUME NEW p \in Procs, ReleaseCheck(p) PROVE EmptyIsBeingFilled'
  BY <1>15 DEF ReleaseCheck, ReadsOwnLock, LockStatus
<1>16. ASSUME NEW p \in Procs, ReleaseNothing(p) PROVE EmptyIsBeingFilled'
  BY <1>16 DEF ReleaseNothing, ReadsOwnLock, LockStatus, Stale
<1>17. ASSUME NEW p \in Procs, ReleaseUnlink(p) PROVE EmptyIsBeingFilled'
  BY <1>17 DEF ReleaseUnlink, Unlink, NoteClobber
<1>18. ASSUME NEW p \in Procs, Crash(p) PROVE EmptyIsBeingFilled'
  BY <1>18 DEF Crash
<1>19. CASE Expire
  BY <1>19 DEF Expire
<1> QED
  BY <1>1, <1>2, <1>3, <1>4, <1>5, <1>6, <1>7, <1>8, <1>9, <1>10, <1>11, <1>12, <1>13, <1>14, <1>15, <1>16, <1>17, <1>18, <1>19
     DEF LockNext, AcquireStep, RefreshStep, ReleaseStep

(* No step leaves a live process outside its calls with a lock file. *)
LEMMA PreservesNoOrphanLock ==
  ASSUME LInv, LockNext
  PROVE  NoOrphanLock'
<1> USE LockAssumption DEF LInv, LockTypeOK, Locks, Goto, LeaveLoop, OwningLabels, Alive, NoOrphanLock, EmptyIsBeingFilled
<1>1. ASSUME NEW p \in Procs, Begin(p) PROVE NoOrphanLock'
  BY <1>1 DEF Begin
<1>2. ASSUME NEW p \in Procs, Create(p) PROVE NoOrphanLock'
  BY <1>2 DEF Create
<1>3. ASSUME NEW p \in Procs, CreateRefused(p) PROVE NoOrphanLock'
  BY <1>3 DEF CreateRefused
<1>4. ASSUME NEW p \in Procs, RecreateRefused(p) PROVE NoOrphanLock'
  BY <1>4 DEF RecreateRefused, NextAttempt
<1>5. ASSUME NEW p \in Procs, Fill(p) PROVE NoOrphanLock'
  BY <1>5 DEF Fill
<1>6. ASSUME NEW p \in Procs, FillFails(p) PROVE NoOrphanLock'
  BY <1>6 DEF FillFails
<1>7. ASSUME NEW p \in Procs, Cleanup(p) PROVE NoOrphanLock'
  BY <1>7 DEF Cleanup, Unlink, NoteClobber
<1>8. ASSUME NEW p \in Procs, StatusUnlocked(p) PROVE NoOrphanLock'
  BY <1>8 DEF StatusUnlocked, NextAttempt
<1>9. ASSUME NEW p \in Procs, StatusRefused(p) PROVE NoOrphanLock'
  BY <1>9 DEF StatusRefused
<1>10. ASSUME NEW p \in Procs, StatusStale(p) PROVE NoOrphanLock'
  BY <1>10 DEF StatusStale, LockStatus, Stale
<1>11. ASSUME NEW p \in Procs, RemoveStale(p) PROVE NoOrphanLock'
  BY <1>11 DEF RemoveStale, Unlink, NoteClobber
<1>12. ASSUME NEW p \in Procs, LastStatus(p) PROVE NoOrphanLock'
  BY <1>12 DEF LastStatus
<1>13. ASSUME NEW p \in Procs, RefreshCheck(p) PROVE NoOrphanLock'
  BY <1>13 DEF RefreshCheck, ReadsOwnLock, LockStatus
<1>14. ASSUME NEW p \in Procs, RefreshRename(p) PROVE NoOrphanLock'
  BY <1>14 DEF RefreshRename, NoteClobber
<1>15. ASSUME NEW p \in Procs, ReleaseCheck(p) PROVE NoOrphanLock'
  BY <1>15 DEF ReleaseCheck, ReadsOwnLock, LockStatus
<1>16. ASSUME NEW p \in Procs, ReleaseNothing(p) PROVE NoOrphanLock'
  BY <1>16 DEF ReleaseNothing, ReadsOwnLock, LockStatus, Stale
<1>17. ASSUME NEW p \in Procs, ReleaseUnlink(p) PROVE NoOrphanLock'
  BY <1>17 DEF ReleaseUnlink, Unlink, NoteClobber
<1>18. ASSUME NEW p \in Procs, Crash(p) PROVE NoOrphanLock'
  BY <1>18 DEF Crash
<1>19. CASE Expire
  BY <1>19 DEF Expire
<1> QED
  BY <1>1, <1>2, <1>3, <1>4, <1>5, <1>6, <1>7, <1>8, <1>9, <1>10, <1>11, <1>12, <1>13, <1>14, <1>15, <1>16, <1>17, <1>18, <1>19
     DEF LockNext, AcquireStep, RefreshStep, ReleaseStep

(* LInv is inductive. *)
LEMMA LockNextPreservesLInv ==
  ASSUME LInv, [LockNext]_lockVars
  PROVE  LInv'
<1>1. CASE LockNext
  BY <1>1, PreservesLockTypeOK, PreservesAttemptsLeft, PreservesOwnersOwnFile,
     PreservesJudgedIsDead, PreservesEmptyIsBeingFilled, PreservesNoOrphanLock
     DEF LInv
<1>2. CASE UNCHANGED lockVars
  BY <1>2 DEF lockVars, LInv, LockTypeOK, AttemptsLeft, OwnersOwnFile,
       JudgedIsDead, EmptyIsBeingFilled, NoOrphanLock, Alive
<1> QED
  BY <1>1, <1>2

(* Every behaviour of the lock protocol satisfies LInv. *)
THEOREM LockInductive == LockSpec => []LInv
<1>1. LockInit => LInv
  BY LockInitInv
<1>2. LInv /\ [LockNext]_lockVars => LInv'
  BY LockNextPreservesLInv
<1> QED
  BY <1>1, <1>2, PTL DEF LockSpec

(* The variables of the protocol always have their types. *)
THEOREM LockTypeCorrect == LockSpec => []LockTypeOK
<1>1. LInv => LockTypeOK
  BY DEF LInv
<1> QED
  BY <1>1, LockInductive, PTL

(* At most one process holds the session unless a live process' expired lock
   was taken over or an unlink hit a file other than the one judged. *)
THEOREM LockExclusive == LockSpec => []ExclusiveUnlessRaced
<1>1. LInv => ExclusiveUnlessRaced
  BY DEF LInv, OwnersOwnFile, ExclusiveUnlessRaced, MutualExclusion, Holding, OwningLabels
<1> QED
  BY <1>1, LockInductive, PTL

(* No live process outside its calls leaves a lock file behind. *)
THEOREM LockNotOrphaned == LockSpec => []NoOrphanLock
<1>1. LInv => NoOrphanLock
  BY DEF LInv
<1> QED
  BY <1>1, LockInductive, PTL
=============================================================================
