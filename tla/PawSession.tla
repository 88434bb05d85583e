----------------------------- MODULE PawSession -----------------------------
(***************************************************************************)
(* The commands of a session on its files: PawLock's lock, state.json,     *)
(* slice-journal.jsonl, report.json and verification-evidence.json.  What  *)
(* a worker's pass does to the working tree is in PawWorkspace.            *)
(*                                                                         *)
(* Every command takes the lock, most of them check again that they hold   *)
(* it, read state.json, compute the next record, write what belongs before *)
(* it (patches, journal, report), write state.json, write what belongs     *)
(* after it (evidence), and release the lock.  Each of these is a step of  *)
(* its own; a process may die between any two.  PawState has each command  *)
(* as one atomic step: AtomicUnlessRaced says when that is what the        *)
(* commands do.                                                            *)
(***************************************************************************)
EXTENDS PawState, PawLock

CONSTANTS
  WorkerChanges,  \* whether a worker's output lists changed files: a subset
                  \* of BOOLEAN
  NoJob           \* a process has computed nothing to write

ASSUME SessionAssumption ==
  /\ WorkerChanges \subseteq BOOLEAN /\ WorkerChanges # {}
  /\ Plans # {}

VARIABLES
  created,     \* state.json exists
  cmd,         \* the command each process runs
  step,        \* where it is in the command while it holds the lock
  job,         \* what it has computed after reading: see Jobs
  journal,     \* the slices slice-journal.jsonl has entries of
  reports,     \* for every time report.json was written, the slices approved
               \* by then; empty while there is no report.json
  evidence,    \* the slice verification-evidence.json is about, or NoSlice
  reported     \* history: slices with a recorded pass that changed files

fileVars == <<created, journal, reports, evidence, reported>>

sessionVars == <<vars, lockVars, cmd, step, job, fileVars>>

(* start; move: the commands that write nothing but state.json (approve-plan,
   select-slice, begin-implementation, the reviewer's pass, the blocked-result
   recorders); worker: completePawWorkerPass; verify: paw verify; complete:
   paw complete-verification, with decisions from a file; finalize:
   emitPawFinalReport; user: approve, reject, retry. *)
Commands == {"start", "move", "worker", "verify", "complete", "finalize", "user"}

(* start and approve, reject, retry trust the lock they have just taken. *)
RecheckingCommands == Commands \ {"start", "user"}

Steps == {"none", "check", "read", "patch", "journal", "report", "write",
          "evidence", "done"}

(* next: the record to write; slice: the slice it was about; changed: the
   worker's output lists changed files; native: a verification ran its gates. *)
Jobs == [next : SessionStates, slice : SliceIds \cup {NoSlice},
         changed : BOOLEAN, native : BOOLEAN]

SessionInit ==
  /\ Init
  /\ LockInit
  /\ created = FALSE
  /\ cmd = [p \in Procs |-> "none"]
  /\ step = [p \in Procs |-> "none"]
  /\ job = [p \in Procs |-> NoJob]
  /\ journal = {}
  /\ reports = {}
  /\ evidence = NoSlice
  /\ reported = {}

-----------------------------------------------------------------------------
(* The records transitionPawSessionState returns for active targets. *)
ActiveResults(s, targets, plans) ==
  {TransitionValue(s, t) :
     t \in {t \in [to : targets, slice_ids : plans, reason : {NoReason}] :
              TransitionOk(s, t)}}

(* createPawPlanSliceQueue: a plan is a non-empty list of distinct slices *)
QueuePlans == {ids \in Plans : ids # <<>> /\ NoDuplicates(ids)}

(* startPawTaskSession, which leaves an existing session alone *)
StartResults ==
  {n \in ActiveResults(InitialSessionState, {"INTAKE"}, {<<>>}) : ~created}

(* advancePawTaskSession up to the drafted plan.  No command of paw makes these
   moves: they are left to the callers of the exported function. *)
PlanningResults(s) == ActiveResults(s, PlanningNames, {<<>>})

(* approvePawPlanSlices *)
PlanApprovalResults(s) == ActiveResults(s, {"PLAN_APPROVED"}, QueuePlans)

(* selectNextPawPlanSlice *)
SliceSelectionResults(s) == ActiveResults(s, {"SLICE_SELECT"}, {<<>>})

(* beginPawSliceImplementation *)
SliceImplementationResults(s) == ActiveResults(s, {"IMPLEMENTING"}, {<<>>})

(* completePawWorkerPass *)
WorkerPassResults(s) ==
  {n \in ActiveResults(s, {"REVIEWING"}, {<<>>}) : s.name = "IMPLEMENTING"}

(* completePawReviewerPass *)
ReviewerPassResults(s) ==
  {n \in ActiveResults(s, {"VERIFYING"}, {<<>>}) : s.name = "REVIEWING"}

(* completePawVerification *)
VerificationResults(s) ==
  {n \in ActiveResults(s, {"SLICE_DONE"}, {<<>>}) : s.name = "VERIFYING"}

(* Mutant: the report is emitted before the transition's guards are asked. *)
MutReportAnyTime(s) == {n \in {[s EXCEPT !.name = "FINAL_REPORT"]} : s.name = "SLICE_DONE"}

(* emitPawFinalReport *)
FinalReportResults(s) ==
  {n \in ActiveResults(s, {"FINAL_REPORT"}, {<<>>}) :
     s.name = "SLICE_DONE" /\ s.pending_slice_ids = <<>>}

(* What the three blocked-result recorders have in common: the reason is about
   the current slice. *)
StageBlockedResults(s, stage) ==
  LET reason(c) == [code |-> c, filled |-> TRUE, slice_id |-> s.current_slice_id]
      ts == {[to |-> BlockedStateOf[c], slice_ids |-> <<>>, reason |-> reason(c)] :
               c \in BlockedCodes}
  IN  {TransitionValue(s, t) : t \in {t \in ts : s.name = stage /\ TransitionOk(s, t)}}

WorkerBlockedResults(s) == StageBlockedResults(s, "IMPLEMENTING")

ReviewerBlockedResults(s) == StageBlockedResults(s, "REVIEWING")

VerifierBlockedResults(s) == StageBlockedResults(s, "VERIFYING")

ApproveResults(s) ==
  {ResumeValue(s, n) : n \in {ApproveTarget(s)} \ {s.name}}

RejectResults(s) ==
  {TransitionValue(s, t) :
     t \in {t \in {RejectTransition(s, TRUE)} :
              ~IsBlocked(s.name) /\ TransitionOk(s, t)}}

RetryResults(s) ==
  {ResumeValue(s, r.resume_state) : r \in {s.blocked_reason} \ {NoReason}}

(* The records a command may go on to write after reading s. *)
Results(c, s) ==
  CASE c = "start" -> StartResults
    [] c = "move" -> UNION {PlanningResults(s), PlanApprovalResults(s),
                            SliceSelectionResults(s),
                            SliceImplementationResults(s), ReviewerPassResults(s),
                            WorkerBlockedResults(s), ReviewerBlockedResults(s),
                            VerifierBlockedResults(s)}
    [] c = "worker" -> WorkerPassResults(s)
    [] c \in {"verify", "complete"} -> VerificationResults(s)
    [] c = "finalize" -> FinalReportResults(s)
    [] c = "user" -> ApproveResults(s) \cup RejectResults(s) \cup RetryResults(s)

(* Mutants: the worker's pass is not journalled, and the evidence is written
   before state.json. *)
MutNoJournal(c) == CASE c = "finalize" -> "report" [] OTHER -> "write"

MutEvidenceFirst(c) ==
  CASE c = "worker" -> "patch" [] c = "finalize" -> "report"
    [] c = "verify" -> "evidence" [] OTHER -> "write"

(* What a command does first with the record it has computed. *)
StepAfterRead(c) ==
  CASE c = "worker" -> "patch" [] c = "finalize" -> "report" [] OTHER -> "write"

-----------------------------------------------------------------------------
Step(p, s) == step' = [step EXCEPT ![p] = s]

EndCommand(p) ==
  /\ Step(p, "none")
  /\ cmd' = [cmd EXCEPT ![p] = "none"]
  /\ job' = [job EXCEPT ![p] = NoJob]

(* A command begins by asking for the lock.  Which command it is makes no
   difference until the lock is held, so Dispatch chooses it then; commands
   other than start have seen that state.json exists, which never goes away. *)
Call(p) == Begin(p) /\ UNCHANGED <<vars, cmd, step, job, fileVars>>

Lock(p) == AcquireStep(p) /\ UNCHANGED <<vars, cmd, step, job, fileVars>>

Dispatch(p, c) ==
  /\ pc[p] = "held" /\ step[p] = "none"
  /\ c # "start" => created
  /\ cmd' = [cmd EXCEPT ![p] = c]
  /\ Step(p, IF c \in RecheckingCommands THEN "check" ELSE "read")
  /\ UNCHANGED <<vars, lockVars, job, fileVars>>

(* getPawSessionLockStatus and the ownership test of the recorders *)
CheckLock(p) ==
  /\ pc[p] = "held" /\ step[p] = "check"
  /\ Step(p, IF LockStatus(p) = "locked" /\ lockFile.owner = p
             THEN "read" ELSE "done")
  /\ UNCHANGED <<vars, lockVars, cmd, job, fileVars>>

(* readPawSessionState and the computation of the next record *)
ReadState(p) ==
  /\ pc[p] = "held" /\ step[p] = "read"
  /\ \E n \in Results(cmd[p], state), changed, native \in BOOLEAN :
       /\ IF cmd[p] = "worker" THEN changed \in WorkerChanges ELSE ~changed
       /\ cmd[p] # "verify" => native
       /\ job' = [job EXCEPT ![p] = [next |-> n, slice |-> state.current_slice_id,
                                     changed |-> changed, native |-> native]]
  /\ Step(p, StepAfterRead(cmd[p]))
  /\ UNCHANGED <<vars, lockVars, cmd, fileVars>>

(* The command returns without writing: the session exists already, the state
   read does not allow it, or its input (a sub-agent's output, a plan, a
   decision) is refused.  Only a start of a new session always goes on. *)
ReadRefused(p) ==
  /\ pc[p] = "held" /\ step[p] = "read"
  /\ cmd[p] = "start" => created
  /\ Step(p, "done")
  /\ UNCHANGED <<vars, lockVars, cmd, job, fileVars>>

(* applyPawWorkerOutputPatches has written what it could. *)
ApplyPatches(p) ==
  /\ pc[p] = "held" /\ step[p] = "patch"
  /\ Step(p, "journal")
  /\ UNCHANGED <<vars, lockVars, cmd, job, fileVars>>

(* One of the files is refused: the pass returns invalid_worker_output. *)
PatchRefused(p) ==
  /\ pc[p] = "held" /\ step[p] = "patch"
  /\ job[p].changed
  /\ Step(p, "done")
  /\ job' = [job EXCEPT ![p] = NoJob]
  /\ UNCHANGED <<vars, lockVars, cmd, fileVars>>

(* appendPawSliceJournalEntry for each changed file *)
AppendJournal(p) ==
  /\ pc[p] = "held" /\ step[p] = "journal"
  /\ journal' = IF job[p].changed THEN journal \cup {job[p].slice} ELSE journal
  /\ Step(p, "write")
  /\ UNCHANGED <<vars, lockVars, cmd, job, created, reports, evidence, reported>>

(* summary.md and report.json *)
WriteReport(p) ==
  /\ pc[p] = "held" /\ step[p] = "report"
  /\ reports' = reports \cup {approved}
  /\ Step(p, "write")
  /\ UNCHANGED <<vars, lockVars, cmd, job, created, journal, evidence, reported>>

(* writePawSessionState: the record computed from what was read then. *)
WriteJob(p) ==
  /\ pc[p] = "held" /\ step[p] = "write"
  /\ WriteState(job[p].next)
  /\ created' = TRUE
  /\ reported' = IF job[p].changed THEN reported \cup {job[p].slice} ELSE reported
  /\ IF cmd[p] = "verify"
     THEN Step(p, "evidence") /\ UNCHANGED job
     ELSE Step(p, "done") /\ job' = [job EXCEPT ![p] = NoJob]
  /\ UNCHANGED <<lockVars, cmd, journal, reports, evidence>>

(* writePawVerificationEvidence: the results of the gates that were run, an
   empty list when none was *)
WriteEvidence(p) ==
  /\ pc[p] = "held" /\ step[p] = "evidence"
  /\ evidence' = IF job[p].native THEN job[p].slice ELSE NoSlice
  /\ Step(p, "done")
  /\ job' = [job EXCEPT ![p] = NoJob]
  /\ UNCHANGED <<vars, lockVars, cmd, created, journal, reports, reported>>

Unlock(p) ==
  /\ step[p] = "done"
  /\ ReleaseStep(p)
  /\ IF pc'[p] = "idle" THEN EndCommand(p) ELSE UNCHANGED <<cmd, step, job>>
  /\ UNCHANGED <<vars, fileVars>>

Die(p) ==
  /\ Crash(p)
  /\ EndCommand(p)
  /\ UNCHANGED <<vars, fileVars>>

Work(p) ==
  \/ \E c \in Commands : Dispatch(p, c)
  \/ CheckLock(p)
  \/ ReadState(p)
  \/ ReadRefused(p)
  \/ ApplyPatches(p)
  \/ PatchRefused(p)
  \/ AppendJournal(p)
  \/ WriteReport(p)
  \/ WriteJob(p)
  \/ WriteEvidence(p)

SessionNext ==
  \/ \E p \in Procs : \/ Call(p)
                      \/ Lock(p)
                      \/ Work(p)
                      \/ Unlock(p)
                      \/ Die(p)
  \/ Expire /\ UNCHANGED <<vars, cmd, step, job, fileVars>>

SessionSpec == SessionInit /\ [][SessionNext]_sessionVars

-----------------------------------------------------------------------------
(* Type invariant. *)
SessionTypeOK ==
  /\ TypeOK
  /\ LockTypeOK
  /\ created \in BOOLEAN
  /\ cmd \in [Procs -> Commands \cup {"none"}]
  /\ step \in [Procs -> Steps]
  /\ job \in [Procs -> Jobs \cup {NoJob}]
  /\ journal \subseteq SliceIds
  /\ reports \subseteq Seq(SliceIds)
  /\ evidence \in SliceIds \cup {NoSlice}
  /\ reported \subseteq SliceIds

(* The commands, crashes between their steps included, do to state.json what
   PawState's atomic steps do: as long as no live lock was taken over and no two
   processes reclaimed one at once, nothing is written that was computed from a
   state that is no longer there. *)
AtomicUnlessRaced == [][incidents = {} => [Next]_vars]_sessionVars

(* A recorded worker pass that changed files has its journal entries, and the
   slice of a recorded pass is the one in review or later: whatever died between
   the steps, completePawWorkerPass appends before it writes state.json. *)
JournalBeforeReview ==
  /\ reported \subseteq journal
  /\ incidents = {} =>
       reported \subseteq Range(state.completed_slice_ids) \cup {state.current_slice_id}

(* A report is written only of a finished task: every slice approved by then is
   completed, also when the command that wrote it died before state.json
   followed (then finalize can be run again), and stays so when a second plan
   is taken up in the session. *)
ReportOnlyWhenAllDone ==
  incidents = {} => \A done \in reports :
    /\ done # <<>>
    /\ Len(done) <= Len(state.completed_slice_ids)
    /\ \A k \in 1..Len(done) : done[k] = state.completed_slice_ids[k]

(* The evidence file is never ahead of state.json: it is about a completed
   slice.  (It may lag behind: a verify that dies before its last write leaves
   the evidence of an earlier slice.) *)
EvidenceNotAhead ==
  evidence # NoSlice /\ incidents = {}
    => evidence \in Range(state.completed_slice_ids)
=============================================================================
