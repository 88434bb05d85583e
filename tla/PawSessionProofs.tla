-------------------------- MODULE PawSessionProofs --------------------------
(***************************************************************************)
(* Theorems about PawSession for any number of processes and hosts, every  *)
(* set of slices and plans, with expiring locks and crashes between any    *)
(* two steps.                                                              *)
(*                                                                         *)
(* The lock protocol is PawLock's, so PawLockProofs' invariant holds: until*)
(* a race only one process is between its read of state.json and its last  *)
(* write.  What it computed is therefore still a result of the state it    *)
(* writes over, which makes the write a step of PawState.                  *)
(***************************************************************************)
EXTENDS PawSession, PawStateProofs, PawLockProofs

(* The steps of a command that has computed what to write. *)
JobSteps == {"patch", "journal", "report", "write", "evidence"}

(* A process is in the middle of a command only while it holds the lock. *)
WorkUnderLock ==
  \A p \in Procs : /\ step[p] \notin {"none", "done"} => pc[p] = "held"
                   /\ step[p] = "done" => pc[p] \in {"held", "unlink"}

(* Which command takes which step, and on what. *)
JobsMatchSteps ==
  \A p \in Procs :
    /\ step[p] # "none" => cmd[p] \in Commands
    /\ step[p] \in JobSteps => job[p] \in Jobs
    /\ step[p] \in {"patch", "journal"} => cmd[p] = "worker"
    /\ step[p] = "report" => cmd[p] = "finalize"
    /\ step[p] = "evidence" => cmd[p] = "verify"
    /\ step[p] \in JobSteps /\ job[p].changed
         => /\ cmd[p] = "worker" /\ job[p].slice \in SliceIds
            /\ step[p] = "write" => job[p].slice \in journal

(* What a process has computed is still what the command makes of the state. *)
JobsAreCurrent ==
  \A p \in Procs :
    /\ step[p] \in JobSteps \ {"evidence"}
         => /\ job[p].next \in Results(cmd[p], state)
            /\ job[p].slice = state.current_slice_id
    /\ step[p] = "evidence" => job[p].slice \in Range(state.completed_slice_ids)

(* Until state.json exists the session is the initial one. *)
NotCreatedIsInitial == ~created => state = InitialSessionState

(* A finished slice is completed. *)
DoneIsNonempty ==
  ActiveName(state) \in {"SLICE_DONE", "FINAL_REPORT"} => state.completed_slice_ids # <<>>

(* Until there was a race. *)
Unraced ==
  /\ IInv
  /\ JobsAreCurrent
  /\ NotCreatedIsInitial
  /\ DoneIsNonempty
  /\ reported \subseteq Range(state.completed_slice_ids) \cup {state.current_slice_id}
  /\ ReportOnlyWhenAllDone
  /\ EvidenceNotAhead

(* The inductive invariant. *)
SInv ==
  /\ SessionTypeOK
  /\ StateIsValid
  /\ LInv
  /\ WorkUnderLock
  /\ JobsMatchSteps
  /\ reported \subseteq journal
  /\ incidents = {} => Unraced

-----------------------------------------------------------------------------
(* The lock. *)

(* What a process does to the lock is a step of PawLock, and a race is noted for
   good. *)
LEMMA SessionStepsLock ==
  ASSUME [SessionNext]_sessionVars
  PROVE  [LockNext]_lockVars
<1>1. CASE \E p \in Procs : Work(p)
  BY <1>1 DEF Work, Dispatch, CheckLock, ReadState, ReadRefused, ApplyPatches,
       PatchRefused, AppendJournal, WriteReport, WriteJob, WriteEvidence
<1>2. CASE \E p \in Procs : Call(p) \/ Lock(p) \/ Unlock(p) \/ Die(p)
  BY <1>2 DEF Call, Lock, Unlock, Die, LockNext
<1>3. CASE Expire
  BY <1>3 DEF LockNext
<1>4. CASE UNCHANGED sessionVars
  BY <1>4 DEF sessionVars
<1> QED
  BY <1>1, <1>2, <1>3, <1>4 DEF SessionNext

LEMMA IncidentsGrow ==
  ASSUME [LockNext]_lockVars
  PROVE  incidents \subseteq incidents'
<1> USE DEF NoteClobber, Unlink
<1>1. ASSUME NEW p \in Procs, AcquireStep(p)
      PROVE  incidents \subseteq incidents'
  BY <1>1 DEF AcquireStep, Create, CreateRefused, RecreateRefused, Fill, FillFails,
       Cleanup, StatusUnlocked, StatusRefused, StatusStale, RemoveStale, LastStatus
<1>2. ASSUME NEW p \in Procs, Begin(p) \/ RefreshStep(p) \/ ReleaseStep(p) \/ Crash(p)
      PROVE  incidents \subseteq incidents'
  BY <1>2 DEF Begin, RefreshStep, RefreshCheck, RefreshRename, ReleaseStep, ReleaseCheck,
       ReleaseNothing, ReleaseUnlink, Crash
<1>3. CASE Expire \/ UNCHANGED lockVars
  BY <1>3 DEF Expire, lockVars
<1> QED
  BY <1>1, <1>2, <1>3 DEF LockNext

(* Until a race only one process has the lock. *)
LEMMA OnlyOneHolds ==
  ASSUME LInv, incidents = {}, NEW p \in Procs, NEW q \in Procs,
         pc[p] = "held", pc[q] \in {"held", "unlink"}
  PROVE  p = q
BY DEF LInv, OwnersOwnFile, OwningLabels

-----------------------------------------------------------------------------
(* The records a command computes. *)

(* A transition to an active state returns a record. *)
LEMMA TransitionTyped ==
  ASSUME NEW s \in SessionStates, NEW to \in ActiveStateNames, NEW ids \in Seq(SliceIds),
         NEW t, t = [to |-> to, slice_ids |-> ids, reason |-> NoReason], TransitionOk(s, t)
  PROVE  TransitionValue(s, t) \in SessionStates
<1>1. t.to = to /\ t.slice_ids = ids /\ ~IsBlocked(to) /\ to \in StateNames
  BY ActiveNotBlocked DEF IsBlocked, StateNames
<1>2. CASE IsBlocked(s.name)
  <2>1. TransitionValue(s, t) = [s EXCEPT !.name = to, !.blocked_reason = NoReason]
    BY <1>1, <1>2 DEF TransitionValue, ResumeValue
  <2> QED
    BY <1>1, <2>1 DEF SessionStates
<1>3. CASE ~IsBlocked(s.name)
  <2>1. TransitionValue(s, t) = ApplyActiveTransition(s, t) /\ ActiveTransitionGuard(s, t)
    BY <1>1, <1>3 DEF TransitionValue, TransitionOk, ActiveOk
  <2>2. CASE to = "PLAN_APPROVED"
    BY <1>1, <2>1, <2>2 DEF ApplyActiveTransition, SessionStates
  <2>3. CASE to = "SLICE_SELECT"
    <3>1. /\ s.pending_slice_ids \in Seq(SliceIds) /\ s.pending_slice_ids # <<>>
      BY <1>1, <2>1, <2>3 DEF ActiveTransitionGuard, SessionStates
    <3>2. Head(s.pending_slice_ids) \in SliceIds /\ Tail(s.pending_slice_ids) \in Seq(SliceIds)
      BY <3>1, HeadTailProperties
    <3> QED
      BY <1>1, <2>1, <2>3, <3>2 DEF ApplyActiveTransition, SessionStates
  <2>4. CASE to = "SLICE_DONE"
    <3>1. s.current_slice_id \in SliceIds /\ s.completed_slice_ids \in Seq(SliceIds)
      BY <1>1, <2>1, <2>4 DEF ActiveTransitionGuard, SessionStates
    <3>2. Append(s.completed_slice_ids, s.current_slice_id) \in Seq(SliceIds)
      BY <3>1, AppendProperties
    <3> QED
      BY <1>1, <2>1, <2>4, <3>1, <3>2 DEF ApplyActiveTransition, SessionStates
  <2>5. CASE to \notin {"PLAN_APPROVED", "SLICE_SELECT", "SLICE_DONE"}
    <3>1. TransitionValue(s, t) = [s EXCEPT !.name = to, !.blocked_reason = NoReason]
      BY <1>1, <2>1, <2>5 DEF ApplyActiveTransition
    <3> QED
      BY <1>1, <3>1 DEF SessionStates
  <2> QED
    BY <2>2, <2>3, <2>4, <2>5
<1> QED
  BY <1>2, <1>3

(* What a member of ActiveResults is. *)
ActiveTransition(to, ids) == [to |-> to, slice_ids |-> ids, reason |-> NoReason]

LEMMA ActiveResultIs ==
  ASSUME NEW s, NEW targets, NEW plans, NEW n \in ActiveResults(s, targets, plans)
  PROVE  \E to \in targets, ids \in plans :
           /\ TransitionOk(s, ActiveTransition(to, ids))
           /\ n = TransitionValue(s, ActiveTransition(to, ids))
<1>1. PICK t \in [to : targets, slice_ids : plans, reason : {NoReason}] :
        TransitionOk(s, t) /\ n = TransitionValue(s, t)
  BY DEF ActiveResults
<1>2. /\ t.to \in targets /\ t.slice_ids \in plans
      /\ t = ActiveTransition(t.to, t.slice_ids)
  BY DEF ActiveTransition
<1> QED
  BY <1>1, <1>2

(* Every record a command computes has the type of state.json. *)
LEMMA BlockResultTyped ==
  ASSUME NEW s \in SessionStates, s.name \in ActiveStateNames,
         NEW code \in BlockedReasonCodes, NEW t,
         t = [to |-> BlockedStateOf[code], slice_ids |-> <<>>,
              reason |-> [code |-> code, filled |-> TRUE, slice_id |-> s.current_slice_id]]
  PROVE  /\ TransitionValue(s, t) = EnterBlockedValue(s, t)
         /\ TransitionValue(s, t) \in SessionStates
<1>1. t.to \in BlockedStateNames /\ t.to \in StateNames /\ ~IsBlocked(s.name)
  BY BlockedNames, ActiveNotBlocked DEF IsBlocked, StateNames
<1>2. TransitionValue(s, t) = EnterBlockedValue(s, t)
  BY <1>1 DEF TransitionValue, IsBlocked
<1> DEFINE r == [code |-> code, filled |-> TRUE, slice_id |-> s.current_slice_id,
                 resume_state |-> s.name]
<1>3. t.reason.code = code /\ t.reason.filled = TRUE /\ t.reason.slice_id = s.current_slice_id
  OBVIOUS
<1>4. EnterBlockedValue(s, t) = [s EXCEPT !.name = t.to, !.blocked_reason = r]
  BY <1>3 DEF EnterBlockedValue
<1>5. r \in BlockedReasons
  BY DEF BlockedReasons, SessionStates
<1> HIDE DEF r
<1>6. [s EXCEPT !.name = t.to, !.blocked_reason = r] \in SessionStates
  BY <1>1, <1>5 DEF SessionStates
<1> QED
  BY <1>2, <1>4, <1>6

LEMMA ResumeTyped ==
  ASSUME NEW s \in SessionStates, NEW to \in StateNames
  PROVE  ResumeValue(s, to) \in SessionStates
BY DEF ResumeValue, SessionStates

LEMMA ApproveTargetTyped ==
  ASSUME NEW s \in SessionStates, ValidSessionState(s)
  PROVE  ApproveTarget(s) \in StateNames
<1>1. CASE IsBlocked(s.name) /\ s.blocked_reason.code = "NEEDS_USER_DECISION"
  <2>1. ApproveTarget(s) = s.blocked_reason.resume_state
    BY <1>1 DEF ApproveTarget, IsBlocked, BlockedStateNames, BlockedStateOf, Range
  <2> QED
    BY <1>1, <2>1, BlockedHasReason DEF StateNames
<1>2. CASE ~(IsBlocked(s.name) /\ s.blocked_reason.code = "NEEDS_USER_DECISION")
  <2>1. \/ ApproveTarget(s) = "SPEC_APPROVED" \/ ApproveTarget(s) = "PLAN_APPROVED"
        \/ ApproveTarget(s) = "FINAL_REPORT" \/ ApproveTarget(s) = s.name
    <3>1. CASE s.name = "SPEC_DRAFTED"
      BY <1>2, <3>1 DEF ApproveTarget
    <3>2. CASE s.name = "PLAN_DRAFTED"
      BY <1>2, <3>2 DEF ApproveTarget
    <3>3. CASE s.name = "SLICE_DONE"
      BY <1>2, <3>3 DEF ApproveTarget
    <3>4. CASE s.name \notin {"SPEC_DRAFTED", "PLAN_DRAFTED", "SLICE_DONE"}
      BY <1>2, <3>4 DEF ApproveTarget
    <3> QED
      BY <3>1, <3>2, <3>3, <3>4
  <2> QED
    BY <2>1 DEF SessionStates, StateNames, ActiveStateNames
<1> QED
  BY <1>1, <1>2

LEMMA ResultsTyped ==
  ASSUME NEW s \in SessionStates, ValidSessionState(s), NEW c \in Commands,
         NEW n \in Results(c, s)
  PROVE  n \in SessionStates
<1>e. <<>> \in Seq(SliceIds) /\ QueuePlans \subseteq Seq(SliceIds)
  BY ConstantsAssumption DEF QueuePlans
<1>1. ASSUME NEW z \in SessionStates, NEW targets \in SUBSET ActiveStateNames,
             NEW plans \in SUBSET Seq(SliceIds), n \in ActiveResults(z, targets, plans)
      PROVE  n \in SessionStates
  <2>1. PICK to \in targets, ids \in plans :
          /\ TransitionOk(z, ActiveTransition(to, ids))
          /\ n = TransitionValue(z, ActiveTransition(to, ids))
    BY <1>1, ActiveResultIs
  <2>2. to \in ActiveStateNames /\ ids \in Seq(SliceIds)
    OBVIOUS
  <2> QED
    BY <2>1, <2>2, TransitionTyped DEF ActiveTransition
<1>i. InitialSessionState \in SessionStates
  BY DEF InitialSessionState, SessionStates, StateNames, ActiveStateNames
<1>2. CASE n \in StartResults
  BY <1>1, <1>2, <1>e, <1>i DEF StartResults, ActiveStateNames
<1>3. CASE n \in PlanningResults(s) \cup PlanApprovalResults(s) \cup SliceSelectionResults(s)
                  \cup SliceImplementationResults(s)
  <2>1. n \in ActiveResults(s, PlanningNames, {<<>>}) \cup ActiveResults(s, {"PLAN_APPROVED"}, QueuePlans)
               \cup ActiveResults(s, {"SLICE_SELECT"}, {<<>>}) \cup ActiveResults(s, {"IMPLEMENTING"}, {<<>>})
    BY <1>3 DEF PlanningResults, PlanApprovalResults, SliceSelectionResults, SliceImplementationResults
  <2>2. /\ PlanningNames \subseteq ActiveStateNames
        /\ {"PLAN_APPROVED"} \subseteq ActiveStateNames
        /\ {"SLICE_SELECT"} \subseteq ActiveStateNames
        /\ {"IMPLEMENTING"} \subseteq ActiveStateNames
    BY DEF PlanningNames, ActiveStateNames
  <2> QED
    BY <1>1, <1>e, <2>1, <2>2
<1>4. CASE n \in ReviewerPassResults(s) \cup WorkerPassResults(s) \cup VerificationResults(s)
                  \cup FinalReportResults(s)
  <2>1. n \in ActiveResults(s, {"VERIFYING"}, {<<>>}) \cup ActiveResults(s, {"REVIEWING"}, {<<>>})
               \cup ActiveResults(s, {"SLICE_DONE"}, {<<>>}) \cup ActiveResults(s, {"FINAL_REPORT"}, {<<>>})
    BY <1>4 DEF ReviewerPassResults, WorkerPassResults, VerificationResults, FinalReportResults
  <2>2. /\ {"VERIFYING"} \subseteq ActiveStateNames
        /\ {"REVIEWING"} \subseteq ActiveStateNames
        /\ {"SLICE_DONE"} \subseteq ActiveStateNames
        /\ {"FINAL_REPORT"} \subseteq ActiveStateNames
    BY DEF ActiveStateNames
  <2> QED
    BY <1>1, <1>e, <2>1, <2>2
<1>5. ASSUME NEW stage \in ActiveStateNames, n \in StageBlockedResults(s, stage)
      PROVE  n \in SessionStates
  <2>1. PICK code \in BlockedCodes :
          /\ s.name = stage
          /\ n = TransitionValue(s, [to |-> BlockedStateOf[code], slice_ids |-> <<>>,
                   reason |-> [code |-> code, filled |-> TRUE, slice_id |-> s.current_slice_id]])
    BY <1>5 DEF StageBlockedResults
  <2> QED
    BY <2>1, BlockResultTyped, ConstantsAssumption
<1>6. CASE n \in WorkerBlockedResults(s) \cup ReviewerBlockedResults(s) \cup VerifierBlockedResults(s)
  BY <1>5, <1>6 DEF WorkerBlockedResults, ReviewerBlockedResults, VerifierBlockedResults,
       ActiveStateNames
<1>7. CASE n \in ApproveResults(s)
  BY <1>7, ApproveTargetTyped, ResumeTyped DEF ApproveResults
<1>8. CASE n \in RejectResults(s)
  <2> DEFINE t == RejectTransition(s, TRUE)
  <2>1. s.name \in ActiveStateNames /\ n = TransitionValue(s, t)
    BY <1>8 DEF RejectResults, SessionStates, StateNames, IsBlocked
  <2>2. /\ t = [to |-> BlockedStateOf["NEEDS_USER_DECISION"], slice_ids |-> <<>>,
                reason |-> [code |-> "NEEDS_USER_DECISION", filled |-> TRUE,
                            slice_id |-> s.current_slice_id]]
        /\ "NEEDS_USER_DECISION" \in BlockedReasonCodes
    BY BlockedNames DEF RejectTransition
  <2> QED
    BY <2>1, <2>2, BlockResultTyped
<1>9. CASE n \in RetryResults(s)
  <2>1. PICK r \in {s.blocked_reason} \ {NoReason} : n = ResumeValue(s, r.resume_state)
    BY <1>9 DEF RetryResults
  <2>2. r.resume_state \in StateNames
    BY <2>1 DEF SessionStates, BlockedReasons, StateNames
  <2> QED
    BY <2>1, <2>2, ResumeTyped
<1> QED
  BY <1>2, <1>3, <1>4, <1>6, <1>7, <1>8, <1>9 DEF Results, Commands

(* Writing what a command computes is a step of PawState. *)
LEMMA ActiveResultIsNext ==
  ASSUME NEW targets \in SUBSET (ActiveStateNames \ {"PLAN_APPROVED"}),
         NEW n \in ActiveResults(state, targets, {<<>>}), WriteState(n)
  PROVE  Next
<1>1. PICK to \in targets, ids \in {<<>>} :
        /\ TransitionOk(state, ActiveTransition(to, ids))
        /\ n = TransitionValue(state, ActiveTransition(to, ids))
  BY ActiveResultIs
<1>2. Advance(to, <<>>)
  BY <1>1 DEF Advance, ActiveTransition
<1> QED
  BY <1>2, IdsOnlyForPlans, SessionAssumption

LEMMA StageBlockIsNext ==
  ASSUME TypeOK, NEW stage, NEW n \in StageBlockedResults(state, stage), WriteState(n)
  PROVE  Next
<1>1. PICK code \in BlockedCodes :
        LET t == [to |-> BlockedStateOf[code], slice_ids |-> <<>>,
                  reason |-> [code |-> code, filled |-> TRUE,
                              slice_id |-> state.current_slice_id]]
        IN  TransitionOk(state, t) /\ n = TransitionValue(state, t)
  BY DEF StageBlockedResults
<1>2. Block(code, state.current_slice_id)
  BY <1>1 DEF Block
<1>3. state.current_slice_id \in SliceIds \cup {NoSlice}
  BY DEF TypeOK, SessionStates
<1> QED
  BY <1>2, <1>3 DEF Next

LEMMA ResultIsNext ==
  ASSUME TypeOK, StateIsValid, NotCreatedIsInitial,
         NEW c \in Commands, NEW n \in Results(c, state), WriteState(n)
  PROVE  Next
<1>1. CASE n \in StartResults
  <2>1. n \in ActiveResults(state, {"INTAKE"}, {<<>>})
    BY <1>1 DEF StartResults, NotCreatedIsInitial
  <2>2. {"INTAKE"} \subseteq ActiveStateNames \ {"PLAN_APPROVED"}
    BY DEF ActiveStateNames
  <2> QED
    BY <2>1, <2>2, ActiveResultIsNext
<1>2. CASE n \in PlanApprovalResults(state)
  <2>1. PICK to \in {"PLAN_APPROVED"}, ids \in QueuePlans :
          /\ TransitionOk(state, ActiveTransition(to, ids))
          /\ n = TransitionValue(state, ActiveTransition(to, ids))
    BY <1>2, ActiveResultIs DEF PlanApprovalResults
  <2>2. Advance("PLAN_APPROVED", ids)
    BY <2>1 DEF Advance, ActiveTransition
  <2> QED
    BY <2>2 DEF Next, QueuePlans, ActiveStateNames
<1>3. CASE n \in PlanningResults(state) \cup SliceSelectionResults(state)
                  \cup SliceImplementationResults(state) \cup ReviewerPassResults(state)
  <2>1. n \in ActiveResults(state, PlanningNames, {<<>>})
               \cup ActiveResults(state, {"SLICE_SELECT"}, {<<>>})
               \cup ActiveResults(state, {"IMPLEMENTING"}, {<<>>})
               \cup ActiveResults(state, {"VERIFYING"}, {<<>>})
    BY <1>3 DEF PlanningResults, SliceSelectionResults, SliceImplementationResults,
         ReviewerPassResults
  <2>2. /\ PlanningNames \subseteq ActiveStateNames \ {"PLAN_APPROVED"}
        /\ {"SLICE_SELECT"} \subseteq ActiveStateNames \ {"PLAN_APPROVED"}
        /\ {"IMPLEMENTING"} \subseteq ActiveStateNames \ {"PLAN_APPROVED"}
        /\ {"VERIFYING"} \subseteq ActiveStateNames \ {"PLAN_APPROVED"}
    BY DEF PlanningNames, ActiveStateNames
  <2> QED
    BY <2>1, <2>2, ActiveResultIsNext
<1>4. CASE n \in WorkerPassResults(state) \cup VerificationResults(state)
                  \cup FinalReportResults(state)
  <2>1. n \in ActiveResults(state, {"REVIEWING"}, {<<>>})
               \cup ActiveResults(state, {"SLICE_DONE"}, {<<>>})
               \cup ActiveResults(state, {"FINAL_REPORT"}, {<<>>})
    BY <1>4 DEF WorkerPassResults, VerificationResults, FinalReportResults
  <2>2. /\ {"REVIEWING"} \subseteq ActiveStateNames \ {"PLAN_APPROVED"}
        /\ {"SLICE_DONE"} \subseteq ActiveStateNames \ {"PLAN_APPROVED"}
        /\ {"FINAL_REPORT"} \subseteq ActiveStateNames \ {"PLAN_APPROVED"}
    BY DEF ActiveStateNames
  <2> QED
    BY <2>1, <2>2, ActiveResultIsNext
<1>5. CASE n \in WorkerBlockedResults(state) \cup ReviewerBlockedResults(state)
                  \cup VerifierBlockedResults(state)
  BY <1>5, StageBlockIsNext DEF WorkerBlockedResults, ReviewerBlockedResults,
       VerifierBlockedResults
<1>6. CASE n \in ApproveResults(state)
  BY <1>6 DEF ApproveResults, Approve, Next
<1>7. CASE n \in RejectResults(state)
  BY <1>7 DEF RejectResults, Reject, Next
<1>8. CASE n \in RetryResults(state)
  <2>1. /\ state.blocked_reason # NoReason
        /\ n = ResumeValue(state, state.blocked_reason.resume_state)
    BY <1>8 DEF RetryResults
  <2>2. IsBlocked(state.name)
    BY <2>1 DEF StateIsValid, ValidSessionState, ValidBlockedReason
  <2> QED
    BY <2>1, <2>2 DEF Retry, Next
<1> QED
  BY <1>1, <1>2, <1>3, <1>4, <1>5, <1>6, <1>7, <1>8 DEF Results, Commands

(* What the results of the commands that do more than write state.json are. *)
LEMMA WorkerPassIs ==
  ASSUME NEW s \in SessionStates, NEW n \in WorkerPassResults(s)
  PROVE  s.current_slice_id \in SliceIds
<1>1. /\ s.name = "IMPLEMENTING" /\ ~IsBlocked("IMPLEMENTING") /\ ~IsBlocked("REVIEWING")
      /\ TransitionOk(s, [to |-> "REVIEWING", slice_ids |-> <<>>, reason |-> NoReason])
  <2>1. n \in ActiveResults(s, {"REVIEWING"}, {<<>>}) /\ s.name = "IMPLEMENTING"
    BY DEF WorkerPassResults
  <2>2. PICK to \in {"REVIEWING"}, ids \in {<<>>} :
          /\ TransitionOk(s, ActiveTransition(to, ids))
          /\ n = TransitionValue(s, ActiveTransition(to, ids))
    BY <2>1, ActiveResultIs
  <2> QED
    BY <2>1, <2>2, ActiveNotBlocked DEF IsBlocked, ActiveStateNames, ActiveTransition
<1> QED
  BY <1>1 DEF TransitionOk, ActiveOk, ActiveTransitionGuard, SessionStates

LEMMA VerificationIs ==
  ASSUME NEW s \in SessionStates, NEW n \in VerificationResults(s)
  PROVE  /\ s.current_slice_id \in SliceIds
         /\ s.current_slice_id \in Range(n.completed_slice_ids)
<1> DEFINE t == [to |-> "SLICE_DONE", slice_ids |-> <<>>, reason |-> NoReason]
<1>1. /\ s.name = "VERIFYING" /\ ~IsBlocked("VERIFYING") /\ ~IsBlocked("SLICE_DONE")
      /\ TransitionOk(s, t) /\ n = TransitionValue(s, t)
  <2>1. n \in ActiveResults(s, {"SLICE_DONE"}, {<<>>}) /\ s.name = "VERIFYING"
    BY DEF VerificationResults
  <2>2. PICK to \in {"SLICE_DONE"}, ids \in {<<>>} :
          /\ TransitionOk(s, ActiveTransition(to, ids))
          /\ n = TransitionValue(s, ActiveTransition(to, ids))
    BY <2>1, ActiveResultIs
  <2> QED
    BY <2>1, <2>2, ActiveNotBlocked DEF IsBlocked, ActiveStateNames, ActiveTransition
<1>2. /\ s.current_slice_id \in SliceIds /\ n = ApplyActiveTransition(s, t)
      /\ s.completed_slice_ids \in Seq(SliceIds)
  BY <1>1 DEF TransitionOk, TransitionValue, ActiveOk, ActiveTransitionGuard, SessionStates
<1>3. n.completed_slice_ids = IF s.current_slice_id \in Range(s.completed_slice_ids)
                              THEN s.completed_slice_ids
                              ELSE Append(s.completed_slice_ids, s.current_slice_id)
  BY <1>2 DEF ApplyActiveTransition, SessionStates
<1> QED
  BY <1>2, <1>3, RangeOfAppend

LEMMA FinalReportIs ==
  ASSUME NEW n \in FinalReportResults(state)
  PROVE  state.name = "SLICE_DONE" /\ state.pending_slice_ids = <<>>
BY DEF FinalReportResults

-----------------------------------------------------------------------------
(* What a step of PawState does to the slices the other files are about. *)

(* The completed slices are only added to, at the end. *)
LEMMA CompletedExtends ==
  ASSUME IInv, KeepsSlices \/ MovesOn
  PROVE  /\ Len(state.completed_slice_ids) <= Len(state'.completed_slice_ids)
         /\ \A k \in 1..Len(state.completed_slice_ids) :
              state'.completed_slice_ids[k] = state.completed_slice_ids[k]
         /\ Range(state.completed_slice_ids) \subseteq Range(state'.completed_slice_ids)
<1> DEFINE c == state.completed_slice_ids
           d == state'.completed_slice_ids
           S == SliceIds \cup {NoSlice}
<1>1. c \in Seq(S) /\ state.current_slice_id \in S
  BY DEF IInv, TypeOK, SessionStates
<1>2. d = c \/ d = Append(c, state.current_slice_id)
  BY DEF KeepsSlices, MovesOn
<1>3. Len(c) <= Len(d) /\ \A k \in 1..Len(c) : d[k] = c[k]
  <2> HIDE DEF c, d, S
  <2> QED
    BY <1>1, <1>2, AppendProperties, LenProperties
<1>4. Range(c) \subseteq Range(d)
  <2> HIDE DEF c, d, S
  <2>1. d \in Seq(S)
    BY <1>1, <1>2, AppendProperties
  <2>2. \A k \in DOMAIN c : k \in DOMAIN d /\ d[k] = c[k]
    BY <1>1, <1>3, <2>1, LenProperties
  <2> QED
    BY <2>2 DEF Range
<1> QED
  BY <1>3, <1>4

(* A slice that is current or completed remains so. *)
LEMMA CurrentIsKept ==
  ASSUME IInv, KeepsSlices \/ MovesOn, state.current_slice_id \in SliceIds
  PROVE  state.current_slice_id \in Range(state'.completed_slice_ids)
                                      \cup {state'.current_slice_id}
<1>1. CASE KeepsSlices
  BY <1>1 DEF KeepsSlices
<1>2. CASE MovesOn /\ state'.name = "SLICE_DONE"
  <2>1. state.completed_slice_ids \in Seq(SliceIds)
    BY DEF IInv, TypeOK, SessionStates
  <2>2. state'.completed_slice_ids = Append(state.completed_slice_ids, state.current_slice_id)
    BY <1>2 DEF MovesOn
  <2> QED
    BY <2>1, <2>2, RangeOfAppend
<1>3. CASE MovesOn /\ state'.name # "SLICE_DONE"
  <2>1. state.name \in SliceNames
    BY <1>3, ActiveFacts, ConstantsAssumption DEF MovesOn, IInv, CurrentIffInSlice
  <2>2. state'.name # "SLICE_SELECT"
    BY <1>3, <2>1 DEF MovesOn, SliceNames, SliceStages, AllowedActiveTransitions
  <2> QED
    BY <1>3, <2>2 DEF MovesOn
<1> QED
  BY <1>1, <1>2, <1>3

LEMMA DoneStaysDone ==
  ASSUME IInv, KeepsSlices \/ MovesOn, DoneIsNonempty
  PROVE  DoneIsNonempty'
<1>1. CASE KeepsSlices
  BY <1>1 DEF KeepsSlices, DoneIsNonempty
<1>2. CASE MovesOn
  <2>1. /\ state.name \in ActiveStateNames /\ ActiveName(state) = state.name
        /\ ActiveName(state') = state'.name
        /\ state'.name \in AllowedActiveTransitions[state.name]
    BY <1>2, ActiveFacts DEF MovesOn, ActiveName
  <2>2. CASE state'.name = "SLICE_DONE"
    <3>1. /\ state.current_slice_id \in SliceIds \cup {NoSlice}
          /\ state.completed_slice_ids \in Seq(SliceIds \cup {NoSlice})
      BY DEF IInv, TypeOK, SessionStates
    <3>2. ASSUME NEW S, NEW c \in Seq(S), NEW e \in S
          PROVE  Append(c, e) # <<>>
      BY AppendProperties
    <3>3. Append(state.completed_slice_ids, state.current_slice_id) # <<>>
      BY <3>1, <3>2
    <3> QED
      BY <1>2, <2>2, <3>3 DEF MovesOn, DoneIsNonempty
  <2>3. CASE state'.name = "FINAL_REPORT"
    <3>1. state.name = "SLICE_DONE"
      BY <2>1, <2>3 DEF AllowedActiveTransitions, ActiveStateNames
    <3> QED
      BY <1>2, <2>1, <2>3, <3>1 DEF MovesOn, DoneIsNonempty
  <2> QED
    BY <2>1, <2>2, <2>3 DEF DoneIsNonempty
<1> QED
  BY <1>1, <1>2

-----------------------------------------------------------------------------
(* The steps of the commands. *)

(* A process that asks for the lock is not at work, and moves only itself. *)
LEMMA AskingMovesSelf ==
  ASSUME NEW p \in Procs, Begin(p) \/ AcquireStep(p)
  PROVE  /\ pc[p] \notin {"held", "unlink"}
         /\ \E label : pc' = [pc EXCEPT ![p] = label]
<1> USE DEF Goto, NextAttempt
<1>1. CASE Begin(p) \/ Create(p) \/ CreateRefused(p) \/ RecreateRefused(p) \/ Fill(p)
             \/ FillFails(p)
  BY <1>1 DEF Begin, Create, CreateRefused, RecreateRefused, Fill, FillFails
<1>2. CASE Cleanup(p) \/ StatusUnlocked(p) \/ StatusRefused(p) \/ StatusStale(p)
             \/ RemoveStale(p) \/ LastStatus(p)
  BY <1>2 DEF Cleanup, StatusUnlocked, StatusRefused, StatusStale, RemoveStale, LastStatus
<1> QED
  BY <1>1, <1>2 DEF AcquireStep

LEMMA ReleasingMovesSelf ==
  ASSUME NEW p \in Procs, ReleaseStep(p), pc \in [Procs -> Labels]
  PROVE  /\ pc' \in [Procs -> Labels]
         /\ pc'[p] \in {"idle", "unlink"}
         /\ \A q \in Procs \ {p} : pc'[q] = pc[q]
BY DEF ReleaseStep, ReleaseCheck, ReleaseNothing, ReleaseUnlink, Goto, Labels

LEMMA PreservesWorkUnderLock ==
  ASSUME SInv, [SessionNext]_sessionVars
  PROVE  WorkUnderLock'
<1>1. /\ WorkUnderLock /\ pc \in [Procs -> Labels] /\ step \in [Procs -> Steps]
  BY DEF SInv, SessionTypeOK, LockTypeOK
<1>2. ASSUME NEW p \in Procs, Call(p) \/ Lock(p)
      PROVE  WorkUnderLock'
  <2>1. /\ pc[p] \notin {"held", "unlink"} /\ step' = step
        /\ \E label : pc' = [pc EXCEPT ![p] = label]
    BY <1>2, AskingMovesSelf DEF Call, Lock
  <2>2. step[p] = "none"
    BY <1>1, <2>1 DEF WorkUnderLock
  <2> QED
    BY <1>1, <2>1, <2>2 DEF WorkUnderLock
<1>3. ASSUME NEW p \in Procs, Work(p)
      PROVE  WorkUnderLock'
  <2>1. pc' = pc /\ pc[p] = "held" /\ \E s : step' = [step EXCEPT ![p] = s]
    BY <1>3 DEF Work, Dispatch, CheckLock, ReadState, ReadRefused, ApplyPatches, Step,
       PatchRefused, AppendJournal, WriteReport, WriteJob, WriteEvidence, lockVars
  <2> QED
    BY <1>1, <2>1 DEF WorkUnderLock
<1>4. ASSUME NEW p \in Procs, Unlock(p)
      PROVE  WorkUnderLock'
  <2>1. /\ pc'[p] \in {"idle", "unlink"} /\ step[p] = "done"
        /\ \A q \in Procs \ {p} : pc'[q] = pc[q]
    BY <1>1, <1>4, ReleasingMovesSelf DEF Unlock
  <2>2. \/ pc'[p] = "idle" /\ step' = [step EXCEPT ![p] = "none"]
        \/ pc'[p] = "unlink" /\ step' = step
    BY <1>4, <2>1 DEF Unlock, EndCommand, Step
  <2> QED
    BY <1>1, <2>1, <2>2 DEF WorkUnderLock
<1>5. ASSUME NEW p \in Procs, Die(p)
      PROVE  WorkUnderLock'
  <2>1. step' = [step EXCEPT ![p] = "none"] /\ pc' = [pc EXCEPT ![p] = "dead"]
    BY <1>5 DEF Die, Crash, Goto, EndCommand, Step
  <2> QED
    BY <1>1, <2>1 DEF WorkUnderLock
<1>6. CASE Expire /\ UNCHANGED <<vars, cmd, step, job, fileVars>>
  BY <1>1, <1>6 DEF WorkUnderLock, Expire
<1>7. CASE UNCHANGED sessionVars
  BY <1>1, <1>7 DEF WorkUnderLock, sessionVars, lockVars
<1> QED
  BY <1>2, <1>3, <1>4, <1>5, <1>6, <1>7 DEF SessionNext

(* What is computed and written has its type. *)
LEMMA WriteTyped ==
  ASSUME TypeOK, NEW n \in SessionStates, WriteState(n)
  PROVE  TypeOK' /\ StateIsValid'
<1>1. state' = n /\ ValidSessionState(n) /\ gates' = GatesAfter(n, gates)
  BY DEF WriteState
<1>2. gates' \in [SliceIds -> SUBSET SliceStages]
  BY <1>1, GatesGrow DEF TypeOK
<1>3. approved' \in Seq(SliceIds)
  <2>1. approved \in Seq(SliceIds) /\ n.pending_slice_ids \in Seq(SliceIds)
    BY DEF TypeOK, SessionStates
  <2>2. approved \o n.pending_slice_ids \in Seq(SliceIds)
    BY <2>1, ConcatProperties
  <2>3. approved' = approved \o n.pending_slice_ids \/ approved' = approved
    BY DEF WriteState, ApprovedAfter
  <2> QED
    BY <2>1, <2>2, <2>3
<1> QED
  BY <1>1, <1>2, <1>3 DEF TypeOK, StateIsValid

LEMMA PreservesSessionTypeOK ==
  ASSUME SInv, [SessionNext]_sessionVars
  PROVE  SessionTypeOK' /\ StateIsValid'
<1>1. LockTypeOK'
  BY SessionStepsLock, LockNextPreservesLInv DEF SInv, LInv
<1>2. /\ SessionTypeOK /\ StateIsValid /\ JobsMatchSteps
  BY DEF SInv
<1> DEFINE Rest == /\ created \in BOOLEAN
                   /\ cmd \in [Procs -> Commands \cup {"none"}]
                   /\ step \in [Procs -> Steps]
                   /\ job \in [Procs -> Jobs \cup {NoJob}]
                   /\ journal \subseteq SliceIds
                   /\ reports \subseteq Seq(SliceIds)
                   /\ evidence \in SliceIds \cup {NoSlice}
                   /\ reported \subseteq SliceIds
<1>3. Rest /\ TypeOK
  BY <1>2 DEF SessionTypeOK
<1>4. SUFFICES TypeOK' /\ StateIsValid' /\ Rest'
  BY <1>1 DEF SessionTypeOK
<1>5. ASSUME UNCHANGED vars
      PROVE  TypeOK' /\ StateIsValid'
  BY <1>2, <1>3, <1>5 DEF TypeOK, StateIsValid, vars
<1> USE DEF Step, fileVars
<1>6. ASSUME NEW p \in Procs, Call(p) \/ Lock(p)
      PROVE  TypeOK' /\ StateIsValid' /\ Rest'
  BY <1>3, <1>5, <1>6 DEF Call, Lock
<1>7. ASSUME NEW p \in Procs, NEW c \in Commands, Dispatch(p, c)
      PROVE  TypeOK' /\ StateIsValid' /\ Rest'
  BY <1>3, <1>5, <1>7 DEF Dispatch, Steps
<1>8. ASSUME NEW p \in Procs, CheckLock(p) \/ ReadRefused(p) \/ ApplyPatches(p) \/ PatchRefused(p)
      PROVE  TypeOK' /\ StateIsValid' /\ Rest'
  BY <1>3, <1>5, <1>8 DEF CheckLock, ReadRefused, ApplyPatches, PatchRefused, Steps
<1>9. ASSUME NEW p \in Procs, ReadState(p)
      PROVE  TypeOK' /\ StateIsValid' /\ Rest'
  <2>1. PICK n \in Results(cmd[p], state), changed \in BOOLEAN, native \in BOOLEAN :
          job' = [job EXCEPT ![p] = [next |-> n, slice |-> state.current_slice_id,
                                     changed |-> changed, native |-> native]]
    BY <1>9 DEF ReadState
  <2>2. cmd[p] \in Commands
    BY <1>2, <1>9 DEF JobsMatchSteps, ReadState
  <2>3. n \in SessionStates /\ state.current_slice_id \in SliceIds \cup {NoSlice}
    BY <1>2, <1>3, <2>1, <2>2, ResultsTyped DEF TypeOK, StateIsValid, SessionStates
  <2>4. [next |-> n, slice |-> state.current_slice_id,
         changed |-> changed, native |-> native] \in Jobs
    BY <2>1, <2>3 DEF Jobs
  <2>5. job' \in [Procs -> Jobs \cup {NoJob}]
    BY <1>3, <2>1, <2>4
  <2>6. StepAfterRead(cmd[p]) \in Steps
    BY DEF StepAfterRead, Steps
  <2> QED
    BY <1>3, <1>5, <1>9, <2>5, <2>6 DEF ReadState
<1>10. ASSUME NEW p \in Procs, AppendJournal(p)
       PROVE  TypeOK' /\ StateIsValid' /\ Rest'
  <2>1. job[p].changed => job[p].slice \in SliceIds
    BY <1>2, <1>10 DEF AppendJournal, JobsMatchSteps, JobSteps
  <2>2. journal' \subseteq SliceIds
    BY <1>3, <1>10, <2>1 DEF AppendJournal
  <2> QED
    BY <1>3, <1>5, <1>10, <2>2 DEF AppendJournal, Steps
<1>11. ASSUME NEW p \in Procs, WriteReport(p)
       PROVE  TypeOK' /\ StateIsValid' /\ Rest'
  BY <1>3, <1>5, <1>11 DEF WriteReport, Steps, TypeOK
<1>12. ASSUME NEW p \in Procs, WriteJob(p)
       PROVE  TypeOK' /\ StateIsValid' /\ Rest'
  <2>1. job[p] \in Jobs /\ (job[p].changed => job[p].slice \in SliceIds)
    BY <1>2, <1>12 DEF WriteJob, JobsMatchSteps, JobSteps
  <2>2. TypeOK' /\ StateIsValid'
    BY <1>3, <1>12, <2>1, WriteTyped DEF WriteJob, Jobs
  <2>3. reported' \subseteq SliceIds
    BY <1>3, <1>12, <2>1 DEF WriteJob
  <2> QED
    BY <1>3, <1>12, <2>2, <2>3 DEF WriteJob, Steps
<1>13. ASSUME NEW p \in Procs, WriteEvidence(p)
       PROVE  TypeOK' /\ StateIsValid' /\ Rest'
  <2>1. job[p] \in Jobs
    BY <1>2, <1>13 DEF WriteEvidence, JobsMatchSteps, JobSteps
  <2>2. evidence' \in SliceIds \cup {NoSlice}
    BY <1>13, <2>1 DEF WriteEvidence, Jobs
  <2> QED
    BY <1>3, <1>5, <1>13, <2>2 DEF WriteEvidence, Steps
<1>14. ASSUME NEW p \in Procs, Unlock(p) \/ Die(p)
       PROVE  TypeOK' /\ StateIsValid' /\ Rest'
  BY <1>3, <1>5, <1>14 DEF Unlock, Die, EndCommand, Steps
<1>15. CASE Expire /\ UNCHANGED <<vars, cmd, step, job, fileVars>>
  BY <1>3, <1>5, <1>15
<1>16. CASE UNCHANGED sessionVars
  BY <1>3, <1>5, <1>16 DEF sessionVars
<1> QED
  BY <1>6, <1>7, <1>8, <1>9, <1>10, <1>11, <1>12, <1>13, <1>14, <1>15, <1>16
     DEF SessionNext, Work

(* What one process' step must leave behind for JobsMatchSteps. *)
JobMatchesStep(p) ==
  /\ step[p] # "none" => cmd[p] \in Commands
  /\ step[p] \in JobSteps => job[p] \in Jobs
  /\ step[p] \in {"patch", "journal"} => cmd[p] = "worker"
  /\ step[p] = "report" => cmd[p] = "finalize"
  /\ step[p] = "evidence" => cmd[p] = "verify"
  /\ step[p] \in JobSteps /\ job[p].changed
       => /\ cmd[p] = "worker" /\ job[p].slice \in SliceIds
          /\ step[p] = "write" => job[p].slice \in journal

LEMMA PreservesJobsMatchSteps ==
  ASSUME SInv, [SessionNext]_sessionVars
  PROVE  JobsMatchSteps' /\ (reported \subseteq journal)'
<1> USE DEF Step, fileVars
<1>1. /\ \A q \in Procs : JobMatchesStep(q)
      /\ cmd \in [Procs -> Commands \cup {"none"}]
      /\ step \in [Procs -> Steps]
      /\ job \in [Procs -> Jobs \cup {NoJob}]
      /\ reported \subseteq journal
  BY DEF SInv, SessionTypeOK, JobsMatchSteps, JobMatchesStep
<1>2. SUFFICES (\A q \in Procs : JobMatchesStep(q)') /\ reported' \subseteq journal'
  BY DEF JobsMatchSteps, JobMatchesStep
<1>3. ASSUME NEW q \in Procs, step'[q] = step[q], cmd'[q] = cmd[q], job'[q] = job[q],
             journal \subseteq journal'
      PROVE  JobMatchesStep(q)'
  <2>1. JobMatchesStep(q)
    BY <1>1
  <2> QED
    BY <1>3, <2>1 DEF JobMatchesStep
<1>4. ASSUME NEW q \in Procs, step'[q] = "none" \/ (step'[q] = "done" /\ cmd'[q] \in Commands)
      PROVE  JobMatchesStep(q)'
  BY <1>4 DEF JobMatchesStep, JobSteps
<1>5. ASSUME NEW p \in Procs, Call(p) \/ Lock(p)
      PROVE  (\A q \in Procs : JobMatchesStep(q)') /\ reported' \subseteq journal'
  BY <1>1, <1>3, <1>5 DEF Call, Lock
<1>6. ASSUME NEW p \in Procs, NEW c \in Commands, Dispatch(p, c)
      PROVE  (\A q \in Procs : JobMatchesStep(q)') /\ reported' \subseteq journal'
  <2>1. JobMatchesStep(p)'
    BY <1>1, <1>6 DEF Dispatch, JobMatchesStep, JobSteps
  <2>2. \A q \in Procs \ {p} : step'[q] = step[q] /\ cmd'[q] = cmd[q] /\ job'[q] = job[q]
    BY <1>1, <1>6 DEF Dispatch
  <2>3. reported' = reported /\ journal' = journal
    BY <1>6 DEF Dispatch
  <2> QED
    BY <1>1, <1>3, <2>1, <2>2, <2>3
<1>7. ASSUME NEW p \in Procs, CheckLock(p) \/ ReadRefused(p) \/ ApplyPatches(p) \/ PatchRefused(p)
      PROVE  (\A q \in Procs : JobMatchesStep(q)') /\ reported' \subseteq journal'
  <2>1. \A q \in Procs \ {p} : step'[q] = step[q] /\ cmd'[q] = cmd[q] /\ job'[q] = job[q]
    BY <1>1, <1>7 DEF CheckLock, ReadRefused, ApplyPatches, PatchRefused
  <2>2. reported' = reported /\ journal' = journal /\ cmd' = cmd
    BY <1>7 DEF CheckLock, ReadRefused, ApplyPatches, PatchRefused
  <2>3. step[p] \in {"check", "read", "patch"} /\ JobMatchesStep(p)
    BY <1>1, <1>7 DEF CheckLock, ReadRefused, ApplyPatches, PatchRefused
  <2>4. JobMatchesStep(p)'
    <3>1. CASE ApplyPatches(p)
      BY <1>1, <2>2, <2>3, <3>1 DEF ApplyPatches, JobMatchesStep, JobSteps
    <3>2. CASE CheckLock(p) \/ ReadRefused(p) \/ PatchRefused(p)
      <4>1. cmd[p] \in Commands /\ step'[p] \in {"read", "done"}
        BY <1>1, <2>3, <3>2 DEF CheckLock, ReadRefused, PatchRefused, JobMatchesStep
      <4> QED
        BY <2>2, <4>1 DEF JobMatchesStep, JobSteps
    <3> QED
      BY <1>7, <3>1, <3>2
  <2> QED
    BY <1>1, <1>3, <2>1, <2>2, <2>4
<1>8. ASSUME NEW p \in Procs, ReadState(p)
      PROVE  (\A q \in Procs : JobMatchesStep(q)') /\ reported' \subseteq journal'
  <2>1. PICK n \in Results(cmd[p], state), changed \in BOOLEAN, native \in BOOLEAN :
          /\ IF cmd[p] = "worker" THEN changed \in WorkerChanges ELSE ~changed
          /\ job' = [job EXCEPT ![p] = [next |-> n, slice |-> state.current_slice_id,
                                        changed |-> changed, native |-> native]]
    BY <1>8 DEF ReadState
  <2>2. /\ cmd[p] \in Commands /\ step' = [step EXCEPT ![p] = StepAfterRead(cmd[p])]
        /\ cmd' = cmd /\ journal' = journal /\ reported' = reported
    BY <1>1, <1>8 DEF ReadState, JobMatchesStep
  <2>3. changed => state.current_slice_id \in SliceIds
    <3> HAVE changed
    <3>1. cmd[p] = "worker" /\ n \in WorkerPassResults(state)
      BY <2>1 DEF Results
    <3> QED
      BY <3>1, WorkerPassIs DEF SInv, SessionTypeOK, TypeOK
  <2>4. job'[p] \in Jobs
    BY PreservesSessionTypeOK, <2>1, <2>2, ResultsTyped
       DEF SInv, SessionTypeOK, TypeOK, StateIsValid, Jobs, SessionStates
  <2>5. JobMatchesStep(p)'
    BY <1>1, <2>1, <2>2, <2>3, <2>4 DEF JobMatchesStep, JobSteps, StepAfterRead, Commands
  <2>6. \A q \in Procs \ {p} : step'[q] = step[q] /\ cmd'[q] = cmd[q] /\ job'[q] = job[q]
    BY <1>1, <2>1, <2>2
  <2> QED
    BY <1>1, <1>3, <2>2, <2>5, <2>6
<1>9. ASSUME NEW p \in Procs, AppendJournal(p)
      PROVE  (\A q \in Procs : JobMatchesStep(q)') /\ reported' \subseteq journal'
  <2>1. /\ step' = [step EXCEPT ![p] = "write"] /\ cmd' = cmd /\ job' = job
        /\ journal \subseteq journal' /\ reported' = reported
        /\ step[p] = "journal" /\ (job[p].changed => job[p].slice \in journal')
    BY <1>9 DEF AppendJournal
  <2>2. JobMatchesStep(p)
    BY <1>1
  <2>3. JobMatchesStep(p)'
    BY <1>1, <2>1, <2>2 DEF JobMatchesStep, JobSteps
  <2> QED
    BY <1>1, <1>3, <2>1, <2>3
<1>10. ASSUME NEW p \in Procs, WriteReport(p)
       PROVE  (\A q \in Procs : JobMatchesStep(q)') /\ reported' \subseteq journal'
  <2>1. /\ step' = [step EXCEPT ![p] = "write"] /\ cmd' = cmd /\ job' = job
        /\ journal' = journal /\ reported' = reported /\ step[p] = "report"
    BY <1>10 DEF WriteReport
  <2>2. JobMatchesStep(p)
    BY <1>1
  <2>3. JobMatchesStep(p)'
    BY <1>1, <2>1, <2>2 DEF JobMatchesStep, JobSteps
  <2> QED
    BY <1>1, <1>3, <2>1, <2>3
<1>11. ASSUME NEW p \in Procs, WriteJob(p)
       PROVE  (\A q \in Procs : JobMatchesStep(q)') /\ reported' \subseteq journal'
  <2>1. JobMatchesStep(p) /\ step[p] = "write" /\ cmd' = cmd /\ journal' = journal
    BY <1>1, <1>11 DEF WriteJob
  <2>2. reported' \subseteq journal'
    BY <1>1, <1>11, <2>1 DEF WriteJob, JobMatchesStep, JobSteps
  <2>3. JobMatchesStep(p)'
    BY <1>1, <1>11, <2>1 DEF WriteJob, JobMatchesStep, JobSteps
  <2>4. \A q \in Procs \ {p} : step'[q] = step[q] /\ cmd'[q] = cmd[q] /\ job'[q] = job[q]
    BY <1>1, <1>11 DEF WriteJob
  <2> QED
    BY <1>1, <1>3, <2>1, <2>2, <2>3, <2>4
<1>12. ASSUME NEW p \in Procs, WriteEvidence(p)
       PROVE  (\A q \in Procs : JobMatchesStep(q)') /\ reported' \subseteq journal'
  <2>1. JobMatchesStep(p) /\ step[p] = "evidence" /\ step'[p] = "done"
    BY <1>1, <1>12 DEF WriteEvidence
  <2>2. cmd' = cmd /\ journal' = journal /\ reported' = reported
    BY <1>12 DEF WriteEvidence
  <2>3. \A q \in Procs \ {p} : step'[q] = step[q] /\ job'[q] = job[q]
    BY <1>1, <1>12 DEF WriteEvidence
  <2>4. cmd'[p] \in Commands
    BY <2>1, <2>2 DEF JobMatchesStep
  <2> QED
    BY <1>1, <1>3, <1>4, <2>1, <2>2, <2>3, <2>4
<1>13. ASSUME NEW p \in Procs, Unlock(p) \/ Die(p)
       PROVE  (\A q \in Procs : JobMatchesStep(q)') /\ reported' \subseteq journal'
  <2>1. \/ EndCommand(p) \/ UNCHANGED <<cmd, step, job>>
    BY <1>13 DEF Unlock, Die
  <2>2. journal' = journal /\ reported' = reported
    BY <1>13 DEF Unlock, Die
  <2>3. CASE EndCommand(p)
    <3>1. \A q \in Procs \ {p} : step'[q] = step[q] /\ cmd'[q] = cmd[q] /\ job'[q] = job[q]
      BY <1>1, <2>3 DEF EndCommand
    <3>2. step'[p] = "none"
      BY <1>1, <2>3 DEF EndCommand
    <3>3. JobMatchesStep(p)'
      BY <3>2 DEF JobMatchesStep, JobSteps
    <3> QED
      BY <1>1, <1>3, <2>2, <3>1, <3>3
  <2> QED
    BY <1>1, <1>3, <2>1, <2>2, <2>3
<1>14. CASE Expire /\ UNCHANGED <<vars, cmd, step, job, fileVars>>
  BY <1>1, <1>3, <1>14
<1>15. CASE UNCHANGED sessionVars
  BY <1>1, <1>3, <1>15 DEF sessionVars
<1> QED
  BY <1>5, <1>6, <1>7, <1>8, <1>9, <1>10, <1>11, <1>12, <1>13, <1>14, <1>15
     DEF SessionNext, Work

-----------------------------------------------------------------------------
(* Until there was a race. *)

(* Only WriteJob changes state.json, and what it writes was computed from what
   is there. *)
LEMMA SessionStepsState ==
  ASSUME SInv, [SessionNext]_sessionVars, incidents = {}
  PROVE  [Next]_vars
<1>1. CASE \E p \in Procs : WriteJob(p)
  <2>1. PICK p \in Procs : WriteJob(p)
    BY <1>1
  <2>2. /\ step[p] = "write" /\ WriteState(job[p].next)
    BY <2>1 DEF WriteJob
  <2>3. /\ job[p].next \in Results(cmd[p], state) /\ cmd[p] \in Commands
        /\ TypeOK /\ StateIsValid /\ NotCreatedIsInitial
    BY <2>2 DEF SInv, Unraced, IInv, JobsAreCurrent, JobsMatchSteps, JobSteps
  <2> QED
    BY <2>2, <2>3, ResultIsNext
<1>2. CASE \E p \in Procs : Work(p) /\ ~WriteJob(p)
  BY <1>2 DEF Work, Dispatch, CheckLock, ReadState, ReadRefused, ApplyPatches,
       PatchRefused, AppendJournal, WriteReport, WriteEvidence
<1>3. CASE \E p \in Procs : Call(p) \/ Lock(p) \/ Unlock(p) \/ Die(p)
  BY <1>3 DEF Call, Lock, Unlock, Die
<1>4. CASE (Expire /\ UNCHANGED <<vars, cmd, step, job, fileVars>>) \/ UNCHANGED sessionVars
  BY <1>4 DEF sessionVars
<1> QED
  BY <1>1, <1>2, <1>3, <1>4 DEF SessionNext

(* The parts of JobsAreCurrent about one process. *)
JobIsCurrent(p) ==
  /\ step[p] \in JobSteps \ {"evidence"}
       => /\ job[p].next \in Results(cmd[p], state)
          /\ job[p].slice = state.current_slice_id
  /\ step[p] = "evidence" => job[p].slice \in Range(state.completed_slice_ids)

LEMMA PreservesJobsAreCurrent ==
  ASSUME SInv, [SessionNext]_sessionVars, incidents = {}
  PROVE  JobsAreCurrent'
<1> USE DEF Step, fileVars
<1>1. /\ \A q \in Procs : JobIsCurrent(q)
      /\ cmd \in [Procs -> Commands \cup {"none"}]
      /\ step \in [Procs -> Steps]
      /\ job \in [Procs -> Jobs \cup {NoJob}]
      /\ JobsMatchSteps
  BY DEF SInv, SessionTypeOK, Unraced, JobsAreCurrent, JobIsCurrent
<1>2. SUFFICES \A q \in Procs : JobIsCurrent(q)'
  BY DEF JobsAreCurrent, JobIsCurrent
<1>3. ASSUME NEW q \in Procs, cmd'[q] = cmd[q], job'[q] = job[q], state' = state,
             created' = created,
             \/ step'[q] = step[q]
             \/ step[q] \in JobSteps \ {"evidence"} /\ step'[q] # "evidence"
      PROVE  JobIsCurrent(q)'
  <2>1. JobIsCurrent(q)
    BY <1>1
  <2>2. Results(cmd[q], state)' = Results(cmd[q], state)
    BY <1>3 DEF Results, StartResults
  <2> QED
    BY <1>3, <2>1, <2>2 DEF JobIsCurrent
<1>4. ASSUME NEW q \in Procs, step'[q] \notin JobSteps
      PROVE  JobIsCurrent(q)'
  BY <1>4 DEF JobIsCurrent, JobSteps
<1>5. ASSUME NEW p \in Procs, Call(p) \/ Lock(p)
      PROVE  \A q \in Procs : JobIsCurrent(q)'
  BY <1>3, <1>5 DEF Call, Lock, vars
<1>6. ASSUME NEW p \in Procs, NEW c \in Commands, Dispatch(p, c)
      PROVE  \A q \in Procs : JobIsCurrent(q)'
  <2>1. JobIsCurrent(p)'
    BY <1>1, <1>4, <1>6 DEF Dispatch, JobSteps
  <2>2. \A q \in Procs \ {p} : step'[q] = step[q] /\ cmd'[q] = cmd[q] /\ job'[q] = job[q]
    BY <1>1, <1>6 DEF Dispatch
  <2>3. state' = state /\ created' = created
    BY <1>6 DEF Dispatch, vars
  <2> QED
    BY <1>3, <2>1, <2>2, <2>3
<1>7. ASSUME NEW p \in Procs, CheckLock(p) \/ ReadRefused(p) \/ ApplyPatches(p) \/ PatchRefused(p)
      PROVE  \A q \in Procs : JobIsCurrent(q)'
  <2>1. state' = state /\ created' = created /\ cmd' = cmd
    BY <1>7 DEF CheckLock, ReadRefused, ApplyPatches, PatchRefused, vars
  <2>2. \A q \in Procs \ {p} : step'[q] = step[q] /\ job'[q] = job[q]
    BY <1>1, <1>7 DEF CheckLock, ReadRefused, ApplyPatches, PatchRefused
  <2>3. JobIsCurrent(p)'
    <3>1. CASE ApplyPatches(p)
      <4>1. step[p] = "patch" /\ step'[p] = "journal" /\ job' = job
        BY <1>1, <3>1 DEF ApplyPatches
      <4> QED
        BY <1>3, <2>1, <4>1 DEF JobSteps
    <3>2. CASE CheckLock(p) \/ ReadRefused(p) \/ PatchRefused(p)
      <4>1. step'[p] \in {"read", "done"}
        BY <1>1, <3>2 DEF CheckLock, ReadRefused, PatchRefused
      <4> QED
        BY <1>4, <4>1 DEF JobSteps
    <3> QED
      BY <1>7, <3>1, <3>2
  <2> QED
    BY <1>3, <2>1, <2>2, <2>3
<1>8. ASSUME NEW p \in Procs, ReadState(p)
      PROVE  \A q \in Procs : JobIsCurrent(q)'
  <2>1. PICK n \in Results(cmd[p], state), changed \in BOOLEAN, native \in BOOLEAN :
          job' = [job EXCEPT ![p] = [next |-> n, slice |-> state.current_slice_id,
                                     changed |-> changed, native |-> native]]
    BY <1>8 DEF ReadState
  <2>2. /\ step' = [step EXCEPT ![p] = StepAfterRead(cmd[p])]
        /\ cmd' = cmd /\ state' = state /\ created' = created
    BY <1>8 DEF ReadState, vars
  <2>3. /\ job'[p].next = n /\ job'[p].slice = state.current_slice_id
        /\ step'[p] = StepAfterRead(cmd[p]) /\ StepAfterRead(cmd[p]) # "evidence"
    BY <1>1, <2>1, <2>2 DEF StepAfterRead
  <2>4. Results(cmd[p], state)' = Results(cmd[p], state)
    BY <2>2 DEF Results, StartResults
  <2>5. JobIsCurrent(p)'
    BY <2>1, <2>2, <2>3, <2>4 DEF JobIsCurrent
  <2>6. \A q \in Procs \ {p} : step'[q] = step[q] /\ cmd'[q] = cmd[q] /\ job'[q] = job[q]
    BY <1>1, <2>1, <2>2
  <2> QED
    BY <1>3, <2>2, <2>5, <2>6
<1>9. ASSUME NEW p \in Procs, AppendJournal(p) \/ WriteReport(p)
      PROVE  \A q \in Procs : JobIsCurrent(q)'
  <2>1. /\ step[p] \in {"journal", "report"} /\ step' = [step EXCEPT ![p] = "write"]
        /\ cmd' = cmd /\ job' = job /\ state' = state /\ created' = created
    BY <1>9 DEF AppendJournal, WriteReport, vars
  <2>2. step'[p] = "write" /\ \A q \in Procs \ {p} : step'[q] = step[q]
    BY <1>1, <2>1
  <2> QED
    BY <1>3, <2>1, <2>2 DEF JobSteps
<1>10. ASSUME NEW p \in Procs, WriteJob(p)
       PROVE  \A q \in Procs : JobIsCurrent(q)'
  <2>1. /\ pc[p] = "held" /\ step[p] = "write" /\ state' = job[p].next
    BY <1>10 DEF WriteJob, WriteState
  <2>2. ASSUME NEW q \in Procs \ {p}
        PROVE  JobIsCurrent(q)'
    <3>1. step[q] \notin JobSteps
      BY <2>1, OnlyOneHolds DEF SInv, WorkUnderLock, JobSteps
    <3>2. step'[q] = step[q]
      BY <1>1, <1>10 DEF WriteJob
    <3> QED
      BY <1>4, <3>1, <3>2
  <2>3. CASE cmd[p] = "verify"
    <3>1. step'[p] = "evidence" /\ job' = job
      BY <1>1, <1>10, <2>3 DEF WriteJob
    <3>2. JobIsCurrent(p)
      BY <1>1
    <3>3. job[p].next \in VerificationResults(state) /\ job[p].slice = state.current_slice_id
      BY <2>1, <2>3, <3>2 DEF JobIsCurrent, JobSteps, Results
    <3>4. job[p].slice \in Range(state'.completed_slice_ids)
      BY <2>1, <3>3, VerificationIs DEF SInv, SessionTypeOK, TypeOK
    <3>5. JobIsCurrent(p)'
      BY <3>1, <3>4 DEF JobIsCurrent
    <3> QED
      BY <2>2, <3>5
  <2>4. CASE cmd[p] # "verify"
    <3>1. step'[p] = "done"
      BY <1>1, <1>10, <2>4 DEF WriteJob
    <3>2. JobIsCurrent(p)'
      BY <1>4, <3>1 DEF JobSteps
    <3> QED
      BY <2>2, <3>2
  <2> QED
    BY <2>3, <2>4
<1>11. ASSUME NEW p \in Procs, WriteEvidence(p)
       PROVE  \A q \in Procs : JobIsCurrent(q)'
  <2>1. /\ step'[p] = "done" /\ cmd' = cmd /\ state' = state /\ created' = created
        /\ \A q \in Procs \ {p} : step'[q] = step[q] /\ job'[q] = job[q]
    BY <1>1, <1>11 DEF WriteEvidence, vars
  <2>2. JobIsCurrent(p)'
    BY <1>4, <2>1 DEF JobSteps
  <2> QED
    BY <1>3, <2>1, <2>2
<1>12. ASSUME NEW p \in Procs, Unlock(p) \/ Die(p)
       PROVE  \A q \in Procs : JobIsCurrent(q)'
  <2>1. \/ EndCommand(p) \/ UNCHANGED <<cmd, step, job>>
    BY <1>12 DEF Unlock, Die
  <2>2. state' = state /\ created' = created
    BY <1>12 DEF Unlock, Die, vars
  <2>3. CASE EndCommand(p)
    <3>1. /\ step'[p] = "none"
          /\ \A q \in Procs \ {p} : step'[q] = step[q] /\ cmd'[q] = cmd[q] /\ job'[q] = job[q]
      BY <1>1, <2>3 DEF EndCommand
    <3>2. JobIsCurrent(p)'
      BY <1>4, <3>1 DEF JobSteps
    <3> QED
      BY <1>3, <2>2, <3>1, <3>2
  <2> QED
    BY <1>3, <2>1, <2>2, <2>3
<1>13. CASE (Expire /\ UNCHANGED <<vars, cmd, step, job, fileVars>>) \/ UNCHANGED sessionVars
  BY <1>3, <1>13 DEF sessionVars, vars
<1> QED
  BY <1>5, <1>6, <1>7, <1>8, <1>9, <1>10, <1>11, <1>12, <1>13 DEF SessionNext, Work

LEMMA PreservesUnraced ==
  ASSUME SInv, [SessionNext]_sessionVars, incidents = {}
  PROVE  Unraced'
<1> USE DEF fileVars
<1>1. IInv' /\ (KeepsSlices \/ MovesOn)
  BY SessionStepsState, NextPreservesIInv DEF SInv, Unraced
<1>2. /\ SInv /\ Unraced /\ IInv /\ JobsMatchSteps
      /\ \A p \in Procs : JobIsCurrent(p)
      /\ reported \subseteq SliceIds
      /\ reported \subseteq Range(state.completed_slice_ids) \cup {state.current_slice_id}
  BY DEF SInv, Unraced, JobsAreCurrent, JobIsCurrent, SessionTypeOK
<1>3. JobsAreCurrent'
  BY PreservesJobsAreCurrent
<1>4. DoneIsNonempty'
  BY <1>1, <1>2, DoneStaysDone DEF Unraced
<1> DEFINE c == state.completed_slice_ids
           d == state'.completed_slice_ids
<1>5. /\ Len(c) <= Len(d) /\ \A k \in 1..Len(c) : d[k] = c[k]
      /\ Range(c) \subseteq Range(d)
      /\ Len(c) \in Nat /\ Len(d) \in Nat
  <2>1. Len(c) \in Nat /\ Len(d) \in Nat
    BY <1>1, <1>2, LenProperties DEF IInv, TypeOK, SessionStates
  <2> QED
    BY <1>1, <1>2, <2>1, CompletedExtends
(* The steps by the files they write. *)
<1>6. \/ \E p \in Procs : WriteJob(p) \/ WriteReport(p) \/ WriteEvidence(p)
      \/ UNCHANGED <<vars, created, reports, evidence, reported>>
  <2>1. ASSUME NEW p \in Procs, Work(p)
        PROVE  \/ WriteJob(p) \/ WriteReport(p) \/ WriteEvidence(p)
               \/ UNCHANGED <<vars, created, reports, evidence, reported>>
    BY <2>1 DEF Work, Dispatch, CheckLock, ReadState, ReadRefused, ApplyPatches,
         PatchRefused, AppendJournal
  <2>2. ASSUME NEW p \in Procs, Call(p) \/ Lock(p) \/ Unlock(p) \/ Die(p)
        PROVE  UNCHANGED <<vars, created, reports, evidence, reported>>
    BY <2>2 DEF Call, Lock, Unlock, Die
  <2>3. CASE (Expire /\ UNCHANGED <<vars, cmd, step, job, fileVars>>) \/ UNCHANGED sessionVars
    BY <2>3 DEF sessionVars
  <2> QED
    BY <2>1, <2>2, <2>3 DEF SessionNext
<1>7. NotCreatedIsInitial'
  BY <1>2, <1>6 DEF WriteJob, WriteReport, WriteEvidence, vars, Unraced, NotCreatedIsInitial
<1>8. reported' \subseteq Range(d) \cup {state'.current_slice_id}
  <2>1. reported \subseteq Range(d) \cup {state'.current_slice_id}
    BY <1>1, <1>2, <1>5, CurrentIsKept
  <2>2. ASSUME NEW p \in Procs, WriteJob(p)
        PROVE  reported' \subseteq Range(d) \cup {state'.current_slice_id}
    <3>1. CASE job[p].changed
      <4>1. /\ job[p].slice = state.current_slice_id /\ job[p].slice \in SliceIds
            /\ reported' = reported \cup {job[p].slice}
        BY <1>2, <2>2, <3>1 DEF WriteJob, JobIsCurrent, JobsMatchSteps, JobSteps
      <4> QED
        BY <1>1, <1>2, <2>1, <4>1, CurrentIsKept
    <3>2. CASE ~job[p].changed
      BY <2>1, <2>2, <3>2 DEF WriteJob
    <3> QED
      BY <3>1, <3>2
  <2>3. ASSUME reported' = reported
        PROVE  reported' \subseteq Range(d) \cup {state'.current_slice_id}
    BY <2>1, <2>3
  <2> QED
    BY <1>6, <2>2, <2>3 DEF WriteReport, WriteEvidence
<1>9. ReportOnlyWhenAllDone'
  <2> DEFINE Finished(done, ids) == /\ done # <<>> /\ Len(done) <= Len(ids)
                                    /\ \A k \in 1..Len(done) : done[k] = ids[k]
  <2>1. \A done \in reports : Finished(done, c)
    BY <1>2 DEF Unraced, ReportOnlyWhenAllDone
  <2>2. ASSUME NEW done \in Seq(SliceIds), Finished(done, c)
        PROVE  Finished(done, d)
    <3>1. Len(done) \in Nat
      BY LenProperties
    <3> DEFINE n == Len(done)
               m == Len(c)
               l == Len(d)
    <3>2. n \in Nat /\ m \in Nat /\ l \in Nat /\ n <= m /\ m <= l
      BY <1>5, <2>2, <3>1
    <3>3. n <= l /\ \A k \in 1..n : k \in 1..m
      <4> HIDE DEF n, m, l
      <4> QED
        BY <3>2
    <3>4. \A k \in 1..n : done[k] = c[k] /\ d[k] = c[k]
      BY <1>5, <2>2, <3>3
    <3> QED
      BY <2>2, <3>3, <3>4
  <2>3. reports \subseteq Seq(SliceIds)
    BY <1>2 DEF SInv, SessionTypeOK
  <2>4. CASE reports' = reports
    <3>1. \A done \in reports' : Finished(done, d)
      BY <2>1, <2>2, <2>3, <2>4
    <3> QED
      BY <3>1 DEF ReportOnlyWhenAllDone
  <2>5. CASE \E p \in Procs : WriteReport(p)
    <3>1. PICK p \in Procs : WriteReport(p)
      BY <2>5
    <3>2. /\ step[p] = "report" /\ state' = state /\ reports' = reports \cup {approved}
      BY <3>1 DEF WriteReport, vars
    <3>3. job[p].next \in FinalReportResults(state)
      <4>1. cmd[p] = "finalize" /\ job[p].next \in Results(cmd[p], state)
        BY <1>2, <3>2 DEF JobsMatchSteps, JobIsCurrent, JobSteps
      <4> QED
        BY <4>1 DEF Results
    <3>4. state.name = "SLICE_DONE" /\ state.pending_slice_ids = <<>>
      BY <3>3, FinalReportIs
    <3>5. ActiveName(state) = "SLICE_DONE"
      BY <3>4, ActiveNotBlocked DEF ActiveName, IsBlocked, ActiveStateNames
    <3>6. state.current_slice_id = NoSlice
      BY <1>2, <3>5 DEF IInv, CurrentIffInSlice, SliceNames, SliceStages
    <3>7. c = approved /\ c # <<>>
      BY <1>2, <3>4, <3>5, <3>6, NothingLeft DEF Unraced, DoneIsNonempty
    <3>8. Finished(approved, c)
      BY <1>5, <3>7
    <3>9. \A done \in reports' : Finished(done, d)
      BY <2>1, <3>2, <3>8
    <3> QED
      BY <3>9 DEF ReportOnlyWhenAllDone
  <2> QED
    BY <1>6, <2>4, <2>5 DEF WriteJob, WriteEvidence
<1>10. EvidenceNotAhead'
  <2>1. evidence # NoSlice => evidence \in Range(d)
    BY <1>2, <1>5 DEF Unraced, EvidenceNotAhead
  <2>2. CASE evidence' = evidence
    BY <2>1, <2>2 DEF EvidenceNotAhead
  <2>3. CASE \E p \in Procs : WriteEvidence(p)
    <3>1. PICK p \in Procs : WriteEvidence(p)
      BY <2>3
    <3>2. job[p].slice \in Range(d)
      BY <1>2, <1>5, <3>1 DEF WriteEvidence, JobIsCurrent
    <3> QED
      BY <3>1, <3>2 DEF WriteEvidence, EvidenceNotAhead
  <2> QED
    BY <1>6, <2>2, <2>3 DEF WriteJob, WriteReport
<1> QED
  BY <1>1, <1>3, <1>4, <1>7, <1>8, <1>9, <1>10 DEF Unraced

-----------------------------------------------------------------------------
LEMMA SessionInitInv ==
  ASSUME SessionInit
  PROVE  SInv
<1>1. IInv /\ LInv
  BY InitIInv, LockInitInv DEF SessionInit
<1>2. \A p \in Procs : step[p] = "none" /\ pc[p] = "idle"
  BY DEF SessionInit, LockInit
<1>3. SessionTypeOK
  BY <1>1 DEF SessionTypeOK, SessionInit, IInv, LInv, Steps
<1>4. ~IsBlocked("IDLE")
  BY ActiveNotBlocked DEF IsBlocked, ActiveStateNames
<1>5. NotCreatedIsInitial /\ DoneIsNonempty
  BY <1>4 DEF SessionInit, Init, NotCreatedIsInitial, DoneIsNonempty, ActiveName,
       InitialSessionState
<1>6. WorkUnderLock /\ JobsMatchSteps /\ JobsAreCurrent
  BY <1>2 DEF WorkUnderLock, JobsMatchSteps, JobsAreCurrent, JobSteps
<1>7. /\ reported = {} /\ reports = {} /\ evidence = NoSlice
  BY DEF SessionInit
<1>8. ReportOnlyWhenAllDone /\ EvidenceNotAhead
  BY <1>7 DEF ReportOnlyWhenAllDone, EvidenceNotAhead
<1> QED
  BY <1>1, <1>3, <1>5, <1>6, <1>7, <1>8 DEF SInv, Unraced, IInv

LEMMA SessionNextPreservesSInv ==
  ASSUME SInv, [SessionNext]_sessionVars
  PROVE  SInv'
<1>1. LInv'
  BY SessionStepsLock, LockNextPreservesLInv DEF SInv
<1>2. SessionTypeOK' /\ StateIsValid' /\ WorkUnderLock' /\ JobsMatchSteps'
        /\ (reported \subseteq journal)'
  BY PreservesSessionTypeOK, PreservesWorkUnderLock, PreservesJobsMatchSteps
<1>3. incidents' = {} => Unraced'
  BY SessionStepsLock, IncidentsGrow, PreservesUnraced
<1> QED
  BY <1>1, <1>2, <1>3 DEF SInv

(* Every behaviour of the commands satisfies SInv. *)
THEOREM SessionInductive == SessionSpec => []SInv
<1>1. SessionInit => SInv
  BY SessionInitInv
<1>2. SInv /\ [SessionNext]_sessionVars => SInv'
  BY SessionNextPreservesSInv
<1> QED
  BY <1>1, <1>2, PTL DEF SessionSpec

(* The session's files and every process' progress always have their types,
   whatever raced or died. *)
THEOREM SessionTypeCorrect == SessionSpec => []SessionTypeOK
<1>1. SInv => SessionTypeOK
  BY DEF SInv
<1> QED
  BY <1>1, SessionInductive, PTL

(* The commands use the lock as PawLock has it, so that what is proved of the
   lock holds of them: in particular at most one is at work until a race. *)
THEOREM SessionRefinesLock == SessionSpec => LockSpec
<1>1. SessionInit => LockInit
  BY DEF SessionInit
<1>2. [SessionNext]_sessionVars => [LockNext]_lockVars
  BY SessionStepsLock
<1> QED
  BY <1>1, <1>2, PTL DEF SessionSpec, LockSpec

(* Split at every file system call and with processes dying in between, the
   commands do to state.json what PawState's atomic steps do, until a live lock
   was taken over or two processes reclaimed one at once. *)
THEOREM CommandsAreAtomic == SessionSpec => AtomicUnlessRaced
<1> DEFINE Atomic == incidents = {} => [Next]_vars
<1>1. SInv /\ [SessionNext]_sessionVars => [Atomic]_sessionVars
  BY SessionStepsState
<1> HIDE DEF Atomic
<1>2. SessionSpec => [][Atomic]_sessionVars
  BY <1>1, SessionInductive, PTL DEF SessionSpec
<1> QED
  BY <1>2 DEF AtomicUnlessRaced, Atomic

(* A recorded worker pass has its journal entries even after a race, and until
   one its slice is the one in review or later. *)
THEOREM JournalledBeforeReview == SessionSpec => []JournalBeforeReview
<1>1. SInv => JournalBeforeReview
  BY DEF SInv, Unraced, JournalBeforeReview
<1> QED
  BY <1>1, SessionInductive, PTL

(* Every report.json ever written was of a finished task, also when the command
   died right after it, and for any sequence of plans. *)
THEOREM ReportsAreFinal == SessionSpec => []ReportOnlyWhenAllDone
<1>1. SInv => ReportOnlyWhenAllDone
  BY DEF SInv, Unraced, ReportOnlyWhenAllDone
<1> QED
  BY <1>1, SessionInductive, PTL

(* The evidence file is about a completed slice. *)
THEOREM EvidenceFollowsState == SessionSpec => []EvidenceNotAhead
<1>1. SInv => EvidenceNotAhead
  BY DEF SInv, Unraced, EvidenceNotAhead
<1> QED
  BY <1>1, SessionInductive, PTL
=============================================================================
