------------------------------ MODULE PawBuild ------------------------------
(***************************************************************************)
(* paw build --max-steps n (paw/build-command.ts) with the orchestrators   *)
(* of its steps (worker-orchestrator.ts, reviewer-orchestrator.ts), the    *)
(* sub-agent's answer (subagent-response.ts) and paw verify.               *)
(*                                                                         *)
(* The loop looks at state.json without the lock, dispatches on its name,  *)
(* and the step it dispatches to takes the lock, checks again, and may     *)
(* keep the lock for as long as a sub-agent or the gates run.  The         *)
(* heartbeat is not refreshed meanwhile, so the lock can expire and        *)
(* another shell may work on the session before the step records its       *)
(* result.  The lock is taken and given back atomically here and the       *)
(* short commands are one step each; PawSession has them in detail.        *)
(***************************************************************************)
EXTENDS PawState, FiniteSets

CONSTANTS
  MaxSteps,    \* the values of --max-steps
  MaxLoops,    \* bound: invocations of paw build
  MaxMeddling, \* bound: commands of other shells after the plan is approved, by
               \* the number of invocations so far
  MaxCrashes   \* bound: deaths of the build process

ASSUME BuildAssumption ==
  /\ Plans # {}
  /\ MaxSteps \subseteq Nat \ {0}
  /\ {MaxLoops, MaxCrashes} \subseteq Nat
  /\ MaxMeddling \in [0..MaxLoops -> Nat]

VARIABLES
  loop,        \* the invocation: see Loops
  holder,      \* who holds the session lock: "none", "build", "other", or
               \* "expired" for a stale lock
  report,      \* report.json: its status and the invocation that wrote it
  evidence,    \* results in verification-evidence.json: a slice, or NoSlice
               \* for none, and whether all of its gates passed
  unverified,  \* history: <<slice, invocation>> completed with an unverified
               \* gate; invocation 0 is another shell
  worked,      \* history: slices a worker reported a pass of
  loops,       \* invocations so far
  meddled,     \* other shells' commands after the approval
  undisturbed, \* history: this invocation began at PLAN_APPROVED, and no other
               \* command, expiry or failure came in between
  crashes

buildVars == <<vars, loop, holder, report, evidence, unverified, worked, loops,
               meddled, undisturbed, crashes>>

Branches == {"select", "begin", "worker", "reviewer", "verify"}

(* n: steps run; decisions: what this invocation's verifications found; branch,
   slice and attempt: the step in progress; stop: the stopReason, or the status
   of a completed loop. *)
Loops == [pc : {"off", "dispatch", "enter", "call", "record", "evidence", "report"},
          n : Nat, max : MaxSteps \cup {0}, decisions : SUBSET BOOLEAN,
          branch : Branches \cup {"none"}, slice : SliceIds \cup {NoSlice},
          attempt : 0..2, output : {"none", "pass", "blocked", "fail", "verified",
                                    "unverified", "unrun"},
          stop : {"none", "blocked", "locked", "failed", "max_steps_reached",
                  "loop_stopped", "loop_completed", "thrown"}]

NoLoop == [pc |-> "off", n |-> 0, max |-> 0, decisions |-> {}, branch |-> "none",
           slice |-> NoSlice, attempt |-> 0, output |-> "none", stop |-> "none"]

NoReport == [status |-> "none", by |-> 0]
NoEvidence == [slice |-> NoSlice, passed |-> FALSE]

BuildInit ==
  /\ Init
  /\ loop = NoLoop
  /\ holder = "none"
  /\ report = NoReport
  /\ evidence = NoEvidence
  /\ unverified = {} /\ worked = {}
  /\ loops = 0 /\ meddled = 0 /\ crashes = 0
  /\ undisturbed = FALSE

-----------------------------------------------------------------------------
(* acquirePawSessionLock: a free lock, or one that has expired. *)
LockAvailable == holder \in {"none", "expired"}

(* releasePawSessionLock: the process's own lock, expired or not. *)
Released == IF holder = "other" THEN "other" ELSE "none"

files == <<report, evidence, unverified, worked>>
counters == <<loops, meddled, crashes>>

(* getPawBuildLoopStopReason.  "failed" stands for the statuses invalid_state,
   no_selected_slice, invalid_*, worker_failed and reviewer_failed, "locked"
   also for locked_by_other and not_locked. *)
getPawBuildLoopStopReason(status) ==
  CASE status \in {"advanced", "completed"} -> "none"
    [] status = "blocked" -> "blocked"
    [] status = "locked" -> "locked"
    [] status = "failed" -> "failed"

(* Mutant: one step more than --max-steps. *)
MutOneStepMore(status, decisions) ==
  LET stop == getPawBuildLoopStopReason(status)
      n == loop.n + 1
      l == [NoLoop EXCEPT !.n = n, !.max = loop.max, !.decisions = decisions]
  IN  loop' = CASE stop # "none" -> [l EXCEPT !.stop = stop]
                [] stop = "none" /\ n <= loop.max -> [l EXCEPT !.pc = "dispatch"]
                [] stop = "none" /\ n > loop.max ->
                     [l EXCEPT !.stop = "max_steps_reached"]

(* Mutant: only steps that got somewhere are counted. *)
MutCountsAdvances(status, decisions) ==
  LET n == IF status \in {"advanced", "completed"} THEN loop.n + 1 ELSE loop.n
      l == [NoLoop EXCEPT !.n = n, !.max = loop.max, !.decisions = decisions]
  IN  loop' = IF n < loop.max THEN [l EXCEPT !.pc = "dispatch"]
              ELSE [l EXCEPT !.stop = "max_steps_reached"]

(* The end of an iteration of createPawBuildLoopResult: the next step, the
   early exit, or the bound. *)
StepEnds(status, decisions) ==
  LET stop == getPawBuildLoopStopReason(status)
      n == loop.n + 1
      l == [NoLoop EXCEPT !.n = n, !.max = loop.max, !.decisions = decisions]
  IN  loop' = CASE stop # "none" -> [l EXCEPT !.stop = stop]
                [] stop = "none" /\ n < loop.max -> [l EXCEPT !.pc = "dispatch"]
                [] stop = "none" /\ n >= loop.max ->
                     [l EXCEPT !.stop = "max_steps_reached"]

(* createPawBuildLoopResult *)
BuildStart ==
  /\ loop.pc = "off"
  /\ loops < MaxLoops
  /\ loops' = loops + 1
  /\ \E max \in MaxSteps :
       loop' = [NoLoop EXCEPT !.pc = "dispatch", !.max = max]
  /\ undisturbed' = (state.name = "PLAN_APPROVED" /\ holder = "none")
  /\ UNCHANGED <<vars, holder, files, meddled, crashes>>

(* dispatchPawBuildStepByState, on what the state is now *)
BranchOf(name) ==
  CASE name \in {"PLAN_APPROVED", "SLICE_DONE"} -> "select"
    [] name = "SLICE_SELECT" -> "begin"
    [] name = "REVIEWING" -> "reviewer"
    [] name = "VERIFYING" -> "verify"
    [] OTHER -> "worker"

DispatchStep ==
  /\ loop.pc = "dispatch"
  /\ loop' = [loop EXCEPT !.pc = "enter", !.branch = BranchOf(state.name)]
  /\ UNCHANGED <<vars, holder, files, counters, undisturbed>>

Enter(branch) == loop.pc = "enter" /\ loop.branch = branch

(* Any step: the lock is somebody else's. *)
EnterLocked ==
  /\ loop.pc = "enter"
  /\ ~LockAvailable
  /\ StepEnds("locked", loop.decisions)
  /\ UNCHANGED <<vars, holder, files, counters, undisturbed>>

(* createPawSelectSliceCommandResult and createPawBeginImplementationCommandResult:
   the lock is taken, the transition made if it is allowed now, and the lock
   given back. *)
NoPendingSlices ==
  state.name \in {"PLAN_APPROVED", "SLICE_DONE"} /\ state.pending_slice_ids = <<>>

AllowsMove(to) ==
  TransitionOk(state, [to |-> to, slice_ids |-> <<>>, reason |-> NoReason])

(* Mutant: the step trusts the state the loop has seen. *)
MutMoveUnchecked(branch, to) ==
  /\ Enter(branch)
  /\ LockAvailable
  /\ \/ /\ state' = [state EXCEPT !.name = to]
        /\ UNCHANGED <<approved, gates>>
        /\ StepEnds("advanced", loop.decisions)
     \/ /\ branch = "select" /\ NoPendingSlices
        /\ loop' = [loop EXCEPT !.pc = "report", !.n = @ + 1]
        /\ UNCHANGED vars
  /\ holder' = "none"
  /\ UNCHANGED <<files, counters, undisturbed>>

MoveStep(branch, to) ==
  /\ Enter(branch)
  /\ LockAvailable
  /\ \/ /\ Advance(to, <<>>)
        /\ StepEnds("advanced", loop.decisions)
     \/ /\ ~AllowsMove(to)
        /\ ~(branch = "select" /\ NoPendingSlices)
        /\ StepEnds("failed", loop.decisions)
        /\ UNCHANGED vars
     \/ /\ branch = "select" /\ NoPendingSlices
        /\ loop' = [loop EXCEPT !.pc = "report", !.n = @ + 1]
        /\ UNCHANGED vars
  /\ holder' = "none"
  /\ UNCHANGED <<files, counters, undisturbed>>

SelectStep == MoveStep("select", "SLICE_SELECT")

BeginStep == MoveStep("begin", "IMPLEMENTING")

-----------------------------------------------------------------------------
(* The sub-agent steps *)

StageOf == [worker |-> "IMPLEMENTING", reviewer |-> "REVIEWING", verify |-> "VERIFYING"]

PassOf == [worker |-> "REVIEWING", reviewer |-> "VERIFYING", verify |-> "SLICE_DONE"]

(* runPawWorkerOnce and runPawReviewerOnce up to the first attempt *)
CallSubAgent(role) ==
  /\ Enter(role)
  /\ LockAvailable
  /\ \/ /\ state.name = StageOf[role] /\ state.current_slice_id # NoSlice
        /\ holder' = "build"
        /\ loop' = [loop EXCEPT !.pc = "call", !.attempt = 1,
                                !.slice = state.current_slice_id]
     \/ /\ state.name # StageOf[role] \/ state.current_slice_id = NoSlice
        /\ holder' = "none"
        /\ StepEnds("failed", loop.decisions)
  /\ UNCHANGED <<vars, files, counters, undisturbed>>

(* maxInvalidAttempts of evaluatePawSubAgentResponse, and the attempts of
   runWorkerRuntimeWithRetry and runReviewerRuntimeWithRetry. *)
MutMaxInvalidAttempts == 3
maxInvalidAttempts == 2
runtimeAttempts == 2

(* evaluatePawSubAgentResponse: an answer that meets the contract is accepted, an
   invalid one is tried again or becomes a blocked output.  An unavailable
   provider, a missing sandbox and an oversized handoff are blocked outputs too. *)
SubAgentAnswers ==
  /\ loop.pc = "call"
  /\ loop.branch \in {"worker", "reviewer"}
  /\ \/ \E output \in {"pass", "blocked", "fail"} :
          loop' = [loop EXCEPT !.pc = "record", !.output = output]
     \/ /\ loop.attempt < maxInvalidAttempts /\ loop.attempt < runtimeAttempts
        /\ loop' = [loop EXCEPT !.attempt = @ + 1]
     \/ /\ loop.attempt < maxInvalidAttempts /\ loop.attempt = runtimeAttempts
        /\ loop' = [NoLoop EXCEPT !.stop = "thrown"]
     \/ /\ loop.attempt >= maxInvalidAttempts
        /\ loop' = [loop EXCEPT !.pc = "record", !.output = "blocked"]
  /\ undisturbed' = (undisturbed /\ loop'.output \in {"none", "pass"})
  /\ UNCHANGED <<vars, holder, files, counters>>

(* The recorders' checks after the call: the lock is still this process's and
   not stale, the stage is the one expected, and the output, whose slice id was
   checked against the invocation's, is about the current slice. *)
MutRecordable(stage) == state.name = stage

Recordable(stage) ==
  /\ holder = "build"
  /\ state.name = stage
  /\ state.current_slice_id # NoSlice
  /\ loop.slice = state.current_slice_id

(* completePawWorkerPass, completePawReviewerPass, blockPawWorkerResult,
   blockPawReviewerResult; a "fail" output is not recorded at all.  A pass may
   also be refused for its patches. *)
RecordSubAgent(role) ==
  /\ loop.pc = "record" /\ loop.branch = role
  /\ \/ /\ loop.output = "pass" /\ Recordable(StageOf[role])
        /\ Advance(PassOf[role], <<>>)
        /\ StepEnds("completed", loop.decisions)
        /\ UNCHANGED undisturbed
     \/ /\ loop.output = "blocked" /\ Recordable(StageOf[role])
        /\ \E code \in BlockedCodes : Block(code, loop.slice)
        /\ StepEnds("blocked", loop.decisions)
        /\ UNCHANGED undisturbed
     \/ /\ loop.output = "fail" \/ ~Recordable(StageOf[role])
           \/ (role = "worker" /\ loop.output = "pass")
        /\ StepEnds(IF loop.output # "fail" /\ holder # "build" THEN "locked" ELSE "failed",
                    loop.decisions)
        /\ undisturbed' = FALSE
        /\ UNCHANGED vars
  /\ worked' = IF loop.branch = "worker" /\ loop.output = "pass"
               THEN worked \cup {loop.slice} ELSE worked
  /\ holder' = Released
  /\ UNCHANGED <<report, evidence, unverified, counters>>

-----------------------------------------------------------------------------
(* paw verify: createPawVerifyCommandResult takes the lock whatever the state
   is, runs the gates (with --native) and completes the verification. *)
VerifyStep ==
  /\ Enter("verify")
  /\ LockAvailable
  /\ holder' = "build"
  /\ \E output \in {"verified", "unverified", "unrun"} :
       loop' = [loop EXCEPT !.pc = "record", !.output = output,
                            !.slice = state.current_slice_id]
  /\ UNCHANGED <<vars, files, counters, undisturbed>>

Decided(ds) == ds \cup {loop.output = "verified"}

CompleteVerification ==
  /\ loop.pc = "record" /\ loop.branch = "verify"
  /\ LET ok == holder = "build" /\ state.name = "VERIFYING" /\ state.current_slice_id # NoSlice
     IN  \/ /\ ok
            /\ Advance("SLICE_DONE", <<>>)
            /\ unverified' = IF loop.output = "verified" THEN unverified
                             ELSE unverified \cup {<<state.current_slice_id, loops>>}
            /\ loop' = [loop EXCEPT !.pc = "evidence", !.slice = state.current_slice_id]
            /\ UNCHANGED <<holder, undisturbed>>
         \/ /\ ~ok
            /\ StepEnds(IF holder # "build" THEN "locked" ELSE "failed", loop.decisions)
            /\ holder' = Released
            /\ undisturbed' = FALSE
            /\ UNCHANGED <<vars, unverified>>
  /\ UNCHANGED <<report, evidence, worked, counters>>

(* writePawVerificationEvidence, and the lock is given back if it is still held. *)
EvidenceOf(slice, output) ==
  IF output = "unrun" THEN NoEvidence ELSE [slice |-> slice, passed |-> output = "verified"]

WriteBuildEvidence ==
  /\ loop.pc = "evidence"
  /\ evidence' = EvidenceOf(loop.slice, loop.output)
  /\ holder' = Released
  /\ StepEnds("completed", Decided(loop.decisions))
  /\ UNCHANGED <<vars, report, unverified, worked, counters, undisturbed>>

-----------------------------------------------------------------------------
(* Mutant: persisted evidence comes before this invocation's decisions. *)
MutResolveEvidenceFirst(ds) ==
  IF evidence = NoEvidence THEN ds ELSE {evidence.passed}

(* resolvePawBuildLoopVerifyDecisions *)
resolvePawBuildLoopVerifyDecisions(ds) ==
  IF ds # {} \/ evidence = NoEvidence THEN ds ELSE {evidence.passed}

(* createPawFinalReport *)
ReportStatus(ds) == IF FALSE \in ds THEN "done_with_unverified" ELSE "done"

(* Mutant: the report is written before the state is checked. *)
MutReportFirst ==
  /\ loop.pc = "report"
  /\ LockAvailable
  /\ report' = [status |-> ReportStatus(resolvePawBuildLoopVerifyDecisions(loop.decisions)),
                by |-> loops]
  /\ \/ /\ Advance("FINAL_REPORT", <<>>)
        /\ loop' = [NoLoop EXCEPT !.n = loop.n, !.max = loop.max, !.stop = "loop_completed"]
     \/ /\ ~AllowsMove("FINAL_REPORT")
        /\ loop' = [NoLoop EXCEPT !.n = loop.n, !.max = loop.max, !.stop = "loop_stopped"]
        /\ UNCHANGED vars
  /\ holder' = "none"
  /\ UNCHANGED <<evidence, unverified, worked, counters, undisturbed>>

(* emitPawBuildLoopFinalReport and the end of createPawBuildLoopEarlyExitResult *)
EmitReport ==
  /\ loop.pc = "report"
  /\ LET emits == LockAvailable /\ state.name = "SLICE_DONE" /\ state.pending_slice_ids = <<>>
     IN  \/ /\ emits
            /\ report' = [status |-> ReportStatus(resolvePawBuildLoopVerifyDecisions(loop.decisions)),
                          by |-> loops]
            /\ Advance("FINAL_REPORT", <<>>)
            /\ loop' = [NoLoop EXCEPT !.n = loop.n, !.max = loop.max, !.stop = "loop_completed"]
         \/ /\ ~emits
            /\ loop' = [NoLoop EXCEPT !.n = loop.n, !.max = loop.max, !.stop = "loop_stopped"]
            /\ UNCHANGED <<vars, report>>
  /\ holder' = IF LockAvailable THEN "none" ELSE holder
  /\ UNCHANGED <<evidence, unverified, worked, counters, undisturbed>>

-----------------------------------------------------------------------------
(* The lock of a step that takes long passes its expiry. *)
LockExpires ==
  /\ holder = "build"
  /\ holder' = "expired"
  /\ undisturbed' = FALSE
  /\ UNCHANGED <<vars, loop, files, counters>>

(* The build process dies; the lock it holds is stale from then on. *)
BuildDies ==
  /\ loop.pc # "off"
  /\ crashes < MaxCrashes
  /\ crashes' = crashes + 1
  /\ loop' = NoLoop
  /\ holder' = IF holder = "build" THEN "expired" ELSE holder
  /\ undisturbed' = FALSE
  /\ UNCHANGED <<vars, files, loops, meddled>>

(* Commands of other shells, each under the lock. *)
OtherMoves ==
  \/ \E to \in ActiveStateNames \ {"IDLE", "REVIEWING", "SLICE_DONE", "FINAL_REPORT"},
        ids \in Plans : Advance(to, ids)
  \/ \E code \in BlockedCodes : Block(code, state.current_slice_id)
  \/ Approve \/ Reject \/ Retry

OtherWorkerPass ==
  /\ state.name = "IMPLEMENTING"
  /\ Advance("REVIEWING", <<>>)
  /\ worked' = worked \cup {state.current_slice_id}

(* paw verify writes evidence, paw complete-verification does not. *)
OtherVerification ==
  /\ state.name = "VERIFYING"
  /\ Advance("SLICE_DONE", <<>>)
  /\ \E output \in {"verified", "unverified", "unrun"} :
       /\ unverified' = IF output = "verified" THEN unverified
                        ELSE unverified \cup {<<state.current_slice_id, 0>>}
       /\ \/ evidence' = EvidenceOf(state.current_slice_id, output)
          \/ UNCHANGED evidence

(* paw finalize, without verify decisions *)
OtherFinalize ==
  /\ state.name = "SLICE_DONE"
  /\ Advance("FINAL_REPORT", <<>>)
  /\ report' = [status |-> ReportStatus({}), by |-> 0]

OtherShell ==
  /\ LockAvailable
  /\ approved = <<>> \/ meddled < MaxMeddling[loops]
  /\ meddled' = IF approved = <<>> THEN meddled ELSE meddled + 1
  /\ \/ OtherMoves /\ UNCHANGED files
     \/ OtherWorkerPass /\ UNCHANGED <<report, evidence, unverified>>
     \/ OtherVerification /\ UNCHANGED <<report, worked>>
     \/ OtherFinalize /\ UNCHANGED <<evidence, unverified, worked>>
  /\ holder' = "none"
  /\ undisturbed' = FALSE
  /\ UNCHANGED <<loop, loops, crashes>>

(* A command of another shell that takes long, and its end. *)
OtherTakesLock ==
  /\ LockAvailable
  /\ approved # <<>> /\ meddled < MaxMeddling[loops]
  /\ meddled' = meddled + 1
  /\ holder' = "other"
  /\ undisturbed' = FALSE
  /\ UNCHANGED <<vars, loop, files, loops, crashes>>

OtherGivesBack ==
  /\ holder = "other"
  /\ holder' = "none"
  /\ UNCHANGED <<vars, loop, files, counters, undisturbed>>

BuildStep ==
  \/ DispatchStep \/ EnterLocked \/ SelectStep \/ BeginStep
  \/ \E role \in {"worker", "reviewer"} : CallSubAgent(role) \/ RecordSubAgent(role)
  \/ SubAgentAnswers \/ VerifyStep \/ CompleteVerification \/ WriteBuildEvidence
  \/ EmitReport

BuildNext ==
  \/ BuildStart \/ BuildStep \/ LockExpires \/ BuildDies
  \/ OtherShell \/ OtherTakesLock \/ OtherGivesBack

(* The build process goes on; sub-agents and gates answer, both have timeouts. *)
BuildSpec == BuildInit /\ [][BuildNext]_buildVars /\ WF_buildVars(BuildStep)

-----------------------------------------------------------------------------
(* Type invariant. *)
BuildTypeOK ==
  /\ TypeOK
  /\ loop \in Loops
  /\ holder \in {"none", "build", "other", "expired"}
  /\ evidence \in [slice : SliceIds \cup {NoSlice}, passed : BOOLEAN]
  /\ report \in [status : {"none", "done", "done_with_unverified"}, by : 0..MaxLoops]
  /\ unverified \subseteq SliceIds \X (0..MaxLoops)
  /\ worked \subseteq SliceIds
  /\ loops \in 0..MaxLoops
  /\ undisturbed \in BOOLEAN

(* Whatever the loop dispatched on is stale by the time its step runs, and still
   all it does to state.json, with other shells, are moves of PawState. *)
BuildImplementsState == Spec

(* A slice comes to review only by a pass a worker reported of that very slice:
   a lock that expires during the call, and other shells that finish the slice
   and begin the next, do not credit an old answer to a new slice. *)
ReviewedWasWorked ==
  /\ state.name \in {"REVIEWING", "VERIFYING"} => state.current_slice_id \in worked
  /\ Range(state.completed_slice_ids) \subseteq worked

(* A loop that nothing disturbs takes five steps a slice and one to see that the
   plan is done: if it stops at --max-steps it had fewer, and otherwise it has
   completed. *)
StepsSuffice ==
  loop.stop # "none" /\ undisturbed =>
    LET needed == 5 * Len(approved) + 1
    IN  loop.stop = IF loop.max < needed THEN "max_steps_reached" ELSE "loop_completed"

(* A report of an invocation that says done is right about the slices that this
   invocation verified itself. *)
ReportHonestAboutOwn ==
  report.status = "done" /\ report.by > 0
    => \A i \in SliceIds : <<i, report.by>> \notin unverified

(* loop_completed is only returned with the task at its end: the report is on
   disk and every approved slice is completed.  No other stop reason, the bound
   least of all, leaves a report by this invocation. *)
CompletedLoopIsFinal ==
  /\ loop.stop = "loop_completed" => report.status # "none"
  /\ report.status # "none" => state.completed_slice_ids = approved /\ approved # <<>>
  /\ loop.stop \notin {"none", "loop_completed"} => report.by # loops \/ loops = 0

(* Between steps and after the last one the loop has given the lock back, and no
   sub-agent is left without a decision. *)
LockGivenBack ==
  /\ holder = "build" => loop.pc \in {"call", "record", "evidence"}
  /\ loop.stop # "thrown"

(* An invocation ends, also when every step of it is disturbed. *)
LoopEnds == loop.pc # "off" ~> loop.pc = "off"

(* SPEC.md: No false "done". *)
NoFalseDone ==
  state.name = "FINAL_REPORT" /\ report.status = "done" => unverified = {}
=============================================================================
