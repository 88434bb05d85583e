------------------------------ MODULE PawState ------------------------------
(***************************************************************************)
(* The Paw session state machine (paw/state.ts) and the user commands that *)
(* rewrite a session's state without going through its transition table    *)
(* (paw/approve-retry-command.ts).                                         *)
(*                                                                         *)
(* A session works through a plan of slices.  Its state is one record, the *)
(* content of state.json; every command reads it, computes the next record *)
(* and writes it back.  Here each command is one atomic step: module       *)
(* PawSession splits the steps at the file system and shows when that is   *)
(* sound.  Texts (message, suggested action, titles) are abstracted to     *)
(* whether they are filled in; slice ids are non-blank.                    *)
(***************************************************************************)
EXTENDS Naturals, Sequences, Functions

CONSTANTS
  SliceIds,      \* the slice ids a plan may use
  Plans,         \* the slice id lists callers pass with PLAN_APPROVED
  BlockedCodes,  \* the blocked reason codes callers use
  NoSlice,       \* null for a slice id
  NoReason       \* null for blocked_reason

(* PAW_ACTIVE_STATE_NAMES *)
ActiveStateNames ==
  {"IDLE", "INTAKE", "CLASSIFYING", "CLARIFYING", "SPEC_DRAFTED",
   "SPEC_APPROVED", "SCOUTING", "PLAN_DRAFTED", "PLAN_APPROVED",
   "SLICE_SELECT", "IMPLEMENTING", "REVIEWING", "VERIFYING", "SLICE_DONE",
   "FINAL_REPORT"}

(* PAW_BLOCKED_STATE_NAMES, by the PAW_BLOCKED_REASON_CODES they stand for *)
BlockedStateOf ==
  [NEEDS_USER_DECISION  |-> "BLOCKED_NEEDS_USER_DECISION",
   BUDGET_EXCEEDED      |-> "BLOCKED_BUDGET_EXCEEDED",
   TEST_FAILURE         |-> "BLOCKED_TEST_FAILURE",
   BUILD_FAILURE        |-> "BLOCKED_BUILD_FAILURE",
   TOOL_PERMISSION      |-> "BLOCKED_TOOL_PERMISSION",
   CONTEXT_MISSING      |-> "BLOCKED_CONTEXT_MISSING",
   PROVIDER_UNAVAILABLE |-> "BLOCKED_PROVIDER_UNAVAILABLE",
   SANDBOX_UNAVAILABLE  |-> "BLOCKED_SANDBOX_UNAVAILABLE",
   PATCH_APPLY_FAILED   |-> "BLOCKED_PATCH_APPLY_FAILED"]

BlockedReasonCodes == DOMAIN BlockedStateOf

BlockedStateNames == Range(BlockedStateOf)

StateNames == ActiveStateNames \cup BlockedStateNames

ASSUME ConstantsAssumption ==
  /\ NoSlice \notin SliceIds
  /\ Plans \subseteq Seq(SliceIds)
  /\ BlockedCodes \subseteq BlockedReasonCodes
  /\ NoReason \notin [code : BlockedReasonCodes, filled : BOOLEAN,
                      slice_id : SliceIds \cup {NoSlice},
                      resume_state : ActiveStateNames]

(* PawBlockedReason; filled: message and suggested_action are both non-blank *)
BlockedReasons == [code : BlockedReasonCodes, filled : BOOLEAN,
                   slice_id : SliceIds \cup {NoSlice},
                   resume_state : ActiveStateNames]

(* PawSessionState *)
SessionStates == [name : StateNames,
                  current_slice_id : SliceIds \cup {NoSlice},
                  pending_slice_ids : Seq(SliceIds),
                  completed_slice_ids : Seq(SliceIds),
                  blocked_reason : BlockedReasons \cup {NoReason}]

(* PAW_ALLOWED_ACTIVE_TRANSITIONS *)
AllowedActiveTransitions ==
  [IDLE          |-> {"INTAKE"},
   INTAKE        |-> {"CLASSIFYING"},
   CLASSIFYING   |-> {"CLARIFYING"},
   CLARIFYING    |-> {"SPEC_DRAFTED"},
   SPEC_DRAFTED  |-> {"SPEC_APPROVED"},
   SPEC_APPROVED |-> {"SCOUTING"},
   SCOUTING      |-> {"PLAN_DRAFTED"},
   PLAN_DRAFTED  |-> {"PLAN_APPROVED"},
   PLAN_APPROVED |-> {"SLICE_SELECT"},
   SLICE_SELECT  |-> {"IMPLEMENTING"},
   IMPLEMENTING  |-> {"REVIEWING"},
   REVIEWING     |-> {"VERIFYING"},
   VERIFYING     |-> {"SLICE_DONE"},
   SLICE_DONE    |-> {"SLICE_SELECT", "FINAL_REPORT"},
   FINAL_REPORT  |-> {"IDLE"}]

(* createInitialPawSessionState *)
InitialSessionState ==
  [name |-> "IDLE", current_slice_id |-> NoSlice, pending_slice_ids |-> <<>>,
   completed_slice_ids |-> <<>>, blocked_reason |-> NoReason]

IsBlocked(name) == name \in BlockedStateNames

(* addDuplicateIssues *)
NoDuplicates(ids) == IsInjective(ids)

(* validatePawBlockedReasonField and validateBlockedReason *)
ValidBlockedReason(name, reason) ==
  IF IsBlocked(name)
  THEN /\ reason # NoReason
       /\ BlockedStateOf[reason.code] = name
       /\ reason.filled
       /\ reason.resume_state \in ActiveStateNames
  ELSE reason = NoReason

(* Mutant: the pending/completed overlap is not checked. *)
MutNoOverlapCheck(s) ==
  /\ NoDuplicates(s.pending_slice_ids)
  /\ NoDuplicates(s.completed_slice_ids)
  /\ ValidBlockedReason(s.name, s.blocked_reason)

(* assertValidPawSessionState with validatePawSliceListOverlap *)
ValidSessionState(s) ==
  /\ NoDuplicates(s.pending_slice_ids)
  /\ NoDuplicates(s.completed_slice_ids)
  /\ s.current_slice_id \notin Range(s.pending_slice_ids)
  /\ s.current_slice_id \notin Range(s.completed_slice_ids)
  /\ Range(s.pending_slice_ids) \cap Range(s.completed_slice_ids) = {}
  /\ ValidBlockedReason(s.name, s.blocked_reason)

(***************************************************************************)
(* transitionPawSessionState(s, t), in its three branches: resume a        *)
(* blocked state, enter a blocked one, follow the table.  The transition t *)
(* carries to, slice_ids and, for a blocked target, a reason [code,        *)
(* filled, slice_id] or NoReason.  XOk is "ok: true" and XValue the state  *)
(* it returns.                                                             *)
(***************************************************************************)
ResumeOk(s, t) == t.to = s.blocked_reason.resume_state

(* Mutant: the reason is kept. *)
MutResumeKeepsReason(s, name) == [s EXCEPT !.name = name]

ResumeValue(s, name) == [s EXCEPT !.name = name, !.blocked_reason = NoReason]

EnterBlockedValue(s, t) ==
  [s EXCEPT !.name = t.to,
            !.blocked_reason =
              [code |-> t.reason.code, filled |-> t.reason.filled,
               slice_id |-> IF t.reason.slice_id = NoSlice
                            THEN s.current_slice_id ELSE t.reason.slice_id,
               resume_state |-> s.name]]

EnterBlockedOk(s, t) ==
  /\ s.name \notin {"IDLE", "FINAL_REPORT"}
  /\ t.reason # NoReason
  /\ BlockedStateOf[t.reason.code] = t.to
  /\ t.reason.filled
  /\ ValidSessionState(EnterBlockedValue(s, t))

(* validateActiveTransitionGuard *)
ActiveTransitionGuard(s, t) ==
  /\ t.to = "PLAN_APPROVED" => t.slice_ids # <<>>
  /\ t.to = "SLICE_SELECT" => s.pending_slice_ids # <<>>
  /\ t.to \in {"IMPLEMENTING", "REVIEWING", "VERIFYING", "SLICE_DONE"}
       => s.current_slice_id # NoSlice
  /\ s.name = "SLICE_DONE" /\ t.to = "FINAL_REPORT"
       => s.pending_slice_ids = <<>>

(* Mutants: SLICE_SELECT pops the last slice, and it keeps a list in place of
   its first element. *)
MutSelectLast(s, t) ==
  LET n == Len(s.pending_slice_ids)
  IN  CASE t.to = "PLAN_APPROVED" ->
             [s EXCEPT !.name = t.to, !.pending_slice_ids = t.slice_ids]
        [] t.to = "SLICE_SELECT" ->
             [s EXCEPT !.name = t.to,
                       !.current_slice_id = s.pending_slice_ids[n],
                       !.pending_slice_ids = SubSeq(@, 1, n - 1)]
        [] t.to = "SLICE_DONE" ->
             [s EXCEPT !.name = t.to, !.current_slice_id = NoSlice,
                       !.completed_slice_ids = Append(@, s.current_slice_id)]
        [] OTHER -> [s EXCEPT !.name = t.to]

MutSelectList(s, t) ==
  CASE t.to = "PLAN_APPROVED" ->
         [s EXCEPT !.name = t.to, !.pending_slice_ids = t.slice_ids]
    [] t.to = "SLICE_SELECT" ->
         [s EXCEPT !.name = t.to,
                   !.current_slice_id = SubSeq(s.pending_slice_ids, 1, 1),
                   !.pending_slice_ids = Tail(@)]
    [] OTHER -> [s EXCEPT !.name = t.to]

(* applyActiveTransition *)
ApplyActiveTransition(s, t) ==
  CASE t.to = "PLAN_APPROVED" ->
         [s EXCEPT !.name = t.to, !.pending_slice_ids = t.slice_ids]
    [] t.to = "SLICE_SELECT" ->
         [s EXCEPT !.name = t.to,
                   !.current_slice_id = Head(s.pending_slice_ids),
                   !.pending_slice_ids = Tail(s.pending_slice_ids)]
    [] t.to = "SLICE_DONE" ->
         [s EXCEPT !.name = t.to,
                   !.current_slice_id = NoSlice,
                   !.completed_slice_ids =
                     IF s.current_slice_id \in Range(@) THEN @
                     ELSE Append(@, s.current_slice_id)]
    [] OTHER -> [s EXCEPT !.name = t.to, !.blocked_reason = NoReason]

ActiveOk(s, t) ==
  /\ t.to \in AllowedActiveTransitions[s.name]
  /\ ActiveTransitionGuard(s, t)
  /\ ValidSessionState(ApplyActiveTransition(s, t))

TransitionOk(s, t) ==
  /\ ValidSessionState(s)
  /\ IF IsBlocked(s.name) THEN ~IsBlocked(t.to) /\ ResumeOk(s, t)
     ELSE IF IsBlocked(t.to) THEN EnterBlockedOk(s, t)
     ELSE ActiveOk(s, t)

TransitionValue(s, t) ==
  IF IsBlocked(s.name) THEN ResumeValue(s, t.to)
  ELSE IF IsBlocked(t.to) THEN EnterBlockedValue(s, t)
  ELSE ApplyActiveTransition(s, t)

(* Mutants: approve finalizes whatever is pending, it goes on to the next
   slice without taking it off the queue, and it lets a slice skip review. *)
MutApproveFinalizes(s) ==
  CASE IsBlocked(s.name) /\ s.blocked_reason.code = "NEEDS_USER_DECISION" ->
         s.blocked_reason.resume_state
    [] s.name = "SLICE_DONE" -> "FINAL_REPORT"
    [] OTHER -> s.name

MutApproveSkipsReview(s) ==
  CASE s.name = "SPEC_DRAFTED" -> "SPEC_APPROVED"
    [] s.name = "IMPLEMENTING" -> "VERIFYING"
    [] OTHER -> s.name

MutApproveSelects(s) ==
  CASE IsBlocked(s.name) /\ s.blocked_reason.code = "NEEDS_USER_DECISION" ->
         s.blocked_reason.resume_state
    [] s.name = "SLICE_DONE" /\ s.pending_slice_ids # <<>> -> "SLICE_SELECT"
    [] OTHER -> s.name

(***************************************************************************)
(* executeApprove: the name the state file gets, or the name it has when   *)
(* the command leaves the file alone.  The PLAN_DRAFTED branch is written  *)
(* as in the code; PlanningKeepsQueueEmpty shows that it never applies.    *)
(***************************************************************************)
ApproveTarget(s) ==
  CASE IsBlocked(s.name) /\ s.blocked_reason.code = "NEEDS_USER_DECISION" ->
         s.blocked_reason.resume_state
    [] s.name = "SPEC_DRAFTED" -> "SPEC_APPROVED"
    [] s.name = "PLAN_DRAFTED" /\ s.pending_slice_ids # <<>> -> "PLAN_APPROVED"
    [] s.name = "SLICE_DONE" /\ s.pending_slice_ids = <<>> -> "FINAL_REPORT"
    [] OTHER -> s.name

(* executeReject: the transition it asks for; filled: the user's reason is
   not blank (suggested_action never is) *)
RejectTransition(s, filled) ==
  [to |-> "BLOCKED_NEEDS_USER_DECISION", slice_ids |-> <<>>,
   reason |-> [code |-> "NEEDS_USER_DECISION", filled |-> filled,
               slice_id |-> s.current_slice_id]]

-----------------------------------------------------------------------------
VARIABLES
  state,     \* the session's state record, the content of state.json
  approved,  \* history: every slice id ever approved, in plan order
  gates      \* history: the stages each slice has been in

vars == <<state, approved, gates>>

(* The slice stages a slice has to pass before it counts as completed. *)
SliceStages == {"IMPLEMENTING", "REVIEWING", "VERIFYING"}

Init ==
  /\ state = InitialSessionState
  /\ approved = <<>>
  /\ gates = [i \in SliceIds |-> {}]

(* Bookkeeping of the two history variables for a change from s to n. *)
ApprovedAfter(s, n, a) ==
  IF s.name = "PLAN_DRAFTED" /\ n.name = "PLAN_APPROVED"
  THEN a \o n.pending_slice_ids ELSE a

GatesAfter(n, g) ==
  IF n.current_slice_id = NoSlice \/ n.name \notin SliceStages THEN g
  ELSE [g EXCEPT ![n.current_slice_id] = @ \cup {n.name}]

(* writePawSessionState: it refuses (throws on) an invalid record. *)
WriteState(n) ==
  /\ ValidSessionState(n)
  /\ state' = n
  /\ approved' = ApprovedAfter(state, n, approved)
  /\ gates' = GatesAfter(n, gates)

(* advancePawTaskSession and the result recorders, to an active state *)
Advance(to, ids) ==
  LET t == [to |-> to, slice_ids |-> ids, reason |-> NoReason]
  IN  /\ TransitionOk(state, t)
      /\ WriteState(TransitionValue(state, t))

(* The blocked-result recorders and advancePawTaskSession to a blocked state *)
Block(code, sliceId) ==
  LET t == [to |-> BlockedStateOf[code], slice_ids |-> <<>>,
            reason |-> [code |-> code, filled |-> TRUE, slice_id |-> sliceId]]
  IN  /\ TransitionOk(state, t)
      /\ WriteState(TransitionValue(state, t))

(* paw approve *)
Approve ==
  /\ ApproveTarget(state) # state.name
  /\ WriteState(ResumeValue(state, ApproveTarget(state)))

(* paw reject *)
Reject ==
  /\ ~IsBlocked(state.name)
  /\ \E filled \in BOOLEAN :
       /\ TransitionOk(state, RejectTransition(state, filled))
       /\ WriteState(TransitionValue(state, RejectTransition(state, filled)))

(* Mutant: retry starts the slice over. *)
MutRetryRestarts ==
  /\ IsBlocked(state.name)
  /\ WriteState(ResumeValue(state, "SLICE_SELECT"))

(* paw retry of a blocked session; on an active one it writes nothing *)
Retry ==
  /\ IsBlocked(state.name)
  /\ WriteState(ResumeValue(state, state.blocked_reason.resume_state))

Next ==
  \/ \E to \in ActiveStateNames, ids \in Plans : Advance(to, ids)
  \/ \E code \in BlockedCodes, i \in SliceIds \cup {NoSlice} : Block(code, i)
  \/ Approve
  \/ Reject
  \/ Retry

Spec == Init /\ [][Next]_vars

-----------------------------------------------------------------------------
(* The active state a session is in, or was in when it was blocked. *)
ActiveName(s) ==
  IF IsBlocked(s.name) THEN s.blocked_reason.resume_state ELSE s.name

(* The active names before a plan is approved, and those of a slice's run. *)
PlanningNames == {"IDLE", "INTAKE", "CLASSIFYING", "CLARIFYING",
                  "SPEC_DRAFTED", "SPEC_APPROVED", "SCOUTING", "PLAN_DRAFTED"}

SliceNames == {"SLICE_SELECT"} \cup SliceStages

CurrentSeq(s) ==
  IF s.current_slice_id = NoSlice THEN <<>> ELSE <<s.current_slice_id>>

(* Type invariant of the state record and of the histories. *)
TypeOK ==
  /\ state \in SessionStates
  /\ approved \in Seq(SliceIds)
  /\ gates \in [SliceIds -> SUBSET SliceStages]

(* assertValidPawSessionState accepts the state file's record. *)
StateIsValid == ValidSessionState(state)

(* The records that no transition check guards are valid too: the one that
   resumeBlockedState returns without validating it, and the ones approve and
   retry build by hand.  Otherwise writePawSessionState would throw and the
   session could not be resumed by any command. *)
HandBuiltRecordsAreValid ==
  /\ IsBlocked(state.name)
       => ValidSessionState(ResumeValue(state, state.blocked_reason.resume_state))
  /\ ApproveTarget(state) # state.name
       => ValidSessionState(ResumeValue(state, ApproveTarget(state)))

(* Slices are worked on in plan order and none is lost, repeated or
   reordered, over any sequence of blocks, resumes, rejects and second plans:
   completed, then current, then pending is always the list of ids approved
   so far (applyActiveTransition, resumeBlockedState, executeApprove). *)
SliceOrderConserved ==
  state.completed_slice_ids \o CurrentSeq(state) \o state.pending_slice_ids
    = approved

(* A slice is current exactly from SLICE_SELECT to VERIFYING, a block in
   between included, so the guards on current_slice_id never strand a
   session (validateActiveTransitionGuard). *)
CurrentIffInSlice ==
  (state.current_slice_id # NoSlice) <=> (ActiveName(state) \in SliceNames)

(* Until a plan is approved the queue is empty, and it is empty again at
   FINAL_REPORT: the PLAN_APPROVED assignment of pending_slice_ids never
   drops a slice, and the PLAN_DRAFTED branch of executeApprove never applies. *)
PlanningKeepsQueueEmpty ==
  ActiveName(state) \in PlanningNames \cup {"FINAL_REPORT"}
    => state.pending_slice_ids = <<>>

(* FINAL_REPORT is reached, by finalize or by approve, only when every slice
   ever approved is completed. *)
FinalReportMeansAllDone ==
  state.name = "FINAL_REPORT" => state.completed_slice_ids = approved

(* No slice is completed that was not implemented, reviewed and verified:
   approve, reject and retry give no way round a stage. *)
CompletedPassedEveryStage ==
  \A i \in Range(state.completed_slice_ids) : SliceStages \subseteq gates[i]

(* A completed slice stays completed and is never worked on again. *)
CompletedNeverRedone ==
  [][/\ Range(state.completed_slice_ids)
          \subseteq Range(state'.completed_slice_ids)
     /\ state'.current_slice_id \notin Range(state.completed_slice_ids)]_vars

(* Blocking a session, from whatever state and by whatever command, and
   resuming it by retry, approve or a transition move no slice and bring the
   session back to the state it was blocked in (enterBlockedState,
   resumeBlockedState, executeRetry, executeApprove). *)
BlockingLosesNothing ==
  [][IsBlocked(state.name) \/ IsBlocked(state'.name)
       => /\ ActiveName(state') = ActiveName(state)
          /\ state'.current_slice_id = state.current_slice_id
          /\ state'.pending_slice_ids = state.pending_slice_ids
          /\ state'.completed_slice_ids = state.completed_slice_ids]_vars

(* The inductive invariant behind the properties above: a stage is reached
   only through the ones before it, which is what gates records. *)
StagesBefore ==
  [name \in SliceStages |->
     CASE name = "IMPLEMENTING" -> {}
       [] name = "REVIEWING" -> {"IMPLEMENTING"}
       [] name = "VERIFYING" -> {"IMPLEMENTING", "REVIEWING"}]

CurrentPassedItsStages ==
  ActiveName(state) \in SliceStages
    => StagesBefore[ActiveName(state)] \cup {ActiveName(state)}
         \subseteq gates[state.current_slice_id]
=============================================================================
