--------------------------- MODULE PawBuildProofs ---------------------------
(***************************************************************************)
(* Theorems about PawBuild for every set of slices, plans and blocked      *)
(* codes, every --max-steps and any number of invocations, commands of     *)
(* other shells and deaths.                                                *)
(*                                                                         *)
(* First the refinement: every step of the loop and of the other shells is *)
(* a step of PawState or leaves state.json alone, so the invariant of      *)
(* PawStateProofs holds here too.  On top of it BInv ties what the loop    *)
(* remembers between its steps to state.json, the report and the           *)
(* histories.                                                              *)
(***************************************************************************)
EXTENDS PawBuild, PawStateProofs

(* A loop that has stopped is off. *)
StoppedIsOff == loop.stop # "none" => loop.pc = "off"

(* Only the three long steps are in the middle of something, and a sub-agent
   works on a slice. *)
BranchOfStep ==
  /\ loop.pc = "call" => loop.branch \in {"worker", "reviewer"}
  /\ loop.pc = "record" => loop.branch \in {"worker", "reviewer", "verify"}
  /\ loop.pc \in {"call", "record"} /\ loop.branch # "verify" => loop.slice # NoSlice

(* The report is the last thing an invocation writes. *)
ReportEndsLoop ==
  /\ report.by <= loops
  /\ loop.pc # "off" => loops > 0
  /\ loops > 0 /\ report.by = loops => loop.pc = "off" /\ loop.stop = "loop_completed"
  /\ loop.stop = "loop_completed" => report.status # "none"

(* With the report the session is at its end, where no command moves it. *)
ReportMeansFinal == report.status # "none" => state.name = "FINAL_REPORT"

(* What was completed, by the state's name: there is one plan. *)
DoneHasSlices ==
  ActiveName(state) \in {"SLICE_DONE", "FINAL_REPORT"} => state.completed_slice_ids # <<>>

OnePlan ==
  /\ ActiveName(state) \in PlanningNames \cup {"PLAN_APPROVED"}
       => state.completed_slice_ids = <<>>
  /\ ActiveName(state) = "PLAN_APPROVED" => state.pending_slice_ids # <<>>

(* A slice in review or verification, also when blocked there, was worked on. *)
StageWasWorked ==
  /\ ActiveName(state) \in {"REVIEWING", "VERIFYING"} => state.current_slice_id \in worked
  /\ Range(state.completed_slice_ids) \subseteq worked

(* The invocation knows of every slice it has completed unverified, or is about
   to note it down. *)
OwnUnverifiedKnown ==
  /\ \A u \in unverified : u[2] <= loops
  /\ loop.pc # "off" =>
       \A i \in SliceIds : <<i, loops>> \in unverified =>
         \/ FALSE \in loop.decisions
         \/ loop.pc = "evidence" /\ loop.output # "verified"

(* How many steps into a slice the session is. *)
StepsInto ==
  [PLAN_APPROVED |-> 0, SLICE_DONE |-> 0, SLICE_SELECT |-> 1, IMPLEMENTING |-> 2,
   REVIEWING |-> 3, VERIFYING |-> 4]

LongSteps == {"call", "record", "evidence"}

(* An undisturbed loop has run exactly the steps that state.json shows. *)
StepsCounted ==
  LET done == 5 * Len(state.completed_slice_ids) IN
  /\ state.name \in DOMAIN StepsInto
  /\ loop.pc = "evidence" => state.name = "SLICE_DONE" /\ loop.n + 1 = done
  /\ loop.pc = "report" => /\ state.name = "SLICE_DONE" /\ state.pending_slice_ids = <<>>
                           /\ loop.n = done + 1
  /\ loop.pc \in {"dispatch", "enter", "call", "record"}
       => loop.n = done + StepsInto[state.name]
  /\ loop.pc \in {"enter", "call", "record"} => loop.branch = BranchOf(state.name)
  /\ loop.pc = "record" /\ loop.branch # "verify" => loop.output = "pass"
  /\ loop.n <= loop.max
  /\ loop.pc # "report" => loop.n < loop.max

UndisturbedProgress ==
  undisturbed => /\ holder = IF loop.pc \in LongSteps THEN "build" ELSE "none"
                 /\ loop.pc # "off" => StepsCounted

(* The inductive invariant. *)
BInv ==
  /\ IInv
  /\ BuildTypeOK
  /\ StoppedIsOff /\ BranchOfStep
  /\ LockGivenBack
  /\ ReportEndsLoop /\ ReportMeansFinal /\ DoneHasSlices /\ OnePlan
  /\ StageWasWorked
  /\ OwnUnverifiedKnown /\ ReportHonestAboutOwn
  /\ UndisturbedProgress /\ StepsSuffice

-----------------------------------------------------------------------------
(* What the commands do to state.json. *)

(* A block is refused at the two ends of a session, and lands in a blocked state. *)
LEMMA BlockLands ==
  ASSUME IInv, NEW code \in BlockedReasonCodes, NEW i, NEW filled,
         NEW t, t = [to |-> BlockedStateOf[code], slice_ids |-> <<>>,
                     reason |-> [code |-> code, filled |-> filled, slice_id |-> i]],
         TransitionOk(state, t), WriteState(TransitionValue(state, t))
  PROVE  ~IsBlocked(state.name) /\ state.name # "FINAL_REPORT" /\ IsBlocked(state'.name)
<1>1. IsBlocked(t.to)
  BY BlockedNames DEF IsBlocked
<1>2. ~IsBlocked(state.name) /\ state.name # "FINAL_REPORT"
  BY <1>1 DEF TransitionOk, EnterBlockedOk
<1>3. state' = EnterBlockedValue(state, t)
  BY <1>1, <1>2 DEF TransitionValue, WriteState
<1>4. state'.name = t.to
  BY <1>3 DEF EnterBlockedValue, IInv, TypeOK, SessionStates
<1> QED
  BY <1>1, <1>2, <1>4

(* approve, reject and retry, from an active state: none leads back to IDLE or
   into review, and none moves a finished session. *)
LEMMA DecisionLands ==
  ASSUME IInv, Approve \/ Reject \/ Retry
  PROVE  /\ ~IsBlocked(state.name) /\ ~IsBlocked(state'.name)
              => state'.name \notin {"IDLE", "REVIEWING"}
         /\ state.name = "FINAL_REPORT" => state'.name = "FINAL_REPORT"
<1>1. CASE Approve
  <2>1. state'.name = ApproveTarget(state) /\ ApproveTarget(state) # state.name
    BY <1>1 DEF Approve, WriteState, ResumeValue, IInv, TypeOK, SessionStates
  <2>2. ~IsBlocked("FINAL_REPORT")
    BY ActiveNotBlocked DEF IsBlocked, ActiveStateNames
  <2> QED
    BY <2>1, <2>2 DEF ApproveTarget
<1>2. CASE Reject
  <2>1. PICK filled \in BOOLEAN :
             /\ TransitionOk(state, RejectTransition(state, filled))
             /\ WriteState(TransitionValue(state, RejectTransition(state, filled)))
    BY <1>2 DEF Reject
  <2> DEFINE t == RejectTransition(state, filled)
  <2>2. /\ t = [to |-> BlockedStateOf["NEEDS_USER_DECISION"], slice_ids |-> <<>>,
                reason |-> [code |-> "NEEDS_USER_DECISION", filled |-> filled,
                            slice_id |-> state.current_slice_id]]
        /\ "NEEDS_USER_DECISION" \in BlockedReasonCodes
    BY BlockedNames DEF RejectTransition
  <2> HIDE DEF t
  <2>3. TransitionOk(state, t) /\ WriteState(TransitionValue(state, t))
    BY <2>1 DEF t
  <2>4. state.name # "FINAL_REPORT" /\ IsBlocked(state'.name)
    BY <2>2, <2>3, BlockLands
  <2> QED
    BY <2>4
<1>3. CASE Retry
  <2>1. IsBlocked(state.name) /\ ~IsBlocked("FINAL_REPORT")
    BY <1>3, ActiveNotBlocked DEF Retry, IsBlocked, ActiveStateNames
  <2> QED
    BY <2>1
<1> QED
  BY <1>1, <1>2, <1>3

(* The step of a command, as far as state.json, the report and the workers'
   passes go. *)
StateStep ==
  /\ [Next]_vars /\ IInv' /\ (KeepsSlices \/ MovesOn)
  /\ MovesOn => state'.name # "IDLE"
  /\ worked \subseteq worked'
  /\ MovesOn /\ state'.name = "REVIEWING" => state.current_slice_id \in worked'
  /\ state.name = "FINAL_REPORT" => state'.name = "FINAL_REPORT"
  /\ report' = report \/ state'.name = "FINAL_REPORT"

LEMMA StutterIsStateStep ==
  ASSUME IInv, UNCHANGED vars, worked \subseteq worked', report' = report
  PROVE  StateStep
<1>1. IInv' /\ (KeepsSlices \/ MovesOn)
  BY NextPreservesIInv
<1>2. state' = state
  BY DEF vars
<1>3. ~MovesOn
  <2>1. ~IsBlocked(state.name) => state.name \in ActiveStateNames
    BY ActiveFacts
  <2> QED
    BY <1>2, <2>1 DEF MovesOn, ActiveStateNames, AllowedActiveTransitions
<1> QED
  BY <1>1, <1>2, <1>3 DEF StateStep

LEMMA AdvanceIsStateStep ==
  ASSUME IInv, NEW to \in ActiveStateNames \ {"IDLE"}, NEW ids \in Seq(SliceIds),
         Advance(to, ids), ids \in Plans \/ (ids = <<>> /\ to # "PLAN_APPROVED"),
         to = "REVIEWING" => state.current_slice_id \in worked',
         worked \subseteq worked', report' = report \/ to = "FINAL_REPORT"
  PROVE  StateStep
<1>1. Next
  BY IdsOnlyForPlans, BuildAssumption DEF Next
<1>2. IInv' /\ (KeepsSlices \/ MovesOn)
  BY AdvanceStep
<1>3. state'.name = to
  BY AdvanceLands
<1>4. state.name = "FINAL_REPORT" => to = "FINAL_REPORT"
  <2>1. ~IsBlocked("FINAL_REPORT") /\ ~IsBlocked(to)
    BY ActiveNotBlocked DEF IsBlocked, ActiveStateNames
  <2>2. MovesOn /\ state.name = "FINAL_REPORT" => to = "IDLE"
    BY <1>3 DEF MovesOn, AllowedActiveTransitions
  <2> QED
    BY <1>2, <1>3, <2>1, <2>2 DEF KeepsSlices, ActiveName
<1> QED
  BY <1>1, <1>2, <1>3, <1>4 DEF StateStep

LEMMA BlockIsStateStep ==
  ASSUME IInv, NEW code \in BlockedCodes, NEW i \in SliceIds \cup {NoSlice},
         Block(code, i), worked \subseteq worked', report' = report
  PROVE  StateStep
<1>1. Next
  BY DEF Next
<1>2. IInv' /\ (KeepsSlices \/ MovesOn)
  BY <1>1, NextPreservesIInv
<1>3. state.name # "FINAL_REPORT" /\ IsBlocked(state'.name)
  <2> DEFINE t == [to |-> BlockedStateOf[code], slice_ids |-> <<>>,
                   reason |-> [code |-> code, filled |-> TRUE, slice_id |-> i]]
  <2>1. /\ TransitionOk(state, t) /\ WriteState(TransitionValue(state, t))
        /\ code \in BlockedReasonCodes
    BY ConstantsAssumption DEF Block
  <2> QED
    BY <2>1, BlockLands
<1> QED
  BY <1>1, <1>2, <1>3 DEF StateStep, MovesOn

LEMMA DecisionIsStateStep ==
  ASSUME IInv, Approve \/ Reject \/ Retry, worked \subseteq worked', report' = report
  PROVE  StateStep
<1>1. Next
  BY DEF Next
<1>2. IInv' /\ (KeepsSlices \/ MovesOn)
  BY <1>1, NextPreservesIInv
<1> QED
  BY <1>1, <1>2, DecisionLands DEF StateStep, MovesOn

(* Every step of the loop, of the other shells and of the environment is one. *)
LEMMA BuildNextIsStateStep ==
  ASSUME IInv, BuildTypeOK, [BuildNext]_buildVars
  PROVE  StateStep
<1>1. /\ <<>> \in Seq(SliceIds)
      /\ state.current_slice_id \in SliceIds \cup {NoSlice}
      /\ {"SLICE_SELECT", "IMPLEMENTING", "REVIEWING", "VERIFYING", "SLICE_DONE",
          "FINAL_REPORT"} \subseteq ActiveStateNames \ {"IDLE", "PLAN_APPROVED"}
      /\ Plans \subseteq Seq(SliceIds)
  BY ConstantsAssumption DEF IInv, TypeOK, SessionStates, ActiveStateNames
<1>2. CASE BuildStart
  BY <1>2, StutterIsStateStep DEF BuildStart, files
<1>3. CASE DispatchStep \/ EnterLocked \/ SubAgentAnswers \/ VerifyStep
           \/ WriteBuildEvidence
  BY <1>3, StutterIsStateStep DEF DispatchStep, EnterLocked, SubAgentAnswers,
       VerifyStep, WriteBuildEvidence, files
<1>4. ASSUME NEW branch, NEW to \in {"SLICE_SELECT", "IMPLEMENTING"},
             MoveStep(branch, to)
      PROVE  StateStep
  <2>1. worked' = worked /\ report' = report
    BY <1>4 DEF MoveStep, files
  <2>2. Advance(to, <<>>) \/ UNCHANGED vars
    BY <1>4 DEF MoveStep
  <2> QED
    BY <1>1, <2>1, <2>2, StutterIsStateStep, AdvanceIsStateStep
<1>5. ASSUME NEW role \in {"worker", "reviewer"}, CallSubAgent(role)
      PROVE  StateStep
  BY <1>5, StutterIsStateStep DEF CallSubAgent, files
<1>6. ASSUME NEW role \in {"worker", "reviewer"}, RecordSubAgent(role)
      PROVE  StateStep
  <2>1. worked \subseteq worked' /\ report' = report
    BY <1>6 DEF RecordSubAgent
  <2>2. CASE /\ loop.branch = role /\ loop.output = "pass"
             /\ Recordable(StageOf[role]) /\ Advance(PassOf[role], <<>>)
    <3>1. /\ PassOf[role] \in {"REVIEWING", "VERIFYING"}
          /\ PassOf[role] = "REVIEWING" => role = "worker"
      BY DEF PassOf
    <3>2. role = "worker" => state.current_slice_id \in worked'
      BY <1>6, <2>2 DEF RecordSubAgent, Recordable
    <3> QED
      BY <1>1, <2>1, <2>2, <3>1, <3>2, AdvanceIsStateStep
  <2>3. CASE Recordable(StageOf[role]) /\ \E code \in BlockedCodes : Block(code, loop.slice)
    BY <1>1, <2>1, <2>3, BlockIsStateStep DEF Recordable
  <2>4. CASE UNCHANGED vars
    BY <2>1, <2>4, StutterIsStateStep
  <2> QED
    BY <1>6, <2>2, <2>3, <2>4 DEF RecordSubAgent
<1>7. CASE CompleteVerification
  <2>1. worked' = worked /\ report' = report
    BY <1>7 DEF CompleteVerification
  <2>2. Advance("SLICE_DONE", <<>>) \/ UNCHANGED vars
    BY <1>7 DEF CompleteVerification
  <2> QED
    BY <1>1, <2>1, <2>2, StutterIsStateStep, AdvanceIsStateStep
<1>8. CASE EmitReport
  <2>1. worked' = worked
    BY <1>8 DEF EmitReport
  <2>2. Advance("FINAL_REPORT", <<>>) \/ (UNCHANGED vars /\ report' = report)
    BY <1>8 DEF EmitReport
  <2> QED
    BY <1>1, <2>1, <2>2, StutterIsStateStep, AdvanceIsStateStep
<1>9. CASE LockExpires \/ BuildDies \/ OtherTakesLock \/ OtherGivesBack
  BY <1>9, StutterIsStateStep DEF LockExpires, BuildDies, OtherTakesLock,
       OtherGivesBack, files
<1>10. CASE OtherShell
  <2>1. CASE OtherMoves /\ UNCHANGED files
    <3>1. worked' = worked /\ report' = report
      BY <2>1 DEF files
    <3>2. ASSUME NEW to \in ActiveStateNames \ {"IDLE", "REVIEWING", "SLICE_DONE",
                                                 "FINAL_REPORT"},
                 NEW ids \in Plans, Advance(to, ids)
          PROVE  StateStep
      BY <1>1, <3>1, <3>2, AdvanceIsStateStep
    <3> QED
      BY <1>1, <2>1, <3>1, <3>2, BlockIsStateStep, DecisionIsStateStep DEF OtherMoves
  <2>2. CASE OtherWorkerPass /\ UNCHANGED <<report, evidence, unverified>>
    BY <1>1, <2>2, AdvanceIsStateStep DEF OtherWorkerPass
  <2>3. CASE OtherVerification /\ UNCHANGED <<report, worked>>
    BY <1>1, <2>3, AdvanceIsStateStep DEF OtherVerification
  <2>4. CASE OtherFinalize /\ UNCHANGED <<evidence, unverified, worked>>
    BY <1>1, <2>4, AdvanceIsStateStep DEF OtherFinalize
  <2> QED
    BY <1>10, <2>1, <2>2, <2>3, <2>4 DEF OtherShell
<1>11. CASE UNCHANGED buildVars
  BY <1>11, StutterIsStateStep DEF buildVars
<1> QED
  BY <1>2, <1>3, <1>4, <1>5, <1>6, <1>7, <1>8, <1>9, <1>10, <1>11
     DEF BuildNext, BuildStep, SelectStep, BeginStep

-----------------------------------------------------------------------------
(* The conjuncts of BInv that such a step keeps whatever the loop does. *)

LEMMA FinalStays ==
  ASSUME StateStep, ReportMeansFinal
  PROVE  ReportMeansFinal'
BY DEF StateStep, ReportMeansFinal

(* The active name after a step, and what it makes of the completed slices. *)
LEMMA NameAfter ==
  ASSUME IInv, StateStep, MovesOn
  PROVE  /\ state.name \in ActiveStateNames
         /\ ActiveName(state) = state.name /\ ActiveName(state') = state'.name
         /\ state'.name \in AllowedActiveTransitions[state.name] \ {"IDLE"}
         /\ state.completed_slice_ids \in Seq(SliceIds)
BY ActiveFacts DEF MovesOn, ActiveName, StateStep, IInv, TypeOK, SessionStates

LEMMA DoneStaysNonempty ==
  ASSUME IInv, StateStep, DoneHasSlices
  PROVE  DoneHasSlices'
<1>1. CASE KeepsSlices
  BY <1>1 DEF KeepsSlices, DoneHasSlices
<1>2. CASE MovesOn
  <2>1. CASE state'.name = "SLICE_DONE"
    <3>1. /\ state.current_slice_id \in SliceIds \cup {NoSlice}
          /\ state.completed_slice_ids \in Seq(SliceIds \cup {NoSlice})
      BY DEF IInv, TypeOK, SessionStates
    <3>2. Append(state.completed_slice_ids, state.current_slice_id) # <<>>
      BY <3>1, AppendProperties
    <3> QED
      BY <1>2, <2>1, <3>2 DEF MovesOn, DoneHasSlices
  <2>2. CASE state'.name = "FINAL_REPORT"
    <3>1. state.name = "SLICE_DONE" /\ ActiveName(state) = "SLICE_DONE"
      BY <1>2, <2>2, NameAfter DEF AllowedActiveTransitions, ActiveStateNames
    <3> QED
      BY <1>2, <2>2, <3>1 DEF MovesOn, DoneHasSlices
  <2> QED
    BY <1>2, <2>1, <2>2, NameAfter DEF DoneHasSlices
<1> QED
  BY <1>1, <1>2 DEF StateStep

LEMMA OnePlanStays ==
  ASSUME IInv, StateStep, OnePlan
  PROVE  OnePlan'
<1>1. CASE KeepsSlices
  BY <1>1 DEF KeepsSlices, OnePlan
<1>2. CASE MovesOn
  <2>1. ActiveName(state') \in PlanningNames \cup {"PLAN_APPROVED"}
          => ActiveName(state) \in PlanningNames
    BY <1>2, NameAfter DEF AllowedActiveTransitions, ActiveStateNames, PlanningNames
  <2>2. ActiveName(state') \in PlanningNames \cup {"PLAN_APPROVED"}
          => state'.completed_slice_ids = state.completed_slice_ids
    BY <1>2, NameAfter DEF MovesOn, PlanningNames
  <2> QED
    BY <1>2, <2>1, <2>2, NameAfter DEF OnePlan, MovesOn
<1> QED
  BY <1>1, <1>2 DEF StateStep

LEMMA WorkedStays ==
  ASSUME IInv, StateStep, StageWasWorked
  PROVE  StageWasWorked'
<1>1. worked \subseteq worked'
  BY DEF StateStep
<1>2. CASE KeepsSlices
  BY <1>1, <1>2 DEF KeepsSlices, StageWasWorked
<1>3. CASE MovesOn
  <2>1. CASE state'.name = "SLICE_DONE"
    <3>1. ActiveName(state) = "VERIFYING"
      BY <1>3, <2>1, NameAfter DEF AllowedActiveTransitions, ActiveStateNames
    <3>2. state.current_slice_id \in SliceIds
      BY <3>1 DEF IInv, TypeOK, SessionStates, CurrentIffInSlice, SliceNames, SliceStages
    <3>3. Range(state'.completed_slice_ids)
            = Range(state.completed_slice_ids) \cup {state.current_slice_id}
      BY <1>3, <2>1, <3>2, NameAfter, RangeOfAppend DEF MovesOn
    <3> QED
      BY <1>1, <1>3, <2>1, <3>1, <3>3, NameAfter DEF StageWasWorked
  <2>2. CASE state'.name # "SLICE_DONE"
    <3>1. state'.completed_slice_ids = state.completed_slice_ids
      BY <1>3, <2>2 DEF MovesOn
    <3>2. state'.name = "VERIFYING" => ActiveName(state) = "REVIEWING"
      BY <1>3, NameAfter DEF AllowedActiveTransitions, ActiveStateNames
    <3>3. state'.name \in {"REVIEWING", "VERIFYING"}
            => state'.current_slice_id = state.current_slice_id
      BY <1>3 DEF MovesOn
    <3> QED
      BY <1>1, <1>3, <3>1, <3>2, <3>3, NameAfter DEF StageWasWorked, StateStep
  <2> QED
    BY <2>1, <2>2
<1> QED
  BY <1>2, <1>3 DEF StateStep

-----------------------------------------------------------------------------
(* The loop. *)

(* The numbers of a loop record, and the record of a loop that is off. *)
LEMMA LoopNumbers ==
  ASSUME NEW l \in Loops
  PROVE  l.n \in Nat /\ l.max \in Nat /\ l.max \in MaxSteps \cup {0}
<1>1. l.n \in Nat /\ l.max \in MaxSteps \cup {0}
  BY DEF Loops
<1>2. \A m \in MaxSteps \cup {0} : m \in Nat
  BY BuildAssumption
<1> QED
  BY <1>1, <1>2

LEMMA NoLoopIsLoop ==
  NoLoop \in Loops /\ NoLoop.pc = "off" /\ NoLoop.stop = "none"
<1>1. {} \in SUBSET BOOLEAN /\ 0 \in 0..2
  OBVIOUS
<1> QED
  BY <1>1 DEF NoLoop, Loops

Statuses == {"advanced", "completed", "blocked", "locked", "failed"}

(* The end of a step: the loop goes on exactly after a step that got somewhere
   and while the bound is not reached. *)
LEMMA StepEndsShape ==
  ASSUME loop \in Loops, NEW status \in Statuses, NEW ds \in SUBSET BOOLEAN,
         StepEnds(status, ds)
  PROVE  /\ loop' \in Loops
         /\ loop'.n = loop.n + 1 /\ loop'.max = loop.max /\ loop'.decisions = ds
         /\ loop'.pc \in {"off", "dispatch"}
         /\ loop'.pc = "dispatch" => /\ loop'.stop = "none" /\ loop'.n < loop'.max
                                     /\ status \in {"advanced", "completed"}
         /\ loop'.pc = "off" => loop'.stop \notin {"none", "loop_completed", "thrown"}
         /\ status \in {"advanced", "completed"} /\ loop'.pc = "off"
              => loop'.stop = "max_steps_reached" /\ loop'.n >= loop'.max
<1>1. loop.n \in Nat /\ loop.max \in Nat /\ loop.max \in MaxSteps \cup {0}
  BY LoopNumbers
<1> DEFINE stop == getPawBuildLoopStopReason(status)
           n == loop.n + 1
           l == [NoLoop EXCEPT !.n = n, !.max = loop.max, !.decisions = ds]
<1>2. /\ stop \in {"none", "blocked", "locked", "failed"}
      /\ stop = "none" <=> status \in {"advanced", "completed"}
  BY DEF getPawBuildLoopStopReason, Statuses
<1>3. /\ l \in Loops
      /\ l.n = n /\ l.max = loop.max /\ l.decisions = ds
      /\ l.pc = "off" /\ l.stop = "none"
  <2>1. n \in Nat
    BY <1>1
  <2> HIDE DEF n
  <2> QED
    BY <1>1, <2>1, NoLoopIsLoop DEF Loops
<1>4. loop' = CASE stop # "none" -> [l EXCEPT !.stop = stop]
                [] stop = "none" /\ n < loop.max -> [l EXCEPT !.pc = "dispatch"]
                [] stop = "none" /\ n >= loop.max -> [l EXCEPT !.stop = "max_steps_reached"]
  BY DEF StepEnds
<1> HIDE DEF stop, l
<1>5. \/ stop # "none" /\ loop' = [l EXCEPT !.stop = stop]
      \/ stop = "none" /\ n < loop.max /\ loop' = [l EXCEPT !.pc = "dispatch"]
      \/ stop = "none" /\ n >= loop.max /\ loop' = [l EXCEPT !.stop = "max_steps_reached"]
  BY <1>1, <1>4
<1>6. CASE stop # "none" /\ loop' = [l EXCEPT !.stop = stop]
  BY <1>2, <1>3, <1>6 DEF Loops
<1>7. CASE stop = "none" /\ n < loop.max /\ loop' = [l EXCEPT !.pc = "dispatch"]
  BY <1>1, <1>2, <1>3, <1>7 DEF Loops
<1>8. CASE stop = "none" /\ n >= loop.max /\ loop' = [l EXCEPT !.stop = "max_steps_reached"]
  BY <1>1, <1>2, <1>3, <1>8 DEF Loops
<1> QED
  BY <1>5, <1>6, <1>7, <1>8

(* What the loop's own variables look like after a step: the parts of BInv that
   do not depend on state.json. *)
LoopOk ==
  /\ loop \in Loops
  /\ holder \in {"none", "build", "other", "expired"}
  /\ StoppedIsOff /\ BranchOfStep /\ LockGivenBack

(* Every step that ends is such a step, if it gives the lock back. *)
LEMMA StepEndsLoopOk ==
  ASSUME LoopOk, NEW status \in Statuses, NEW ds \in SUBSET BOOLEAN,
         StepEnds(status, ds), holder' \in {"none", "other", "expired"}
  PROVE  LoopOk'
<1>1. /\ loop' \in Loops /\ loop'.pc \in {"off", "dispatch"}
      /\ loop'.pc = "dispatch" => loop'.stop = "none"
      /\ loop'.pc = "off" => loop'.stop # "thrown"
  BY StepEndsShape DEF LoopOk
<1> QED
  BY <1>1 DEF LoopOk, StoppedIsOff, BranchOfStep, LockGivenBack

LEMMA NoLoopOk ==
  ASSUME loop' = NoLoop, holder' \in {"none", "other", "expired"}
  PROVE  LoopOk'
<1>1. loop' \in Loops
  BY DEF NoLoop, Loops
<1> QED
  BY <1>1 DEF NoLoop, LoopOk, StoppedIsOff, BranchOfStep, LockGivenBack

LEMMA BuildNextLoopOk ==
  ASSUME IInv, BuildTypeOK, LoopOk, [BuildNext]_buildVars
  PROVE  LoopOk'
<1>1. /\ loop \in Loops /\ loop.decisions \in SUBSET BOOLEAN
      /\ state.current_slice_id \in SliceIds \cup {NoSlice}
      /\ loop.n \in Nat /\ loop.max \in MaxSteps \cup {0}
  BY DEF LoopOk, Loops, IInv, TypeOK, SessionStates
<1>2. {"advanced", "completed", "blocked", "locked", "failed"} \subseteq Statuses
  BY DEF Statuses
<1>3. Released \in {"none", "other"}
  BY DEF Released
<1>4. LockAvailable => holder # "build"
  BY DEF LockAvailable
<1>5. CASE BuildStart
  <2>1. PICK max \in MaxSteps : loop' = [NoLoop EXCEPT !.pc = "dispatch", !.max = max]
    BY <1>5 DEF BuildStart
  <2>2. /\ loop' \in Loops /\ loop'.pc = "dispatch" /\ loop'.stop = "none"
        /\ holder' = holder /\ holder # "build"
    <3>1. loop' \in Loops /\ loop'.pc = "dispatch" /\ loop'.stop = "none"
      BY <2>1, NoLoopIsLoop DEF Loops
    <3> QED
      BY <1>5, <3>1 DEF BuildStart, LoopOk, LockGivenBack
  <2> QED
    BY <2>2 DEF LoopOk, StoppedIsOff, BranchOfStep, LockGivenBack
<1>6. CASE DispatchStep
  <2>1. BranchOf(state.name) \in Branches
    BY DEF BranchOf, Branches
  <2>2. /\ loop' \in Loops /\ loop'.pc = "enter" /\ loop'.stop = loop.stop
        /\ loop.pc = "dispatch" /\ holder' = holder
    BY <1>6, <2>1 DEF DispatchStep, Loops, LoopOk
  <2> QED
    BY <2>2 DEF LoopOk, StoppedIsOff, BranchOfStep, LockGivenBack
<1>7. CASE EnterLocked
  <2>1. holder' = holder /\ loop.pc = "enter" /\ StepEnds("locked", loop.decisions)
    BY <1>7 DEF EnterLocked
  <2>2. holder' \in {"none", "other", "expired"}
    BY <2>1 DEF LoopOk, LockGivenBack
  <2> QED
    BY <1>1, <1>2, <2>1, <2>2, StepEndsLoopOk
<1>8. ASSUME NEW branch, NEW to, MoveStep(branch, to)
      PROVE  LoopOk'
  <2>1. holder' = "none" /\ loop.pc = "enter"
    BY <1>8 DEF MoveStep, Enter
  <2>2. CASE \E status \in {"advanced", "failed"} : StepEnds(status, loop.decisions)
    BY <1>1, <1>2, <2>1, <2>2, StepEndsLoopOk
  <2>3. CASE loop' = [loop EXCEPT !.pc = "report", !.n = @ + 1]
    <3> DEFINE n == loop.n + 1
    <3>1. n \in Nat /\ loop' = [loop EXCEPT !.pc = "report", !.n = n]
      BY <1>1, <2>3
    <3> HIDE DEF n
    <3>2. /\ loop' \in Loops /\ loop'.pc = "report" /\ loop'.stop = loop.stop
      BY <1>1, <3>1 DEF Loops
    <3> QED
      BY <2>1, <3>2 DEF LoopOk, StoppedIsOff, BranchOfStep, LockGivenBack
  <2> QED
    BY <1>8, <2>2, <2>3 DEF MoveStep
<1>9. ASSUME NEW role \in {"worker", "reviewer"}, CallSubAgent(role)
      PROVE  LoopOk'
  <2>1. CASE /\ holder' = "build" /\ state.current_slice_id # NoSlice
             /\ loop' = [loop EXCEPT !.pc = "call", !.attempt = 1,
                                     !.slice = state.current_slice_id]
    <3>1. /\ loop' \in Loops /\ loop'.pc = "call" /\ loop'.stop = loop.stop
          /\ loop'.branch = role /\ loop'.slice = state.current_slice_id
          /\ loop.pc = "enter"
      <4>1. loop.pc = "enter" /\ loop.branch = role /\ 1 \in 0..2
        BY <1>9 DEF CallSubAgent, Enter
      <4> QED
        BY <1>1, <2>1, <4>1 DEF Loops
    <3> QED
      BY <2>1, <3>1 DEF LoopOk, StoppedIsOff, BranchOfStep, LockGivenBack
  <2>2. CASE holder' = "none" /\ StepEnds("failed", loop.decisions)
    BY <1>1, <1>2, <2>2, StepEndsLoopOk
  <2> QED
    BY <1>9, <2>1, <2>2 DEF CallSubAgent
<1>10. CASE SubAgentAnswers
  <2>1. /\ loop.pc = "call" /\ loop.branch \in {"worker", "reviewer"} /\ holder' = holder
        /\ loop.stop = "none" /\ loop.slice # NoSlice
    BY <1>10 DEF SubAgentAnswers, LoopOk, StoppedIsOff, BranchOfStep
  <2>2. CASE \E output \in {"pass", "blocked", "fail"} :
               loop' = [loop EXCEPT !.pc = "record", !.output = output]
    <3>p. PICK output \in {"pass", "blocked", "fail"} :
            loop' = [loop EXCEPT !.pc = "record", !.output = output]
      BY <2>2
    <3>1. /\ loop' \in Loops /\ loop'.pc = "record" /\ loop'.stop = loop.stop
          /\ loop'.branch = loop.branch /\ loop'.slice = loop.slice
      BY <1>1, <3>p DEF Loops
    <3> QED
      BY <2>1, <3>1 DEF LoopOk, StoppedIsOff, BranchOfStep, LockGivenBack
  <2>3. CASE loop.attempt < 2 /\ loop' = [loop EXCEPT !.attempt = @ + 1]
    <3>1. loop.attempt \in 0..2
      BY <1>1 DEF Loops
    <3>2. loop.attempt + 1 \in 0..2
      BY <2>3, <3>1
    <3>3. /\ loop' \in Loops /\ loop'.pc = "call" /\ loop'.stop = loop.stop
          /\ loop'.branch = loop.branch /\ loop'.slice = loop.slice
      BY <1>1, <2>1, <2>3, <3>2 DEF Loops
    <3> QED
      BY <2>1, <3>3 DEF LoopOk, StoppedIsOff, BranchOfStep, LockGivenBack
  <2>4. ~(loop.attempt < maxInvalidAttempts /\ loop.attempt = runtimeAttempts)
    BY DEF maxInvalidAttempts, runtimeAttempts
  <2> QED
    BY <1>10, <2>2, <2>3, <2>4 DEF SubAgentAnswers, maxInvalidAttempts, runtimeAttempts
<1>11. ASSUME NEW role \in {"worker", "reviewer"}, RecordSubAgent(role)
       PROVE  LoopOk'
  <2>1. \E status \in Statuses : StepEnds(status, loop.decisions)
    BY <1>2, <1>11 DEF RecordSubAgent
  <2>2. holder' = Released
    BY <1>11 DEF RecordSubAgent
  <2> QED
    BY <1>1, <1>3, <2>1, <2>2, StepEndsLoopOk
<1>12. CASE VerifyStep
  <2>1. PICK output \in {"verified", "unverified", "unrun"} :
          loop' = [loop EXCEPT !.pc = "record", !.output = output,
                               !.slice = state.current_slice_id]
    BY <1>12 DEF VerifyStep
  <2>2. /\ loop' \in Loops /\ loop'.pc = "record" /\ loop'.stop = loop.stop
        /\ loop'.branch = "verify" /\ loop.pc = "enter" /\ holder' = "build"
    BY <1>1, <1>12, <2>1 DEF VerifyStep, Enter, Loops
  <2> QED
    BY <2>2 DEF LoopOk, StoppedIsOff, BranchOfStep, LockGivenBack
<1>13. CASE CompleteVerification
  <2>1. CASE /\ holder' = holder
             /\ loop' = [loop EXCEPT !.pc = "evidence", !.slice = state.current_slice_id]
    <3>1. /\ loop' \in Loops /\ loop'.pc = "evidence" /\ loop'.stop = loop.stop
          /\ loop.pc = "record"
      BY <1>1, <1>13, <2>1 DEF CompleteVerification, Loops
    <3> QED
      BY <2>1, <3>1 DEF LoopOk, StoppedIsOff, BranchOfStep, LockGivenBack
  <2>2. CASE /\ holder' = Released
             /\ StepEnds(IF holder # "build" THEN "locked" ELSE "failed", loop.decisions)
    BY <1>1, <1>2, <1>3, <2>2, StepEndsLoopOk
  <2> QED
    BY <1>13, <2>1, <2>2 DEF CompleteVerification
<1>14. CASE WriteBuildEvidence
  <2>1. Decided(loop.decisions) \in SUBSET BOOLEAN
    BY <1>1 DEF Decided
  <2> QED
    BY <1>2, <1>3, <1>14, <2>1, StepEndsLoopOk DEF WriteBuildEvidence
<1>15. CASE EmitReport
  <2>1. PICK stop \in {"loop_completed", "loop_stopped"} :
          loop' = [NoLoop EXCEPT !.n = loop.n, !.max = loop.max, !.stop = stop]
    BY <1>15 DEF EmitReport
  <2>2. /\ loop' \in Loops /\ loop'.pc = "off" /\ loop'.stop # "thrown"
    BY <1>1, <2>1, NoLoopIsLoop DEF Loops
  <2>3. holder' \in {"none", "other", "expired"}
    BY <1>15 DEF EmitReport, LoopOk, LockGivenBack
  <2> QED
    BY <2>2, <2>3 DEF LoopOk, StoppedIsOff, BranchOfStep, LockGivenBack
<1>16. CASE LockExpires
  BY <1>16 DEF LockExpires, LoopOk, StoppedIsOff, BranchOfStep, LockGivenBack
<1>17. CASE BuildDies
  <2>1. holder' \in {"none", "other", "expired"}
    BY <1>17 DEF BuildDies, LoopOk
  <2> QED
    BY <1>17, <2>1, NoLoopOk DEF BuildDies
<1>18. CASE OtherShell \/ OtherTakesLock \/ OtherGivesBack
  <2>1. loop' = loop /\ holder' \in {"none", "other"}
    BY <1>18 DEF OtherShell, OtherTakesLock, OtherGivesBack
  <2> QED
    BY <2>1 DEF LoopOk, StoppedIsOff, BranchOfStep, LockGivenBack
<1>19. CASE UNCHANGED buildVars
  BY <1>19 DEF buildVars, LoopOk, StoppedIsOff, BranchOfStep, LockGivenBack
<1> QED
  BY <1>5, <1>6, <1>7, <1>8, <1>9, <1>10, <1>11, <1>12, <1>13, <1>14, <1>15, <1>16,
     <1>17, <1>18, <1>19 DEF BuildNext, BuildStep, SelectStep, BeginStep

-----------------------------------------------------------------------------
(* The files and histories. *)

(* A type for the evidence record, and one for the report. *)
LEMMA EvidenceTyped ==
  ASSUME NEW i \in SliceIds \cup {NoSlice}, NEW output
  PROVE  EvidenceOf(i, output) \in [slice : SliceIds \cup {NoSlice}, passed : BOOLEAN]
<1>1. (output = "verified") \in BOOLEAN
  OBVIOUS
<1> QED
  BY <1>1 DEF EvidenceOf, NoEvidence

Reports == [status : {"none", "done", "done_with_unverified"}, by : 0..MaxLoops]

LEMMA ReportTyped ==
  ASSUME NEW ds, NEW by \in 0..MaxLoops
  PROVE  [status |-> ReportStatus(ds), by |-> by] \in Reports
BY DEF ReportStatus, Reports

FilesOk ==
  /\ evidence \in [slice : SliceIds \cup {NoSlice}, passed : BOOLEAN]
  /\ report \in Reports
  /\ unverified \subseteq SliceIds \X (0..MaxLoops)
  /\ worked \subseteq SliceIds
  /\ loops \in 0..MaxLoops
  /\ undisturbed \in BOOLEAN

LEMMA BuildNextFilesOk ==
  ASSUME IInv, LoopOk, FilesOk, [BuildNext]_buildVars
  PROVE  FilesOk'
<1>1. /\ MaxLoops \in Nat /\ loops \in 0..MaxLoops /\ 0 \in 0..MaxLoops
  BY BuildAssumption DEF FilesOk
<1>2. /\ state.current_slice_id \in SliceIds \cup {NoSlice}
      /\ loop.slice \in SliceIds \cup {NoSlice}
  BY DEF IInv, TypeOK, SessionStates, LoopOk, Loops
<1>3. state.name \in {"IMPLEMENTING", "VERIFYING"} => state.current_slice_id \in SliceIds
  <2>1. ~IsBlocked("IMPLEMENTING") /\ ~IsBlocked("VERIFYING")
    BY ActiveNotBlocked DEF IsBlocked, ActiveStateNames
  <2> QED
    BY <1>2, <2>1 DEF IInv, CurrentIffInSlice, ActiveName, SliceNames, SliceStages
<1>4. CASE /\ UNCHANGED <<files, loops>> /\ undisturbed' \in BOOLEAN
  BY <1>4 DEF FilesOk, files
<1>5. CASE BuildStart
  <2>1. loops' \in 0..MaxLoops
    BY <1>1, <1>5 DEF BuildStart
  <2>2. undisturbed' \in BOOLEAN
    BY <1>5 DEF BuildStart
  <2> QED
    BY <1>5, <2>1, <2>2 DEF BuildStart, FilesOk, files
<1>6. CASE DispatchStep \/ EnterLocked \/ VerifyStep
  BY <1>4, <1>6 DEF DispatchStep, EnterLocked, VerifyStep, FilesOk, counters
<1>7. ASSUME NEW branch, NEW to, MoveStep(branch, to)
      PROVE  FilesOk'
  BY <1>4, <1>7 DEF MoveStep, FilesOk, counters
<1>8. ASSUME NEW role, CallSubAgent(role)
      PROVE  FilesOk'
  BY <1>4, <1>8 DEF CallSubAgent, FilesOk, counters
<1>9. CASE SubAgentAnswers
  <2>1. undisturbed' \in BOOLEAN
    BY <1>9 DEF SubAgentAnswers
  <2> QED
    BY <1>4, <1>9, <2>1 DEF SubAgentAnswers, counters
<1>10. ASSUME NEW role \in {"worker", "reviewer"}, RecordSubAgent(role)
       PROVE  FilesOk'
  <2>1. loop.slice \in SliceIds
    BY <1>2, <1>10 DEF RecordSubAgent, LoopOk, BranchOfStep
  <2>2. worked' \subseteq SliceIds
    BY <1>10, <2>1 DEF RecordSubAgent, FilesOk
  <2>3. undisturbed' \in BOOLEAN
    BY <1>10 DEF RecordSubAgent, FilesOk
  <2> QED
    BY <1>10, <2>2, <2>3 DEF RecordSubAgent, FilesOk, counters
<1>11. CASE CompleteVerification
  <2>1. undisturbed' \in BOOLEAN
    BY <1>11 DEF CompleteVerification, FilesOk
  <2>2. unverified' \subseteq unverified \cup (SliceIds \X {loops})
    BY <1>3, <1>11 DEF CompleteVerification
  <2>3. unverified' \subseteq SliceIds \X (0..MaxLoops)
    BY <1>1, <2>2 DEF FilesOk
  <2> QED
    BY <1>11, <2>1, <2>3 DEF CompleteVerification, FilesOk, counters
<1>12. CASE WriteBuildEvidence
  <2>1. evidence' \in [slice : SliceIds \cup {NoSlice}, passed : BOOLEAN]
    BY <1>2, <1>12, EvidenceTyped DEF WriteBuildEvidence
  <2> QED
    BY <1>12, <2>1 DEF WriteBuildEvidence, FilesOk, counters
<1>13. CASE EmitReport
  <2>1. report' \in Reports
    BY <1>1, <1>13, ReportTyped DEF EmitReport, FilesOk
  <2> QED
    BY <1>13, <2>1 DEF EmitReport, FilesOk, counters
<1>14. CASE LockExpires \/ BuildDies \/ OtherTakesLock \/ OtherGivesBack
  BY <1>4, <1>14 DEF LockExpires, BuildDies, OtherTakesLock, OtherGivesBack, counters,
       FilesOk
<1>15. CASE OtherShell
  <2>1. undisturbed' \in BOOLEAN /\ loops' = loops
    BY <1>15 DEF OtherShell
  <2>2. CASE UNCHANGED files
    BY <1>4, <2>1, <2>2
  <2>3. CASE OtherWorkerPass /\ UNCHANGED <<report, evidence, unverified>>
    BY <1>3, <2>1, <2>3 DEF OtherWorkerPass, FilesOk
  <2>4. CASE OtherVerification /\ UNCHANGED <<report, worked>>
    <3>1. state.current_slice_id \in SliceIds
      BY <1>3, <2>4 DEF OtherVerification
    <3>2. evidence' \in [slice : SliceIds \cup {NoSlice}, passed : BOOLEAN]
      BY <1>2, <2>4, EvidenceTyped DEF OtherVerification, FilesOk
    <3>3. unverified' \subseteq SliceIds \X (0..MaxLoops)
      BY <1>1, <2>4, <3>1 DEF OtherVerification, FilesOk
    <3> QED
      BY <2>1, <2>4, <3>2, <3>3 DEF FilesOk
  <2>5. CASE OtherFinalize /\ UNCHANGED <<evidence, unverified, worked>>
    <3>1. report' \in Reports
      BY <1>1, <2>5, ReportTyped DEF OtherFinalize
    <3> QED
      BY <2>1, <2>5, <3>1 DEF FilesOk
  <2> QED
    BY <1>15, <2>2, <2>3, <2>4, <2>5 DEF OtherShell
<1>16. CASE UNCHANGED buildVars
  BY <1>4, <1>16 DEF buildVars, files, FilesOk
<1> QED
  BY <1>5, <1>6, <1>7, <1>8, <1>9, <1>10, <1>11, <1>12, <1>13, <1>14, <1>15, <1>16
     DEF BuildNext, BuildStep, SelectStep, BeginStep

-----------------------------------------------------------------------------
(* The reports and what the invocation knows of its verifications. *)

(* A step that touches neither the report nor the verifications. *)
Quiet ==
  /\ report' = report /\ unverified' = unverified /\ loops' = loops
  /\ \/ loop' = loop
     \/ /\ loop.pc # "off"
        /\ loop'.stop # "loop_completed"
        /\ \/ loop'.pc = "off"
           \/ loop.pc # "evidence" /\ loop'.decisions = loop.decisions

LEMMA StepEndsQuiet ==
  ASSUME LoopOk, NEW status \in Statuses, StepEnds(status, loop.decisions),
         loop.pc \notin {"off", "evidence"},
         report' = report, unverified' = unverified, loops' = loops
  PROVE  Quiet
<1>1. loop.decisions \in SUBSET BOOLEAN /\ loop \in Loops
  BY DEF LoopOk, Loops
<1> QED
  BY <1>1, StepEndsShape DEF Quiet

Reporting == ReportEndsLoop /\ OwnUnverifiedKnown /\ ReportHonestAboutOwn

LEMMA QuietKeepsReporting ==
  ASSUME FilesOk, Reporting, Quiet
  PROVE  Reporting'
<1>1. ReportEndsLoop' /\ ReportHonestAboutOwn'
  BY DEF Reporting, Quiet, ReportEndsLoop, ReportHonestAboutOwn
<1>2. OwnUnverifiedKnown'
  BY DEF Reporting, Quiet, OwnUnverifiedKnown
<1> QED
  BY <1>1, <1>2 DEF Reporting

LEMMA BuildNextReporting ==
  ASSUME IInv, LoopOk, FilesOk, Reporting, [BuildNext]_buildVars
  PROVE  Reporting'
<1>1. /\ loops \in Nat /\ report.by \in Nat
      /\ loop \in Loops /\ loop.decisions \in SUBSET BOOLEAN
      /\ {"advanced", "completed", "blocked", "locked", "failed"} \subseteq Statuses
      /\ unverified \subseteq SliceIds \X Nat
  BY BuildAssumption DEF FilesOk, Reports, LoopOk, Loops, Statuses
<1>2. CASE BuildStart
  <2>1. /\ loops' = loops + 1 /\ report' = report /\ unverified' = unverified
        /\ loop'.pc = "dispatch" /\ loop'.stop = "none"
    BY <1>2, NoLoopIsLoop DEF BuildStart, files, Loops
  <2>2. \A u \in unverified : u[2] <= loops /\ u[2] \in Nat
    BY <1>1 DEF Reporting, OwnUnverifiedKnown
  <2>3. ReportEndsLoop' /\ ReportHonestAboutOwn'
    BY <1>1, <2>1 DEF Reporting, ReportEndsLoop, ReportHonestAboutOwn
  <2>4. \A i \in SliceIds : <<i, loops + 1>> \notin unverified
    BY <1>1, <2>2
  <2>5. \A u \in unverified : u[2] <= loops + 1
    BY <1>1, <2>2
  <2>6. OwnUnverifiedKnown'
    BY <2>1, <2>4, <2>5 DEF OwnUnverifiedKnown
  <2> QED
    BY <2>3, <2>6 DEF Reporting
<1>3. CASE DispatchStep
  <2>1. /\ loop.pc = "dispatch" /\ loop'.pc = "enter"
        /\ loop'.decisions = loop.decisions /\ loop'.stop = loop.stop
    BY <1>1, <1>3 DEF DispatchStep, Loops
  <2>2. Quiet
    BY <1>3, <2>1 DEF Quiet, DispatchStep, files, counters, LoopOk, StoppedIsOff
  <2> QED
    BY <2>2, QuietKeepsReporting
<1>4. CASE EnterLocked
  <2>1. Quiet
    BY <1>1, <1>4, StepEndsQuiet DEF EnterLocked, files, counters
  <2> QED
    BY <2>1, QuietKeepsReporting
<1>5. ASSUME NEW branch, NEW to, MoveStep(branch, to)
      PROVE  Reporting'
  <2>1. /\ loop.pc = "enter"
        /\ report' = report /\ unverified' = unverified /\ loops' = loops
    BY <1>5 DEF MoveStep, Enter, files, counters
  <2>2. CASE \E status \in {"advanced", "failed"} : StepEnds(status, loop.decisions)
    BY <1>1, <2>1, <2>2, StepEndsQuiet, QuietKeepsReporting
  <2>3. CASE loop' = [loop EXCEPT !.pc = "report", !.n = @ + 1]
    <3>1. /\ loop'.decisions = loop.decisions /\ loop'.stop = loop.stop
          /\ loop'.pc = "report"
      BY <1>1, <2>3 DEF Loops
    <3>2. Quiet
      BY <2>1, <3>1 DEF Quiet, LoopOk, StoppedIsOff
    <3> QED
      BY <3>2, QuietKeepsReporting
  <2> QED
    BY <1>5, <2>2, <2>3 DEF MoveStep
<1>6. ASSUME NEW role \in {"worker", "reviewer"}, CallSubAgent(role)
      PROVE  Reporting'
  <2>1. /\ loop.pc = "enter"
        /\ report' = report /\ unverified' = unverified /\ loops' = loops
    BY <1>6 DEF CallSubAgent, Enter, files, counters
  <2>2. CASE loop' = [loop EXCEPT !.pc = "call", !.attempt = 1,
                                  !.slice = state.current_slice_id]
    <3>1. /\ loop'.decisions = loop.decisions /\ loop'.stop = loop.stop
          /\ loop'.pc = "call"
      BY <1>1, <2>2 DEF Loops
    <3>2. Quiet
      BY <2>1, <3>1 DEF Quiet, LoopOk, StoppedIsOff
    <3> QED
      BY <3>2, QuietKeepsReporting
  <2>3. CASE StepEnds("failed", loop.decisions)
    BY <1>1, <2>1, <2>3, StepEndsQuiet, QuietKeepsReporting
  <2> QED
    BY <1>6, <2>2, <2>3 DEF CallSubAgent
<1>7. CASE SubAgentAnswers
  <2>1. /\ loop.pc = "call"
        /\ report' = report /\ unverified' = unverified /\ loops' = loops
    BY <1>7 DEF SubAgentAnswers, files, counters
  <2>2. \/ loop'.decisions = loop.decisions /\ loop'.stop = loop.stop
        \/ loop'.pc = "off" /\ loop'.stop = "thrown"
    BY <1>1, <1>7, NoLoopIsLoop DEF SubAgentAnswers, Loops
  <2>3. Quiet
    BY <2>1, <2>2 DEF Quiet, LoopOk, StoppedIsOff
  <2> QED
    BY <2>3, QuietKeepsReporting
<1>8. ASSUME NEW role \in {"worker", "reviewer"}, RecordSubAgent(role)
      PROVE  Reporting'
  <2>1. /\ loop.pc = "record"
        /\ report' = report /\ unverified' = unverified /\ loops' = loops
    BY <1>8 DEF RecordSubAgent, counters
  <2>2. \E status \in Statuses : StepEnds(status, loop.decisions)
    BY <1>1, <1>8 DEF RecordSubAgent
  <2>3. Quiet
    BY <2>1, <2>2, StepEndsQuiet
  <2> QED
    BY <2>3, QuietKeepsReporting
<1>9. CASE VerifyStep
  <2>1. /\ loop.pc = "enter"
        /\ loop'.decisions = loop.decisions /\ loop'.stop = loop.stop
    BY <1>1, <1>9 DEF VerifyStep, Enter, Loops
  <2>2. Quiet
    BY <1>9, <2>1 DEF Quiet, VerifyStep, files, counters, LoopOk, StoppedIsOff
  <2> QED
    BY <2>2, QuietKeepsReporting
<1>10. CASE CompleteVerification
  <2>1. loop.pc = "record" /\ report' = report /\ loops' = loops
    BY <1>10 DEF CompleteVerification, counters
  <2>2. CASE /\ unverified' = unverified
             /\ StepEnds(IF holder # "build" THEN "locked" ELSE "failed", loop.decisions)
    BY <1>1, <2>1, <2>2, StepEndsQuiet, QuietKeepsReporting
  <2>3. CASE /\ loop' = [loop EXCEPT !.pc = "evidence", !.slice = state.current_slice_id]
             /\ unverified' = IF loop.output = "verified" THEN unverified
                              ELSE unverified \cup {<<state.current_slice_id, loops>>}
    <3>1. /\ loop'.decisions = loop.decisions /\ loop'.output = loop.output
          /\ loop'.pc = "evidence" /\ loop'.stop = "none"
      BY <1>1, <2>1, <2>3 DEF Loops, LoopOk, StoppedIsOff
    <3>2. loops > 0 /\ report.by # loops
      BY <2>1 DEF Reporting, ReportEndsLoop
    <3>3. ReportEndsLoop'
      BY <2>1, <3>1, <3>2 DEF Reporting, ReportEndsLoop
    <3>4. OwnUnverifiedKnown'
      <4>1. /\ \A u \in unverified' : u \in unverified \/ u[2] = loops
            /\ loop.output = "verified" => unverified' = unverified
        BY <2>3
      <4>2. \A u \in unverified' : u[2] <= loops'
        BY <1>1, <2>1, <4>1 DEF Reporting, OwnUnverifiedKnown
      <4>3. \A i \in SliceIds : <<i, loops>> \in unverified'
                => FALSE \in loop.decisions \/ loop.output # "verified"
        BY <2>1, <4>1 DEF Reporting, OwnUnverifiedKnown
      <4> QED
        BY <2>1, <3>1, <4>2, <4>3 DEF OwnUnverifiedKnown
    <3>5. ReportHonestAboutOwn'
      BY <2>1, <2>3, <3>2 DEF Reporting, ReportHonestAboutOwn
    <3> QED
      BY <3>3, <3>4, <3>5 DEF Reporting
  <2> QED
    BY <1>10, <2>2, <2>3 DEF CompleteVerification
<1>11. CASE WriteBuildEvidence
  <2>1. /\ loop.pc = "evidence"
        /\ report' = report /\ unverified' = unverified /\ loops' = loops
        /\ StepEnds("completed", Decided(loop.decisions))
    BY <1>11 DEF WriteBuildEvidence, counters
  <2>2. Decided(loop.decisions) \in SUBSET BOOLEAN
    BY <1>1 DEF Decided
  <2>3. /\ loop'.decisions = Decided(loop.decisions) /\ loop'.stop # "loop_completed"
        /\ loop'.pc # "evidence"
    BY <1>1, <2>1, <2>2, StepEndsShape
  <2>4. /\ FALSE \in loop.decisions => FALSE \in loop'.decisions
        /\ loop.output # "verified" => FALSE \in loop'.decisions
    BY <2>3 DEF Decided
  <2>5. ReportEndsLoop' /\ ReportHonestAboutOwn'
    BY <2>1, <2>3 DEF Reporting, ReportEndsLoop, ReportHonestAboutOwn
  <2>6. OwnUnverifiedKnown'
    BY <2>1, <2>4 DEF Reporting, OwnUnverifiedKnown
  <2> QED
    BY <2>5, <2>6 DEF Reporting
<1>12. CASE EmitReport
  <2>1. /\ loop.pc = "report" /\ unverified' = unverified /\ loops' = loops
        /\ loop'.pc = "off" /\ loop'.stop \in {"loop_completed", "loop_stopped"}
    BY <1>12, NoLoopIsLoop DEF EmitReport, counters, Loops
  <2>2. CASE report' = report /\ loop'.stop = "loop_stopped"
    <3>1. Quiet
      BY <2>1, <2>2 DEF Quiet
    <3> QED
      BY <3>1, QuietKeepsReporting
  <2>3. CASE /\ loop'.stop = "loop_completed"
             /\ report' = [status |-> ReportStatus(resolvePawBuildLoopVerifyDecisions(loop.decisions)),
                           by |-> loops]
    <3>1. /\ report'.by = loops /\ report'.status # "none"
          /\ report'.status = "done"
               => FALSE \notin resolvePawBuildLoopVerifyDecisions(loop.decisions)
      BY <2>3 DEF ReportStatus
    <3>2. FALSE \in loop.decisions
            => resolvePawBuildLoopVerifyDecisions(loop.decisions) = loop.decisions
      BY DEF resolvePawBuildLoopVerifyDecisions
    <3>3. ReportEndsLoop' /\ OwnUnverifiedKnown'
      BY <1>1, <2>1, <2>3, <3>1 DEF Reporting, ReportEndsLoop, OwnUnverifiedKnown
    <3>4. ReportHonestAboutOwn'
      BY <2>1, <3>1, <3>2 DEF Reporting, ReportHonestAboutOwn, OwnUnverifiedKnown
    <3> QED
      BY <3>3, <3>4 DEF Reporting
  <2>4. \/ report' = report /\ loop'.stop = "loop_stopped"
        \/ /\ loop'.stop = "loop_completed"
           /\ report' = [status |-> ReportStatus(resolvePawBuildLoopVerifyDecisions(loop.decisions)),
                         by |-> loops]
    BY <1>12, NoLoopIsLoop DEF EmitReport, Loops
  <2> QED
    BY <2>2, <2>3, <2>4
<1>13. CASE LockExpires \/ OtherTakesLock \/ OtherGivesBack
  <2>1. Quiet
    BY <1>13 DEF Quiet, LockExpires, OtherTakesLock, OtherGivesBack, files, counters
  <2> QED
    BY <2>1, QuietKeepsReporting
<1>14. CASE BuildDies
  <2>1. Quiet
    BY <1>14, NoLoopIsLoop DEF Quiet, BuildDies, files
  <2> QED
    BY <2>1, QuietKeepsReporting
<1>15. CASE OtherShell
  <2>1. loop' = loop /\ loops' = loops
    BY <1>15 DEF OtherShell
  <2>2. CASE report' = report /\ unverified' = unverified
    <3>1. Quiet
      BY <2>1, <2>2 DEF Quiet
    <3> QED
      BY <3>1, QuietKeepsReporting
  <2>3. CASE OtherVerification /\ UNCHANGED <<report, worked>>
    <3>1. \A u \in unverified' : u \in unverified \/ u[2] = 0
      BY <2>3 DEF OtherVerification
    <3>2. OwnUnverifiedKnown'
      <4>1. \A u \in unverified' : u[2] <= loops'
        BY <1>1, <2>1, <3>1 DEF Reporting, OwnUnverifiedKnown
      <4>2. loop.pc # "off" => \A i \in SliceIds : <<i, loops>> \in unverified'
                                  => <<i, loops>> \in unverified
        BY <3>1 DEF Reporting, ReportEndsLoop
      <4> QED
        BY <2>1, <4>1, <4>2 DEF Reporting, OwnUnverifiedKnown
    <3>3. ReportHonestAboutOwn'
      BY <2>3, <3>1 DEF Reporting, ReportHonestAboutOwn
    <3> QED
      BY <2>1, <2>3, <3>2, <3>3 DEF Reporting, ReportEndsLoop
  <2>4. CASE OtherFinalize /\ UNCHANGED <<evidence, unverified, worked>>
    <3>1. report'.by = 0 /\ report'.status # "none"
      BY <2>4 DEF OtherFinalize, ReportStatus
    <3>2. ReportEndsLoop' /\ ReportHonestAboutOwn'
      BY <1>1, <2>1, <3>1 DEF Reporting, ReportEndsLoop, ReportHonestAboutOwn
    <3>3. OwnUnverifiedKnown'
      BY <2>1, <2>4 DEF Reporting, OwnUnverifiedKnown
    <3> QED
      BY <3>2, <3>3 DEF Reporting
  <2> QED
    BY <1>15, <2>2, <2>3, <2>4 DEF OtherShell, files
<1>16. CASE UNCHANGED buildVars
  <2>1. Quiet
    BY <1>16 DEF Quiet, buildVars
  <2> QED
    BY <2>1, QuietKeepsReporting
<1> QED
  BY <1>2, <1>3, <1>4, <1>5, <1>6, <1>7, <1>8, <1>9, <1>10, <1>11, <1>12, <1>13,
     <1>14, <1>15, <1>16 DEF BuildNext, BuildStep, SelectStep, BeginStep

-----------------------------------------------------------------------------
(* Progress of a loop that nothing disturbs. *)

(* What IInv says about the slices of one record, so that it can be used of the
   record before a step and of the one after it. *)
Ordered(s, a) ==
  /\ s \in SessionStates /\ a \in Seq(SliceIds)
  /\ s.completed_slice_ids \o CurrentSeq(s) \o s.pending_slice_ids = a
  /\ (s.current_slice_id # NoSlice) <=> (ActiveName(s) \in SliceNames)

LEMMA IInvOrdered ==
  /\ IInv => Ordered(state, approved)
  /\ IInv' => Ordered(state', approved')
BY DEF IInv, TypeOK, SliceOrderConserved, CurrentIffInSlice, Ordered

(* The lengths behind SliceOrderConserved. *)
LEMMA LengthsAddUp ==
  ASSUME NEW s, NEW a, Ordered(s, a)
  PROVE  LET c == Len(s.completed_slice_ids)
             p == Len(s.pending_slice_ids)
         IN  /\ c \in Nat /\ p \in Nat
             /\ s.pending_slice_ids = <<>> => p = 0
             /\ s.current_slice_id = NoSlice => Len(a) = c + p
             /\ s.current_slice_id # NoSlice => Len(a) = c + 1 + p
<1> DEFINE cs == s.completed_slice_ids
           ps == s.pending_slice_ids
           cur == CurrentSeq(s)
<1>1. cs \in Seq(SliceIds) /\ ps \in Seq(SliceIds)
  BY DEF Ordered, SessionStates
<1>2. /\ cur \in Seq(SliceIds)
      /\ s.current_slice_id = NoSlice => Len(cur) = 0
      /\ s.current_slice_id # NoSlice => Len(cur) = 1
  BY DEF CurrentSeq, Ordered, SessionStates
<1>3. (cs \o cur) \o ps = a
  BY DEF Ordered
<1> HIDE DEF cs, ps, cur
<1>4. cs \o cur \in Seq(SliceIds) /\ Len(cs \o cur) = Len(cs) + Len(cur)
  BY <1>1, <1>2, ConcatProperties
<1>5. Len(a) = (Len(cs) + Len(cur)) + Len(ps)
  <2>1. Len((cs \o cur) \o ps) = Len(cs \o cur) + Len(ps)
    BY <1>1, <1>4, ConcatProperties
  <2> QED
    BY <1>3, <1>4, <2>1
<1>6. Len(cs) \in Nat /\ Len(ps) \in Nat /\ (ps = <<>> => Len(ps) = 0)
  BY <1>1, LenProperties
<1> DEFINE x == Len(cs)
           y == Len(ps)
           z == Len(cur)
           l == Len(a)
<1>7. /\ x \in Nat /\ y \in Nat /\ z \in Nat /\ l = (x + z) + y
      /\ s.current_slice_id = NoSlice => z = 0
      /\ s.current_slice_id # NoSlice => z = 1
  BY <1>2, <1>5, <1>6
<1> HIDE DEF x, y, z, l
<1>8. /\ s.current_slice_id = NoSlice => l = x + y
      /\ s.current_slice_id # NoSlice => l = x + 1 + y
  BY <1>7
<1> QED
  BY <1>6, <1>8 DEF cs, ps, x, y, l

(* The next slice can always be selected: the record it gives is valid. *)
LEMMA SelectAllowed ==
  ASSUME IInv, state.name \in {"PLAN_APPROVED", "SLICE_DONE"},
         state.pending_slice_ids # <<>>
  PROVE  AllowsMove("SLICE_SELECT")
<1> DEFINE t == [to |-> "SLICE_SELECT", slice_ids |-> <<>>, reason |-> NoReason]
           p == state.pending_slice_ids
           c == state.completed_slice_ids
           r == ApplyActiveTransition(state, t)
<1>1. /\ ~IsBlocked("PLAN_APPROVED") /\ ~IsBlocked("SLICE_DONE")
      /\ ~IsBlocked("SLICE_SELECT")
  BY ActiveNotBlocked DEF IsBlocked, ActiveStateNames
<1>2. /\ p \in Seq(SliceIds) /\ c \in Seq(SliceIds)
      /\ ValidSessionState(state)
  BY DEF IInv, TypeOK, SessionStates, StateIsValid
<1>3. /\ NoDuplicates(p) /\ NoDuplicates(c) /\ Range(p) \cap Range(c) = {}
      /\ state.blocked_reason = NoReason
  BY <1>1, <1>2 DEF ValidSessionState, ValidBlockedReason
<1>4. r = [state EXCEPT !.name = "SLICE_SELECT",
                        !.current_slice_id = Head(state.pending_slice_ids),
                        !.pending_slice_ids = Tail(state.pending_slice_ids)]
  BY DEF ApplyActiveTransition
<1>5. /\ r.name = "SLICE_SELECT" /\ r.current_slice_id = Head(p)
      /\ r.pending_slice_ids = Tail(p) /\ r.completed_slice_ids = c
      /\ r.blocked_reason = NoReason
  BY <1>3, <1>4 DEF IInv, TypeOK, SessionStates
<1>6. /\ Head(p) = p[1] /\ Len(p) \in Nat /\ Len(p) > 0
      /\ DOMAIN p = 1..Len(p)
      /\ DOMAIN Tail(p) = 1..(Len(p) - 1)
      /\ \A k \in 1..(Len(p) - 1) : Tail(p)[k] = p[k + 1]
  BY <1>2, HeadTailProperties, LenProperties, EmptySeq
<1>7. /\ Range(Tail(p)) \subseteq Range(p) /\ Head(p) \in Range(p)
  BY <1>6 DEF Range
<1>8. NoDuplicates(Tail(p))
  BY <1>3, <1>6 DEF NoDuplicates, IsInjective
<1>9. Head(p) \notin Range(Tail(p))
  <2> SUFFICES ASSUME NEW k \in 1..(Len(p) - 1), Tail(p)[k] = Head(p)
               PROVE  FALSE
    BY <1>6 DEF Range
  <2>1. p[k + 1] = p[1] /\ k + 1 \in DOMAIN p /\ 1 \in DOMAIN p
    BY <1>6
  <2>2. k + 1 = 1
    BY <1>3, <2>1 DEF NoDuplicates, IsInjective
  <2> QED
    BY <2>2
<1> HIDE DEF r
<1>10. ValidSessionState(r)
  BY <1>1, <1>3, <1>5, <1>7, <1>8, <1>9 DEF ValidSessionState, ValidBlockedReason
<1>11. ActiveOk(state, t)
  BY <1>10 DEF ActiveOk, ActiveTransitionGuard, AllowedActiveTransitions, r
<1> QED
  BY <1>1, <1>2, <1>11 DEF AllowsMove, TransitionOk

(* So can the implementation of a selected slice be begun. *)
LEMMA BeginAllowed ==
  ASSUME IInv, state.name = "SLICE_SELECT"
  PROVE  AllowsMove("IMPLEMENTING")
<1> DEFINE t == [to |-> "IMPLEMENTING", slice_ids |-> <<>>, reason |-> NoReason]
           r == ApplyActiveTransition(state, t)
<1>1. ~IsBlocked("SLICE_SELECT") /\ ~IsBlocked("IMPLEMENTING")
  BY ActiveNotBlocked DEF IsBlocked, ActiveStateNames
<1>2. ValidSessionState(state) /\ state.current_slice_id # NoSlice
  BY <1>1 DEF IInv, StateIsValid, CurrentIffInSlice, ActiveName, SliceNames
<1>3. r = [state EXCEPT !.name = "IMPLEMENTING", !.blocked_reason = NoReason]
  BY DEF ApplyActiveTransition
<1>4. /\ r.name = "IMPLEMENTING" /\ r.current_slice_id = state.current_slice_id
      /\ r.pending_slice_ids = state.pending_slice_ids
      /\ r.completed_slice_ids = state.completed_slice_ids
      /\ r.blocked_reason = NoReason
  BY <1>3 DEF IInv, TypeOK, SessionStates
<1> HIDE DEF r
<1>5. ValidSessionState(r)
  BY <1>1, <1>2, <1>4 DEF ValidSessionState, ValidBlockedReason
<1>6. ActiveOk(state, t)
  BY <1>2, <1>5 DEF ActiveOk, ActiveTransitionGuard, AllowedActiveTransitions, r
<1> QED
  BY <1>1, <1>2, <1>6 DEF AllowsMove, TransitionOk

Working == {"PLAN_APPROVED", "SLICE_DONE", "SLICE_SELECT", "IMPLEMENTING", "REVIEWING",
            "VERIFYING"}

(* The steps that state.json shows: one more with each move, and never more than
   five a slice of the plan. *)
StepsShown(s) == 5 * Len(s.completed_slice_ids) + StepsInto[s.name]

LEMMA StepsIntoTyped ==
  /\ DOMAIN StepsInto = Working
  /\ \A a \in Working : StepsInto[a] \in 0..4
  /\ Working \subseteq ActiveStateNames
BY DEF StepsInto, Working, ActiveStateNames

LEMMA MoveShowsStep ==
  ASSUME IInv, MovesOn, IInv', state.name \in Working, state'.name \in Working
  PROVE  StepsShown(state') = StepsShown(state) + 1 /\ approved' = approved
<1>1. /\ state.completed_slice_ids \in Seq(SliceIds)
      /\ Len(state.completed_slice_ids) \in Nat
      /\ state.current_slice_id \in SliceIds \cup {NoSlice}
  BY IInvOrdered, LengthsAddUp DEF IInv, TypeOK, SessionStates
<1>2. state'.name \in AllowedActiveTransitions[state.name]
  BY DEF MovesOn
<1>3. approved' = approved
  BY <1>2 DEF MovesOn, Working, AllowedActiveTransitions
<1>4. CASE state'.name = "SLICE_DONE"
  <2>1. state.name = "VERIFYING"
    BY <1>2, <1>4 DEF AllowedActiveTransitions, Working
  <2>2. state.completed_slice_ids \in Seq(SliceIds \cup {NoSlice})
    BY <1>1
  <2>3. Len(state'.completed_slice_ids) = Len(state.completed_slice_ids) + 1
    BY <1>1, <1>4, <2>2, AppendProperties DEF MovesOn
  <2> QED
    BY <1>1, <1>3, <1>4, <2>1, <2>3 DEF StepsShown, StepsInto
<1>5. CASE state'.name # "SLICE_DONE"
  <2>1. state'.completed_slice_ids = state.completed_slice_ids
    BY <1>5 DEF MovesOn
  <2>2. \/ state.name \in {"PLAN_APPROVED", "SLICE_DONE"} /\ state'.name = "SLICE_SELECT"
        \/ state.name = "SLICE_SELECT" /\ state'.name = "IMPLEMENTING"
        \/ state.name = "IMPLEMENTING" /\ state'.name = "REVIEWING"
        \/ state.name = "REVIEWING" /\ state'.name = "VERIFYING"
    BY <1>2, <1>5 DEF AllowedActiveTransitions, Working
  <2>3. StepsInto[state'.name] = StepsInto[state.name] + 1
    BY <2>2 DEF StepsInto
  <2>4. StepsInto[state.name] \in Nat
    BY StepsIntoTyped
  <2> QED
    BY <1>1, <1>3, <2>1, <2>3, <2>4 DEF StepsShown
<1> QED
  BY <1>4, <1>5

LEMMA StepsShownBounded ==
  ASSUME NEW s, NEW a, Ordered(s, a), s.name \in Working
  PROVE  StepsShown(s) \in Nat /\ StepsShown(s) <= 5 * Len(a)
<1> DEFINE c == Len(s.completed_slice_ids)
           p == Len(s.pending_slice_ids)
<1>1. /\ c \in Nat /\ p \in Nat
      /\ s.current_slice_id = NoSlice => Len(a) = c + p
      /\ s.current_slice_id # NoSlice => Len(a) = c + 1 + p
  BY LengthsAddUp
<1>2. ~IsBlocked(s.name)
  BY StepsIntoTyped, ActiveNotBlocked DEF IsBlocked
<1>3. s.current_slice_id = NoSlice => StepsInto[s.name] = 0
  BY <1>2 DEF Ordered, ActiveName, SliceNames, SliceStages, Working, StepsInto
<1>4. StepsInto[s.name] \in 0..4
  BY StepsIntoTyped
<1> HIDE DEF c, p
<1>5. StepsShown(s) = 5 * c + StepsInto[s.name]
  BY DEF StepsShown, c
<1> QED
  BY <1>1, <1>3, <1>4, <1>5

Progress == UndisturbedProgress /\ StepsSuffice

(* A step of an undisturbed loop that ended well. *)
LEMMA GoodStepEnds ==
  ASSUME IInv', loop \in Loops, NEW status \in {"advanced", "completed"},
         NEW ds \in SUBSET BOOLEAN, StepEnds(status, ds),
         state'.name \in Working, loop.n + 1 = StepsShown(state'), loop.n < loop.max,
         holder' = "none"
  PROVE  Progress'
<1> DEFINE shown == StepsShown(state')
<1>1. /\ loop.n \in Nat /\ loop.max \in Nat
  BY LoopNumbers
<1>2. /\ loop'.n = loop.n + 1 /\ loop'.max = loop.max /\ loop'.pc \in {"off", "dispatch"}
      /\ loop'.pc = "dispatch" => loop'.stop = "none" /\ loop'.n < loop'.max
      /\ loop'.pc = "off" => loop'.stop = "max_steps_reached" /\ loop'.n >= loop'.max
  BY StepEndsShape DEF Statuses
<1>3. shown \in Nat /\ shown <= 5 * Len(approved')
  BY IInvOrdered, StepsShownBounded
<1>4. approved' \in Seq(SliceIds) /\ Len(approved') \in Nat
  BY LenProperties DEF IInv, TypeOK
<1>5. StepsSuffice'
  <2>1. loop'.stop # "none" => loop'.max < 5 * Len(approved') + 1
    BY <1>1, <1>2, <1>3, <1>4
  <2> QED
    BY <1>2, <2>1 DEF StepsSuffice
<1>6. UndisturbedProgress'
  <2>1. loop'.pc # "off" => StepsCounted'
    BY <1>1, <1>2, StepsIntoTyped DEF StepsCounted, StepsShown
  <2> QED
    BY <1>2, <2>1 DEF UndisturbedProgress, LongSteps
<1> QED
  BY <1>5, <1>6 DEF Progress

(* A step in the middle of one: state.json and the count stay. *)
LEMMA MiddleOfStep ==
  ASSUME UNCHANGED vars, loop.pc # "off", StepsCounted,
         loop'.n = loop.n, loop'.max = loop.max, loop'.stop = "none",
         loop.pc \notin {"evidence", "report"},
         loop'.pc \in {"enter", "call", "record"},
         loop'.branch = BranchOf(state.name),
         loop'.pc = "record" /\ loop'.branch # "verify" => loop'.output = "pass",
         holder' = IF loop'.pc \in LongSteps THEN "build" ELSE "none",
         loop.pc \in {"dispatch", "enter", "call", "record"}
  PROVE  Progress'
<1>1. state' = state
  BY DEF vars
<1>2. StepsCounted'
  BY <1>1 DEF StepsCounted
<1> QED
  BY <1>2 DEF Progress, UndisturbedProgress, StepsSuffice

(* What an undisturbed loop in the middle of an invocation looks like. *)
LEMMA UndisturbedFacts ==
  ASSUME IInv, LoopOk, UndisturbedProgress, undisturbed, loop.pc # "off"
  PROVE  /\ loop \in Loops /\ loop.n \in Nat /\ loop.max \in Nat
         /\ loop.stop = "none" /\ loop.decisions \in SUBSET BOOLEAN
         /\ StepsCounted /\ state.name \in Working /\ state.name \in ActiveStateNames
         /\ holder = IF loop.pc \in LongSteps THEN "build" ELSE "none"
         /\ loop.pc \in {"dispatch", "enter", "call", "record"}
              => loop.n = StepsShown(state) /\ loop.n < loop.max
         /\ loop.pc \in {"enter", "call", "record"} =>
              /\ loop.branch = "select" => state.name \in {"PLAN_APPROVED", "SLICE_DONE"}
              /\ loop.branch = "begin" => state.name = "SLICE_SELECT"
              /\ loop.branch = "worker" => state.name = "IMPLEMENTING"
              /\ loop.branch = "reviewer" => state.name = "REVIEWING"
              /\ loop.branch = "verify" => state.name = "VERIFYING"
         /\ state.name \in SliceStages => state.current_slice_id # NoSlice
<1>1. /\ loop \in Loops /\ loop.stop = "none" /\ loop.decisions \in SUBSET BOOLEAN
  BY DEF LoopOk, StoppedIsOff, Loops
<1>2. loop.n \in Nat /\ loop.max \in Nat
  BY <1>1, LoopNumbers
<1>3. /\ StepsCounted
      /\ holder = IF loop.pc \in LongSteps THEN "build" ELSE "none"
  BY DEF UndisturbedProgress
<1>4. state.name \in Working /\ state.name \in ActiveStateNames
  BY <1>3, StepsIntoTyped DEF StepsCounted
<1>5. loop.pc \in {"dispatch", "enter", "call", "record"}
        => loop.n = StepsShown(state) /\ loop.n < loop.max
  BY <1>3 DEF StepsCounted, StepsShown
<1>6. loop.pc \in {"enter", "call", "record"} => loop.branch = BranchOf(state.name)
  BY <1>3 DEF StepsCounted
<1>7. /\ BranchOf(state.name) = "select" => state.name \in {"PLAN_APPROVED", "SLICE_DONE"}
      /\ BranchOf(state.name) = "begin" => state.name = "SLICE_SELECT"
      /\ BranchOf(state.name) = "worker" => state.name = "IMPLEMENTING"
      /\ BranchOf(state.name) = "reviewer" => state.name = "REVIEWING"
      /\ BranchOf(state.name) = "verify" => state.name = "VERIFYING"
  BY <1>4 DEF BranchOf, Working
<1>8. state.name \in SliceStages => state.current_slice_id # NoSlice
  <2>1. ~IsBlocked(state.name)
    BY <1>4, ActiveNotBlocked DEF IsBlocked
  <2> QED
    BY <2>1 DEF IInv, CurrentIffInSlice, ActiveName, SliceNames
<1> QED
  BY <1>1, <1>2, <1>3, <1>4, <1>5, <1>6, <1>7, <1>8

(* A move of an undisturbed loop that ends a step. *)
LEMMA GoodMove ==
  ASSUME IInv, LoopOk, UndisturbedProgress, undisturbed,
         loop.pc \in {"enter", "call", "record"},
         NEW to \in Working, to # state.name, Advance(to, <<>>),
         NEW status \in {"advanced", "completed"}, StepEnds(status, loop.decisions),
         holder' = "none"
  PROVE  Progress'
<1>1. /\ loop \in Loops /\ loop.n \in Nat /\ loop.decisions \in SUBSET BOOLEAN
      /\ state.name \in Working /\ state.name \in ActiveStateNames
      /\ loop.n = StepsShown(state) /\ loop.n < loop.max
  BY UndisturbedFacts
<1>2. MovesOn /\ state'.name = to /\ IInv'
  BY <1>1, StepsIntoTyped, AdvanceMovesOn
<1>3. loop.n + 1 = StepsShown(state')
  BY <1>1, <1>2, MoveShowsStep
<1> QED
  BY <1>1, <1>2, <1>3, GoodStepEnds

LEMMA BuildNextProgress ==
  ASSUME IInv, LoopOk, OnePlan, Progress, [BuildNext]_buildVars
  PROVE  Progress'
<1> SUFFICES ASSUME undisturbed' PROVE Progress'
  BY DEF Progress, UndisturbedProgress, StepsSuffice
<1> USE DEF Progress
<1>1. /\ state.name \in {"PLAN_APPROVED"} => ActiveName(state) = state.name
      /\ {"SLICE_SELECT", "IMPLEMENTING", "REVIEWING", "VERIFYING", "SLICE_DONE"}
           \subseteq Working
  <2>1. ~IsBlocked("PLAN_APPROVED")
    BY ActiveNotBlocked DEF IsBlocked, ActiveStateNames
  <2> QED
    BY <2>1 DEF ActiveName, Working
<1>2. CASE BuildStart
  <2>1. /\ state.name = "PLAN_APPROVED" /\ holder = "none"
        /\ state' = state /\ holder' = holder
    BY <1>2 DEF BuildStart, vars
  <2>2. PICK max \in MaxSteps : loop' = [NoLoop EXCEPT !.pc = "dispatch", !.max = max]
    BY <1>2 DEF BuildStart
  <2>3. max \in Nat \ {0}
    BY BuildAssumption
  <2>4. /\ loop'.pc = "dispatch" /\ loop'.n = 0 /\ loop'.max = max /\ loop'.stop = "none"
    BY <2>2 DEF NoLoop
  <2>5. Len(state.completed_slice_ids) = 0
    BY <1>1, <2>1, EmptySeq DEF OnePlan
  <2>6. StepsCounted'
    BY <2>1, <2>3, <2>4, <2>5 DEF StepsCounted, StepsInto
  <2> QED
    BY <2>1, <2>4, <2>6 DEF UndisturbedProgress, StepsSuffice, LongSteps
<1>3. CASE DispatchStep
  <2>1. loop.pc = "dispatch" /\ undisturbed /\ UNCHANGED vars /\ holder' = holder
    BY <1>3 DEF DispatchStep
  <2>2. /\ loop \in Loops /\ loop.stop = "none" /\ StepsCounted /\ holder = "none"
    BY <2>1, UndisturbedFacts DEF LongSteps
  <2>3. BranchOf(state.name) \in Branches
    BY DEF BranchOf, Branches
  <2>4. /\ loop'.pc = "enter" /\ loop'.n = loop.n /\ loop'.max = loop.max
        /\ loop'.stop = "none" /\ loop'.branch = BranchOf(state.name)
    BY <1>3, <2>2, <2>3 DEF DispatchStep, Loops
  <2> QED
    BY <2>1, <2>2, <2>4, MiddleOfStep DEF LongSteps
<1>4. CASE EnterLocked
  <2>1. loop.pc = "enter" /\ undisturbed /\ ~LockAvailable
    BY <1>4 DEF EnterLocked
  <2>2. holder = "none"
    BY <2>1, UndisturbedFacts DEF LongSteps
  <2> QED
    BY <2>1, <2>2 DEF LockAvailable
<1>5. ASSUME NEW branch, NEW to, MoveStep(branch, to),
             \/ branch = "select" /\ to = "SLICE_SELECT"
             \/ branch = "begin" /\ to = "IMPLEMENTING"
      PROVE  Progress'
  <2>1. /\ loop.pc = "enter" /\ loop.branch = branch /\ undisturbed /\ holder' = "none"
    BY <1>5 DEF MoveStep, Enter
  <2>2. /\ loop \in Loops /\ loop.stop = "none" /\ loop.n \in Nat /\ loop.max \in Nat
        /\ loop.n = StepsShown(state) /\ loop.n < loop.max
        /\ branch = "select" => state.name \in {"PLAN_APPROVED", "SLICE_DONE"}
        /\ branch = "begin" => state.name = "SLICE_SELECT"
    BY <2>1, UndisturbedFacts
  <2>3. CASE Advance(to, <<>>) /\ StepEnds("advanced", loop.decisions)
    BY <1>1, <1>5, <2>1, <2>2, <2>3, GoodMove
  <2>4. CASE ~AllowsMove(to) /\ ~(branch = "select" /\ NoPendingSlices)
    BY <1>5, <2>2, <2>4, SelectAllowed, BeginAllowed DEF NoPendingSlices
  <2>5. CASE /\ branch = "select" /\ NoPendingSlices
             /\ loop' = [loop EXCEPT !.pc = "report", !.n = @ + 1] /\ UNCHANGED vars
    <3>1. state.name = "SLICE_DONE" /\ state.pending_slice_ids = <<>>
      BY <1>1, <2>5 DEF NoPendingSlices, OnePlan
    <3>2. /\ loop'.pc = "report" /\ loop'.n = loop.n + 1 /\ loop'.max = loop.max
          /\ loop'.stop = "none" /\ state' = state
      BY <2>2, <2>5 DEF Loops, vars
    <3>3. Len(state.completed_slice_ids) \in Nat
      BY IInvOrdered, LengthsAddUp
    <3>4. loop.n = 5 * Len(state.completed_slice_ids)
      BY <2>2, <3>1, <3>3 DEF StepsShown, StepsInto
    <3>5. StepsCounted'
      BY <2>2, <3>1, <3>2, <3>4, StepsIntoTyped DEF StepsCounted, Working
    <3> QED
      BY <2>1, <3>2, <3>5 DEF UndisturbedProgress, StepsSuffice, LongSteps
  <2> QED
    BY <1>5, <2>3, <2>4, <2>5 DEF MoveStep
<1>6. ASSUME NEW role \in {"worker", "reviewer"}, CallSubAgent(role)
      PROVE  Progress'
  <2>1. /\ loop.pc = "enter" /\ loop.branch = role /\ undisturbed /\ UNCHANGED vars
    BY <1>6 DEF CallSubAgent, Enter
  <2>2. /\ loop \in Loops /\ loop.stop = "none" /\ StepsCounted
        /\ state.name = StageOf[role] /\ state.current_slice_id # NoSlice
    BY <2>1, UndisturbedFacts DEF StageOf, SliceStages
  <2>3. /\ holder' = "build"
        /\ loop' = [loop EXCEPT !.pc = "call", !.attempt = 1,
                                !.slice = state.current_slice_id]
    BY <1>6, <2>2 DEF CallSubAgent
  <2>4. /\ loop'.pc = "call" /\ loop'.n = loop.n /\ loop'.max = loop.max
        /\ loop'.stop = "none" /\ loop'.branch = loop.branch
    BY <2>2, <2>3 DEF Loops
  <2>5. loop.branch = BranchOf(state.name)
    BY <2>1, <2>2 DEF StepsCounted
  <2> QED
    BY <2>1, <2>2, <2>3, <2>4, <2>5, MiddleOfStep DEF LongSteps
<1>7. CASE SubAgentAnswers
  <2>1. /\ loop.pc = "call" /\ undisturbed /\ UNCHANGED vars /\ holder' = holder
        /\ loop'.output \in {"none", "pass"}
    BY <1>7 DEF SubAgentAnswers
  <2>2. /\ loop \in Loops /\ loop.stop = "none" /\ StepsCounted /\ holder = "build"
    BY <2>1, UndisturbedFacts DEF LongSteps
  <2>3. ~(loop.attempt < maxInvalidAttempts /\ loop.attempt = runtimeAttempts)
    BY DEF maxInvalidAttempts, runtimeAttempts
  <2>4. \/ \E output \in {"pass", "blocked", "fail"} :
             loop' = [loop EXCEPT !.pc = "record", !.output = output]
        \/ loop' = [loop EXCEPT !.attempt = @ + 1]
    BY <1>7, <2>3 DEF SubAgentAnswers
  <2>5. /\ loop'.pc \in {"call", "record"} /\ loop'.n = loop.n /\ loop'.max = loop.max
        /\ loop'.stop = "none" /\ loop'.branch = loop.branch
        /\ loop'.pc = "record" => loop'.output = "pass"
    BY <2>1, <2>2, <2>4 DEF Loops
  <2>6. loop.branch = BranchOf(state.name)
    BY <2>1, <2>2 DEF StepsCounted
  <2> QED
    BY <2>1, <2>2, <2>5, <2>6, MiddleOfStep DEF LongSteps
<1>8. ASSUME NEW role \in {"worker", "reviewer"}, RecordSubAgent(role)
      PROVE  Progress'
  <2>1. /\ loop.pc = "record" /\ loop.branch = role /\ undisturbed
        /\ holder' = Released
    BY <1>8 DEF RecordSubAgent
  <2>2. /\ StepsCounted /\ holder = "build" /\ state.name = StageOf[role]
    BY <2>1, UndisturbedFacts DEF LongSteps, StageOf
  <2>3. loop.output = "pass" /\ holder' = "none"
    BY <2>1, <2>2 DEF StepsCounted, Released
  <2>4. Advance(PassOf[role], <<>>) /\ StepEnds("completed", loop.decisions)
    BY <1>8, <2>3 DEF RecordSubAgent
  <2>5. PassOf[role] \in Working /\ PassOf[role] # state.name
    BY <1>1, <2>2 DEF PassOf, StageOf
  <2> QED
    BY <2>1, <2>3, <2>4, <2>5, GoodMove
<1>9. CASE VerifyStep
  <2>1. /\ loop.pc = "enter" /\ loop.branch = "verify" /\ undisturbed /\ UNCHANGED vars
        /\ holder' = "build"
    BY <1>9 DEF VerifyStep, Enter
  <2>2. loop \in Loops /\ loop.stop = "none" /\ StepsCounted
    BY <2>1, UndisturbedFacts
  <2>3. /\ loop'.pc = "record" /\ loop'.n = loop.n /\ loop'.max = loop.max
        /\ loop'.stop = "none" /\ loop'.branch = loop.branch
    BY <1>9, <2>2 DEF VerifyStep, Loops
  <2>4. loop.branch = BranchOf(state.name)
    BY <2>1, <2>2 DEF StepsCounted
  <2> QED
    BY <2>1, <2>2, <2>3, <2>4, MiddleOfStep DEF LongSteps
<1>10. CASE CompleteVerification
  <2>1. /\ loop.pc = "record" /\ loop.branch = "verify" /\ undisturbed
        /\ Advance("SLICE_DONE", <<>>) /\ holder' = holder
        /\ loop' = [loop EXCEPT !.pc = "evidence", !.slice = state.current_slice_id]
    BY <1>10 DEF CompleteVerification
  <2>2. /\ loop \in Loops /\ loop.stop = "none" /\ holder = "build" /\ loop.n \in Nat
        /\ state.name = "VERIFYING" /\ loop.n = StepsShown(state) /\ loop.n < loop.max
    BY <2>1, UndisturbedFacts DEF LongSteps
  <2>3. MovesOn /\ state'.name = "SLICE_DONE" /\ IInv'
    BY <2>1, <2>2, AdvanceMovesOn DEF ActiveStateNames
  <2>4. StepsShown(state') = loop.n + 1
    BY <1>1, <2>2, <2>3, MoveShowsStep
  <2>5. /\ loop'.pc = "evidence" /\ loop'.n = loop.n /\ loop'.max = loop.max
        /\ loop'.stop = "none"
    BY <2>1, <2>2 DEF Loops
  <2>6. Len(state'.completed_slice_ids) \in Nat
    BY <2>3, IInvOrdered, LengthsAddUp
  <2>7. loop.n + 1 = 5 * Len(state'.completed_slice_ids)
    BY <2>3, <2>4, <2>6 DEF StepsShown, StepsInto
  <2>8. loop.n <= loop.max
    BY <2>2, LoopNumbers
  <2>9. StepsCounted'
    BY <2>2, <2>3, <2>5, <2>7, <2>8, StepsIntoTyped DEF StepsCounted, Working
  <2> QED
    BY <2>1, <2>2, <2>5, <2>9 DEF UndisturbedProgress, StepsSuffice, LongSteps
<1>11. CASE WriteBuildEvidence
  <2>1. /\ loop.pc = "evidence" /\ undisturbed /\ holder' = Released /\ state' = state
        /\ approved' = approved /\ UNCHANGED vars
        /\ StepEnds("completed", Decided(loop.decisions))
    BY <1>11 DEF WriteBuildEvidence, vars
  <2>2. /\ loop \in Loops /\ StepsCounted /\ holder = "build" /\ loop.n \in Nat
        /\ Decided(loop.decisions) \in SUBSET BOOLEAN
    BY <2>1, UndisturbedFacts DEF LongSteps, Decided
  <2>3. /\ state.name = "SLICE_DONE" /\ loop.n < loop.max /\ holder' = "none"
        /\ loop.n + 1 = 5 * Len(state.completed_slice_ids)
    BY <2>1, <2>2 DEF StepsCounted, Released
  <2>4. loop.n + 1 = StepsShown(state')
    BY <2>1, <2>2, <2>3 DEF StepsShown, StepsInto
  <2>5. IInv'
    BY <2>1, NextPreservesIInv
  <2> QED
    BY <1>1, <2>1, <2>2, <2>3, <2>4, <2>5, GoodStepEnds
<1>12. CASE EmitReport
  <2>1. loop.pc = "report" /\ undisturbed
    BY <1>12 DEF EmitReport
  <2>2. /\ loop \in Loops /\ loop.n \in Nat /\ loop.max \in Nat /\ StepsCounted
        /\ holder = "none"
    BY <2>1, UndisturbedFacts DEF LongSteps
  <2>3. /\ state.name = "SLICE_DONE" /\ state.pending_slice_ids = <<>>
        /\ loop.n = 5 * Len(state.completed_slice_ids) + 1 /\ loop.n <= loop.max
    BY <2>1, <2>2 DEF StepsCounted
  <2>4. /\ Advance("FINAL_REPORT", <<>>) /\ holder' = "none"
        /\ loop' = [NoLoop EXCEPT !.n = loop.n, !.max = loop.max, !.stop = "loop_completed"]
    BY <1>12, <2>2, <2>3 DEF EmitReport, LockAvailable
  <2>5. /\ loop'.pc = "off" /\ loop'.stop = "loop_completed" /\ loop'.max = loop.max
    BY <2>4 DEF NoLoop
  <2>6. MovesOn /\ state'.name = "FINAL_REPORT"
    BY <2>3, <2>4, AdvanceMovesOn DEF ActiveStateNames
  <2>7. approved' = approved /\ state.current_slice_id = NoSlice
    <3>1. ~IsBlocked("SLICE_DONE")
      BY ActiveNotBlocked DEF IsBlocked, ActiveStateNames
    <3> QED
      BY <2>3, <2>6, <3>1 DEF MovesOn, IInv, CurrentIffInSlice, ActiveName, SliceNames,
           SliceStages
  <2>8. /\ Len(approved) = Len(state.completed_slice_ids)
        /\ Len(approved) \in Nat
    <3> DEFINE c == Len(state.completed_slice_ids)
               l == Len(approved)
    <3>1. c \in Nat /\ l = c + 0
      BY <2>3, <2>7, IInvOrdered, LengthsAddUp
    <3> HIDE DEF c, l
    <3>2. l = c /\ l \in Nat
      BY <3>1
    <3> QED
      BY <3>2 DEF c, l
  <2>9. ~(loop'.max < 5 * Len(approved') + 1)
    BY <2>2, <2>3, <2>5, <2>7, <2>8
  <2> QED
    BY <2>4, <2>5, <2>9 DEF UndisturbedProgress, StepsSuffice, LongSteps
<1>13. CASE LockExpires \/ BuildDies \/ OtherShell \/ OtherTakesLock
  BY <1>13 DEF LockExpires, BuildDies, OtherShell, OtherTakesLock
<1>14. CASE OtherGivesBack
  <2>1. holder = "other" /\ undisturbed
    BY <1>14 DEF OtherGivesBack
  <2> QED
    BY <2>1 DEF UndisturbedProgress
<1>15. CASE UNCHANGED buildVars
  <2>1. state' = state /\ approved' = approved /\ loop' = loop /\ holder' = holder
        /\ undisturbed' = undisturbed
    BY <1>15 DEF buildVars, vars
  <2> QED
    BY <2>1 DEF UndisturbedProgress, StepsSuffice, StepsCounted
<1> QED
  BY <1>2, <1>3, <1>4, <1>5, <1>6, <1>7, <1>8, <1>9, <1>10, <1>11, <1>12, <1>13,
     <1>14, <1>15 DEF BuildNext, BuildStep, SelectStep, BeginStep

-----------------------------------------------------------------------------
(* The theorems. *)

LEMMA BInvParts ==
  BInv <=> /\ IInv /\ LoopOk /\ FilesOk
           /\ ReportMeansFinal /\ DoneHasSlices /\ OnePlan /\ StageWasWorked
           /\ Reporting /\ Progress
BY DEF BInv, BuildTypeOK, IInv, LoopOk, FilesOk, Reports, Reporting, Progress

LEMMA BInvPartsAfter ==
  /\ IInv' /\ LoopOk' /\ FilesOk' /\ ReportMeansFinal' /\ DoneHasSlices' /\ OnePlan'
  /\ StageWasWorked' /\ Reporting' /\ Progress'
  => BInv'
BY DEF BInv, BuildTypeOK, IInv, LoopOk, FilesOk, Reports, Reporting, Progress

LEMMA BuildInitBInv ==
  ASSUME BuildInit
  PROVE  BInv
<1>1. IInv
  BY InitIInv DEF BuildInit
<1>2. state.name = "IDLE" /\ state.completed_slice_ids = <<>> /\ ActiveName(state) = "IDLE"
  <2>1. ~IsBlocked("IDLE")
    BY ActiveNotBlocked DEF IsBlocked, ActiveStateNames
  <2> QED
    BY <2>1 DEF BuildInit, Init, InitialSessionState, ActiveName
<1>3. LoopOk
  BY NoLoopIsLoop DEF BuildInit, LoopOk, StoppedIsOff, BranchOfStep, LockGivenBack
<1>4. FilesOk
  <2>1. 0 \in 0..MaxLoops /\ FALSE \in BOOLEAN
    BY BuildAssumption
  <2>2. evidence \in [slice : SliceIds \cup {NoSlice}, passed : BOOLEAN]
    BY <2>1 DEF BuildInit, NoEvidence
  <2> QED
    BY <2>1, <2>2 DEF BuildInit, NoReport, FilesOk, Reports
<1>5. ReportMeansFinal /\ DoneHasSlices /\ OnePlan /\ StageWasWorked
  <2>1. Range(<<>>) = {}
    BY DEF Range
  <2> QED
    BY <1>2, <2>1 DEF BuildInit, NoReport, ReportMeansFinal, DoneHasSlices, OnePlan,
         StageWasWorked
<1>6. Reporting
  BY NoLoopIsLoop DEF BuildInit, NoReport, Reporting, ReportEndsLoop, OwnUnverifiedKnown,
       ReportHonestAboutOwn
<1>7. Progress
  BY NoLoopIsLoop DEF BuildInit, Progress, UndisturbedProgress, StepsSuffice
<1> QED
  BY <1>1, <1>3, <1>4, <1>5, <1>6, <1>7, BInvParts

(* Every behaviour of paw build with other shells satisfies BInv. *)
THEOREM BuildInductive == BuildSpec => []BInv
<1>1. BuildInit => BInv
  BY BuildInitBInv
<1>2. ASSUME BInv, [BuildNext]_buildVars
      PROVE  BInv'
  <2>1. /\ IInv /\ LoopOk /\ FilesOk /\ ReportMeansFinal /\ DoneHasSlices /\ OnePlan
        /\ StageWasWorked /\ Reporting /\ Progress /\ BuildTypeOK
    BY <1>2, BInvParts DEF BInv
  <2>2. StateStep
    BY <1>2, <2>1, BuildNextIsStateStep
  <2>3. IInv' /\ ReportMeansFinal' /\ DoneHasSlices' /\ OnePlan' /\ StageWasWorked'
    BY <2>1, <2>2, FinalStays, DoneStaysNonempty, OnePlanStays, WorkedStays DEF StateStep
  <2>4. LoopOk' /\ FilesOk' /\ Reporting' /\ Progress'
    BY <1>2, <2>1, BuildNextLoopOk, BuildNextFilesOk, BuildNextReporting,
       BuildNextProgress
  <2> QED
    BY <2>3, <2>4, BInvPartsAfter
<1> QED
  BY <1>1, <1>2, PTL DEF BuildSpec

(* The variables of the loop, the files and the histories have their types. *)
THEOREM BuildTypeCorrect == BuildSpec => []BuildTypeOK
<1>1. BInv => BuildTypeOK
  BY DEF BInv
<1> QED
  BY <1>1, BuildInductive, PTL

(* paw build refines the session state machine: however stale what it dispatched
   on, whoever holds the lock by then and wherever it dies, all that it and the
   other shells do to state.json are steps of PawState. *)
THEOREM BuildRefinesState == BuildSpec => BuildImplementsState
<1>1. BuildInit => Init
  BY DEF BuildInit
<1>2. ASSUME BInv, [BuildNext]_buildVars
      PROVE  [Next]_vars
  BY <1>2, BuildNextIsStateStep DEF BInv, StateStep
<1>3. BuildSpec => Spec
  BY <1>1, <1>2, BuildInductive, PTL DEF BuildSpec, Spec
<1> QED
  BY <1>3 DEF BuildImplementsState

(* A slice comes to review, and is completed, only after a pass that a worker
   reported of that very slice. *)
THEOREM ReviewNeedsWork == BuildSpec => []ReviewedWasWorked
<1>1. BInv => ReviewedWasWorked
  <2>1. ~IsBlocked("REVIEWING") /\ ~IsBlocked("VERIFYING")
    BY ActiveNotBlocked DEF IsBlocked, ActiveStateNames
  <2> QED
    BY <2>1 DEF BInv, StageWasWorked, ReviewedWasWorked, ActiveName
<1> QED
  BY <1>1, BuildInductive, PTL

(* Five steps a slice and one more are exactly enough for a loop that nothing
   disturbs, whatever the plan's length. *)
THEOREM FiveStepsASlice == BuildSpec => []StepsSuffice
<1>1. BInv => StepsSuffice
  BY DEF BInv
<1> QED
  BY <1>1, BuildInductive, PTL

(* A report that says done hides no unverified slice of its own invocation. *)
THEOREM OwnReportHonest == BuildSpec => []ReportHonestAboutOwn
<1>1. BInv => ReportHonestAboutOwn
  BY DEF BInv
<1> QED
  BY <1>1, BuildInductive, PTL

(* loop_completed and a report go together with a plan that is done, and every
   other end of an invocation leaves no report by it. *)
THEOREM CompletionIsFinal == BuildSpec => []CompletedLoopIsFinal
<1>1. BInv => CompletedLoopIsFinal
  <2> SUFFICES ASSUME BInv PROVE CompletedLoopIsFinal
    OBVIOUS
  <2>1. loop.stop = "loop_completed" => report.status # "none"
    BY DEF BInv, ReportEndsLoop
  <2>2. ASSUME report.status # "none"
        PROVE  state.completed_slice_ids = approved /\ approved # <<>>
    <3>1. state.name = "FINAL_REPORT" /\ ~IsBlocked("FINAL_REPORT")
      BY <2>2, ActiveNotBlocked DEF BInv, ReportMeansFinal, IsBlocked, ActiveStateNames
    <3>2. /\ state.current_slice_id = NoSlice
          /\ state.pending_slice_ids = <<>>
          /\ state.completed_slice_ids # <<>>
      BY <3>1 DEF BInv, IInv, CurrentIffInSlice, PlanningKeepsQueueEmpty, DoneHasSlices,
           ActiveName, SliceNames, SliceStages
    <3> QED
      BY <3>2, NothingLeft DEF BInv
  <2>3. loop.stop \notin {"none", "loop_completed"} => report.by # loops \/ loops = 0
    BY BuildAssumption DEF BInv, ReportEndsLoop, BuildTypeOK
  <2> QED
    BY <2>1, <2>2, <2>3 DEF CompletedLoopIsFinal
<1> QED
  BY <1>1, BuildInductive, PTL

(* The build never keeps the lock between its steps, and no invalid answer of a
   sub-agent leaves it without a decision. *)
THEOREM LockReturned == BuildSpec => []LockGivenBack
<1>1. BInv => LockGivenBack
  BY DEF BInv
<1> QED
  BY <1>1, BuildInductive, PTL
=============================================================================
