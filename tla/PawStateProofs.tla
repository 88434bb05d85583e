--------------------------- MODULE PawStateProofs ---------------------------
(***************************************************************************)
(* Theorems about PawState for every set of slice ids, every set of plans  *)
(* and every set of blocked codes.                                         *)
(*                                                                         *)
(* A step of the machine has one of six shapes: a resume, a block, the     *)
(* approval of a plan, the selection of a slice, the completion of a slice,*)
(* or a plain renaming.  One lemma per shape shows that it preserves the   *)
(* inductive invariant IInv; Next is then split into the shapes.           *)
(***************************************************************************)
EXTENDS PawState, SequenceTheorems, TLAPS

(* The inductive invariant.  The last conjunct is what CompletedPassedEvery-
   Stage needs at the step into SLICE_DONE. *)
IInv ==
  /\ TypeOK
  /\ StateIsValid
  /\ SliceOrderConserved
  /\ CurrentIffInSlice
  /\ PlanningKeepsQueueEmpty
  /\ CompletedPassedEveryStage
  /\ CurrentPassedItsStages

(* The blocked state names, spelled out. *)
LEMMA BlockedNames ==
  /\ BlockedReasonCodes =
       {"NEEDS_USER_DECISION", "BUDGET_EXCEEDED", "TEST_FAILURE",
        "BUILD_FAILURE", "TOOL_PERMISSION", "CONTEXT_MISSING",
        "PROVIDER_UNAVAILABLE", "SANDBOX_UNAVAILABLE", "PATCH_APPLY_FAILED"}
  /\ \A c \in BlockedReasonCodes : BlockedStateOf[c] \in BlockedStateNames
  /\ BlockedStateOf["NEEDS_USER_DECISION"] = "BLOCKED_NEEDS_USER_DECISION"
  /\ "BLOCKED_NEEDS_USER_DECISION" \in BlockedStateNames
BY DEF BlockedReasonCodes, BlockedStateOf, BlockedStateNames, Range

(* No name is both active and blocked. *)
LEMMA ActiveNotBlocked ==
  ActiveStateNames \cap BlockedStateNames = {}
BY DEF ActiveStateNames, BlockedReasonCodes, BlockedStateOf, BlockedStateNames, Range

(* GatesAfter keeps what was recorded and adds the new state's name. *)
LEMMA GatesGrow ==
  ASSUME NEW n \in SessionStates, gates \in [SliceIds -> SUBSET SliceStages]
  PROVE  /\ GatesAfter(n, gates) \in [SliceIds -> SUBSET SliceStages]
         /\ \A i \in SliceIds : gates[i] \subseteq GatesAfter(n, gates)[i]
         /\ n.current_slice_id # NoSlice /\ n.name \in SliceStages
              => n.name \in GatesAfter(n, gates)[n.current_slice_id]
BY DEF GatesAfter, SessionStates

(* A blocked record has a reason, and the state it resumes to is active. *)
LEMMA BlockedHasReason ==
  ASSUME NEW s \in SessionStates, ValidSessionState(s), IsBlocked(s.name)
  PROVE  /\ s.blocked_reason \in BlockedReasons
         /\ s.blocked_reason.resume_state \in ActiveStateNames
         /\ ~IsBlocked(s.blocked_reason.resume_state)
         /\ s.name \notin ActiveStateNames
BY ActiveNotBlocked
   DEF SessionStates, ValidSessionState, ValidBlockedReason, IsBlocked, BlockedReasons

(* A step that keeps the active name and the slice lists: what blocking and
   resuming a session come down to. *)
KeepsSlices ==
  /\ ActiveName(state') = ActiveName(state)
  /\ state'.current_slice_id = state.current_slice_id
  /\ state'.pending_slice_ids = state.pending_slice_ids
  /\ state'.completed_slice_ids = state.completed_slice_ids
  /\ approved' = approved

(* Such a step keeps IInv. *)
LEMMA SameSlicesStep ==
  ASSUME IInv,
         state' \in SessionStates, ValidSessionState(state'),
         KeepsSlices,
         gates' = GatesAfter(state', gates)
  PROVE  IInv'
<1> USE DEF KeepsSlices
<1>1. /\ gates' \in [SliceIds -> SUBSET SliceStages]
      /\ \A i \in SliceIds : gates[i] \subseteq gates'[i]
  BY GatesGrow DEF IInv, TypeOK
<1>2. TypeOK'
  BY <1>1 DEF IInv, TypeOK
<1>3. SliceOrderConserved'
  BY DEF IInv, SliceOrderConserved, CurrentSeq
<1>4. CurrentIffInSlice' /\ PlanningKeepsQueueEmpty'
  BY DEF IInv, CurrentIffInSlice, PlanningKeepsQueueEmpty
<1>5. CompletedPassedEveryStage'
  <2>1. Range(state.completed_slice_ids) \subseteq SliceIds
    BY RangeOfSeq DEF IInv, TypeOK, SessionStates
  <2> QED
    BY <1>1, <2>1 DEF IInv, CompletedPassedEveryStage
<1>6. CurrentPassedItsStages'
  <2>1. ActiveName(state) \in SliceStages => state.current_slice_id \in SliceIds
    BY DEF IInv, TypeOK, SessionStates, CurrentIffInSlice, SliceNames
  <2> QED
    BY <1>1, <2>1 DEF IInv, CurrentPassedItsStages
<1> QED
  BY <1>2, <1>3, <1>4, <1>5, <1>6 DEF IInv, StateIsValid

(* Resuming a blocked session, by a transition, by approve or by retry. *)
LEMMA ResumeStep ==
  ASSUME IInv, IsBlocked(state.name),
         WriteState(ResumeValue(state, state.blocked_reason.resume_state))
  PROVE  IInv' /\ KeepsSlices
<1> DEFINE to == state.blocked_reason.resume_state
<1>1. /\ to \in ActiveStateNames
      /\ ~IsBlocked(to)
      /\ state.name # "PLAN_DRAFTED"
  BY BlockedHasReason DEF IInv, TypeOK, StateIsValid, ActiveStateNames
<1>2. state' = [state EXCEPT !.name = to, !.blocked_reason = NoReason]
  BY DEF WriteState, ResumeValue
<1>3. state' \in SessionStates
  BY <1>1, <1>2 DEF IInv, TypeOK, SessionStates, StateNames
<1>4. /\ state'.name = to
      /\ state'.current_slice_id = state.current_slice_id
      /\ state'.pending_slice_ids = state.pending_slice_ids
      /\ state'.completed_slice_ids = state.completed_slice_ids
  BY <1>2 DEF IInv, TypeOK, SessionStates
<1>5. ActiveName(state') = ActiveName(state)
  BY <1>1, <1>4 DEF ActiveName
<1>6. /\ ValidSessionState(state')
      /\ approved' = approved
      /\ gates' = GatesAfter(state', gates)
  BY <1>1 DEF WriteState, ApprovedAfter
<1>7. KeepsSlices
  BY <1>4, <1>5, <1>6 DEF KeepsSlices
<1> QED
  BY <1>3, <1>6, <1>7, SameSlicesStep

(* Blocking an active session, by a recorder or by reject. *)
LEMMA BlockStep ==
  ASSUME IInv, NEW code \in BlockedReasonCodes, NEW filled \in BOOLEAN,
         NEW i \in SliceIds \cup {NoSlice}, NEW t,
         t = [to |-> BlockedStateOf[code], slice_ids |-> <<>>,
              reason |-> [code |-> code, filled |-> filled, slice_id |-> i]],
         ~IsBlocked(state.name),
         WriteState(EnterBlockedValue(state, t))
  PROVE  IInv' /\ KeepsSlices
<1>1. BlockedStateOf[code] \in BlockedStateNames
  BY BlockedNames
<1>2. state.name \in ActiveStateNames
  BY DEF IInv, TypeOK, SessionStates, StateNames, IsBlocked
<1> DEFINE r == [code |-> code, filled |-> filled,
                 slice_id |-> IF i = NoSlice THEN state.current_slice_id ELSE i,
                 resume_state |-> state.name]
<1>3. state' = [state EXCEPT !.name = BlockedStateOf[code], !.blocked_reason = r]
  BY DEF WriteState, EnterBlockedValue
<1>4. r \in BlockedReasons
  BY <1>2 DEF BlockedReasons, IInv, TypeOK, SessionStates
<1>5. state' \in SessionStates
  BY <1>1, <1>3, <1>4 DEF IInv, TypeOK, SessionStates, StateNames
<1>6. /\ state'.name = BlockedStateOf[code]
      /\ state'.blocked_reason = r
      /\ state'.current_slice_id = state.current_slice_id
      /\ state'.pending_slice_ids = state.pending_slice_ids
      /\ state'.completed_slice_ids = state.completed_slice_ids
  BY <1>3 DEF IInv, TypeOK, SessionStates
<1>7. ActiveName(state') = ActiveName(state)
  BY <1>1, <1>6 DEF ActiveName, IsBlocked
<1>8. /\ ValidSessionState(state')
      /\ state'.name # "PLAN_APPROVED"
  BY <1>1, <1>6, ActiveNotBlocked DEF WriteState, ActiveStateNames
<1>9. approved' = approved /\ gates' = GatesAfter(state', gates)
  BY <1>8 DEF WriteState, ApprovedAfter
<1>10. KeepsSlices
  BY <1>6, <1>7, <1>9 DEF KeepsSlices
<1> QED
  BY <1>5, <1>8, <1>9, <1>10, SameSlicesStep

(* The facts about an active state that every remaining shape starts from. *)
LEMMA ActiveFacts ==
  ASSUME IInv, ~IsBlocked(state.name)
  PROVE  /\ state.name \in ActiveStateNames
         /\ ActiveName(state) = state.name
         /\ state.blocked_reason = NoReason
BY DEF IInv, TypeOK, StateIsValid, SessionStates, StateNames, IsBlocked, ActiveName,
       ValidSessionState, ValidBlockedReason

(* PLAN_APPROVED: the plan is queued behind the completed slices. *)
LEMMA PlanStep ==
  ASSUME IInv, state.name = "PLAN_DRAFTED", NEW ids \in Seq(SliceIds),
         WriteState([state EXCEPT !.name = "PLAN_APPROVED",
                                  !.pending_slice_ids = ids])
  PROVE  IInv'
<1>1. state' = [state EXCEPT !.name = "PLAN_APPROVED", !.pending_slice_ids = ids]
  BY DEF WriteState
<1>2. ~IsBlocked("PLAN_DRAFTED") /\ ~IsBlocked("PLAN_APPROVED")
  BY ActiveNotBlocked DEF IsBlocked, ActiveStateNames
<1>3. /\ state' \in SessionStates
      /\ state'.name = "PLAN_APPROVED"
      /\ state'.current_slice_id = state.current_slice_id
      /\ state'.pending_slice_ids = ids
      /\ state'.completed_slice_ids = state.completed_slice_ids
  BY <1>1 DEF IInv, TypeOK, SessionStates, StateNames, ActiveStateNames
<1>4. /\ state.current_slice_id = NoSlice
      /\ state.pending_slice_ids = <<>>
  BY <1>2 DEF IInv, CurrentIffInSlice, PlanningKeepsQueueEmpty, ActiveName,
              PlanningNames, SliceNames, SliceStages
<1>5. /\ approved' = approved \o ids
      /\ gates' = gates
      /\ ValidSessionState(state')
  BY <1>3, <1>4 DEF WriteState, ApprovedAfter, GatesAfter
<1>6. TypeOK'
  BY <1>3, <1>5, ConcatProperties DEF IInv, TypeOK
<1>7. SliceOrderConserved'
  <2>1. state.completed_slice_ids \in Seq(SliceIds)
    BY DEF IInv, TypeOK, SessionStates
  <2>2. state.completed_slice_ids \o <<>> \o <<>> = approved
    BY <1>4 DEF IInv, SliceOrderConserved, CurrentSeq
  <2>3. state.completed_slice_ids \o <<>> = state.completed_slice_ids
    BY <2>1, ConcatEmptySeq
  <2>4. approved = state.completed_slice_ids
    BY <2>2, <2>3
  <2> QED
    BY <1>3, <1>4, <1>5, <2>3, <2>4 DEF SliceOrderConserved, CurrentSeq
<1>8. ActiveName(state') = "PLAN_APPROVED"
  BY <1>2, <1>3 DEF ActiveName
<1>9. /\ CurrentIffInSlice'
      /\ PlanningKeepsQueueEmpty'
      /\ CurrentPassedItsStages'
  BY <1>3, <1>4, <1>8 DEF CurrentIffInSlice, PlanningKeepsQueueEmpty,
       CurrentPassedItsStages, PlanningNames, SliceNames, SliceStages
<1>10. CompletedPassedEveryStage'
  BY <1>3, <1>5 DEF IInv, CompletedPassedEveryStage
<1> QED
  BY <1>5, <1>6, <1>7, <1>9, <1>10 DEF IInv, StateIsValid

(* Taking the head of a queue and putting it at the end of what precedes the
   queue changes nothing of the whole. *)
LEMMA HeadMoves ==
  ASSUME NEW S, NEW c \in Seq(S), NEW p \in Seq(S), p # <<>>
  PROVE  (c \o <<Head(p)>>) \o Tail(p) = c \o p
<1>1. /\ Head(p) \in S
      /\ Tail(p) \in Seq(S)
  BY HeadTailProperties
<1> DEFINE h == <<Head(p)>>
<1>2. h \in Seq(S) /\ h \o Tail(p) = p
  BY <1>1
<1> HIDE DEF h
<1>3. (c \o h) \o Tail(p) = c \o (h \o Tail(p))
  BY <1>1, <1>2, ConcatAssociative, SMTT(30)
<1> QED
  BY <1>2, <1>3 DEF h

(* SLICE_SELECT: the head of the queue becomes the current slice. *)
LEMMA SelectShape ==
  ASSUME IInv, state.name \in {"PLAN_APPROVED", "SLICE_DONE"},
         state.pending_slice_ids # <<>>,
         WriteState([state EXCEPT !.name = "SLICE_SELECT",
                       !.current_slice_id = Head(state.pending_slice_ids),
                       !.pending_slice_ids = Tail(state.pending_slice_ids)])
  PROVE  IInv'
<1> DEFINE p == state.pending_slice_ids
           c == state.completed_slice_ids
<1>1. /\ p \in Seq(SliceIds)
      /\ c \in Seq(SliceIds)
      /\ Head(p) \in SliceIds
      /\ Tail(p) \in Seq(SliceIds)
  BY HeadTailProperties DEF IInv, TypeOK, SessionStates
<1>2. /\ ~IsBlocked("PLAN_APPROVED")
      /\ ~IsBlocked("SLICE_DONE")
      /\ ~IsBlocked("SLICE_SELECT")
  BY ActiveNotBlocked DEF IsBlocked, ActiveStateNames
<1>3. /\ state' \in SessionStates
      /\ state'.name = "SLICE_SELECT"
      /\ state'.current_slice_id = Head(p)
      /\ state'.pending_slice_ids = Tail(p)
      /\ state'.completed_slice_ids = c
  BY <1>1 DEF WriteState, IInv, TypeOK, SessionStates, StateNames, ActiveStateNames
<1>4. state.current_slice_id = NoSlice
  BY <1>2 DEF IInv, CurrentIffInSlice, ActiveName, SliceNames, SliceStages
<1>5. /\ approved' = approved
      /\ gates' = GatesAfter(state', gates)
      /\ ValidSessionState(state')
  BY <1>3 DEF WriteState, ApprovedAfter
<1>6. /\ gates' \in [SliceIds -> SUBSET SliceStages]
      /\ \A i \in SliceIds : gates[i] \subseteq gates'[i]
  BY <1>3, <1>5, GatesGrow DEF IInv, TypeOK
<1>7. TypeOK'
  BY <1>3, <1>5, <1>6 DEF IInv, TypeOK
<1>8. SliceOrderConserved'
  <2>1. c \o <<>> \o p = approved
    BY <1>4 DEF IInv, SliceOrderConserved, CurrentSeq
  <2>2. c \o p = approved
    BY <1>1, <2>1, ConcatEmptySeq
  <2>3. c \o <<Head(p)>> \o Tail(p) = c \o p
    BY <1>1, HeadMoves
  <2> QED
    BY <1>1, <1>3, <1>5, <2>2, <2>3, ConstantsAssumption
       DEF SliceOrderConserved, CurrentSeq
<1>9. ActiveName(state') = "SLICE_SELECT"
  BY <1>2, <1>3 DEF ActiveName
<1>10. /\ CurrentIffInSlice'
       /\ PlanningKeepsQueueEmpty'
       /\ CurrentPassedItsStages'
  BY <1>1, <1>3, <1>9, ConstantsAssumption
     DEF CurrentIffInSlice, PlanningKeepsQueueEmpty, CurrentPassedItsStages,
         PlanningNames, SliceNames, SliceStages
<1>11. CompletedPassedEveryStage'
  BY <1>1, <1>3, <1>6, RangeOfSeq DEF IInv, CompletedPassedEveryStage
<1> QED
  BY <1>5, <1>7, <1>8, <1>10, <1>11 DEF IInv, StateIsValid

(* Appending to a sequence adds its element to the range and no other. *)
LEMMA RangeOfAppend ==
  ASSUME NEW S, NEW c \in Seq(S), NEW e \in S
  PROVE  Range(Append(c, e)) = Range(c) \cup {e}
<1>1. /\ DOMAIN c = 1..Len(c)
      /\ Len(c) \in Nat
      /\ DOMAIN Append(c, e) = 1..(Len(c) + 1)
      /\ \A k \in 1..Len(c) : Append(c, e)[k] = c[k]
      /\ Append(c, e)[Len(c) + 1] = e
  BY AppendProperties, LenProperties
<1> QED
  BY <1>1 DEF Range

(* SLICE_DONE: the current slice joins the completed ones. *)
LEMMA DoneStep ==
  ASSUME IInv, state.name = "VERIFYING",
         WriteState([state EXCEPT !.name = "SLICE_DONE",
                       !.current_slice_id = NoSlice,
                       !.completed_slice_ids =
                         IF state.current_slice_id \in Range(@) THEN @
                         ELSE Append(@, state.current_slice_id)])
  PROVE  IInv'
<1> DEFINE p == state.pending_slice_ids
           c == state.completed_slice_ids
           cur == state.current_slice_id
<1>1. /\ ~IsBlocked("VERIFYING")
      /\ ~IsBlocked("SLICE_DONE")
  BY ActiveNotBlocked DEF IsBlocked, ActiveStateNames
<1>2. /\ p \in Seq(SliceIds)
      /\ c \in Seq(SliceIds)
      /\ cur \in SliceIds
  BY <1>1 DEF IInv, TypeOK, SessionStates, CurrentIffInSlice, ActiveName,
              SliceNames, SliceStages
<1>3. cur \notin Range(c)
  BY DEF IInv, StateIsValid, ValidSessionState
<1>4. Append(c, cur) \in Seq(SliceIds)
  BY <1>2, AppendProperties
<1>5. /\ state' \in SessionStates
      /\ state'.name = "SLICE_DONE"
      /\ state'.current_slice_id = NoSlice
      /\ state'.pending_slice_ids = p
      /\ state'.completed_slice_ids = Append(c, cur)
  BY <1>2, <1>3, <1>4
     DEF WriteState, IInv, TypeOK, SessionStates, StateNames, ActiveStateNames
<1>6. /\ approved' = approved
      /\ gates' = gates
      /\ ValidSessionState(state')
  BY <1>5 DEF WriteState, ApprovedAfter, GatesAfter
<1>7. TypeOK'
  BY <1>5, <1>6 DEF IInv, TypeOK
<1>8. SliceOrderConserved'
  <2>1. Append(c, cur) = c \o <<cur>>
    BY <1>2, AppendIsConcat
  <2>2. (c \o <<cur>>) \o p = approved
    BY <1>2, ConstantsAssumption DEF IInv, SliceOrderConserved, CurrentSeq
  <2>3. Append(c, cur) \o <<>> = Append(c, cur)
    BY <1>4, ConcatEmptySeq
  <2> QED
    BY <1>5, <1>6, <2>1, <2>2, <2>3 DEF SliceOrderConserved, CurrentSeq
<1>9. ActiveName(state') = "SLICE_DONE"
  BY <1>1, <1>5 DEF ActiveName
<1>10. /\ CurrentIffInSlice'
       /\ PlanningKeepsQueueEmpty'
       /\ CurrentPassedItsStages'
  BY <1>5, <1>9 DEF CurrentIffInSlice, PlanningKeepsQueueEmpty,
       CurrentPassedItsStages, PlanningNames, SliceNames, SliceStages
<1>11. CompletedPassedEveryStage'
  <2>1. SliceStages \subseteq gates[cur]
    BY <1>1 DEF IInv, CurrentPassedItsStages, ActiveName, SliceStages, StagesBefore
  <2>2. Range(Append(c, cur)) = Range(c) \cup {cur}
    BY <1>2, RangeOfAppend
  <2> QED
    BY <1>5, <1>6, <2>1, <2>2 DEF IInv, CompletedPassedEveryStage
<1> QED
  BY <1>6, <1>7, <1>8, <1>10, <1>11 DEF IInv, StateIsValid

(* The transitions that only change the name. *)
Renaming(from, to) ==
  /\ to \in AllowedActiveTransitions[from]
  /\ to \notin {"PLAN_APPROVED", "SLICE_SELECT", "SLICE_DONE"}

LEMMA RenameStep ==
  ASSUME IInv, ~IsBlocked(state.name), NEW to, Renaming(state.name, to),
         to = "FINAL_REPORT" => state.pending_slice_ids = <<>>,
         WriteState(ResumeValue(state, to))
  PROVE  IInv'
<1>1. /\ state.name \in ActiveStateNames
      /\ ActiveName(state) = state.name
  BY ActiveFacts
<1> DEFINE from == state.name
<1>2. \/ from \in PlanningNames /\ to \in PlanningNames
      \/ from = "SLICE_SELECT" /\ to = "IMPLEMENTING"
      \/ from = "IMPLEMENTING" /\ to = "REVIEWING"
      \/ from = "REVIEWING" /\ to = "VERIFYING"
      \/ from = "SLICE_DONE" /\ to = "FINAL_REPORT"
      \/ from = "FINAL_REPORT" /\ to = "IDLE"
  BY <1>1 DEF Renaming, AllowedActiveTransitions, ActiveStateNames, PlanningNames
<1>3. to \in ActiveStateNames /\ ~IsBlocked(to)
  BY <1>2, ActiveNotBlocked DEF ActiveStateNames, PlanningNames, IsBlocked
<1>4. state' = [state EXCEPT !.name = to, !.blocked_reason = NoReason]
  BY DEF WriteState, ResumeValue
<1>5. /\ state' \in SessionStates
      /\ state'.name = to
      /\ state'.current_slice_id = state.current_slice_id
      /\ state'.pending_slice_ids = state.pending_slice_ids
      /\ state'.completed_slice_ids = state.completed_slice_ids
  BY <1>3, <1>4 DEF IInv, TypeOK, SessionStates, StateNames
<1>6. /\ approved' = approved
      /\ gates' = GatesAfter(state', gates)
      /\ ValidSessionState(state')
  BY <1>5 DEF WriteState, ApprovedAfter, Renaming
<1>7. /\ gates' \in [SliceIds -> SUBSET SliceStages]
      /\ \A i \in SliceIds : gates[i] \subseteq gates'[i]
      /\ state'.current_slice_id # NoSlice /\ to \in SliceStages
           => state'.name \in gates'[state'.current_slice_id]
  BY <1>5, <1>6, GatesGrow DEF IInv, TypeOK
<1>8. TypeOK'
  BY <1>5, <1>6, <1>7 DEF IInv, TypeOK
<1>9. SliceOrderConserved'
  BY <1>5, <1>6 DEF IInv, SliceOrderConserved, CurrentSeq
<1>10. ActiveName(state') = to
  BY <1>3, <1>5 DEF ActiveName
<1>11. CurrentIffInSlice'
  BY <1>1, <1>2, <1>5, <1>10
     DEF IInv, CurrentIffInSlice, SliceNames, SliceStages, PlanningNames
<1>12. PlanningKeepsQueueEmpty'
  BY <1>1, <1>2, <1>5, <1>10 DEF IInv, PlanningKeepsQueueEmpty, PlanningNames
<1>13. CompletedPassedEveryStage'
  <2>1. Range(state.completed_slice_ids) \subseteq SliceIds
    BY RangeOfSeq DEF IInv, TypeOK, SessionStates
  <2> QED
    BY <1>5, <1>7, <2>1 DEF IInv, CompletedPassedEveryStage
<1>14. CurrentPassedItsStages'
  <2> SUFFICES ASSUME to \in SliceStages
               PROVE  StagesBefore[to] \cup {to} \subseteq gates'[state.current_slice_id]
    BY <1>5, <1>10 DEF CurrentPassedItsStages
  <2>1. state.current_slice_id \in SliceIds
    BY <1>1, <1>2 DEF IInv, TypeOK, SessionStates, CurrentIffInSlice, SliceNames,
                      SliceStages, PlanningNames
  <2>2. to \in gates'[state.current_slice_id]
    BY <1>5, <1>7, <2>1, ConstantsAssumption
  <2>3. StagesBefore[to] \subseteq gates[state.current_slice_id]
    BY <1>1, <1>2 DEF IInv, CurrentPassedItsStages, StagesBefore, SliceStages,
                      PlanningNames
  <2> QED
    BY <1>7, <2>1, <2>2, <2>3
<1> QED
  BY <1>6, <1>8, <1>9, <1>11, <1>12, <1>13, <1>14 DEF IInv, StateIsValid

(* The other shapes follow the table from an active state to an active state,
   with what the slice lists become on the way. *)
MovesOn ==
  /\ ~IsBlocked(state.name) /\ ~IsBlocked(state'.name)
  /\ state'.name \in AllowedActiveTransitions[state.name]
  /\ state'.completed_slice_ids =
       IF state'.name = "SLICE_DONE"
       THEN Append(state.completed_slice_ids, state.current_slice_id)
       ELSE state.completed_slice_ids
  /\ state'.current_slice_id =
       IF state'.name = "SLICE_SELECT" THEN Head(state.pending_slice_ids)
       ELSE IF state'.name = "SLICE_DONE" THEN NoSlice
       ELSE state.current_slice_id
  /\ state'.name = "SLICE_SELECT" => /\ state.pending_slice_ids # <<>>
                                     /\ state'.pending_slice_ids
                                          = Tail(state.pending_slice_ids)
  /\ state'.name \notin {"PLAN_APPROVED", "SLICE_SELECT"}
       => state'.pending_slice_ids = state.pending_slice_ids
  /\ state'.name = "FINAL_REPORT" => state.pending_slice_ids = <<>>
  /\ state'.name = "PLAN_APPROVED" => state'.pending_slice_ids # <<>>
  /\ state'.name # "PLAN_APPROVED" => approved' = approved

(* A transition to an active state has one of the shapes. *)
LEMMA AdvanceStep ==
  ASSUME IInv, NEW to \in ActiveStateNames, NEW ids \in Seq(SliceIds), Advance(to, ids)
  PROVE  IInv' /\ (KeepsSlices \/ MovesOn)
<1> DEFINE t == [to |-> to, slice_ids |-> ids, reason |-> NoReason]
<1>1. TransitionOk(state, t) /\ WriteState(TransitionValue(state, t))
  BY DEF Advance
<1>3. ~IsBlocked(to)
  BY ActiveNotBlocked DEF IsBlocked
<1>4. CASE IsBlocked(state.name)
  <2>1. /\ to = state.blocked_reason.resume_state
        /\ WriteState(ResumeValue(state, to))
    BY <1>1, <1>4 DEF TransitionOk, ResumeOk, TransitionValue
  <2> QED
    BY <1>4, <2>1, ResumeStep
<1>5. CASE ~IsBlocked(state.name)
  <2>1. /\ to \in AllowedActiveTransitions[state.name]
        /\ ActiveTransitionGuard(state, t)
        /\ WriteState(ApplyActiveTransition(state, t))
    BY <1>1, <1>3, <1>5 DEF TransitionOk, TransitionValue, ActiveOk
  <2>2. state.name \in ActiveStateNames
    BY <1>5, ActiveFacts
  <2>3. ASSUME to = "PLAN_APPROVED"
        PROVE  IInv'
    <3>1. state.name = "PLAN_DRAFTED"
      BY <2>1, <2>2, <2>3 DEF AllowedActiveTransitions, ActiveStateNames
    <3>2. WriteState([state EXCEPT !.name = "PLAN_APPROVED",
                                   !.pending_slice_ids = ids])
      BY <2>1, <2>3 DEF ApplyActiveTransition
    <3> QED
      BY <3>1, <3>2, PlanStep
  <2>4. ASSUME to = "SLICE_SELECT"
        PROVE  IInv'
    <3>1. state.name \in {"PLAN_APPROVED", "SLICE_DONE"}
      BY <2>1, <2>2, <2>4 DEF AllowedActiveTransitions, ActiveStateNames
    <3>2. state.pending_slice_ids # <<>>
      BY <2>1, <2>4 DEF ActiveTransitionGuard
    <3>3. WriteState([state EXCEPT !.name = "SLICE_SELECT",
                        !.current_slice_id = Head(state.pending_slice_ids),
                        !.pending_slice_ids = Tail(state.pending_slice_ids)])
      BY <2>1, <2>4 DEF ApplyActiveTransition
    <3> QED
      BY <3>1, <3>2, <3>3, SelectShape
  <2>5. ASSUME to = "SLICE_DONE"
        PROVE  IInv'
    <3>1. state.name = "VERIFYING"
      BY <2>1, <2>2, <2>5 DEF AllowedActiveTransitions, ActiveStateNames
    <3>2. WriteState([state EXCEPT !.name = "SLICE_DONE",
                        !.current_slice_id = NoSlice,
                        !.completed_slice_ids =
                          IF state.current_slice_id \in Range(@) THEN @
                          ELSE Append(@, state.current_slice_id)])
      BY <2>1, <2>5 DEF ApplyActiveTransition
    <3> QED
      BY <3>1, <3>2, DoneStep
  <2>6. ASSUME to \notin {"PLAN_APPROVED", "SLICE_SELECT", "SLICE_DONE"}
        PROVE  IInv'
    <3>1. Renaming(state.name, to)
      BY <2>1, <2>6 DEF Renaming
    <3>2. to = "FINAL_REPORT" => state.pending_slice_ids = <<>>
      BY <2>1, <2>2 DEF ActiveTransitionGuard, AllowedActiveTransitions, ActiveStateNames
    <3>3. WriteState(ResumeValue(state, to))
      BY <2>1, <2>6 DEF ApplyActiveTransition, ResumeValue
    <3> QED
      BY <1>5, <3>1, <3>2, <3>3, RenameStep
  <2>7. MovesOn
    <3>1. state' = ApplyActiveTransition(state, t)
      BY <2>1 DEF WriteState
    <3>2. /\ state'.name = to
          /\ approved' = ApprovedAfter(state, state', approved)
      BY <2>1, <3>1 DEF ApplyActiveTransition, IInv, TypeOK, SessionStates, WriteState
    <3>3. state.current_slice_id \notin Range(state.completed_slice_ids)
      BY DEF IInv, StateIsValid, ValidSessionState
    <3>4. /\ state'.completed_slice_ids =
               IF to = "SLICE_DONE"
               THEN Append(state.completed_slice_ids, state.current_slice_id)
               ELSE state.completed_slice_ids
          /\ state'.current_slice_id =
               IF to = "SLICE_SELECT" THEN Head(state.pending_slice_ids)
               ELSE IF to = "SLICE_DONE" THEN NoSlice
               ELSE state.current_slice_id
          /\ to = "SLICE_SELECT" => state'.pending_slice_ids = Tail(state.pending_slice_ids)
          /\ to \notin {"PLAN_APPROVED", "SLICE_SELECT"}
               => state'.pending_slice_ids = state.pending_slice_ids
          /\ to = "PLAN_APPROVED" => state'.pending_slice_ids = ids
      BY <3>1, <3>3 DEF ApplyActiveTransition, IInv, TypeOK, SessionStates
    <3>5. /\ to = "SLICE_SELECT" => state.pending_slice_ids # <<>>
          /\ to = "FINAL_REPORT" => state.pending_slice_ids = <<>>
          /\ to = "PLAN_APPROVED" => ids # <<>>
      BY <2>1, <2>2 DEF ActiveTransitionGuard, AllowedActiveTransitions, ActiveStateNames
    <3> QED
      BY <1>3, <1>5, <2>1, <3>2, <3>4, <3>5 DEF MovesOn, ApprovedAfter
  <2> QED
    BY <2>3, <2>4, <2>5, <2>6, <2>7
<1> QED
  BY <1>4, <1>5

(* The state an accepted transition leads to is the one it asks for. *)
LEMMA AdvanceLands ==
  ASSUME IInv, NEW to \in ActiveStateNames, NEW ids, Advance(to, ids)
  PROVE  state'.name = to
<1> DEFINE t == [to |-> to, slice_ids |-> ids, reason |-> NoReason]
<1>1. state' = TransitionValue(state, t) /\ ~IsBlocked(t.to)
  BY ActiveNotBlocked DEF Advance, WriteState, IsBlocked
<1>2. state' = ResumeValue(state, t.to) \/ state' = ApplyActiveTransition(state, t)
  BY <1>1 DEF TransitionValue
<1>3. state \in SessionStates
  BY DEF IInv, TypeOK
<1>4. ResumeValue(state, t.to).name = to
  BY <1>3 DEF ResumeValue, SessionStates
<1>5. ApplyActiveTransition(state, t).name = to
  BY <1>3 DEF ApplyActiveTransition, SessionStates
<1> QED
  BY <1>2, <1>4, <1>5

(* Only the approval of a plan depends on the slice ids passed. *)
LEMMA IdsOnlyForPlans ==
  ASSUME Plans # {}, NEW to \in ActiveStateNames \ {"PLAN_APPROVED"}, Advance(to, <<>>)
  PROVE  Next
<1>1. PICK ids \in Plans : TRUE
  OBVIOUS
<1> DEFINE t == [to |-> to, slice_ids |-> <<>>, reason |-> NoReason]
           u == [to |-> to, slice_ids |-> ids, reason |-> NoReason]
<1>2. t.to = to /\ u.to = to /\ to # "PLAN_APPROVED" /\ ~IsBlocked(to)
  BY ActiveNotBlocked DEF IsBlocked
<1>3. TransitionOk(state, t) /\ WriteState(TransitionValue(state, t))
  BY DEF Advance
<1> HIDE DEF t, u
<1>4. ApplyActiveTransition(state, t) = ApplyActiveTransition(state, u)
  BY <1>2 DEF ApplyActiveTransition
<1>5. ActiveOk(state, t) => ActiveOk(state, u)
  BY <1>2, <1>4 DEF ActiveOk, ActiveTransitionGuard
<1>6. TransitionOk(state, u)
  BY <1>2, <1>3, <1>5 DEF TransitionOk, ResumeOk
<1>7. TransitionValue(state, u) = TransitionValue(state, t)
  BY <1>2, <1>4 DEF TransitionValue
<1>8. Advance(to, ids)
  BY <1>3, <1>6, <1>7 DEF Advance, u
<1> QED
  BY <1>8 DEF Next

(* A transition to another state from one that is not blocked follows the table. *)
LEMMA AdvanceMovesOn ==
  ASSUME IInv, NEW to \in ActiveStateNames, state.name \in ActiveStateNames,
         to # state.name, Advance(to, <<>>)
  PROVE  MovesOn /\ state'.name = to /\ IInv'
<1>1. <<>> \in Seq(SliceIds)
  OBVIOUS
<1>2. IInv' /\ (KeepsSlices \/ MovesOn) /\ state'.name = to
  BY <1>1, AdvanceStep, AdvanceLands
<1>3. ~IsBlocked(state.name) /\ ~IsBlocked(to)
  BY ActiveNotBlocked DEF IsBlocked
<1> QED
  BY <1>2, <1>3 DEF KeepsSlices, ActiveName

(* The record approve writes: a resume, or one of two renamings; its
   PLAN_DRAFTED branch cannot apply. *)
LEMMA ApproveStep ==
  ASSUME IInv, Approve
  PROVE  IInv' /\ (KeepsSlices \/ MovesOn)
<1>1. /\ ApproveTarget(state) # state.name
      /\ WriteState(ResumeValue(state, ApproveTarget(state)))
  BY DEF Approve
<1>2. CASE IsBlocked(state.name)
  <2>1. state.name \notin ActiveStateNames
    BY <1>2, BlockedHasReason DEF IInv, TypeOK, StateIsValid
  <2>2. ApproveTarget(state) = state.blocked_reason.resume_state
    BY <1>1, <1>2, <2>1 DEF ApproveTarget, ActiveStateNames
  <2> QED
    BY <1>1, <1>2, <2>2, ResumeStep
<1>3. CASE ~IsBlocked(state.name)
  <2>1. state.name = "PLAN_DRAFTED" => state.pending_slice_ids = <<>>
    BY <1>3 DEF IInv, PlanningKeepsQueueEmpty, ActiveName, PlanningNames
  <2>2. \/ state.name = "SPEC_DRAFTED" /\ ApproveTarget(state) = "SPEC_APPROVED"
        \/ /\ state.name = "SLICE_DONE" /\ ApproveTarget(state) = "FINAL_REPORT"
           /\ state.pending_slice_ids = <<>>
    BY <1>1, <1>3, <2>1 DEF ApproveTarget
  <2>3. Renaming(state.name, ApproveTarget(state))
    BY <2>2 DEF Renaming, AllowedActiveTransitions
  <2>4. MovesOn
    <3>1. /\ state'.name = ApproveTarget(state)
          /\ state'.completed_slice_ids = state.completed_slice_ids
          /\ state'.current_slice_id = state.current_slice_id
          /\ state'.pending_slice_ids = state.pending_slice_ids
      BY <1>1 DEF WriteState, ResumeValue, IInv, TypeOK, SessionStates
    <3>2. approved' = approved /\ ~IsBlocked(state'.name)
      BY <1>1, <2>2, <3>1, ActiveNotBlocked
         DEF WriteState, ApprovedAfter, IsBlocked, ActiveStateNames
    <3> QED
      BY <1>3, <2>2, <2>3, <3>1, <3>2 DEF MovesOn, Renaming
  <2> QED
    BY <1>1, <1>3, <2>2, <2>3, <2>4, RenameStep
<1> QED
  BY <1>2, <1>3

(* IInv is inductive, and every step keeps the slices or moves on. *)
LEMMA NextPreservesIInv ==
  ASSUME IInv, [Next]_vars
  PROVE  IInv' /\ (KeepsSlices \/ MovesOn)
<1>1. CASE \E to \in ActiveStateNames, ids \in Plans : Advance(to, ids)
  BY <1>1, AdvanceStep, ConstantsAssumption
<1>2. ASSUME NEW code \in BlockedCodes, NEW i \in SliceIds \cup {NoSlice},
             Block(code, i)
      PROVE  IInv' /\ KeepsSlices
  <2> DEFINE t == [to |-> BlockedStateOf[code], slice_ids |-> <<>>,
                   reason |-> [code |-> code, filled |-> TRUE, slice_id |-> i]]
  <2>1. TransitionOk(state, t) /\ WriteState(TransitionValue(state, t))
    BY <1>2 DEF Block
  <2>2. code \in BlockedReasonCodes /\ IsBlocked(t.to)
    BY ConstantsAssumption, BlockedNames DEF IsBlocked
  <2>3. ~IsBlocked(state.name)
    BY <2>1, <2>2 DEF TransitionOk
  <2>4. WriteState(EnterBlockedValue(state, t))
    BY <2>1, <2>2, <2>3 DEF TransitionValue
  <2> QED
    BY <2>2, <2>3, <2>4, BlockStep
<1>3. CASE Approve
  BY <1>3, ApproveStep
<1>4. CASE Reject
  <2>1. PICK filled \in BOOLEAN :
             WriteState(TransitionValue(state, RejectTransition(state, filled)))
    BY <1>4 DEF Reject
  <2> DEFINE t == RejectTransition(state, filled)
  <2>2. ~IsBlocked(state.name)
    BY <1>4 DEF Reject
  <2>3. t = [to |-> BlockedStateOf["NEEDS_USER_DECISION"], slice_ids |-> <<>>,
             reason |-> [code |-> "NEEDS_USER_DECISION", filled |-> filled,
                         slice_id |-> state.current_slice_id]]
    BY BlockedNames DEF RejectTransition
  <2>4. /\ state.current_slice_id \in SliceIds \cup {NoSlice}
        /\ "NEEDS_USER_DECISION" \in BlockedReasonCodes
        /\ IsBlocked(t.to)
    BY BlockedNames DEF RejectTransition, IsBlocked, IInv, TypeOK, SessionStates
  <2>5. WriteState(EnterBlockedValue(state, t))
    BY <2>1, <2>2, <2>4 DEF TransitionValue
  <2> HIDE DEF t
  <2> QED
    BY <2>2, <2>3, <2>4, <2>5, BlockStep
<1>5. CASE Retry
  BY <1>5, ResumeStep DEF Retry
<1>6. CASE UNCHANGED vars
  <2>1. /\ state' = state
        /\ approved' = approved
        /\ gates' = gates
    BY <1>6 DEF vars
  <2> QED
    BY <2>1 DEF IInv, TypeOK, StateIsValid, SliceOrderConserved, CurrentIffInSlice,
         PlanningKeepsQueueEmpty, CompletedPassedEveryStage, CurrentPassedItsStages,
         KeepsSlices
<1> QED
  BY <1>1, <1>2, <1>3, <1>4, <1>5, <1>6 DEF Next

(* createInitialPawSessionState satisfies the invariant. *)
LEMMA InitIInv ==
  ASSUME Init
  PROVE  IInv
<1>1. /\ InitialSessionState \in SessionStates
      /\ approved \in Seq(SliceIds)
      /\ gates \in [SliceIds -> SUBSET SliceStages]
  BY DEF Init, InitialSessionState, SessionStates, StateNames, ActiveStateNames
<1>2. ~IsBlocked("IDLE")
  BY ActiveNotBlocked DEF IsBlocked, ActiveStateNames
<1>3. Range(<<>>) = {} /\ IsInjective(<<>>)
  BY DEF Range, IsInjective
<1>4. StateIsValid
  BY <1>2, <1>3 DEF Init, InitialSessionState, StateIsValid, ValidSessionState,
       ValidBlockedReason, NoDuplicates
<1>5. SliceOrderConserved
  BY DEF Init, InitialSessionState, SliceOrderConserved, CurrentSeq
<1>6. /\ CurrentIffInSlice
      /\ PlanningKeepsQueueEmpty
      /\ CurrentPassedItsStages
  BY <1>2 DEF Init, InitialSessionState, CurrentIffInSlice, PlanningKeepsQueueEmpty,
       CurrentPassedItsStages, ActiveName, SliceNames, SliceStages
<1>7. CompletedPassedEveryStage
  BY <1>3 DEF Init, InitialSessionState, CompletedPassedEveryStage
<1> QED
  BY <1>1, <1>4, <1>5, <1>6, <1>7 DEF IInv, Init, TypeOK

(* With no slice current or queued, what was approved is completed. *)
LEMMA NothingLeft ==
  ASSUME IInv, state.current_slice_id = NoSlice, state.pending_slice_ids = <<>>
  PROVE  state.completed_slice_ids = approved
<1>1. state.completed_slice_ids \in Seq(SliceIds)
  BY DEF IInv, TypeOK, SessionStates
<1> QED
  BY <1>1, ConcatEmptySeq DEF IInv, SliceOrderConserved, CurrentSeq

(* Every behaviour of the session state machine satisfies IInv. *)
THEOREM Inductive == Spec => []IInv
<1>1. Init => IInv
  BY InitIInv
<1>2. IInv /\ [Next]_vars => IInv'
  BY NextPreservesIInv
<1> QED
  BY <1>1, <1>2, PTL DEF Spec

(* The state record and the histories always have their types. *)
THEOREM TypeCorrect == Spec => []TypeOK
<1>1. IInv => TypeOK
  BY DEF IInv
<1> QED
  BY <1>1, Inductive, PTL

(* Slices are worked on in plan order; none is lost, repeated or reordered by
   any sequence of transitions, blocks, resumes, approvals and rejections. *)
THEOREM SlicesConserved == Spec => []SliceOrderConserved
<1>1. IInv => SliceOrderConserved
  BY DEF IInv
<1> QED
  BY <1>1, Inductive, PTL

(* No slice is completed without having been implemented, reviewed and
   verified. *)
THEOREM StagesNotSkipped == Spec => []CompletedPassedEveryStage
<1>1. IInv => CompletedPassedEveryStage
  BY DEF IInv
<1> QED
  BY <1>1, Inductive, PTL

(* FINAL_REPORT means that every slice ever approved is completed. *)
THEOREM FinalReportComplete == Spec => []FinalReportMeansAllDone
<1>1. IInv => FinalReportMeansAllDone
  <2> SUFFICES ASSUME IInv, state.name = "FINAL_REPORT"
               PROVE  state.completed_slice_ids = approved
    BY DEF FinalReportMeansAllDone
  <2>1. ~IsBlocked("FINAL_REPORT")
    BY ActiveNotBlocked DEF IsBlocked, ActiveStateNames
  <2>2. /\ state.current_slice_id = NoSlice
        /\ state.pending_slice_ids = <<>>
    BY <2>1 DEF IInv, CurrentIffInSlice, PlanningKeepsQueueEmpty, ActiveName,
                SliceNames, SliceStages
  <2> QED
    BY <2>2, NothingLeft
<1> QED
  BY <1>1, Inductive, PTL

(* The records that resume, approve and retry write without a transition
   check are always accepted by writePawSessionState. *)
THEOREM HandBuiltValid == Spec => []HandBuiltRecordsAreValid
<1>1. IInv => HandBuiltRecordsAreValid
  <2> SUFFICES ASSUME IInv PROVE HandBuiltRecordsAreValid
    OBVIOUS
  <2>1. ASSUME NEW to, to \in ActiveStateNames
        PROVE  ValidSessionState(ResumeValue(state, to))
    <3>1. ~IsBlocked(to)
      BY <2>1, ActiveNotBlocked DEF IsBlocked
    <3> DEFINE n == ResumeValue(state, to)
    <3>2. /\ n.name = to
          /\ n.blocked_reason = NoReason
          /\ n.current_slice_id = state.current_slice_id
          /\ n.pending_slice_ids = state.pending_slice_ids
          /\ n.completed_slice_ids = state.completed_slice_ids
      BY DEF IInv, TypeOK, SessionStates, ResumeValue
    <3> HIDE DEF n
    <3> QED
      BY <3>1, <3>2 DEF IInv, StateIsValid, ValidSessionState, ValidBlockedReason, n
  <2>2. IsBlocked(state.name) => state.blocked_reason.resume_state \in ActiveStateNames
    BY BlockedHasReason DEF IInv, TypeOK, StateIsValid
  <2>3. ApproveTarget(state) # state.name => ApproveTarget(state) \in ActiveStateNames
    BY <2>2 DEF ApproveTarget, ActiveStateNames
  <2> QED
    BY <2>1, <2>2, <2>3 DEF HandBuiltRecordsAreValid
<1> QED
  BY <1>1, Inductive, PTL

(* A slice is current exactly while the session works on one, also through
   blocks: no command, approve and retry included, leaves a slice behind or
   works on none. *)
THEOREM CurrentMatchesStage == Spec => []CurrentIffInSlice
<1>1. IInv => CurrentIffInSlice
  BY DEF IInv
<1> QED
  BY <1>1, Inductive, PTL

(* Slices are queued only between the approval of a plan and its end, so that
   approve never takes its PLAN_DRAFTED branch and no approval of a plan drops a
   queue. *)
THEOREM PlanningQueueEmpty == Spec => []PlanningKeepsQueueEmpty
<1>1. IInv => PlanningKeepsQueueEmpty
  BY DEF IInv
<1> QED
  BY <1>1, Inductive, PTL

(* No transition, approval, block or resume takes a slice out of the completed
   ones or makes one of them current again. *)
THEOREM NeverRedone == Spec => CompletedNeverRedone
<1> DEFINE Kept == /\ Range(state.completed_slice_ids)
                        \subseteq Range(state'.completed_slice_ids)
                   /\ state'.current_slice_id \notin Range(state.completed_slice_ids)
<1>1. ASSUME IInv, [Next]_vars
      PROVE  Kept
  <2>1. IInv' /\ (KeepsSlices \/ MovesOn)
    BY <1>1, NextPreservesIInv
  <2>2. /\ state.completed_slice_ids \in Seq(SliceIds)
        /\ state.current_slice_id \in SliceIds \cup {NoSlice}
    BY <1>1 DEF IInv, TypeOK, SessionStates
  <2>3. Range(state.completed_slice_ids) \subseteq Range(state'.completed_slice_ids)
    <3> DEFINE c == state.completed_slice_ids
               d == state'.completed_slice_ids
    <3>1. c \in Seq(SliceIds \cup {NoSlice})
      BY <2>2
    <3>2. \/ d = c
          \/ d = Append(c, state.current_slice_id)
      BY <2>1 DEF KeepsSlices, MovesOn
    <3>3. \A k \in DOMAIN c : k \in DOMAIN d /\ d[k] = c[k]
      BY <2>2, <3>1, <3>2, AppendProperties, LenProperties
    <3> QED
      BY <3>3 DEF Range
  <2>4. state'.current_slice_id \notin Range(state'.completed_slice_ids)
    BY <2>1 DEF IInv, StateIsValid, ValidSessionState
  <2> QED
    BY <2>3, <2>4
<1>2. ASSUME IInv, [Next]_vars
      PROVE  [Kept]_vars
  BY <1>1, <1>2
<1> HIDE DEF Kept
<1>3. Spec => [][Kept]_vars
  BY <1>2, Inductive, PTL DEF Spec
<1> QED
  BY <1>3 DEF CompletedNeverRedone, Kept

(* Blocking and resuming, by whatever command, move no slice, and a session
   comes back to the state it was blocked in. *)
THEOREM BlockingIsHarmless == Spec => BlockingLosesNothing
<1> DEFINE Harmless ==
      IsBlocked(state.name) \/ IsBlocked(state'.name)
        => /\ ActiveName(state') = ActiveName(state)
           /\ state'.current_slice_id = state.current_slice_id
           /\ state'.pending_slice_ids = state.pending_slice_ids
           /\ state'.completed_slice_ids = state.completed_slice_ids
<1>1. ASSUME IInv, [Next]_vars
      PROVE  [Harmless]_vars
  BY <1>1, NextPreservesIInv DEF MovesOn, KeepsSlices
<1> HIDE DEF Harmless
<1>2. Spec => [][Harmless]_vars
  BY <1>1, Inductive, PTL DEF Spec
<1> QED
  BY <1>2 DEF BlockingLosesNothing, Harmless
=============================================================================
