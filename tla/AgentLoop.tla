------------------------------ MODULE AgentLoop ------------------------------
(***************************************************************************)
(* The agent loop: packages/agent/src/agent-loop.ts and the Agent class    *)
(* around it, packages/agent/src/agent.ts.                                 *)
(*                                                                         *)
(* One Agent has a transcript (`messages', what its listeners see and      *)
(* store), at most one active run, and two queues of user messages.  A run *)
(* works on its own copy of the transcript (`context'): it sends it to the *)
(* model, executes the tool calls of the answer one by one or all at once, *)
(* and polls the queues between turns.  Users and extensions queue         *)
(* messages and abort at any moment in between.                            *)
(*                                                                         *)
(* An awaited call is where other code may run, so each action below is    *)
(* the code between two awaits at which something relevant can interfere.  *)
(* A message is abstracted to its role, a user message to its text, an     *)
(* assistant message to the number of its turn, the kind of its stop       *)
(* reason and how many tools it calls.                                     *)
(***************************************************************************)
EXTENDS Naturals, Sequences, SequencesExt

CONSTANTS Texts,         \* what users type; every text is sent once
          SteeringMode,  \* "all" or "one-at-a-time": how a poll drains a queue
          FollowUpMode,
          CallCounts,    \* how many tools an assistant message may call
          MaxTurns       \* bound: later turns only answer with a plain stop

ASSUME ModeAssumption ==
    {SteeringMode, FollowUpMode} \subseteq {"all", "one-at-a-time"}

ASSUME BoundAssumption == CallCounts \subseteq Nat \ {0} /\ MaxTurns \in Nat

VARIABLES
    messages,     \* Agent.state.messages
    context,      \* the copy of the transcript the active run works on
    steering,     \* Agent.steeringQueue
    followUp,     \* Agent.followUpQueue
    pc,           \* where the active run is; "idle" when there is none
    pending,      \* messages the run has drained and not yet delivered
    skipPoll,     \* skipInitialSteeringPoll of the run's configuration
    aborted,      \* the run's abort signal
    sentAborted,  \* the request in flight was sent with an aborted signal
    batch,        \* the tool calls of the current turn
    turns         \* model answers so far; numbers assistant messages

loopVars == <<messages, context, steering, followUp, pc, pending, skipPoll,
              aborted, sentAborted, batch, turns>>

-----------------------------------------------------------------------------
(* Messages *)

Errors    == {"retryable", "overflow", "fatal"}   \* stopReason "error"
Failed    == Errors \cup {"aborted"}
\* "silent": a normal stop whose reported input exceeds the context window.
Successes == {"stop", "silent", "toolUse"}

User(t)          == [role |-> "user", text |-> t]
Bash             == [role |-> "bash"]
Summary          == [role |-> "summary"]
Assistant(n, s, c) == [role |-> "assistant", turn |-> n, stop |-> s, calls |-> c]
ToolResult(n, k) == [role |-> "toolResult", turn |-> n, call |-> k]

IsAssistant(m) == m.role = "assistant"

\* agent.ts hasQueuedMessages
hasQueuedMessages == steering # <<>> \/ followUp # <<>>

\* PendingMessageQueue.drain: what a poll takes and what it leaves.
Drained(queue, mode) ==
    IF mode = "all" THEN queue ELSE SubSeq(queue, 1, IF queue = <<>> THEN 0 ELSE 1)

Left(queue, mode) ==
    SubSeq(queue, Len(Drained(queue, mode)) + 1, Len(queue))

AsUsers(texts) == [i \in DOMAIN texts |-> User(texts[i])]

-----------------------------------------------------------------------------
(* What the provider is sent: transformMessages replaces nothing the       *)
(* properties tell apart except that failed answers are skipped and a tool *)
(* call without a result gets a made-up one before the next message that   *)
(* is not a tool result.  Results made up there carry turn and call alike. *)

\* The elements of q that are not in S, in their order.
Without(q, S) ==
    LET w[i \in 0..Len(q)] == IF i = 0 THEN <<>>
                              ELSE IF q[i] \in S THEN w[i - 1]
                              ELSE Append(w[i - 1], q[i])
    IN  w[Len(q)]

\* Every call of the last answer that no result was seen for gets one.
insertSyntheticToolResults(acc) ==
    LET missing == Without(acc.calls, acc.seen)
    IN  [out   |-> acc.out \o [i \in DOMAIN missing |->
                                 ToolResult(missing[i][1], missing[i][2])],
         calls |-> <<>>,
         seen  |-> {}]

TransformStep(acc, m) ==
    CASE m.role = "toolResult" ->
           [acc EXCEPT !.out = Append(@, m), !.seen = @ \cup {<<m.turn, m.call>>}]
      [] IsAssistant(m) /\ m.stop \in Failed ->
           insertSyntheticToolResults(acc)
      [] IsAssistant(m) /\ m.stop \notin Failed ->
           [out   |-> Append(insertSyntheticToolResults(acc).out, m),
            calls |-> [k \in 1..m.calls |-> <<m.turn, k>>],
            seen  |-> {}]
      [] OTHER ->
           LET flushed == insertSyntheticToolResults(acc)
           IN  [flushed EXCEPT !.out = Append(@, m)]

transformMessages(ms) ==
    LET acc[i \in 0..Len(ms)] == IF i = 0 THEN [out |-> <<>>, calls |-> <<>>, seen |-> {}]
                                 ELSE TransformStep(acc[i - 1], ms[i])
    IN  insertSyntheticToolResults(acc[Len(ms)]).out

-----------------------------------------------------------------------------
(* Tool batches *)

NoBatch == [mode |-> "parallel", calls |-> 0, started |-> 0, status |-> <<>>]

Running(k)  == batch.status[k] = "running"
Finished(k) == batch.status[k] \in {"more", "terminate"}

\* A batch ends the turn's run of tools only if every call that was started
\* asked for it (shouldTerminateToolBatch); a turn without calls asks for no more.
HasMoreToolCalls ==
    /\ batch.calls > 0
    /\ \E k \in 1..batch.started : batch.status[k] # "terminate"

Results(from, to) == [i \in 1..(to - from + 1) |-> ToolResult(turns, from + i - 1)]

\* An aborted signal stops a batch before its next call.
MoreCalls(started) == ~aborted /\ started < batch.calls

\* tool_execution_start and prepareToolCall.  An unknown tool, bad arguments, a
\* hook that blocks and an aborted signal give an error result at once;
\* otherwise the call is left to run.
prepareToolCall ==
    /\ pc = "preflight"
    /\ batch.started < batch.calls
    /\ \E outcome \in {"more"} \cup (IF aborted THEN {} ELSE {"running"}) :
         batch' = [batch EXCEPT !.started = @ + 1,
                                !.status[batch.started + 1] = outcome]
    /\ pc' = IF batch.mode = "parallel" /\ MoreCalls(batch.started + 1)
             THEN "preflight" ELSE "execute"
    /\ UNCHANGED <<messages, context, steering, followUp, pending, skipPoll,
                   aborted, sentAborted, turns>>

\* executePreparedToolCall and finalizeExecutedToolCall: parallel calls finish
\* in any order.
finalizeExecutedToolCall ==
    /\ pc = "execute"
    /\ \E k \in 1..batch.started, outcome \in {"more", "terminate"} :
         Running(k) /\ batch' = [batch EXCEPT !.status[k] = outcome]
    /\ UNCHANGED <<messages, context, steering, followUp, pc, pending, skipPoll,
                   aborted, sentAborted, turns>>

\* executeToolCallsSequential: the result of a call is emitted before the next
\* call starts.
emitSequentialResult ==
    /\ pc = "execute" /\ batch.mode = "sequential"
    /\ Finished(batch.started)
    /\ messages' = messages \o Results(batch.started, batch.started)
    /\ pc' = IF MoreCalls(batch.started) THEN "preflight" ELSE "results"
    /\ UNCHANGED <<context, steering, followUp, pending, skipPoll, aborted,
                   sentAborted, batch, turns>>

\* Mutant: the results of all calls are awaited, also of those an aborted
\* batch never started.
MutAwaitAll ==
    /\ pc = "execute" /\ batch.mode = "parallel"
    /\ \A k \in 1..batch.calls : Finished(k)
    /\ messages' = messages \o Results(1, batch.started)
    /\ pc' = "results"
    /\ UNCHANGED <<context, steering, followUp, pending, skipPoll, aborted,
                   sentAborted, batch, turns>>

\* executeToolCallsParallel: all results in source order once all are in.
emitParallelResults ==
    /\ pc = "execute" /\ batch.mode = "parallel"
    /\ \A k \in 1..batch.started : Finished(k)
    /\ messages' = messages \o Results(1, batch.started)
    /\ pc' = "results"
    /\ UNCHANGED <<context, steering, followUp, pending, skipPoll, aborted,
                   sentAborted, batch, turns>>

\* processToolCallsAndResults: the batch's results join the run's context.
processToolCallsAndResults ==
    /\ pc = "results"
    /\ context' = context \o Results(1, batch.started)
    /\ pc' = "turnEnd"
    /\ UNCHANGED <<messages, steering, followUp, pending, skipPoll, aborted,
                   sentAborted, batch, turns>>

-----------------------------------------------------------------------------
(* The Agent class *)

Idle == pc = "idle"
isStreaming == ~Idle

LoopInit ==
    /\ messages = <<>> /\ context = <<>>
    /\ steering = <<>> /\ followUp = <<>>
    /\ pc = "idle"
    /\ pending = <<>>
    /\ skipPoll = FALSE
    /\ aborted = FALSE /\ sentAborted = FALSE
    /\ batch = NoBatch
    /\ turns = 0

\* runWithLifecycle and the head of runAgentLoop: agent_start, turn_start and
\* the prompts, on a fresh copy of the transcript.  skip is
\* skipInitialSteeringPoll.
runAgentLoop(prompts, skip) ==
    /\ Idle
    /\ messages' = messages \o prompts
    /\ context' = messages \o prompts
    /\ pc' = "poll"
    /\ skipPoll' = skip
    /\ aborted' = FALSE
    /\ UNCHANGED <<pending, sentAborted, batch, turns>>

\* Agent.prompt: refused while a run is active.
prompt(ms) ==
    /\ runAgentLoop(ms, FALSE)
    /\ UNCHANGED <<steering, followUp>>

\* Agent.continue, when it does not throw.  From an assistant message it needs
\* a queued message, and takes it as the prompt of a new run.
LastIsAssistant == messages # <<>> /\ IsAssistant(Last(messages))

continueRefused ==
    \/ isStreaming
    \/ messages = <<>>
    \/ LastIsAssistant /\ ~hasQueuedMessages

continue ==
    /\ ~continueRefused
    /\ \/ /\ ~LastIsAssistant
          /\ runAgentLoop(<<>>, FALSE)
          /\ UNCHANGED <<steering, followUp>>
       \/ /\ LastIsAssistant /\ steering # <<>>
          /\ runAgentLoop(AsUsers(Drained(steering, SteeringMode)), TRUE)
          /\ steering' = Left(steering, SteeringMode)
          /\ UNCHANGED followUp
       \/ /\ LastIsAssistant /\ steering = <<>>
          /\ runAgentLoop(AsUsers(Drained(followUp, FollowUpMode)), FALSE)
          /\ followUp' = Left(followUp, FollowUpMode)
          /\ UNCHANGED steering

steer(t) == steering' = Append(steering, t) /\ UNCHANGED followUp

queueFollowUp(t) == followUp' = Append(followUp, t) /\ UNCHANGED steering

clearAllQueues == steering' = <<>> /\ followUp' = <<>>

\* Agent.abort: only the signal of an active run is set.
abort ==
    /\ isStreaming
    /\ aborted' = TRUE

\* finishRun, after the listeners of the run's last event have settled.
finishRun ==
    /\ pc = "finish"
    /\ pc' = "idle"
    /\ context' = <<>>
    /\ batch' = NoBatch
    /\ sentAborted' = FALSE
    /\ UNCHANGED <<messages, steering, followUp, pending, skipPoll, aborted,
                   turns>>

-----------------------------------------------------------------------------
(* One turn *)

\* createRunLoopState: the first poll of the steering queue.
createRunLoopState ==
    /\ pc = "poll"
    /\ pc' = "turn"
    /\ pending' = IF skipPoll THEN <<>> ELSE Drained(steering, SteeringMode)
    /\ steering' = IF skipPoll THEN steering ELSE Left(steering, SteeringMode)
    /\ skipPoll' = FALSE
    /\ UNCHANGED <<messages, context, followUp, aborted, sentAborted, batch,
                   turns>>

\* The head of runOneTurn: the drained messages are delivered, then the
\* context is sent to the model.
startTurn ==
    /\ pc = "turn"
    /\ pc' = "request"
    /\ messages' = messages \o AsUsers(pending)
    /\ context' = context \o AsUsers(pending)
    /\ pending' = <<>>
    /\ sentAborted' = aborted
    /\ UNCHANGED <<steering, followUp, skipPoll, aborted, batch, turns>>

\* What the model can answer: a request sent with an aborted signal comes back
\* as aborted; one aborted in flight may still complete.
Answers ==
    IF sentAborted THEN {<<"aborted", 0>>}
    ELSE (IF turns < MaxTurns
          THEN ((Successes \ {"toolUse"}) \cup Errors) \X {0}
               \cup {"toolUse"} \X CallCounts
          ELSE {<<"stop", 0>>})
         \cup (IF aborted THEN {<<"aborted", 0>>} ELSE {})

\* streamAssistantResponse and the rest of runOneTurn up to the tools: a failed
\* or aborted answer ends the run with turn_end and agent_end.
streamAssistantResponse ==
    /\ pc = "request"
    /\ \E a \in Answers :
         LET m == Assistant(turns + 1, a[1], a[2]) IN
         /\ messages' = Append(messages, m)
         /\ context' = Append(context, m)
         /\ pc' = CASE a[1] \in Failed -> "finish"
                    [] a[2] > 0 -> "preflight"
                    [] OTHER -> "turnEnd"
         /\ \E mode \in IF a[2] > 0 THEN {"sequential", "parallel"} ELSE {"parallel"} :
              batch' = [mode |-> mode, calls |-> a[2], started |-> 0,
                        status |-> [k \in 1..a[2] |-> "none"]]
    /\ turns' = turns + 1
    /\ UNCHANGED <<steering, followUp, pending, skipPoll, aborted, sentAborted>>

\* A hook of the request or the stream itself throws: handleRunFailure adds a
\* failed answer of its own and emits turn_end and agent_end.
handleRunFailure ==
    /\ pc = "request"
    /\ turns < MaxTurns
    /\ messages' = Append(messages,
                       Assistant(turns + 1, IF aborted THEN "aborted" ELSE "fatal", 0))
    /\ pc' = "finish"
    /\ turns' = turns + 1
    /\ UNCHANGED <<context, steering, followUp, pending, skipPoll, aborted,
                   sentAborted, batch>>

\* The tail of runOneTurn: turn_end, then the steering queue is polled.
endTurn ==
    /\ pc = "turnEnd"
    /\ pending' = Drained(steering, SteeringMode)
    /\ steering' = Left(steering, SteeringMode)
    /\ pc' = IF HasMoreToolCalls \/ steering # <<>> THEN "turn" ELSE "followUps"
    /\ batch' = NoBatch
    /\ UNCHANGED <<messages, context, followUp, skipPoll, aborted, sentAborted,
                   turns>>

\* Mutant: the run ends with the follow-ups it has drained.
MutEndsWithDrained ==
    /\ pc = "followUps"
    /\ pending' = Drained(followUp, FollowUpMode)
    /\ followUp' = Left(followUp, FollowUpMode)
    /\ pc' = "finish"
    /\ UNCHANGED <<messages, context, steering, skipPoll, aborted, sentAborted,
                   batch, turns>>

\* The tail of runLoop's outer loop: with no follow-up the run is over.
pollFollowUps ==
    /\ pc = "followUps"
    /\ pending' = Drained(followUp, FollowUpMode)
    /\ followUp' = Left(followUp, FollowUpMode)
    /\ pc' = IF followUp # <<>> THEN "turn" ELSE "finish"
    /\ UNCHANGED <<messages, context, steering, skipPoll, aborted, sentAborted,
                   batch, turns>>

=============================================================================
