----------------------------- MODULE AgentSession -----------------------------
(***************************************************************************)
(* The session around the agent loop:                                      *)
(* packages/coding-agent/src/core/agent-session.ts with                    *)
(* agent-session-compaction-flow.ts and agent-session-compaction-apply.ts. *)
(*                                                                         *)
(* The session stores every finished message, mirrors the queues as texts  *)
(* for display and for giving them back to the editor, and drives the      *)
(* agent: a call of prompt() starts a run, and when the run is over it     *)
(* retries a failed answer after a delay, compacts the transcript, or      *)
(* continues with what was queued in the meantime.  While it waits for the *)
(* delay or for the summary no run is active, so another call of prompt()  *)
(* starts one: two calls interleave, and each is a driver here.            *)
(***************************************************************************)
EXTENDS AgentLoop

CONSTANTS Drivers,      \* overlapping calls of prompt()
          None,
          MaxRetries,   \* settings.retry.maxRetries
          MaxBash       \* bound: shell commands the user runs

ASSUME RetryAssumption == MaxRetries \in Nat /\ MaxBash \in Nat

\* The assistant's messages.
AnswerMessages ==
    [role : {"assistant"}, turn : Nat, stop : Failed \cup Successes, calls : Nat]

ASSUME NoneAssumption == None \notin Texts \cup Drivers \cup AnswerMessages

VARIABLES
    persisted,      \* the messages of the session file, oldest first
    firstKept,      \* index in persisted where the kept part starts
    compactedAt,    \* turn of the newest answer when the last compaction ran
    compactedLen,   \* Len(persisted) then
    steeringTexts,  \* _steeringMessages, the mirror of the steering queue; a set,
                    \* as no text is sent twice and its order is only shown
    followUpTexts,  \* _followUpMessages
    lastAssistant,  \* _lastAssistantMessage or None
    retryAttempt,   \* _retryAttempt
    sleeper,        \* the driver whose delay _retryAbortController cancels
    overflowTried,  \* _overflowRecoveryAttempted
    pendingBash,    \* number of shell results in _pendingBashMessages
    bashRuns,       \* number of shell commands run so far
    driver,         \* the progress of each call of prompt()
    used,           \* texts sent so far
    cleared,        \* texts given back to the editor by clearQueue
    overlapped      \* history: a prompt began while another call was under way

sessionVars == <<persisted, firstKept, compactedAt, compactedLen, steeringTexts,
                 followUpTexts, lastAssistant, retryAttempt, sleeper,
                 overflowTried, pendingBash, bashRuns, driver, used, cleared, overlapped>>

agentVars == <<loopVars, sessionVars>>

NoDriver == [phase |-> "off", text |-> None, then |-> "end", msg |-> None,
             reason |-> "threshold", len |-> 0]

SessionInit ==
    /\ LoopInit
    /\ persisted = <<>> /\ firstKept = 1
    /\ compactedAt = 0 /\ compactedLen = 0
    /\ steeringTexts = {} /\ followUpTexts = {}
    /\ lastAssistant = None
    /\ retryAttempt = 0 /\ sleeper = None
    /\ overflowTried = FALSE
    /\ pendingBash = 0 /\ bashRuns = 0
    /\ driver = [d \in Drivers |-> NoDriver]
    /\ used = {} /\ cleared = {} /\ overlapped = FALSE

-----------------------------------------------------------------------------
(* The listener of agent events *)

\* The messages a loop step has finished: every loop step only appends.
NewMessages == SubSeq(messages', Len(messages) + 1, Len(messages'))

TextsOf(ms) == {m.text : m \in {x \in Range(ms) : x.role = "user"}}

\* The newest answer among the messages ms, or None.
NewestAnswer(ms) ==
    LET k == SelectLastInSeq(ms, IsAssistant) IN IF k = 0 THEN None ELSE ms[k]

\* Mutant: delivered texts stay in the mirror.
MutStaysMirrored(texts, ms) == texts

\* _handleUserMessageStart: the text leaves the mirror of the steering queue or
\* else of the follow-up queue.
Mirrored(texts, ms) == texts \ TextsOf(ms)

\* Mutant: user messages are stored when they start and when they end.
MutStoredTwice(ms) ==
    /\ persisted' = persisted \o ms \o SelectSeq(ms, LAMBDA m : m.role = "user")
    /\ steeringTexts' = Mirrored(steeringTexts, ms)
    /\ followUpTexts' = Mirrored(followUpTexts, ms)
    /\ UNCHANGED <<lastAssistant, overflowTried, retryAttempt>>

\* _handleAgentEvent for the messages ms: the mirror, the session file, and
\* _trackAssistantMessage.
handleAgentEvent(ms) ==
    LET answer == NewestAnswer(ms)
        fine == answer # None /\ answer.stop \notin Errors
    IN  /\ persisted' = persisted \o ms
        /\ steeringTexts' = Mirrored(steeringTexts, ms)
        /\ followUpTexts' = Mirrored(followUpTexts, ms)
        /\ lastAssistant' = IF answer = None THEN lastAssistant ELSE answer
        /\ overflowTried' = (overflowTried /\ ~fine /\ TextsOf(ms) = {})
        /\ retryAttempt' = IF fine THEN 0 ELSE retryAttempt

-----------------------------------------------------------------------------
(* Shell results and the tail of a prompt *)

BashMessages(n) == [i \in 1..n |-> Bash]

\* recordBashResult: deferred while the agent is streaming.
recordBashResult ==
    /\ bashRuns < MaxBash
    /\ bashRuns' = bashRuns + 1
    /\ \/ /\ isStreaming
          /\ pendingBash' = pendingBash + 1
          /\ UNCHANGED <<messages, persisted>>
       \/ /\ Idle
          /\ messages' = Append(messages, Bash)
          /\ persisted' = Append(persisted, Bash)
          /\ UNCHANGED pendingBash
    /\ UNCHANGED <<context, steering, followUp, pc, pending, skipPoll, aborted,
                   sentAborted, batch, turns, firstKept, compactedAt,
                   compactedLen, steeringTexts, followUpTexts, lastAssistant,
                   retryAttempt, sleeper, overflowTried, driver, used, cleared, overlapped>>

\* Mutant: deferred results are not stored.
MutFlushNotStored ==
    /\ messages' = messages \o BashMessages(pendingBash)
    /\ pendingBash' = 0
    /\ UNCHANGED persisted

\* _flushPendingBashMessages
flushPendingBashMessages ==
    /\ messages' = messages \o BashMessages(pendingBash)
    /\ persisted' = persisted \o BashMessages(pendingBash)
    /\ pendingBash' = 0

\* The transcript without its last message if that is an assistant's
\* (stripLastAssistantFromAgent).
Stripped(ms) ==
    IF ms # <<>> /\ IsAssistant(Last(ms)) THEN Front(ms) ELSE ms

-----------------------------------------------------------------------------
(* Compaction *)

\* _checkCompaction: what the answer m calls for.  Token counts are left out, so
\* the threshold may or may not be reached; after a failed answer it is only
\* estimated from an answer newer than the last compaction.
checkCompaction(m, skipAborted) ==
    LET usable == {a \in Range(messages) : IsAssistant(a) /\ a.stop \notin Failed}
    IN  CASE skipAborted /\ m.stop = "aborted" -> {"none"}
          [] m.turn <= compactedAt -> {"none"}
          [] m.stop \in {"overflow", "silent"} ->
               {IF overflowTried THEN "none" ELSE "overflow"}
          [] m.stop \in Errors /\ ~\E a \in usable : a.turn > compactedAt -> {"none"}
          [] OTHER -> {"none", "threshold"}

\* Mutant: any message may be the first one kept.
MutAnyCutPoint(len) == firstKept..len

\* findValidCutPoints: never at a tool result; nothing that an earlier compaction
\* left out is kept again.
findValidCutPoints(len) ==
    {k \in firstKept..len : persisted[k].role # "toolResult"}

\* buildSessionContext after a compaction: the summary, then what is kept.
RebuiltFrom(k) == <<Summary>> \o SubSeq(persisted, k, Len(persisted))

\* The start of _runAutoCompaction for driver d, _handleCompactionOverflow
\* included: the transcript ms loses its last answer.
StartCompaction(d, d0, reason, ms) ==
    /\ driver' = [driver EXCEPT ![d] =
                     [d0 EXCEPT !.phase = "compact", !.reason = reason,
                                !.len = Len(persisted)]]
    /\ overflowTried' = (overflowTried \/ reason = "overflow")
    /\ messages' = IF reason = "overflow" THEN Stripped(ms) ELSE ms

-----------------------------------------------------------------------------
(* The drivers *)

\* The end of _runAgentPrompt, or of the runs before the prompt in
\* _maybeCompactBeforePrompt: shell results are flushed.
Concluded(d0) ==
    IF d0.then = "submit" THEN [d0 EXCEPT !.phase = "submit"] ELSE NoDriver

\* Mutant: the queues are not looked at after the run.
MutNoContinue(d, d0) ==
    /\ driver' = [driver EXCEPT ![d] = Concluded(d0)]
    /\ flushPendingBashMessages

\* Nothing more to recover from: continue if messages are queued, else end.
ContinueOrEnd(d, d0) ==
    \/ /\ hasQueuedMessages
       /\ driver' = [driver EXCEPT ![d] = [d0 EXCEPT !.phase = "resume"]]
       /\ UNCHANGED <<messages, persisted, pendingBash>>
    \/ /\ ~hasQueuedMessages
       /\ driver' = [driver EXCEPT ![d] = Concluded(d0)]
       /\ flushPendingBashMessages

\* _handlePostAgentRun below the retry: the check for compaction.
AfterRetry(d, d0) ==
    \E decision \in checkCompaction(d0.msg, TRUE) :
       \/ /\ decision = "none"
          /\ ContinueOrEnd(d, d0)
          /\ UNCHANGED overflowTried
       \/ /\ decision # "none"
          /\ StartCompaction(d, d0, decision, messages)
          /\ UNCHANGED <<persisted, pendingBash>>

\* AgentSession.prompt while a run is active: queued, and mirrored as text.
promptWhileStreaming(t) ==
    /\ isStreaming
    /\ t \notin used
    /\ used' = used \cup {t}
    /\ \/ /\ steer(t)
          /\ steeringTexts' = steeringTexts \cup {t}
          /\ UNCHANGED followUpTexts
       \/ /\ queueFollowUp(t)
          /\ followUpTexts' = followUpTexts \cup {t}
          /\ UNCHANGED steeringTexts
    /\ UNCHANGED <<messages, context, pc, pending, skipPoll, aborted, sentAborted,
                   batch, turns, persisted, firstKept, compactedAt,
                   compactedLen, lastAssistant, retryAttempt, sleeper,
                   overflowTried, pendingBash, bashRuns, driver, cleared, overlapped>>

\* AgentSession.prompt while no run is active, up to its first await: deferred
\* shell results are flushed and the last answer is checked for compaction.
promptWhileIdle(d, t) ==
    /\ Idle
    /\ driver[d].phase = "off"
    /\ t \notin used
    /\ used' = used \cup {t}
    /\ overlapped' = (overlapped \/ \E e \in Drivers : driver[e].phase # "off")
    /\ LET answer == NewestAnswer(messages)
           flushed == messages \o BashMessages(pendingBash)
           d0 == [NoDriver EXCEPT !.text = t, !.then = "submit"]
           decisions == IF answer = None THEN {"none"}
                        ELSE checkCompaction(answer, FALSE)
       IN  \E decision \in decisions :
             \/ /\ decision = "none"
                /\ driver' = [driver EXCEPT ![d] = [d0 EXCEPT !.phase = "submit"]]
                /\ messages' = flushed
                /\ UNCHANGED overflowTried
             \/ /\ decision # "none"
                /\ StartCompaction(d, d0, decision, flushed)
    /\ persisted' = persisted \o BashMessages(pendingBash)
    /\ pendingBash' = 0
    /\ UNCHANGED <<context, steering, followUp, pc, pending, skipPoll, aborted,
                   sentAborted, batch, turns, firstKept, compactedAt,
                   compactedLen, steeringTexts, followUpTexts, lastAssistant,
                   retryAttempt, sleeper, bashRuns, cleared>>

\* A call that throws out of the driver: its `finally' flushes shell results,
\* whatever the agent is doing.
Throw(d) ==
    /\ driver' = [driver EXCEPT ![d] = NoDriver]
    /\ flushPendingBashMessages
    /\ UNCHANGED <<context, steering, followUp, pc, pending, skipPoll, aborted,
                   sentAborted, batch, turns, firstKept, compactedAt,
                   compactedLen, steeringTexts, followUpTexts, lastAssistant,
                   retryAttempt, sleeper, overflowTried, bashRuns, used, cleared, overlapped>>

\* _runAgentPrompt: the run starts, or agent.prompt refuses because another
\* driver's run is active by now.
submit(d) ==
    /\ driver[d].phase = "submit"
    /\ \/ /\ prompt(<<User(driver[d].text)>>)
          /\ handleAgentEvent(NewMessages)
          /\ driver' = [driver EXCEPT ![d] = [NoDriver EXCEPT !.phase = "running"]]
          /\ UNCHANGED <<firstKept, compactedAt, compactedLen, sleeper,
                         pendingBash, bashRuns, used, cleared, overlapped>>
       \/ isStreaming /\ Throw(d)

\* agent.continue() of a driver's loop.
resume(d) ==
    /\ driver[d].phase = "resume"
    /\ \/ /\ continue
          /\ handleAgentEvent(NewMessages)
          /\ driver' = [driver EXCEPT ![d].phase = "running"]
          /\ UNCHANGED <<firstKept, compactedAt, compactedLen, sleeper,
                         pendingBash, bashRuns, used, cleared, overlapped>>
       \/ continueRefused /\ Throw(d)

\* _isRetryableError, and the head of _prepareRetry
prepareRetry(m) == m # None /\ m.stop = "retryable" /\ retryAttempt < MaxRetries

\* _handlePostAgentRun: a retryable failure starts the delay of _prepareRetry,
\* anything else is checked for compaction.
handlePostAgentRun(d) ==
    /\ driver[d].phase = "post"
    /\ lastAssistant' = None
    /\ LET d0 == [driver[d] EXCEPT !.msg = lastAssistant]
           retry == prepareRetry(lastAssistant)
       IN  \/ /\ lastAssistant = None
              /\ driver' = [driver EXCEPT ![d] = Concluded(d0)]
              /\ flushPendingBashMessages
              /\ UNCHANGED <<retryAttempt, sleeper, overflowTried>>
           \/ /\ retry
              /\ retryAttempt' = retryAttempt + 1
              /\ messages' = Stripped(messages)
              /\ sleeper' = d
              /\ driver' = [driver EXCEPT ![d] = [d0 EXCEPT !.phase = "sleep"]]
              /\ UNCHANGED <<persisted, pendingBash, overflowTried>>
           \/ /\ lastAssistant # None /\ ~retry
              /\ retryAttempt' = IF lastAssistant.stop \in Errors THEN 0 ELSE retryAttempt
              /\ AfterRetry(d, d0)
              /\ UNCHANGED sleeper
    /\ UNCHANGED <<context, steering, followUp, pc, pending, skipPoll, aborted,
                   sentAborted, batch, turns, firstKept, compactedAt,
                   compactedLen, steeringTexts, followUpTexts, bashRuns, used,
                   cleared, overlapped>>

\* The delay of _prepareRetry is over.
retryDelayEnds(d) ==
    /\ driver[d].phase = "sleep"
    /\ driver' = [driver EXCEPT ![d].phase = "resume"]
    /\ sleeper' = None
    /\ UNCHANGED <<loopVars, persisted, firstKept, compactedAt, compactedLen,
                   steeringTexts, followUpTexts, lastAssistant, retryAttempt,
                   overflowTried, pendingBash, bashRuns, used, cleared, overlapped>>

\* Mutant: an aborted retry still counts.
MutAbortedRetryCounts ==
    /\ sleeper # None
    /\ sleeper' = None
    /\ AfterRetry(sleeper, driver[sleeper])
    /\ UNCHANGED <<context, steering, followUp, pc, pending, skipPoll, aborted,
                   sentAborted, batch, turns, firstKept, compactedAt,
                   compactedLen, steeringTexts, followUpTexts, lastAssistant,
                   retryAttempt, bashRuns, used, cleared, overlapped>>

\* abortRetry: the delay is cut short, and the driver goes on without a retry.
abortRetry ==
    /\ sleeper # None
    /\ sleeper' = None
    /\ retryAttempt' = 0
    /\ AfterRetry(sleeper, driver[sleeper])
    /\ UNCHANGED <<context, steering, followUp, pc, pending, skipPoll, aborted,
                   sentAborted, batch, turns, firstKept, compactedAt,
                   compactedLen, steeringTexts, followUpTexts, lastAssistant,
                   bashRuns, used, cleared, overlapped>>

\* _runAutoCompaction ends without a summary: nothing to compact, no
\* credentials, cancelled, or the summary request failed.
compactionFails(d) ==
    /\ driver[d].phase = "compact"
    /\ \/ /\ driver[d].msg # None
          /\ ContinueOrEnd(d, driver[d])
       \/ /\ driver[d].msg = None
          /\ driver' = [driver EXCEPT ![d].phase = "submit"]
          /\ UNCHANGED <<messages, persisted, pendingBash>>
    /\ UNCHANGED <<context, steering, followUp, pc, pending, skipPoll, aborted,
                   sentAborted, batch, turns, firstKept, compactedAt,
                   compactedLen, steeringTexts, followUpTexts, lastAssistant,
                   retryAttempt, sleeper, overflowTried, bashRuns, used, cleared, overlapped>>

\* _runAutoCompaction succeeds: applyCompactionToSession replaces the transcript,
\* and after an overflow the failed answer is dropped again before the retry.
compactionSucceeds(d) ==
    /\ driver[d].phase = "compact"
    /\ driver[d].len > compactedLen
    /\ \E k \in findValidCutPoints(driver[d].len) :
         LET rebuilt == RebuiltFrom(k)
             failed == IsAssistant(Last(rebuilt)) /\ Last(rebuilt).stop \in Errors
             overflow == driver[d].reason = "overflow"
         IN  /\ firstKept' = k
             /\ compactedAt' = turns
             /\ compactedLen' = Len(persisted)
             /\ \/ /\ overflow \/ hasQueuedMessages
                   /\ messages' = IF overflow /\ failed THEN Front(rebuilt) ELSE rebuilt
                   /\ driver' = [driver EXCEPT ![d].phase = "resume"]
                   /\ UNCHANGED <<persisted, pendingBash>>
                \/ /\ ~overflow /\ ~hasQueuedMessages
                   /\ driver' = [driver EXCEPT ![d] = Concluded(driver[d])]
                   /\ messages' = rebuilt \o BashMessages(pendingBash)
                   /\ persisted' = persisted \o BashMessages(pendingBash)
                   /\ pendingBash' = 0
    /\ UNCHANGED <<context, steering, followUp, pc, pending, skipPoll, aborted,
                   sentAborted, batch, turns, steeringTexts,
                   followUpTexts, lastAssistant, retryAttempt, sleeper,
                   overflowTried, bashRuns, used, cleared, overlapped>>

-----------------------------------------------------------------------------
(* The loop under the session, and the user *)

LoopStep ==
    /\ \/ createRunLoopState \/ startTurn \/ streamAssistantResponse
       \/ handleRunFailure \/ prepareToolCall \/ finalizeExecutedToolCall
       \/ emitSequentialResult \/ emitParallelResults
       \/ processToolCallsAndResults \/ endTurn \/ pollFollowUps
    /\ handleAgentEvent(NewMessages)
    /\ UNCHANGED <<firstKept, compactedAt, compactedLen, sleeper, pendingBash,
                   bashRuns, driver, used, cleared, overlapped>>

\* The run is over: the driver that awaits it goes on.
RunSettles ==
    /\ finishRun
    /\ driver' = [d \in Drivers |-> IF driver[d].phase = "running"
                                    THEN [driver[d] EXCEPT !.phase = "post"]
                                    ELSE driver[d]]
    /\ UNCHANGED <<persisted, firstKept, compactedAt, compactedLen, steeringTexts,
                   followUpTexts, lastAssistant, retryAttempt, sleeper,
                   overflowTried, pendingBash, bashRuns, used, cleared, overlapped>>

abortRun ==
    /\ ~aborted
    /\ abort
    /\ UNCHANGED <<messages, context, steering, followUp, pc, pending, skipPoll,
                   sentAborted, batch, turns, sessionVars>>

\* clearQueue: the mirrored texts go back to the editor.
clearQueue ==
    /\ clearAllQueues
    /\ cleared' = cleared \cup steeringTexts \cup followUpTexts
    /\ steeringTexts' = {} /\ followUpTexts' = {}
    /\ UNCHANGED <<messages, context, pc, pending, skipPoll, aborted, sentAborted,
                   batch, turns, persisted, firstKept, compactedAt,
                   compactedLen, lastAssistant, retryAttempt, sleeper,
                   overflowTried, pendingBash, bashRuns, driver, used,
                   overlapped>>

DriverStep(d) ==
    \/ submit(d) \/ resume(d) \/ retryDelayEnds(d)
    \/ compactionFails(d) \/ compactionSucceeds(d)

UserStep ==
    \/ \E t \in Texts : promptWhileStreaming(t) \/ \E d \in Drivers : promptWhileIdle(d, t)
    \/ abortRun \/ abortRetry \/ clearQueue \/ recordBashResult

\* The driver that awaits a run is resumed by the promise finishRun settles, in
\* the same job: no timer, answer or user input comes in between.
Settling == \E d \in Drivers : driver[d].phase = "post"

SessionNext ==
    \/ \E d \in Drivers : handlePostAgentRun(d)
    \/ ~Settling /\ ((\E d \in Drivers : DriverStep(d)) \/ LoopStep \/ RunSettles \/ UserStep)

\* Promises settle: the loop, the delay, the summary request and the driver's
\* own code all go on.  Users and extensions owe nothing.
SessionFairness ==
    /\ WF_agentVars(LoopStep)
    /\ WF_agentVars(RunSettles)
    /\ \A d \in Drivers : WF_agentVars(handlePostAgentRun(d) \/ DriverStep(d))

AgentSpec == SessionInit /\ [][SessionNext]_agentVars /\ SessionFairness

-----------------------------------------------------------------------------
(* Properties *)

Quiet == Idle /\ \A d \in Drivers : driver[d].phase = "off"

\* The type invariant: the run's places, the queues and their mirrors hold
\* texts, the retry counter of agent-session.ts stays within its settings, and
\* the kept part of the session file starts inside it.
TypeOK ==
    /\ pc \in {"idle", "poll", "turn", "request", "preflight", "execute",
               "results", "turnEnd", "followUps", "finish"}
    /\ {steering, followUp, pending} \subseteq Seq(Texts)
    /\ steeringTexts \cup followUpTexts \subseteq Texts
    /\ retryAttempt \in 0..MaxRetries
    /\ pendingBash \in 0..MaxBash
    /\ sleeper \in Drivers \cup {None}
    /\ firstKept \in 1..(Len(persisted) + 1)

\* A message that prompt() accepted into a queue while the agent was working is
\* not left behind when everything has come to rest: the loop's polls or
\* _handlePostAgentRun pick it up, whatever fails, aborts or compacts.
QueuedNotStranded == Quiet => ~hasQueuedMessages

\* A tool call is answered once, right after it, and nothing else is a result.
WellFormed(out) ==
    \A i \in DOMAIN out :
       /\ IsAssistant(out[i]) =>
            /\ i + out[i].calls <= Len(out)
            /\ \A k \in 1..out[i].calls : out[i + k] = ToolResult(out[i].turn, k)
       /\ out[i].role = "toolResult" =>
            \E j \in 1..(i - 1) :
               IsAssistant(out[j]) /\ out[j].turn = out[i].turn /\ i <= j + out[j].calls

\* What the provider is sent is well formed: no message comes between a tool
\* call and its results, which recordBashResult defers shell results for.
RequestWellFormed == pc = "request" => WellFormed(transformMessages(context))

\* The same as long as calls of prompt() do not overlap: aborted batches, failed
\* answers, retries and compactions at any cut point keep requests well formed.
AloneRequestWellFormed == ~overlapped => RequestWellFormed

\* The conversation without the answers that are dropped for a retry.
Dropped == {m \in AnswerMessages : m.stop \in Failed \cup {"silent"}}

Kept(ms) == Without(ms, Dropped)

\* Opening the session file again gives the conversation the agent has at rest,
\* in the same order, after any number of retries and compactions.
ResumeSeesSame ==
    Idle => Kept(messages) = Kept(IF compactedLen = 0 THEN persisted ELSE RebuiltFrom(firstKept))

\* _retryAttempt starts again at zero for the next prompt: no path out of a
\* retry (success, exhaustion, abortRetry, abort, compaction) leaves it behind.
RetryCounterSettles == ~overlapped /\ Quiet => retryAttempt = 0

\* The texts the session shows as queued, and gives back to the editor, are the
\* ones the agent's queues hold or a run has drained but not yet delivered.
MirrorMatchesQueues ==
    steeringTexts \cup followUpTexts
      = Range(steering) \cup Range(followUp) \cup (Range(pending) \ cleared)

\* No text reaches the session file twice, whatever is retried or continued.
DeliveredOnce ==
    \A i, j \in DOMAIN persisted :
       persisted[i].role = "user" /\ persisted[i] = persisted[j] => i = j

\* Where each text is: still to be sent, in the session file, given back by
\* clearQueue, in the hands of the call that sent it, queued or drained, or
\* refused by a prompt() that threw.
DeliveryStatus ==
    LET delivered == TextsOf(persisted)
        queued == Range(steering) \cup Range(followUp) \cup Range(pending)
        prompted == {driver[d].text : d \in Drivers}
    IN  [t \in Texts |-> CASE t \notin used -> "new"
                           [] t \in delivered -> "delivered"
                           [] t \in cleared \ delivered -> "returned"
                           [] t \in queued \ (delivered \cup cleared) -> "queued"
                           [] OTHER -> IF t \in prompted THEN "prompted" ELSE "refused"]

Delivery == INSTANCE MessageDelivery WITH status <- DeliveryStatus

\* The session implements MessageDelivery: whatever fails, is retried, aborted
\* or compacted on the way, an accepted message is delivered, given back or
\* refused, once, and never forgotten.
DeliversMessages == Delivery!Spec

\* Every call of prompt() settles: retries are bounded, overflow is recovered
\* from once, and a run polls its queues until they are empty.
PromptSettles == \A d \in Drivers : driver[d].phase # "off" ~> driver[d].phase = "off"

=============================================================================
