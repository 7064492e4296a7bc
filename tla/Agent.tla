--------------------------------- MODULE Agent ---------------------------------
(***************************************************************************)
(* The agent and its loop:                                                 *)
(*   src/frontend/packages/agent/src/agent.ts, agent-loop.ts               *)
(*                                                                         *)
(* A run streams a reply, executes the tools the reply calls, polls the    *)
(* steering queue, and goes on; when there is nothing left it polls the    *)
(* follow-up queue, and then ends.  Every event of the loop is reduced     *)
(* into the agent's state and then awaits the listeners; meanwhile anybody *)
(* may steer, queue a follow-up, clear the queues or abort.                *)
(*                                                                         *)
(* isStreaming is set and cleared with activeRun; both are pc # "idle".    *)
(* errorMessage is only shown, and partial tool results change no state:   *)
(* both are left out.  A message_start that its message_end follows at     *)
(* once (prompts, injected messages, tool results) is one step with it.    *)
(***************************************************************************)
EXTENDS Naturals, Sequences, SequencesExt

CONSTANT
  Options         \* the options an agent may be created with

CONSTANTS         \* bounds of the model, not of the code
  MaxMessages,    \* messages handed to the agent
  MaxCalls,       \* tool calls in a reply
  MaxToolTurns,   \* replies that call tools
  MaxIncidents    \* failing replies, throwing listeners and hooks, aborts, clears, resets

QueueModes == {"all", "one-at-a-time"}
AgentOptions == [toolExecution: {"parallel", "sequential"},
                 steeringMode: QueueModes, followUpMode: QueueModes]

ASSUME OptionsAssumption == Options \subseteq AgentOptions

ASSUME BoundAssumption ==
  /\ MaxMessages \in Nat
  /\ MaxCalls \in Nat
  /\ MaxToolTurns \in Nat
  /\ MaxIncidents \in Nat

VARIABLES
  options,                     \* of the agent
  messages, partial, pendingToolCalls, steering, followUp, aborted,   \* the agent
  pc, context, pending, skip,                 \* the loop
  todo, prepared, running, results,           \* its batch of tool calls
  executing,                   \* tools at work
  replies,                     \* assistant messages so far
  via,                         \* history: how each message was handed over
  delivered,                   \* history: the messages that entered the transcript
  cleared,                     \* history: the messages that a clear or a reset threw away
  toolTurns, faults, incidents

queues == <<steering, followUp>>
batch == <<todo, prepared, running, results>>
loop == <<pc, context, pending, skip, batch>>
history == <<via, delivered, cleared>>
bounds == <<toolTurns, faults, incidents>>
vars == <<options, messages, partial, pendingToolCalls, queues, aborted, loop,
          executing, replies, history, bounds>>

Ids == 1 .. MaxMessages
Calls == Nat \X Nat          \* reply and position in it

\* A message: `id` numbers user messages and replies, `n` is the number of calls
\* of a reply or the position of the call that a result answers.
Message == [role: {"user", "assistant", "toolResult"}, id: Nat, n: Nat,
            stop: {"none", "done", "error", "aborted"}]
User(m) == [role |-> "user", id |-> m, n |-> 0, stop |-> "none"]
Users(ms) == [i \in DOMAIN ms |-> User(ms[i])]
Reply(r, n, stop) == [role |-> "assistant", id |-> r, n |-> n, stop |-> stop]
Result(c) == [role |-> "toolResult", id |-> c[1], n |-> c[2], stop |-> "none"]

PC == {"idle", "prompts", "poll", "turn", "stream", "tools", "turnEnd",
       "followUps", "agentEnd", "failed", "failEnd"}

TypeOK ==
  /\ options \in Options
  /\ messages \in Seq(Message)
  /\ partial \in BOOLEAN
  /\ pendingToolCalls \subseteq Calls
  /\ steering \in Seq(Ids)
  /\ followUp \in Seq(Ids)
  /\ aborted \in BOOLEAN
  /\ pc \in PC
  /\ context \in Seq(Message)
  /\ pending \in Seq(Ids)
  /\ skip \in BOOLEAN
  /\ todo \in Seq(Calls)
  /\ prepared \in Seq(Calls)
  /\ running \in Seq(Calls)
  /\ results \in Seq(Message)
  /\ executing \subseteq Calls
  /\ replies \in Nat
  /\ via \in Seq({"prompt", "steer", "followUp"})
  /\ Len(via) <= MaxMessages
  /\ delivered \in Seq([id: Ids, at: Nat])
  /\ cleared \subseteq Ids
  /\ toolTurns \in Nat
  /\ faults \in Nat
  /\ incidents \in Nat

Init ==
  /\ options \in Options
  /\ messages = <<>>
  /\ partial = FALSE
  /\ pendingToolCalls = {}
  /\ steering = <<>>
  /\ followUp = <<>>
  /\ aborted = FALSE
  /\ pc = "idle"
  /\ context = <<>>
  /\ pending = <<>>
  /\ skip = FALSE
  /\ todo = <<>>
  /\ prepared = <<>>
  /\ running = <<>>
  /\ results = <<>>
  /\ executing = {}
  /\ replies = 0
  /\ via = <<>>
  /\ delivered = <<>>
  /\ cleared = {}
  /\ toolTurns = 0
  /\ faults = 0
  /\ incidents = 0

(***************************************************************************)
(* Handing messages over.                                                  *)
(***************************************************************************)
New == Len(via) + 1
Accept(kind) == New <= MaxMessages /\ via' = Append(via, kind)

Incident == incidents < MaxIncidents /\ incidents' = incidents + 1

\* (mutant) a drained message stays in the queue
LeftForgotten(q, mode) == IF mode = "all" THEN <<>> ELSE q

\* PendingMessageQueue.drain, and what it leaves
Drained(q, mode) == IF mode = "all" \/ q = <<>> THEN q ELSE <<Head(q)>>
Left(q, mode) == IF mode = "all" \/ q = <<>> THEN <<>> ELSE Tail(q)

Steer ==
  /\ Accept("steer")
  /\ steering' = Append(steering, New)
  /\ UNCHANGED <<options, messages, partial, pendingToolCalls, followUp, aborted, loop,
                 executing, replies, delivered, cleared, bounds>>

FollowUp ==
  /\ Accept("followUp")
  /\ followUp' = Append(followUp, New)
  /\ UNCHANGED <<options, messages, partial, pendingToolCalls, steering, aborted, loop,
                 executing, replies, delivered, cleared, bounds>>

Queued == ToSet(steering) \cup ToSet(followUp)

\* clearSteeringQueue, clearFollowUpQueue, clearAllQueues
ClearQueues ==
  /\ Incident
  /\ steering' \in {steering, <<>>}
  /\ followUp' \in {followUp, <<>>}
  /\ cleared' = cleared \cup (Queued \ Queued')
  /\ UNCHANGED <<options, messages, partial, pendingToolCalls, aborted, loop,
                 executing, replies, via, delivered, toolTurns, faults>>

\* runWithLifecycle and runAgentLoop: the prompts enter the loop's own context at
\* once, and the transcript as their message_end events are reduced
StartRun(ms, skipPoll) ==
  /\ pc = "idle"
  /\ pc' = "prompts"
  /\ context' = messages \o Users(ms)
  /\ pending' = ms
  /\ skip' = skipPoll
  /\ partial' = FALSE
  /\ aborted' = FALSE
  /\ UNCHANGED <<options, messages, pendingToolCalls, batch, executing, replies,
                 delivered, cleared, bounds>>

\* prompt throws while a run is active
Prompt ==
  /\ Accept("prompt")
  /\ StartRun(<<New>>, FALSE)
  /\ UNCHANGED queues

LastIs(role) == messages # <<>> /\ Last(messages).role = role

\* continue, from an assistant message: what is queued becomes the prompt
ContinueSteering ==
  /\ LastIs("assistant")
  /\ steering # <<>>
  /\ StartRun(Drained(steering, options.steeringMode), TRUE)
  /\ steering' = Left(steering, options.steeringMode)
  /\ UNCHANGED <<followUp, via>>

ContinueFollowUps ==
  /\ LastIs("assistant")
  /\ steering = <<>>
  /\ followUp # <<>>
  /\ StartRun(Drained(followUp, options.followUpMode), FALSE)
  /\ followUp' = Left(followUp, options.followUpMode)
  /\ UNCHANGED <<steering, via>>

\* continue, from a user message or a tool result: runAgentLoopContinue
ContinueTranscript ==
  /\ pc = "idle"
  /\ LastIs("user") \/ LastIs("toolResult")
  /\ pc' = "poll"
  /\ context' = messages
  /\ partial' = FALSE
  /\ aborted' = FALSE
  /\ UNCHANGED <<options, messages, pendingToolCalls, queues, pending, skip, batch,
                 executing, replies, history, bounds>>

(***************************************************************************)
(* The loop.                                                               *)
(***************************************************************************)
Delivered(m) == delivered' = Append(delivered, [id |-> m, at |-> replies])

PromptEmitted ==
  /\ pc = "prompts"
  /\ messages' = Append(messages, User(Head(pending)))
  /\ Delivered(Head(pending))
  /\ pending' = Tail(pending)
  /\ pc' = IF Tail(pending) = <<>> THEN "poll" ELSE "prompts"
  /\ UNCHANGED <<options, partial, pendingToolCalls, queues, aborted, context, skip,
                 batch, executing, replies, via, cleared, bounds>>

\* the steering poll at the start of a run, which continue may have skipped
InitialPoll ==
  /\ pc = "poll"
  /\ pc' = "turn"
  /\ IF skip THEN UNCHANGED <<pending, steering>>
             ELSE pending' = Drained(steering, options.steeringMode) /\ steering' = Left(steering, options.steeringMode)
  /\ skip' = FALSE
  /\ UNCHANGED <<options, messages, partial, pendingToolCalls, followUp, aborted,
                 context, batch, executing, replies, history, bounds>>

\* (mutant) the loop's own context misses the message
InjectUnseen ==
  /\ pc = "turn"
  /\ pending # <<>>
  /\ messages' = Append(messages, User(Head(pending)))
  /\ Delivered(Head(pending))
  /\ pending' = Tail(pending)
  /\ UNCHANGED <<options, partial, pendingToolCalls, queues, aborted, pc, context, skip,
                 batch, executing, replies, via, cleared, bounds>>

\* inject a drained message before the next reply
Inject ==
  /\ pc = "turn"
  /\ pending # <<>>
  /\ messages' = Append(messages, User(Head(pending)))
  /\ context' = Append(context, User(Head(pending)))
  /\ Delivered(Head(pending))
  /\ pending' = Tail(pending)
  /\ UNCHANGED <<options, partial, pendingToolCalls, queues, aborted, pc, skip, batch,
                 executing, replies, via, cleared, bounds>>

RequestReply ==
  /\ pc = "turn"
  /\ pending = <<>>
  /\ pc' = "stream"
  /\ UNCHANGED <<options, messages, partial, pendingToolCalls, queues, aborted, context,
                 pending, skip, batch, executing, replies, history, bounds>>

\* the first event of the stream; a reply may also fail before it
ReplyStarts ==
  /\ pc = "stream"
  /\ ~ partial
  /\ partial' = TRUE
  /\ UNCHANGED <<options, messages, pendingToolCalls, queues, aborted, loop, executing,
                 replies, history, bounds>>

\* the final message, with n tool calls
ReplyEnds(n, stop) ==
  /\ pc = "stream"
  /\ stop = "aborted" => aborted
  /\ n > 0 => toolTurns < MaxToolTurns
  /\ toolTurns' = IF n > 0 THEN toolTurns + 1 ELSE toolTurns
  /\ IF stop = "error" THEN Incident ELSE UNCHANGED incidents
  /\ replies' = replies + 1
  /\ messages' = Append(messages, Reply(replies + 1, n, stop))
  /\ context' = Append(context, Reply(replies + 1, n, stop))
  /\ partial' = FALSE
  /\ pc' = CASE stop # "done" -> "agentEnd"
             [] stop = "done" /\ n > 0 -> "tools"
             [] OTHER -> "turnEnd"
  /\ todo' = IF stop = "done" THEN [k \in 1 .. n |-> <<replies + 1, k>>] ELSE <<>>
  /\ results' = <<>>
  /\ UNCHANGED <<options, pendingToolCalls, queues, aborted, pending, skip, prepared,
                 running, executing, history, faults>>

(***************************************************************************)
(* A batch of tool calls.                                                  *)
(***************************************************************************)
\* tool_execution_start of the next call, when no other call stands in its way
CallStarts ==
  /\ pc = "tools"
  /\ todo # <<>>
  /\ Head(todo) \notin pendingToolCalls
  /\ running = <<>>
  /\ options.toolExecution = "sequential" => prepared = <<>>
  /\ pendingToolCalls' = pendingToolCalls \cup {Head(todo)}
  /\ UNCHANGED <<options, messages, partial, queues, aborted, loop, executing, replies,
                 history, bounds>>

Preparing == pc = "tools" /\ todo # <<>> /\ Head(todo) \in pendingToolCalls

PrepareCall ==
  /\ Preparing
  /\ prepared' = Append(prepared, Head(todo))
  /\ todo' = Tail(todo)
  /\ UNCHANGED <<options, messages, partial, pendingToolCalls, queues, aborted, pc,
                 context, pending, skip, running, results, executing, replies, history,
                 bounds>>

\* an unknown tool, invalid arguments, or a hook that blocks the call: the error
\* result follows at once
RefuseCall ==
  /\ Preparing
  /\ pendingToolCalls' = pendingToolCalls \ {Head(todo)}
  /\ messages' = Append(messages, Result(Head(todo)))
  /\ results' = Append(results, Result(Head(todo)))
  /\ todo' = Tail(todo)
  /\ UNCHANGED <<options, partial, queues, aborted, pc, context, pending, skip, prepared,
                 running, executing, replies, history, bounds>>

\* (mutant) an abort leaves the prepared calls out
LaunchCallsUnlessAborted ==
  /\ pc = "tools"
  /\ prepared # <<>>
  /\ options.toolExecution = "parallel" => todo = <<>>
  /\ running' = IF aborted THEN <<>> ELSE prepared
  /\ executing' = IF aborted THEN executing ELSE executing \cup ToSet(prepared)
  /\ prepared' = <<>>
  /\ UNCHANGED <<options, messages, partial, pendingToolCalls, queues, aborted, pc,
                 context, pending, skip, todo, results, replies, history, bounds>>

\* sequential mode executes a call as soon as it is prepared, parallel mode all
\* calls when the last one is
LaunchCalls ==
  /\ pc = "tools"
  /\ prepared # <<>>
  /\ options.toolExecution = "parallel" => todo = <<>>
  /\ running' = prepared
  /\ executing' = executing \cup ToSet(prepared)
  /\ prepared' = <<>>
  /\ UNCHANGED <<options, messages, partial, pendingToolCalls, queues, aborted, pc,
                 context, pending, skip, todo, results, replies, history, bounds>>

\* a tool returns or throws, whether or not its run still waits for it
ToolReturns(c) ==
  /\ c \in executing
  /\ executing' = executing \ {c}
  /\ UNCHANGED <<options, messages, partial, pendingToolCalls, queues, aborted, loop,
                 replies, history, bounds>>

\* (mutant) a call that was aborted waits for ever
FinalizeCallUnlessAborted ==
  /\ pc = "tools"
  /\ ~ aborted
  /\ running # <<>>
  /\ Head(running) \notin executing
  /\ pendingToolCalls' = pendingToolCalls \ {Head(running)}
  /\ messages' = Append(messages, Result(Head(running)))
  /\ results' = Append(results, Result(Head(running)))
  /\ running' = Tail(running)
  /\ UNCHANGED <<options, partial, queues, aborted, pc, context, pending, skip, todo,
                 prepared, executing, replies, history, bounds>>

\* results are emitted in the order of the launch
FinalizeCall ==
  /\ pc = "tools"
  /\ running # <<>>
  /\ Head(running) \notin executing
  /\ pendingToolCalls' = pendingToolCalls \ {Head(running)}
  /\ messages' = Append(messages, Result(Head(running)))
  /\ results' = Append(results, Result(Head(running)))
  /\ running' = Tail(running)
  /\ UNCHANGED <<options, partial, queues, aborted, pc, context, pending, skip, todo,
                 prepared, executing, replies, history, bounds>>

\* the results enter the loop's context together
BatchDone ==
  /\ pc = "tools"
  /\ todo = <<>> /\ prepared = <<>> /\ running = <<>>
  /\ context' = context \o results
  /\ results' = <<>>
  /\ pc' = "turnEnd"
  /\ UNCHANGED <<options, messages, partial, pendingToolCalls, queues, aborted, pending,
                 skip, todo, prepared, running, executing, replies, history, bounds>>

HasMoreToolCalls == Last(context).role = "toolResult"

\* (mutant) follow-ups are taken as soon as there is nothing to steer
PollSteeringOrFollowUps ==
  /\ pc = "turnEnd"
  /\ pending' = IF steering # <<>> THEN Drained(steering, options.steeringMode) ELSE Drained(followUp, options.followUpMode)
  /\ steering' = Left(steering, options.steeringMode)
  /\ followUp' = IF steering # <<>> THEN followUp ELSE Left(followUp, options.followUpMode)
  /\ pc' = IF HasMoreToolCalls \/ pending' # <<>> THEN "turn" ELSE "followUps"
  /\ UNCHANGED <<options, messages, partial, pendingToolCalls, aborted, context, skip,
                 batch, executing, replies, history, bounds>>

\* turn_end and the steering poll after it
PollSteering ==
  /\ pc = "turnEnd"
  /\ pending' = Drained(steering, options.steeringMode)
  /\ steering' = Left(steering, options.steeringMode)
  /\ pc' = IF HasMoreToolCalls \/ steering # <<>> THEN "turn" ELSE "followUps"
  /\ UNCHANGED <<options, messages, partial, pendingToolCalls, followUp, aborted,
                 context, skip, batch, executing, replies, history, bounds>>

PollFollowUps ==
  /\ pc = "followUps"
  /\ pending' = Drained(followUp, options.followUpMode)
  /\ followUp' = Left(followUp, options.followUpMode)
  /\ pc' = IF followUp # <<>> THEN "turn" ELSE "agentEnd"
  /\ UNCHANGED <<options, messages, partial, pendingToolCalls, steering, aborted,
                 context, skip, batch, executing, replies, history, bounds>>

\* (mutant) the pending tool calls of a failed run are kept
FinishRunKeepsCalls ==
  /\ pc \in {"agentEnd", "failEnd"}
  /\ pc' = "idle"
  /\ context' = <<>>
  /\ partial' = FALSE
  /\ aborted' = FALSE
  /\ UNCHANGED <<options, messages, pendingToolCalls, queues, pending, skip, batch,
                 executing, replies, history, bounds>>

\* agent_end, its listeners, and finishRun
FinishRun ==
  /\ pc \in {"agentEnd", "failEnd"}
  /\ pc' = "idle"
  /\ context' = <<>>
  /\ partial' = FALSE
  /\ pendingToolCalls' = {}
  /\ aborted' = FALSE
  /\ UNCHANGED <<options, messages, queues, pending, skip, batch, executing, replies,
                 history, bounds>>

\* A listener of any event throws, or afterToolCall does: the loop is over and its
\* local state is lost.  Tools that are at work go on.
LoopThrows ==
  /\ pc \notin {"idle", "failed", "failEnd"}
  /\ Incident
  /\ faults' = faults + 1
  /\ pc' = "failed"
  /\ context' = <<>> /\ pending' = <<>> /\ skip' = FALSE
  /\ todo' = <<>> /\ prepared' = <<>> /\ running' = <<>> /\ results' = <<>>
  /\ UNCHANGED <<options, messages, partial, pendingToolCalls, queues, aborted,
                 executing, replies, history, toolTurns>>

\* handleRunFailure: the failure becomes an assistant message
HandleRunFailure ==
  /\ pc = "failed"
  /\ pc' = "failEnd"
  /\ messages' =
       Append(messages, Reply(replies + 1, 0, IF aborted THEN "aborted" ELSE "error"))
  /\ replies' = replies + 1
  /\ partial' = FALSE
  /\ UNCHANGED <<options, pendingToolCalls, queues, aborted, context, pending, skip,
                 batch, executing, history, bounds>>

(***************************************************************************)
(* The user of the agent.                                                  *)
(***************************************************************************)
\* (mutant) an abort empties the queues
AbortEmptiesQueues ==
  /\ pc # "idle"
  /\ Incident
  /\ aborted' = TRUE
  /\ steering' = <<>>
  /\ followUp' = <<>>
  /\ UNCHANGED <<options, messages, partial, pendingToolCalls, loop, executing, replies,
                 history, toolTurns, faults>>

Abort ==
  /\ pc # "idle"
  /\ Incident
  /\ aborted' = TRUE
  /\ UNCHANGED <<options, messages, partial, pendingToolCalls, queues, loop, executing,
                 replies, history, toolTurns, faults>>

\* reset; its caller (AgentSession.newSession) waits for the run to end first
Reset ==
  /\ pc = "idle"
  /\ Incident
  /\ messages' = <<>>
  /\ partial' = FALSE
  /\ pendingToolCalls' = {}
  /\ steering' = <<>>
  /\ followUp' = <<>>
  /\ cleared' = cleared \cup Queued
  /\ UNCHANGED <<options, aborted, loop, executing, replies, via, delivered, toolTurns,
                 faults>>

\* an assignment of state.messages, of the kind that AgentSession makes before a retry
\* continues: it takes the failed reply off the transcript
DropFailure ==
  /\ pc = "idle"
  /\ LastIs("assistant")
  /\ Last(messages).stop = "error"
  /\ messages' = Front(messages)
  /\ UNCHANGED <<options, partial, pendingToolCalls, queues, aborted, loop, executing,
                 replies, history, bounds>>

LoopStep ==
  \/ PromptEmitted \/ InitialPoll \/ Inject \/ RequestReply
  \/ \E n \in 0 .. MaxCalls, stop \in {"done", "error", "aborted"} : ReplyEnds(n, stop)
  \/ CallStarts \/ PrepareCall \/ RefuseCall \/ LaunchCalls \/ FinalizeCall \/ BatchDone
  \/ PollSteering \/ PollFollowUps \/ FinishRun \/ HandleRunFailure

Next ==
  \/ LoopStep
  \/ ReplyStarts
  \/ \E c \in executing : ToolReturns(c)
  \/ LoopThrows
  \/ Steer \/ FollowUp \/ ClearQueues \/ Abort
  \/ Prompt \/ ContinueSteering \/ ContinueFollowUps \/ ContinueTranscript
  \/ Reset \/ DropFailure

Spec == Init /\ [][Next]_vars

\* The loop goes on, a reply ends, a tool returns.  Nobody has to prompt.
Fairness ==
  /\ WF_vars(LoopStep)
  /\ WF_vars(\E c \in executing : ToolReturns(c))

FairSpec == Spec /\ Fairness

(***************************************************************************)
(* Properties.                                                             *)
(***************************************************************************)
ViaOf(kind) == {m \in DOMAIN via : via[m] = kind}
DeliveredVia(kind) == {i \in DOMAIN delivered : via[delivered[i].id] = kind}

\* The messages of one queue are delivered in the order they were queued in.
QueueOrder ==
  \A kind \in {"steer", "followUp"} :
    \A i, j \in DeliveredVia(kind) : i < j => delivered[i].id < delivered[j].id

ModeOf(kind) == IF kind = "steer" THEN options.steeringMode ELSE options.followUpMode

\* In one-at-a-time mode no two steering messages, and no two follow-ups, are
\* answered by the same reply.
OneAtATime ==
  \A kind \in {"steer", "followUp"} :
    ModeOf(kind) = "one-at-a-time" =>
      \A i, j \in DeliveredVia(kind) : i # j => delivered[i].at # delivered[j].at

IsFollowUp(m) == m.role = "user" /\ m.id \in ViaOf("followUp")
MayBeFollowed(m) ==
  IsFollowUp(m) \/ (m.role = "assistant" /\ (m.n = 0 \/ m.stop # "done"))

\* "Follow-up messages are checked only when there are no more tool calls": a
\* follow-up stands behind a reply without calls or one that was cut short, or
\* behind another follow-up.
FollowUpsWait ==
  faults = 0 =>
    \A i \in 2 .. Len(messages) : IsFollowUp(messages[i]) => MayBeFollowed(messages[i - 1])

\* What was queued is answered in this order, whatever is queued or aborted meanwhile.
DeliveryOrder == QueueOrder /\ OneAtATime /\ FollowUpsWait

\* Whenever a reply is requested, the results of every earlier batch stand behind
\* the reply that called it, one for each call and nothing in between.
Answered(s, i) ==
  /\ i + s[i].n <= Len(s)
  /\ {s[j] : j \in i + 1 .. i + s[i].n} = {Result(<<s[i].id, k>>) : k \in 1 .. s[i].n}

RequestsComplete ==
  pc = "stream" /\ faults = 0 =>
    \A i \in DOMAIN context :
      context[i].role = "assistant" /\ context[i].stop = "done" => Answered(context, i)

\* The transcript, which the agent rebuilds from events, is the context that the
\* loop sends to the model.
TranscriptMatches == pc \in {"stream", "turnEnd", "followUps", "agentEnd"} => messages = context

\* Between runs nothing is pending; a tool at work is shown as pending, unless a
\* run was cut short.
RunSettled ==
  /\ pc = "idle" => ~ partial /\ pendingToolCalls = {}
  /\ faults = 0 => executing \subseteq pendingToolCalls

\* A run ends if the model stops calling tools.
RunEnds == (pc # "idle") ~> (pc = "idle")

(***************************************************************************)
(* The agent implements the mailbox.                                       *)
(***************************************************************************)
\* A message that is in no place is cleared only if a clear or a reset threw it away.
StageOf(m) ==
  IF m \notin DOMAIN via THEN "new"
  ELSE IF m \in Queued THEN "queued"
  ELSE IF m \in ToSet(pending) THEN "taken"
  ELSE IF \E i \in DOMAIN delivered : delivered[i].id = m THEN "delivered"
  ELSE IF m \in cleared THEN "cleared"
  ELSE "lost"

Mode == CASE pc = "idle" -> "rest"
          [] pc \in {"failed", "failEnd"} -> "failing"
          [] OTHER -> "running"

Box == INSTANCE Mailbox WITH stage <- [m \in Ids |-> StageOf(m)], mode <- Mode

\* Every message that is handed over goes the way of the mailbox, whatever is
\* aborted, retried or thrown meanwhile: an abort, a poll or a run that ends loses
\* none, a queue is emptied only by a clear or a reset, and the messages that a run
\* has taken are lost only in the step in which it fails.
ImplementsMailbox == Box!MSpec
===============================================================================
