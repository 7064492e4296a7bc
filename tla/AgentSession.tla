----------------------------- MODULE AgentSession -----------------------------
(***************************************************************************)
(* A session of the coding agent: retries, compaction, persistence.        *)
(*   src/frontend/packages/coding-agent/src/core/agent-session.ts          *)
(*                                                                         *)
(* The events of the agent are handled one after the other, behind what    *)
(* the extensions do with each of them.  Handling the end of a run may     *)
(* take a while itself: it sleeps before a retry, or compacts the context. *)
(* Meanwhile the agent is idle and further commands may come.              *)
(*                                                                         *)
(* The agent is reduced to what the session sees of it (the module Agent   *)
(* has the rest): a run is a sequence of replies, and the queue it polls   *)
(* is its steering queue.  Messages are numbered in the order in which     *)
(* they come to be, which is also their timestamp.                         *)
(***************************************************************************)
EXTENDS Naturals, Sequences, SequencesExt

CONSTANTS
  Prompts,              \* calls of prompt, each made once
  MaxRetries,           \* settings: retry.maxRetries
  HandlersArePrompt,    \* extensions are done with an event before another command, run or session begins
  PromptsTakeTurns,     \* nobody prompts an idle agent while a prompt, a retry or a recovery is pending
  CompactionIsFast,     \* a compaction is over before another command, run or session begins,
                        \* and the user asks for none when a run is about to begin
  RunsOutlastTimers,    \* a prompt that has compacted begins its run before the continue it has deferred
                        \* goes off, and no run ends before that
  SwitchesAreClean,     \* no session is resumed or forked with messages queued, or forked during a run or a retry
  ThrowsMeetRetries     \* a run may also throw what would be retried, or while a retry is pending

CONSTANT                \* bound of the model, not of the code
  MaxCommands           \* aborts, changes of session, compactions, results of bash, cleared queues

ASSUME SwitchAssumption ==
  {HandlersArePrompt, PromptsTakeTurns, CompactionIsFast, RunsOutlastTimers, SwitchesAreClean,
   ThrowsMeetRetries} \subseteq BOOLEAN
ASSUME BoundAssumption ==
  {MaxRetries, MaxCommands} \subseteq Nat

NoPrompt == "continue"
ASSUME PromptAssumption == NoPrompt \notin Prompts

VARIABLES
  transcript, queued, run, owner, aborting,        \* the agent
  subscribed, events, handler,                     \* the handling of its events
  last, attempt, retrying, overflowAttempted,
  mirror, pendingBash, timers, pc, prepared,
  sid, entries, clock, compactedAt,                \* the session and its file
  shelf,                                           \* another session, to resume
  purpose,                                         \* why the session is disconnected from the agent
  inARow,                                          \* history: retries since the last input, good reply, cancelled retry or change of session
  commands

agentVars == <<transcript, queued, run, owner, aborting>>
retryVars == <<last, attempt, retrying, overflowAttempted>>
fileVars == <<sid, entries, clock, compactedAt, shelf>>
vars == <<agentVars, subscribed, events, handler, retryVars, mirror, pendingBash, timers, pc,
          prepared, fileVars, purpose, inARow, commands>>

ErrorKinds == {"error", "fatal", "overflow"}      \* stopReason "error"; "error" is retryable
ReplyKinds == {"ok", "aborted"} \cup ErrorKinds
Kinds == {"user", "summary", "bash"} \cup ReplyKinds
Message == [kind: Kinds, n: Nat, s: Nat]        \* s is the session it belongs to
NoMessage == [kind |-> "none", n |-> 0, s |-> 0]
Event == [type: {"user", "reply", "agentEnd"}, message: Message]
Reasons == {"overflow", "threshold"}
Session == [id: Nat, entries: Seq(Message), compactedAt: Nat]
Earlier == [id |-> 1, compactedAt |-> 0,
            entries |-> <<[kind |-> "user", n |-> 1, s |-> 1], [kind |-> "ok", n |-> 2, s |-> 1]>>]
Free == [at |-> "free", reason |-> "none", message |-> NoMessage]

TypeOK ==
  /\ transcript \in Seq(Message)
  /\ queued \in Seq(Message)
  /\ run \in {"idle", "running"}
  /\ owner \in Prompts \cup {NoPrompt}
  /\ aborting \in BOOLEAN
  /\ subscribed \in BOOLEAN
  /\ events \in Seq(Event)
  /\ handler \in [at: {"free", "backoff", "compact"}, reason: Reasons \cup {"none"},
                  message: Message \cup {NoMessage}]
  /\ last \in Message \cup {NoMessage}
  /\ attempt \in 0 .. MaxRetries
  /\ retrying \in BOOLEAN
  /\ overflowAttempted \in BOOLEAN
  /\ mirror \in Seq(Nat)
  /\ pendingBash \in Seq(Message)
  /\ timers \in Nat
  /\ pc \in [Prompts -> {"idle", "overflow", "threshold", "ready", "running", "ended",
                         "waiting", "done"}]
  /\ prepared \in [n: Nat, length: Nat, sid: Nat]
  /\ entries \in Seq(Message)
  /\ shelf \in Session
  /\ sid \in Nat /\ clock \in Nat /\ compactedAt \in Nat
  /\ inARow \in Nat /\ commands \in Nat
  /\ purpose \in {"none", "new", "resume", "compact", "compacting"}

Init ==
  /\ transcript = <<>>
  /\ queued = <<>>
  /\ run = "idle"
  /\ owner = NoPrompt
  /\ aborting = FALSE
  /\ subscribed = TRUE
  /\ events = <<>>
  /\ handler = Free
  /\ last = NoMessage
  /\ attempt = 0
  /\ retrying = FALSE
  /\ overflowAttempted = FALSE
  /\ mirror = <<>>
  /\ pendingBash = <<>>
  /\ timers = 0
  /\ pc = [p \in Prompts |-> "idle"]
  /\ prepared = [n |-> 0, length |-> 0, sid |-> 0]
  /\ entries = <<>>
  /\ clock = 2
  /\ sid = 0
  /\ shelf = Earlier
  /\ compactedAt = 0
  /\ purpose = "none"
  /\ inARow = 0
  /\ commands = 0

New(kind) == [kind |-> kind, n |-> clock + 1, s |-> sid]
Tick == clock' = clock + 1
IsReply(m) == m.kind \in ReplyKinds
EndsWithReply(ms) == ms # <<>> /\ IsReply(Last(ms))
WithoutLastReply(ms) == IF EndsWithReply(ms) THEN Front(ms) ELSE ms

Compacting ==
  \/ handler.at = "compact"
  \/ purpose \in {"compact", "compacting"}
  \/ \E p \in Prompts : pc[p] \in Reasons
HandlersDone == HandlersArePrompt => events = <<>> \/ handler.at # "free"
\* when a command may come, a prompt or a timer go on, and a new session be put in place
Ready == HandlersDone /\ (CompactionIsFast => ~Compacting)
Command == commands < MaxCommands /\ commands' = commands + 1

Emit(es) == events' = IF subscribed THEN events \o es ELSE events

(***************************************************************************)
(* Runs of the agent.                                                      *)
(***************************************************************************)
\* the messages that a run takes off the queue when it polls
Polled == IF queued = <<>> THEN <<>> ELSE <<Head(queued)>>
Unpolled == IF queued = <<>> THEN <<>> ELSE Tail(queued)

Begins(p, ms) ==
  /\ run' = "running"
  /\ owner' = p
  /\ aborting' = FALSE
  /\ transcript' = transcript \o ms
  /\ Emit([i \in DOMAIN ms |-> [type |-> "user", message |-> ms[i]]])

\* A reply that is neither an error nor aborted lets the run poll the queue.
ReplyAndGoOn ==
  LET m == New("ok") u == Head(queued) IN
  /\ run = "running" /\ ~aborting /\ queued # <<>>
  /\ transcript' = transcript \o <<m, u>>
  /\ queued' = Tail(queued)
  /\ Emit(<<[type |-> "reply", message |-> m], [type |-> "user", message |-> u]>>)
  /\ Tick
  /\ UNCHANGED <<run, owner, aborting, subscribed, handler, retryVars, mirror, pendingBash,
                 timers, pc, prepared, sid, entries, compactedAt, shelf, purpose, inARow, commands>>

\* _createRetryPromiseForAgentEnd is part of the end of the run
Ends(m, es) ==
  /\ run' = "idle"
  /\ pc' = [p \in Prompts |-> IF p = owner THEN "ended" ELSE pc[p]]
  /\ owner' = NoPrompt
  /\ aborting' = FALSE
  /\ transcript' = Append(transcript, m)
  /\ Emit(Append(es, [type |-> "agentEnd", message |-> m]))
  /\ retrying' = (retrying \/ (subscribed /\ m.kind = "error"))
  /\ Tick

Outcome(kind) ==
  /\ kind \in ReplyKinds
  /\ (kind = "aborted") = aborting

ReplyAndEnd(kind) ==
  LET m == New(kind) IN
  /\ run = "running" /\ (RunsOutlastTimers => timers = 0)
  /\ Outcome(kind)
  /\ kind = "ok" => queued = <<>>
  /\ Ends(m, <<[type |-> "reply", message |-> m]>>)
  /\ UNCHANGED <<queued, subscribed, handler, last, attempt, overflowAttempted, mirror,
                 pendingBash, timers, prepared, sid, entries, compactedAt, shelf, purpose, inARow, commands>>

\* The run throws, before its first reply: the agent makes up a reply that it
\* announces with agent_end only.
Throws(kind) ==
  LET m == New(kind) IN
  /\ run = "running" /\ (RunsOutlastTimers => timers = 0)
  /\ Outcome(kind)
  /\ kind \in {"fatal", "error", "aborted"}
  /\ kind = "error" \/ retrying => ThrowsMeetRetries
  /\ Ends(m, <<>>)
  /\ UNCHANGED <<queued, subscribed, handler, last, attempt, overflowAttempted, mirror,
                 pendingBash, timers, prepared, sid, entries, compactedAt, shelf, purpose, inARow, commands>>

\* what the timers of a retry and of a compaction do: agent.continue
TimerFires ==
  /\ timers > 0 /\ Ready
  /\ RunsOutlastTimers => \A p \in Prompts : pc[p] # "ready"
  /\ timers' = timers - 1
  /\ IF run = "idle" /\ transcript # <<>> /\ ~(IsReply(Last(transcript)) /\ queued = <<>>)
     THEN Begins(NoPrompt, Polled) /\ queued' = Unpolled
     ELSE UNCHANGED <<agentVars, events>>
  /\ UNCHANGED <<subscribed, handler, retryVars, mirror, pendingBash, pc, prepared, fileVars,
                 purpose, inARow, commands>>

(***************************************************************************)
(* Compaction.                                                             *)
(***************************************************************************)
\* the reasons for which _checkCompaction may compact after the reply m
Reason(m, skipAborted) ==
  IF (skipAborted /\ m.kind = "aborted") \/ m.n <= compactedAt THEN {"none"}
  ELSE IF m.kind = "overflow" THEN {IF overflowAttempted THEN "none" ELSE "overflow"}
  ELSE {"none", "threshold"}

\* A compaction for that reason starts, by whoever waits for it.
StartCompaction(reason, messages) ==
  IF reason = "none"
  THEN transcript' = messages /\ UNCHANGED prepared
  ELSE /\ prepared' = [n |-> clock, length |-> Len(entries), sid |-> sid]
       /\ transcript' = IF reason = "overflow" THEN WithoutLastReply(messages) ELSE messages

\* buildSessionContext with the new summary: of what was there when the compaction
\* was prepared the last entry is kept, if this still is its session.
Compacted ==
  LET summary == [kind |-> "summary", n |-> prepared.n, s |-> prepared.sid]
      kept == IF prepared.length = 0 THEN 1 ELSE prepared.length
  IN IF prepared.sid = sid THEN <<summary>> \o SubSeq(entries, kept, Len(entries)) ELSE <<summary>>

Compact(reason) ==
  /\ entries' = Compacted
  /\ compactedAt' = clock
  /\ transcript' = IF reason = "overflow" /\ Last(Compacted).kind \in ErrorKinds
                   THEN Front(Compacted) ELSE Compacted
  /\ timers' = IF reason = "overflow" \/ queued # <<>> THEN timers + 1 ELSE timers

\* a failure, or abortCompaction
CompactionFails == UNCHANGED <<entries, compactedAt, transcript, timers>>

HandlerCompacts ==
  /\ handler.at = "compact"
  /\ handler' = Free
  /\ Compact(handler.reason) \/ CompactionFails
  /\ UNCHANGED <<queued, run, owner, aborting, subscribed, events, retryVars, mirror,
                 pendingBash, pc, prepared, sid, clock, shelf, purpose, inARow, commands>>

(***************************************************************************)
(* _processAgentEvent.                                                     *)
(***************************************************************************)
HandleUser ==
  LET m == Head(events).message IN
  /\ Head(events).type = "user"
  /\ overflowAttempted' = FALSE
  /\ mirror' = IF m.n \in ToSet(mirror)
                THEN RemoveAt(mirror, CHOOSE i \in DOMAIN mirror : mirror[i] = m.n) ELSE mirror
  /\ entries' = Append(entries, m)
  /\ inARow' = 0
  /\ UNCHANGED <<transcript, handler, last, attempt, retrying, timers, prepared>>

HandleReply ==
  LET m == Head(events).message good == m.kind \notin ErrorKinds IN
  /\ Head(events).type = "reply"
  /\ entries' = Append(entries, m)
  /\ last' = m
  /\ overflowAttempted' = (overflowAttempted /\ ~good)
  /\ attempt' = IF good THEN 0 ELSE attempt
  /\ inARow' = IF good THEN 0 ELSE inARow
  /\ UNCHANGED <<transcript, handler, retrying, mirror, timers, prepared>>

\* (mutant) the retry promise is left pending
SettleUnresolved(m, messages) ==
  \E reason \in Reason(m, TRUE) :
    /\ UNCHANGED retrying
    /\ overflowAttempted' = (overflowAttempted \/ reason = "overflow")
    /\ handler' = IF reason = "none" THEN Free
                  ELSE [at |-> "compact", reason |-> reason, message |-> m]
    /\ StartCompaction(reason, messages)

\* nothing to retry (any more): prompts go on, and the context may be compacted
Settle(m, messages) ==
  \E reason \in Reason(m, TRUE) :
    /\ retrying' = FALSE
    /\ overflowAttempted' = (overflowAttempted \/ reason = "overflow")
    /\ handler' = IF reason = "none" THEN Free
                  ELSE [at |-> "compact", reason |-> reason, message |-> m]
    /\ StartCompaction(reason, messages)

\* (mutant) a recovery from an overflow starts the attempts anew
HandleEndForgets ==
  LET m == last IN
  /\ Head(events).type = "agentEnd"
  /\ last' = NoMessage
  /\ \/ /\ m = NoMessage
        /\ UNCHANGED <<transcript, handler, attempt, retrying, overflowAttempted, prepared>>
     \/ /\ m.kind = "error" /\ attempt < MaxRetries
        /\ attempt' = attempt + 1
        /\ retrying' = TRUE
        /\ transcript' = WithoutLastReply(transcript)
        /\ handler' = [at |-> "backoff", reason |-> "none", message |-> m]
        /\ UNCHANGED <<overflowAttempted, prepared>>
     \/ /\ m # NoMessage /\ (m.kind = "error" => attempt >= MaxRetries)
        /\ Settle(m, transcript)
        /\ attempt' = 0
  /\ UNCHANGED <<mirror, timers, entries, inARow>>

HandleEnd ==
  LET m == last IN
  /\ Head(events).type = "agentEnd"
  /\ last' = NoMessage
  /\ \/ /\ m = NoMessage
        /\ UNCHANGED <<transcript, handler, attempt, retrying, overflowAttempted, prepared>>
     \/ /\ m.kind = "error" /\ attempt < MaxRetries
        /\ attempt' = attempt + 1
        /\ retrying' = TRUE
        /\ transcript' = WithoutLastReply(transcript)
        /\ handler' = [at |-> "backoff", reason |-> "none", message |-> m]
        /\ UNCHANGED <<overflowAttempted, prepared>>
     \/ /\ m # NoMessage /\ (m.kind = "error" => attempt >= MaxRetries)
        /\ Settle(m, transcript)
        /\ attempt' = IF m.kind = "error" THEN 0 ELSE attempt
  /\ UNCHANGED <<mirror, timers, entries, inARow>>

ProcessAgentEvent ==
  /\ handler = Free /\ events # <<>>
  /\ events' = Tail(events)
  /\ HandleUser \/ HandleReply \/ HandleEnd
  /\ UNCHANGED <<queued, run, owner, aborting, subscribed, pendingBash, pc, sid, clock,
                 compactedAt, shelf, purpose, commands>>

BackoffEnds ==
  /\ handler.at = "backoff"
  /\ handler' = Free
  /\ timers' = timers + 1
  /\ inARow' = inARow + 1
  /\ UNCHANGED <<agentVars, subscribed, events, retryVars, mirror, pendingBash, pc, prepared,
                 fileVars, purpose, commands>>

(***************************************************************************)
(* prompt.                                                                 *)
(***************************************************************************)
LastReply(ms) == LET r == {i \in DOMAIN ms : IsReply(ms[i])} IN
                 IF r = {} THEN NoMessage ELSE ms[CHOOSE i \in r : \A j \in r : j <= i]

\* while the agent runs a prompt is queued
PromptSteers(p) ==
  /\ pc[p] = "idle" /\ Ready /\ purpose = "none"
  /\ run = "running"
  /\ pc' = [pc EXCEPT ![p] = "done"]
  /\ queued' = Append(queued, New("user"))
  /\ mirror' = Append(mirror, clock + 1)
  /\ Tick
  /\ UNCHANGED <<transcript, run, owner, aborting, subscribed, events, handler, retryVars,
                 pendingBash, timers, prepared, sid, entries, compactedAt, shelf, purpose, inARow,
                 commands>>

PromptBegins(p) ==
  LET messages == transcript \o pendingBash IN
  /\ pc[p] = "idle" /\ Ready /\ purpose = "none"
  /\ PromptsTakeTurns => ~retrying /\ timers = 0 /\ \A q \in Prompts : pc[q] \in {"idle", "done"}
  /\ run = "idle"
  /\ entries' = entries \o pendingBash
  /\ pendingBash' = <<>>
  /\ \E reason \in IF LastReply(messages) = NoMessage THEN {"none"}
                   ELSE Reason(LastReply(messages), FALSE) :
       /\ overflowAttempted' = (overflowAttempted \/ reason = "overflow")
       /\ pc' = [pc EXCEPT ![p] = IF reason = "none" THEN "ready" ELSE reason]
       /\ StartCompaction(reason, messages)
  /\ UNCHANGED <<queued, run, owner, aborting, subscribed, events, handler, last, attempt,
                 retrying, mirror, timers, sid, clock, compactedAt, shelf, purpose, inARow, commands>>

PromptCompacts(p) ==
  /\ pc[p] \in Reasons
  /\ pc' = [pc EXCEPT ![p] = "ready"]
  /\ Compact(pc[p]) \/ CompactionFails
  /\ UNCHANGED <<queued, run, owner, aborting, subscribed, events, handler, retryVars, mirror,
                 pendingBash, prepared, sid, clock, shelf, purpose, inARow, commands>>

\* agent.prompt, which throws if another run has begun meanwhile
PromptRuns(p) ==
  /\ pc[p] = "ready" /\ Ready
  /\ IF run = "idle"
     THEN /\ Begins(p, <<New("user")>> \o Polled)
          /\ queued' = Unpolled
          /\ pc' = [pc EXCEPT ![p] = "running"]
          /\ Tick
     ELSE pc' = [pc EXCEPT ![p] = "done"] /\ UNCHANGED <<agentVars, events, clock>>
  /\ UNCHANGED <<subscribed, handler, retryVars, mirror, pendingBash, timers, prepared,
                 sid, entries, compactedAt, shelf, purpose, inARow, commands>>

\* waitForRetry
PromptWaits(p) ==
  /\ \/ pc[p] = "ended" /\ pc' = [pc EXCEPT ![p] = IF retrying THEN "waiting" ELSE "done"]
     \/ pc[p] = "waiting" /\ ~retrying /\ run = "idle" /\ pc' = [pc EXCEPT ![p] = "done"]
  /\ UNCHANGED <<agentVars, subscribed, events, handler, retryVars, mirror, pendingBash, timers,
                 prepared, fileVars, purpose, inARow, commands>>

(***************************************************************************)
(* Other commands.                                                         *)
(***************************************************************************)
\* (mutant) the promise is left to the handler
AbortRetryOnly ==
  /\ aborting' = (run = "running")
  /\ IF handler.at = "backoff"
     THEN /\ attempt' = 0 /\ inARow' = 0
          /\ handler' = Free
          /\ UNCHANGED <<overflowAttempted, transcript, prepared, retrying>>
     ELSE UNCHANGED <<handler, attempt, overflowAttempted, transcript, prepared, retrying, inARow>>

\* abortRetry and agent.abort; a sleeping handler goes on as if there were nothing to retry
AbortAll ==
  /\ aborting' = (run = "running")
  /\ IF handler.at = "backoff"
     THEN Settle(handler.message, transcript) /\ attempt' = 0 /\ inARow' = 0
     ELSE /\ retrying' = FALSE
          /\ UNCHANGED <<handler, attempt, overflowAttempted, transcript, prepared, inARow>>

Abort ==
  /\ Ready /\ Command
  /\ AbortAll
  /\ UNCHANGED <<queued, run, owner, subscribed, events, last, mirror, pendingBash, timers, pc,
                 fileVars, purpose>>

\* _disconnectFromAgent and abort, the beginning of newSession, switchSession and compact
Disconnect(why) ==
  /\ Ready /\ Command /\ purpose = "none"
  /\ why = "resume" /\ SwitchesAreClean => queued = <<>>
  /\ why = "compact" /\ CompactionIsFast =>
       ~retrying /\ timers = 0 /\ \A p \in Prompts : pc[p] # "ready"
  /\ purpose' = why
  /\ subscribed' = FALSE
  /\ AbortAll
  /\ UNCHANGED <<queued, run, owner, events, last, mirror, pendingBash, timers, pc, fileVars>>

\* abort has waited for the run, and the session is connected again
Reconnect(why) ==
  /\ purpose = why /\ run = "idle"
  /\ purpose' = "none"
  /\ subscribed' = TRUE
  /\ UNCHANGED <<run, owner, aborting, events, handler, retryVars, pendingBash, timers, pc,
                 prepared, clock, commands>>

Left == [id |-> sid, entries |-> entries, compactedAt |-> compactedAt]

\* (mutant) the agent is not reset
NewSessionKeepsAgent ==
  /\ Ready /\ Reconnect("new")
  /\ mirror' = <<>> /\ inARow' = 0
  /\ sid' = commands + 1 /\ entries' = <<>> /\ compactedAt' = 0 /\ shelf' = Left
  /\ UNCHANGED <<transcript, queued>>

NewSession ==
  /\ Ready /\ Reconnect("new")
  /\ transcript' = <<>>
  /\ queued' = <<>>
  /\ mirror' = <<>> /\ inARow' = 0
  /\ sid' = commands + 1 /\ entries' = <<>> /\ compactedAt' = 0 /\ shelf' = Left

\* what the agent has queued stays there
SwitchSession ==
  /\ Ready /\ Reconnect("resume")
  /\ transcript' = shelf.entries
  /\ mirror' = <<>> /\ inARow' = 0
  /\ sid' = shelf.id /\ entries' = shelf.entries /\ compactedAt' = shelf.compactedAt
  /\ shelf' = Left
  /\ UNCHANGED queued

\* A fork begins with copies of what was said before the message of entry k, a message
\* of the user that came after the last compaction.
Fork(k) ==
  LET copies == [i \in 1 .. k - 1 |-> [entries[i] EXCEPT !.s = commands + 2]] IN
  /\ Ready /\ Command /\ purpose = "none"
  /\ SwitchesAreClean => run = "idle" /\ ~retrying /\ queued = <<>>
  /\ entries[k].kind = "user" /\ entries[k].n > compactedAt
  /\ transcript' = copies
  /\ sid' = commands + 2 /\ entries' = copies /\ shelf' = Left /\ inARow' = 0
  /\ UNCHANGED <<queued, run, owner, aborting, subscribed, events, handler, retryVars, mirror,
                 pendingBash, timers, pc, prepared, clock, compactedAt, purpose>>

\* compact, once the run has ended: there may be nothing to compact
CompactStarts ==
  /\ HandlersDone /\ (CompactionIsFast => handler.at # "compact" /\ timers = 0)
  /\ \/ /\ purpose = "compact" /\ run = "idle"
        /\ purpose' = "compacting"
        /\ prepared' = [n |-> clock, length |-> Len(entries), sid |-> sid]
        /\ UNCHANGED <<agentVars, subscribed, events, handler, retryVars, mirror, pendingBash,
                       timers, pc, fileVars, inARow, commands>>
     \/ /\ Reconnect("compact")
        /\ UNCHANGED <<transcript, queued, mirror, sid, entries, compactedAt, shelf, inARow>>

CompactEnds ==
  /\ Reconnect("compacting")
  /\ \/ entries' = Compacted /\ compactedAt' = clock /\ transcript' = Compacted
     \/ UNCHANGED <<entries, compactedAt, transcript>>
  /\ UNCHANGED <<queued, mirror, sid, shelf, inARow>>

ClearQueue ==
  /\ Ready /\ Command /\ queued # <<>>
  /\ queued' = <<>>
  /\ mirror' = <<>>
  /\ UNCHANGED <<transcript, run, owner, aborting, subscribed, events, handler, retryVars,
                 pendingBash, timers, pc, prepared, fileVars, purpose, inARow>>

\* (mutant) the result is only remembered by the agent
RecordBashUnsaved ==
  LET m == New("bash") IN
  /\ Ready /\ Command
  /\ IF run = "running"
     THEN pendingBash' = Append(pendingBash, m) /\ UNCHANGED <<transcript, entries, inARow>>
     ELSE /\ transcript' = Append(transcript, m)
          /\ inARow' = 0
          /\ UNCHANGED <<pendingBash, entries>>
  /\ Tick
  /\ UNCHANGED <<queued, run, owner, aborting, subscribed, events, handler, retryVars, mirror,
                 timers, pc, prepared, sid, compactedAt, shelf, purpose>>

RecordBash ==
  LET m == New("bash") IN
  /\ Ready /\ Command
  /\ IF run = "running"
     THEN pendingBash' = Append(pendingBash, m) /\ UNCHANGED <<transcript, entries, inARow>>
     ELSE /\ transcript' = Append(transcript, m)
          /\ entries' = Append(entries, m)
          /\ inARow' = 0
          /\ UNCHANGED pendingBash
  /\ Tick
  /\ UNCHANGED <<queued, run, owner, aborting, subscribed, events, handler, retryVars, mirror,
                 timers, pc, prepared, sid, compactedAt, shelf, purpose>>

Replies == ReplyAndGoOn \/ \E kind \in ReplyKinds : ReplyAndEnd(kind) \/ Throws(kind)
Prompting(p) ==
  PromptSteers(p) \/ PromptBegins(p) \/ PromptCompacts(p) \/ PromptRuns(p) \/ PromptWaits(p)

Switching == NewSession \/ SwitchSession \/ CompactStarts \/ CompactEnds

Next ==
  \/ Replies
  \/ ProcessAgentEvent \/ HandlerCompacts \/ BackoffEnds \/ TimerFires
  \/ \E p \in Prompts : Prompting(p)
  \/ Abort \/ ClearQueue \/ RecordBash
  \/ \E why \in {"new", "resume", "compact"} : Disconnect(why)
  \/ Switching
  \/ \E k \in DOMAIN entries : Fork(k)

Spec == Init /\ [][Next]_vars

\* The model answers, timers go off, extensions and compactions end.
FairSpec ==
  /\ Spec
  /\ WF_vars(Replies)
  /\ WF_vars(ProcessAgentEvent) /\ WF_vars(HandlerCompacts)
  /\ WF_vars(BackoffEnds) /\ WF_vars(TimerFires)
  /\ WF_vars(Switching)
  /\ \A p \in Prompts : WF_vars(PromptCompacts(p) \/ PromptRuns(p) \/ PromptWaits(p))

(***************************************************************************)
(* Properties.                                                             *)
(***************************************************************************)
AtRest ==
  /\ run = "idle" /\ events = <<>> /\ handler = Free /\ timers = 0 /\ purpose = "none"
  /\ \A p \in Prompts : pc[p] \in {"idle", "waiting", "done"}

\* However faults, overflows, compactions and queued messages alternate, without new
\* input, a good reply or a retry that the user cancels there are at most maxRetries
\* retries in a row.
RetriesBounded == inARow <= MaxRetries

\* While a retry promise is pending something is under way that will settle it.
RetryUnderWay ==
  retrying => run = "running" \/ events # <<>> \/ handler # Free \/ timers > 0

\* "Retry failed - will be caught by next agent_end": once an attempt is counted (and
\* not given up, cancelled or answered) the promise of the retry has something under
\* way that will settle it, whatever the run of the retry does.
RetryIsCaught == attempt > 0 => RetryUnderWay

\* The context of the next request and the session file hold the same messages, but
\* for the replies that failed.
Good(ms) == {m \in ToSet(ms) : m.kind \notin ErrorKinds \cup {"aborted"}}
ContextFollowsFile == AtRest => Good(transcript) = Good(entries)

\* Nothing that was said or summarised in a session gets into another one, whatever was
\* under way when a session was begun, resumed or forked.
NothingSaidCrosses ==
  purpose = "none" =>
    \A m \in ToSet(entries) \cup ToSet(transcript) : m.kind # "bash" => m.s = sid

\* Left alone, the session comes to rest and no prompt is left waiting: every retry and
\* recovery ends, and they do not feed each other for ever.
SessionSettles == []<>(AtRest /\ \A p \in Prompts : pc[p] # "waiting")
===============================================================================
