# A TLA+ model of MoneyShot

MoneyShot is a chat application for revenue recovery. A browser application
(`src/frontend/packages/web-ui/example/`) signs the user in with Google and talks
to an agent backend (Hermes) that sends WhatsApp messages with two scripts
(`src/backend/hermes/skills/`). The frontend is built on the packages of a coding
agent that are kept in the same tree (`src/frontend/packages/*`): an agent loop, model
providers, a session store, a terminal UI, a Slack bot.

This directory holds TLA+ modules translated from that source, TLC
configurations that check them on small instances, and theorems about them
checked by TLAPS. `PROJECT.json` is the index: which definition models which
lines, what each run checks, which deliberate bug breaks each property, and which
hazards of the code the properties are for.

## 1. Inventory

| Part | Source | State it keeps | Operations | What makes it hard | Correct when |
|---|---|---|---|---|---|
| Bulk sender | `send-whatsapp-bulk/scripts/bulk.js`, `db/init.sql` | table `customer_messages` (status, scheduled_at, attempts, created_at), `customers`, daily disconnected ticks | `start` (stage), `dispatch` (cron, every minute), `status`, `disconnect-report` | every run is a process and every statement commits by itself; runs overlap, die, time out | one run per message, bounded attempts, pacing and cooldown, nothing lost |
| WhatsApp link | `whatsapp-web/scripts/wa.js` | per account: `status.json`, `creds.json`, `worker.pid` | `link`, detached worker, `status`, `send`, `logout`, `serve` | files shared by processes without locks; a worker outlives its command; link racing logout | `connected` only after a live open, at most one worker per account |
| Backend for frontend | `backend/bff/main.py` | none between requests | token check, proxy to `wa.js serve` and Hermes, read-only statistics | almost no state | authorisation before proxying |
| Chat application | `web-ui/example/src/main.ts` | signed-in user, ID token, refresh in flight, agent, current session id, WhatsApp status | sign in/out, silent refresh, fetch wrapper, new chat, restore, save, connect and poll | callbacks and awaits interleave; a refresh, a sign-out and a save cross | one refresh at a time, requests carry a live token, a new chat starts empty |
| Agent | `agent/src/agent.ts` | active run, transcript, pending tool calls, steering and follow-up queues | prompt, continue, steer, followUp, abort, reset, subscribe | runs are asynchronous; listeners, abort and queueing land between any two steps | one run at a time, every queued message delivered once, idle means settled |
| Agent loop | `agent/src/agent-loop.ts` | context, new messages, tool batch | stream a response, run tools sequentially or in parallel, poll queues | parallel tools, abort in the middle of a batch | each tool call has exactly one result when the next request is made |
| Agent session | `coding-agent/src/core/agent-session.ts` | queue mirrors, retry counter, overflow flag, compaction and retry controllers, pending bash messages | prompt, steer, retry with backoff, compaction, new/switch/fork/navigate | timers, retries and compaction cross with user prompts and aborts | bounded retries, one overflow recovery per prompt, mirrors agree with the agent's queues |
| Session manager | `coding-agent/src/core/session-manager.ts` | append-only tree of entries, leaf, labels, file | append, branch, fork, label, compaction entries, load, migrate | deferred persistence, crash between writes, forks that leave entries out | the file replays to the tree; a context is the path from root to leaf |
| Credential store | `coding-agent/src/core/auth-storage.ts` | cached credentials, load error, file under a lock | set, remove, reload, get key, refresh OAuth under lock | several processes share one file; locks go stale | no lost update, one refresh per expiry |
| Settings | `coding-agent/src/core/settings-manager.ts` | global and project settings, modified fields | set, flush, reload | file shared by processes | only modified fields are written |
| Extensions, tools, modes, RPC | `coding-agent/src/core/{extensions,tools}`, `src/modes` | registries, file mutation queue, RPC ids | load, dispatch events, edit files, serve requests | per-file serialisation, request/response pairing | edits of one file never interleave |
| Slack bot | `mom/src` | per channel queue, running agent, event files | enqueue, run, stop, scheduled events | Slack events race with file events | one run per channel, queue bounded |
| Model providers | `ai/src` | stream of events per request | stream, complete, OAuth login and refresh | event ordering, abort | events are well bracketed, exactly one end |
| Terminal UI | `tui/src` | input buffer, editor, kill ring, undo stack, overlays | key handling, rendering | partial escape sequences, undo coalescing | input reassembled, undo restores |
| Web UI components | `web-ui/src` | IndexedDB stores, sandbox frames, message router | render, store, run sandboxed code | messages from several frames | replies reach the frame that asked |
| Pod manager | `pods/src` | list of pods and models | ssh commands | pure I/O | - |

How they interact: the chat application calls the backend over HTTP and polls it;
the backend spawns `wa.js`; Hermes runs `bulk.js start` in a terminal tool and cron
runs `bulk.js dispatch`, which spawns `wa.js status` and `wa.js send`. The agent loop
calls a stream function and tools and reports events to the agent, which reduces
them into its state and awaits its listeners; an agent session is such a listener
and also calls back into the agent, the session manager and the credential store.

## 2. Modules and plan

The order is by importance to this application and by how hard the behaviour is to test.

| Section | Modules | Models | Proofs |
|---|---|---|---|
| 3 | `BulkSend`, abstract `MessageLifecycle` | `bulk.js` | `BulkSendProofs` |
| 4 | `WaLink` | `wa.js` | `WaLinkProofs` |
| 5 | `Agent`, abstract `Mailbox` | `agent.ts`, `agent-loop.ts` | `AgentProofs` |
| 6 | `ChatLogin` | sign-in and credential of `main.ts` | `ChatLoginProofs` |
| 7 | `ChatHistory` | conversations of `main.ts`, IndexedDB | `ChatHistoryProofs` |
| 8 | `AgentSession` | `agent-session.ts` over an abstracted agent | `AgentSessionProofs` |
| 9 | `SessionFile` | `session-manager.ts` | `SessionFileProofs` |
| 10 | `AuthStorage` | `auth-storage.ts` | `AuthStorageProofs` |

Each `MC*` module gives a module its constants for TLC, each `.cfg` is one run. Models that
depend on each other meet in their assumptions: `BulkSend` allows every answer that
`WaLink`'s commands can give, `AgentSession` an agent that polls its queues and always ends its runs, as
`Agent` shows, and `ChatHistory` leaves to `ChatLogin` who is signed in when.

Every safety and action property of the passing runs is a theorem, some under conditions named in their sections;
liveness is model-checked only. Left for later: the parts in section 11.

Every module has a type invariant, which the proofs establish for all constants; the runs spend their time on other
properties.

## 3. Bulk sender

`BulkSend.tla` is `bulk.js`. The variable `msgs` is the table `customer_messages` (a row's
id is its position), `customers` and `ticks` are the other two tables. `disp[d]` and
`starter[s]` are the local variables of a running `dispatch` or `start`, and their `pc`
names the next `await`. Each awaited statement is an action, so that runs interleave
exactly where the event loop and the database let them:

| Action | Code |
|---|---|
| `DispatchBegin`, `DispatchOutsideWindow` | the window test on `now`, read once |
| `DispatchPeek` | `duePeek` |
| `DispatchConnected`, `DispatchDisconnected` | `wa.js status`; the disconnected tick |
| `DispatchGap` | the pacing query |
| `DispatchClaim`, `DispatchNothingLeft` | the claim with `FOR UPDATE SKIP LOCKED`, one atomic statement, and the loop bound |
| `DispatchCooldown`, `DispatchSkip` | the cooldown query and the skip, after which the loop goes round |
| `DispatchSend` | `waSend`: accepted, refused, or answered "timeout" by the 45 s guard of `wa.js` although the message arrives |
| `DispatchRecord` | the three final UPDATEs |
| `StartBegin` ... `StartEnd` | `cmdStart`: tail, then per recipient block reason, upsert, insert |
| `ClockTick`, `DispatchCrash`, `StartCrash` | time; a killed container or a query that throws |

`sends` is a history variable: every call of `waSend` with its row, attempt number, time,
and whether the message really went out. Recipients come normalised: the phone number
normalisation is a pure function and is left out here. The disconnected branch of `start`
and its argument errors change nothing and are not actions; the same holds for `status`
and `disconnect-report`. `StartCheck` takes the two queries of `blockReason` (bulk.js:123, 128) as one step: with one
`start` at a time nothing can come between them that either would notice (a row that is not pending does not become sent);
with several, the second query could see a message staged by another `start` and sent after the first.

Time is abstract. What matters is the order of the constants, which the instances keep:
delays < cooldown, and a day with a scheduling window and a longer sending window. (The gap
is shorter than the delays in the code; some instances make it longer, so that it bites.)

### Runs

- `bulk_dispatch` (two overlapping dispatchers, one batch of two numbers, one crash):
  a message is held by at most one run and says 'sending' meanwhile
  (`ClaimExclusive`); the attempts column counts the calls of `waSend` across crashes and
  disconnections and never exceeds the budget (`AttemptsCountSends`);
  retries are put off (`RetriesPaced`); the whole implements `MessageLifecycle` (`ImplementsLifecycle`).
- `bulk_days` (one start at a time, three rows, two batches on one day or on two): a number has at most one message waiting
  (`NoDuplicatePending`); messages that wait for their first attempt keep the delay of the schedule, across batches and
  although the tail of the queue is read only once, and a number is staged again only a cooldown after the staging of a
  message it was sent (`StagedApart`). A consequence worth knowing: with one `start` at a time the dispatcher's cooldown
  skip never fires. The day has four units, the window three, the cooldown two and the clock six (0..5), so that a number
  that was sent on the first day is staged again on that day and on the next one, and is refused on the
  next one while its cooldown still runs: TLC reaches all three, and the mutant that counts the cooldown within the day
  breaks the property there, as the mutant that forgets the batch's base breaks the spacing.
- `bulk_two_starts` (two batches staged concurrently, one dispatcher): the run in which the skip
  fires. With fair scheduling and no crash every staged message leaves the queue (`Dispatched`). Fairness: time
  passes, cron starts runs and the operating system schedules them (weak fairness of
  `DispatchStep`), and WhatsApp is not disconnected for ever (strong fairness of
  `DispatchConnected`). Nothing is assumed of `start`.

### Where the code differs from what it says

No run is kept for these two; TLC shows each in seconds when the statement is written down as an
invariant:

- "don't send if a real send happened < MIN_SEND_GAP ago"
  (bulk.js:322). The query uses `created_at`, the staging time, so overdue messages go out on
  consecutive cron ticks (60 s < 75 s). The cooldown queries (bulk.js:129, 344) have the same cause. No property here
  is about the gap between two sends; `StagedApart` says what does hold, a distance between stagings.
- "Caught even if the first hasn't sent yet" (bulk.js:119). Two
  overlapping starts both find nothing pending.

A third is known to its authors: a run that dies after its claim leaves the row 'sending'
for ever (testcases.md:160), and `Dispatched` is therefore checked without crashes.

Not modelled as findings: SOUL.md:10 speaks of a cap of 15 numbers that bulk.js:9 says does not
exist; testcases.md:56 expects a batch with an invalid number to be rejected as a whole, the code
queues the valid ones.

### Bounds

Two numbers, two or three rows and two dispatchers are enough for every pair
interaction the properties speak of (all of them relate at most two rows, two sends or
two runs). `MaxStarts`, `MaxRows`, `MaxCrashes`, `MaxTicks` and `Horizon` bound batches, rows,
deaths, counted ticks and time. `StartInsert` also leaves `MinSendGap` of modelled time after
an insertion, so that the clock does not stop with a message blocked by the gap.

### Theorems (`BulkSendProofs`)

For every number of processes, rows and attempts and any constants that satisfy the
assumptions of `BulkSend`:

- `TypeCorrect`: the type invariant, by one lemma per process kind.
- `ClaimsAreExclusive`: `ClaimExclusive` is inductive relative to `TypeOK`. A claim takes a row that says
  'scheduled', which no holder's row does; and only the holder writes a row (`TableStep`).
- `TerminalRowsAreFinal`: settled rows are never written again (`TerminalIsFinal`), from the same lemma.
- `NoDuplicateStaging`: assuming at most one starter. `NoDuplicatePending` alone is not inductive; the
  strengthening `CheckStillTrue` says that between `blockReason` and the INSERT the number still
  has nothing waiting, since dispatchers only take rows out of the queue.
- `StagedStaysApart`: `StagedApart`, assuming at most one starter. `ApartInv` carries what `start` read over the steps to its
  INSERT: every fresh row (scheduled, never attempted) is due no later than the batch's base and by the end of the batch's
  window, the number has no open row, and its last send was a cooldown ago. It also says of the table that only the last row of
  a number may be open, which is why a row that becomes 'sent' later spoils no distance already kept. `Ages` is what any
  dispatcher step may do to the table, and `AgesKeeps` that all of this survives it; `EndOfMonotone` that a later instant
  belongs to no earlier day.

Three more relate the calls of `waSend` to the table:

- `AttemptsCount`: `AttemptsCountSends`. The strengthening `CountInv` adds what the holder of a row knows: its copy of
  the attempts is the row's, calls 1..attempts were made, and one more as soon as it has called. A crash between the call and
  the record leaves the row 'sending' for ever, so nobody counts from the stale number again.
- `RetriesArePaced`: `RetriesPaced`. `PaceInv` says that a waiting row is put off at least `DelayMin` from the run
  of each of its calls, and that a run that holds a row began no earlier than any run that called for it, by
  `DelayMin` at least until it calls itself.
- `LifecycleImplemented`: `ImplementsLifecycle`. A step moves at most one row, along a step of `MessageLifecycle`;
  `CountInv` decides between 'claimed' and 'called', which the table does not tell apart.

Liveness is model-checked only.

## 4. WhatsApp link

`WaLink.tla` is `wa.js` for one account: accounts use different directories and share
nothing. The variables `dir`, `status`, `creds` and `pid` are the session directory and its
files (`dir` because removing the directory and writing into it again are different from
writing a file that is there); `worker[w]`, `cmd[c]` and `sender[t]` are the local states of the
detached workers, of the links and logouts and of the sends; `devices` is what WhatsApp regards as linked. `opened`,
`told` and `last` are history: devices that had a live open, devices a process was told
are logged out, and the last command that reset the directory.

| Action | Code |
|---|---|
| `LinkAnswered`, `LinkBegin`, `LinkKill`, `LinkStatus`, `LinkSpawn`, `LinkPid`, `LinkReturn` | `cmdLink`, one action per access to the directory |
| `WorkerBoot`, `WorkerConnect` | `cmdWorker` and `connect` with `makeSock` |
| `WorkerQr`, `WorkerQrWritten` | the QR branch of `connection.update`, before and after the awaited images |
| `WorkerScanned` | the pairing and its `creds.update`; it may stop halfway |
| `WorkerOpen`, `WorkerFinish` | the open, and `finish(0)` 1.5 s later |
| `WorkerClose`, `WorkerReconnect`, `WorkerLoggedOut` | the close branch |
| `WorkerTimeout`, `WorkerCrash` | the 240 s timer; a worker that dies |
| `LogoutKill`, `LogoutUnlink`, `LogoutWipe` | `cmdLogout` |
| `SendBegin`, `SendConnect`, `SendReturn`, `SendLoggedOut` | `cmdSend` and its `makeSock` |
| `WorkerSave`, `SendSave` | `creds.update` of an open socket (wa.js:139), at any moment of its life |
| `CommandCrash`, `PhoneUnlinks` | a killed command; the user removes the device on the phone |

Processes are interrupted between any two actions. One action is one access of a command to the directory, or
what it does next to it without an await: `killWorker` with the check before it (`LinkKill`), or with the look at
creds.json after it (`LogoutKill`). A handler of a worker runs to its next await, as in the event loop. The two awaits of
`makeSock`, the read of the credentials and the request for the version, are one step: nothing is written between them, and
a socket does nothing before. `serve` only spawns the commands, and `status` only reads.

### Runs

- `wa_link` (one link or logout at a time, beside a send that overlaps any of them; three workers, three pairings,
  deaths): `link` and `logout` find a worker only
  through worker.pid, so a live worker must be named there or be about to be
  (`WorkerFindable`); `isLinked` is never true of a half-finished pairing (`ConnectedWasOpened`);
  nothing revives a logged-out session, neither a late save of a worker nor one of a `send` that read the credentials
  before the logout: its directory is gone, and the save fails
  (`LogoutSticks`; a save that made the directory would violate it); an account stops being linked only by a logout, by a
  worker that learns that WhatsApp dropped its device, or by a link that found it unlinked a moment before (`StaysLinked`).
  Unless a process dies, each attempt to link ends in linked, timeout, error or none
  (`LinkSettles`). Fairness: started processes run and the 240 s timer fires; nobody has to scan,
  and WhatsApp need not answer. A worker that dies leaves its status behind for ever, and the code
  says nothing else.

### Where the code differs from what it says

- Two overlapping links (the chat and the connect screen) both find no
  worker to kill, because worker.pid is written after the spawn. The QR of one worker then
  overwrites the link of the other ("so a number stays linked across restarts until it is logged
  out", wa.js:15).
- A `send` that is told the device is logged out writes nothing, so the
  account still counts as linked (wa.js:153 calls `isLinked` authoritative).
- With two sends at a logout, credentials may come back: one has read them, the other makes the directory again
  (wa.js:127) after the logout, and the first saves. `isLinked` stays false, as there is no status, but the creds.json that the
  logout removed is there (`LogoutSticks` fails in 24 steps).
- A send saves over what a link has paired since, when both devices are good at WhatsApp: the account then answers for the
  older one. It is a device that was opened, so `ConnectedWasOpened` allows it.

Three conditions of `wa_link` are needed as well. `LongSends` = FALSE: a send that found the account linked, but read
the credentials of a later link whose pairing is not open yet, is over before that pairing is replaced. A send takes 45 s at
most; if it survived a logout and another link, its save would put a device on disk that never opened
(`ConnectedWasOpened` fails in 48 steps). `Killable` leaves out the point between the spawn and
worker.pid: a link killed there leaves a worker that the next link does not kill ("Kill any prior
worker", wa.js:204). `SlowQr` = FALSE says that the images of a QR are written before the restart of the
stream, 1.5 s later: otherwise the late status overwrites `connected:true`, the "authoritative
signal" (wa.js:278).

### Bounds

Every property speaks of at most two workers and two devices (an old and a new one), hence
`MaxDevices` = 3 and `MaxSpawns` = 3, one to spare; `MaxCrashes` and `MaxKills` bound deaths. `LinkBegin` waits for a free
worker, so that a link is not stuck at the bound.

### Theorems (`WaLinkProofs`)

For every number of workers, pairings and deaths:

- `TypeCorrect`: no assumption beyond `BoundAssumption`.
- `WorkersAreFindable`: under `Serial` (one link or logout at a time, not killed between the spawn and worker.pid) and
  beside any number of sends. The two overlapping links above and the condition on `Killable` show that neither half can be
  dropped. `FindInv` adds to `WorkerFindable` at which points of a command no worker is alive.
- `LogoutsStick`: under `Serial` and `OneSender` (one send at a time, see above). `LogoutInv` adds that after a logout a send
  holds no credentials or there is no directory to save them in.
- `ConnectedWereOpened`: under `Serial` and without `LongSends`, any number of sends. `LinkedInv` adds that a live worker of a
  connected account is the one that opened it, and that what a worker is about to open is on disk, unless a send has put an
  opened device there.
- `LinkedStaysLinked`: `StaysLinked`, under the same and without `SlowQr`, which the divergence above needs. `LinkedInv` leaves
  one worker that could undo a link, the one that opened it; `LateInv` adds that no image of a QR is pending
  there, since a worker with a pending image holds no credentials and does not restart.

Liveness is model-checked only.

## 5. Agent

`Agent.tla` is `agent.ts` and `agent-loop.ts`, in one module because the loop is a sequential
process that shares its queues with the agent and reports to it at every step. `messages`, `partial`
(is there a `streamingMessage`), `pendingToolCalls`, `steering`, `followUp` and `aborted` are the
agent's; `pc` is where the loop waits ("idle" when there is no `activeRun`), `context`, `pending` and
`skip` are its locals and `todo`, `prepared`, `running` and `results` those of
`executeToolCalls*`. `executing` holds the tools at work, which outlive a loop that throws.
A message is its role and a number; a tool call is the number of its reply and its position in it.
`via` and `delivered` are history: how each message was handed over, and the order in which they
entered the transcript.

| Action | Code |
|---|---|
| `Steer`, `FollowUp`, `ClearQueues`, `Abort`, `Reset` | the methods of the same name |
| `Prompt`, `ContinueSteering`, `ContinueFollowUps`, `ContinueTranscript` | `prompt`; the branches of `continue`; `runWithLifecycle` |
| `PromptEmitted`, `InitialPoll`, `Inject` | `runAgentLoop`; the first poll; the pending messages of `runLoop` |
| `RequestReply`, `ReplyStarts`, `ReplyEnds` | `streamAssistantResponse` |
| `CallStarts`, `PrepareCall`, `RefuseCall`, `LaunchCalls`, `ToolReturns`, `FinalizeCall`, `BatchDone` | `executeToolCallsSequential` and `executeToolCallsParallel` |
| `PollSteering`, `PollFollowUps`, `FinishRun` | the end of a turn, of the inner loop, of the run |
| `LoopThrows`, `HandleRunFailure` | a listener or hook throws; `handleRunFailure` |
| `DropFailure` | how an agent session takes a failed reply off the transcript before it continues |

The listeners of every event are awaited, so the user's actions fall between any two steps. The start and
end event of a message that does not stream are one step. `reset` is called between runs only, as
`AgentSession.newSession` does. The options of an agent are fixed when it is created.

`Mailbox.tla` is what the agent promises of messages: each goes from new to queued to
taken to delivered, or ends up cleared (it was queued) or lost (it was taken); a run
takes messages only when it has delivered those it took before, and does not close while it holds one. Messages are
lost only in the step in which a running run fails (`Fail`, from "running" to "failing"), and while it is failing nothing is taken or
delivered. The refinement mapping knows a cleared message by the history variable `cleared`, which only `ClearQueues` and
`Reset` write. A message that vanishes in any other way is in none of these places: it maps to "lost" without a failure, and no
step of `Mailbox` does that. So an abort that empties the queues, or a poll that loses what it drained, violates the
refinement, as the two mutants of this property show.

### Runs

- `agent` (three messages, two calls, one incident): messages of one queue are delivered in order,
  one per reply in one-at-a-time mode, also when `continue` takes the first,
  and follow-ups only when there are no tool calls left (`DeliveryOrder`). Each request to the model has
  the results of all calls, right behind the reply that made them, also after an abort
  (`RequestsComplete`). The agent's transcript, rebuilt from events, is the loop's context
  (`TranscriptMatches`). Between runs nothing is pending, and a tool at work is shown as pending unless a run was cut
  short (`RunSettled`). `ImplementsMailbox` is the refinement. `RunEnds` is checked under weak fairness of
  the loop and of tools that return: JavaScript runs the continuation of a settled
  promise, a stream ends by its protocol, and a tool that never returns does block a run in the code, also after an
  abort. `MaxToolTurns` stands for a model that stops calling tools some time.

`FollowUpsWait` and `RequestsComplete` say nothing once a listener or a hook has thrown (`faults`): the failure is then
recorded as an assistant message and calls stay without result.

### Where the code differs from what it says

"Final tool results are still emitted in assistant source order" (types.ts:34, agent
README:106). A call that is refused (unknown tool, bad arguments, blocked by the hook) is
answered during the preparation, before the results of earlier calls.

### Bounds

Three messages are the least for two of one queue behind a prompt; two calls are the least
for an order among results. An incident is a failing reply, a throw, an abort, a clear or a
reset: with one of them every property above can be broken by a mutant of the code, and every action
occurs; what two incidents do to one another is left to the theorems. The two options of `MCOptions` take both
branches of each mode, which do not meet in the code. The agent is idle at the end when all messages are
used, so deadlock is not checked; `RunEnds` shows that it does not stop anywhere else.

### Theorems (`AgentProofs`)

For every number of messages, calls, turns and incidents and any set of options:

- `TypeCorrect`: `TypeInv` adds to `TypeOK` that a run in "prompts" has a prompt left.
- `TranscriptsMatch`: `TranscriptInv` says how far transcript and context are apart at each point: by the
  prompts that are left at the start of a run, and by the results of the batch while tools run.
- `RunsSettle`: `BatchInv` says that the calls of a batch stand in three queues, each call in one of them;
  `PendingInv` that the pending calls are those started and not answered; `ExecutingInv` that only the launched ones are
  at work, unless a run was cut short.
- `RequestsAreComplete`: `RequestsComplete`. While the batch of the last reply is under way the context ends with that
  reply; `BatchWhole` says that the results it has and those it is owed (by the calls in the three queues) are
  as many as its calls and are their results. `RequestsInv` adds that every earlier reply is answered, and that this
  carries over to the transcript between runs, from which the next context is made. A failed reply may be taken off the
  end because it answers nothing (`CompleteFront`).
- `MailboxImplemented`: `ImplementsMailbox`: what leaves a queue was taken or cleared, and what was taken is delivered, or lost in
  the step in which the run fails. `MailInv` says that a message that was handed over is in one queue, taken by
  the run or in the transcript, never in two of these and never twice in one, and that a run holds messages only while
  it emits its prompts or injects. One lemma per step of the mailbox (`QueueMoves`, `TakeMoves`, ...) says what it does to
  these sets; each step of the agent is one of them.
- `DeliveriesInOrder`: `DeliveryOrder`, each of its parts from an invariant of its own. `OrderInv`: of one kind, what was
  delivered came before what the run has taken, and that before what is queued, each in its order. `TurnInv`: in
  one-at-a-time mode a run that has taken a message has taken no other, and delivered none of that kind since the last
  reply. `SpokenInv`: a run that has taken follow-ups ends in a reply that calls no more tools, or in a follow-up, until
  they are delivered.

Every safety property of the run is proved; liveness is out of the prover's reach.

## 6. Sign-in of the chat application

`ChatLogin.tla` is the credential in `main.ts`: `session` is `currentUser`, `idToken` and
`tokenExp` with their copy in localStorage, which are set and cleared together; the age of a token is "fresh",
"due" (the refresh timer may fire) or "expired" (`isTokenExpired`). `outcome` holds the promises of `silentRefresh`,
`refreshInProgress` and `refreshResolve` say which one is in the two variables of that name, and
`nets`, `moments` and `offers` which 8 s timers, notifications and answers of Google's are still to come.

| Action | Code |
|---|---|
| `Fetch`, `Answered`, `Unauthorized`, `StillUnauthorized`, `Resume` | the hook around `fetch`, from await to await |
| `TimerFires`, `TimerResumes` | `scheduleTokenRefresh` |
| `Join`, `CannotAsk`, `Ask`, `SafetyNet`, `Moment` | `silentRefresh` and the callbacks it leaves behind |
| `OnCredential`, `RefuseCredential` | `onCredential` |
| `AgentBuilt`, `BuildFails` | the end of `createAgentAndPanel`, and its rejection by storage (main.ts:354) |
| `SignOut`, `ScriptLoads`, `Ageing`, `Reload` | `signOut`; Google's script; time; `init` and `loadSavedUser` |

JavaScript runs the continuations of a settled promise before the next callback: hence the guard
`Quiet` of every action that begins a callback.

- Run `chat_login` (one account, two calls, one credential, one reload): a pending refresh is always the one
  that others join and that something will end (`SharedRefresh`); a session never loses its timer
  (`SessionWatched`); nobody is signed in without an agent, or one on the way (`SignedInHasAgent`); no call goes out signed out or
  expired (`NoStaleSend`); every call ends (`RequestEnds`). Fairness: the browser's timers and continuations, and calls that are answered some time; nothing is
  asked of Google.
- Bounds: promises are not bounded by a constant but by their causes (calls, timer, credentials). One
  credential besides the stored one gives a late, a second and a missing answer; two calls and the timer
  are three waiters on one refresh.
- `SignedInHasAgent` excepts one case, which the model has: `providerKeys.set` is awaited without a `catch`
  (main.ts:354), so a storage that refuses the write leaves a signed-in user without an agent, until the next
  credential or a reload begins another construction. The variable `broken` records it; when the rejected construction is not the
  last one, or an agent was there, the property holds as it stands.
- A disagreement without a run: "Silently request a fresh ID token from GIS" (main.ts:215). If the script is not there
  yet, or `prompt()` throws, `done(false)` runs before the outer assignment and the failed promise stays in `refreshInProgress`:
  every later refresh of the page returns it and none asks Google. Only a reload removes it. A credential does not: `done` has
  set `refreshResolve` to null (main.ts:224), so `onCredential` finds nothing to resolve; nor does the safety net, whose promise is settled.

Theorems (`ChatLoginProofs`), for any number of accounts, calls and credentials: `TypeCorrect`, `RefreshIsShared`,
`SessionIsWatched`, `AgentIsThere`, `NeverStale`. `SessionWatched` and `NoStaleSend` are not inductive: what is
missing is that all who may go on await the same promise (`SettledTogether`), that nobody joins a fulfilled one (`Joinable`)
and that a fulfilled promise still awaited means a renewed session (`Renewed`). Liveness is model-checked only.

## 7. Conversations of the chat application

`ChatHistory.tla` is the other half of `main.ts`: `agent` and `session` (`currentSessionId`), `pointer`
(localStorage), `store` (IndexedDB) and `transactions`, which IndexedDB carries out one by one while the page goes on.
`pc[b]` is where a call of `newChat` or `createAgentAndPanel` waits.

| Action | Code |
|---|---|
| `Send`, `Reply` with `OnMessageEnd` | a turn, and the subscription that saves after each message |
| `SignIn`, `KeysSet`, `Loaded` | `createAgentAndPanel` from await to await |
| `NewChat`, `Deleted` with `ClearChat` | `newChat` |
| `Commit` (`Saved`, `Deleted`, `Loaded`, `Orphaned`) | IndexedDB carries out the oldest transaction; an orphan belongs to a page that is gone |
| `RefreshInPlace`, `SignOut` | `onCredential` with an agent; `signOut` |
| `Reload` | the page goes; the first of its transactions survive it, in order |

- Run `chat_history` (two accounts, four messages, four builds, one reload): a pointer leads to its account's
  conversation (`PointerOwner`); what is shown would be restored (`ShownIsSaved`); what was cleared at rest stays
  away (`ClearedIsGone`); who signs in is shown a chat (`SignedInIsShown`, under fairness of IndexedDB). Four messages
  are a saved conversation for each account, or two of one; accounts sign in and out and clear their chats at any moment,
  also while an agent is built.
- One condition is a constant. `OneAccount`: a silent refresh answers for the account that is signed in;
  Google decides that, and the code does not compare.
- Two are recorded as the behaviour goes, because the code does not exclude them. `crossed`: a construction restored a
  conversation that it had asked for on behalf of an account that is not signed in any more (`asked`). That takes up the
  old account's session id, the next account saves into that session (main.ts:343, 356), and its pointer leads to
  messages of another; without `~crossed` TLC finds this in twelve steps. `PointerOwner` says that there is no
  other way. `hurried`: a sign-in, a sign-out or a new chat came while a construction was under way. The agent that
  ends last is then the one on the screen, whichever was asked for last, and its conversation need not be the one the
  pointer names; `ShownIsSaved` and `ClearedIsGone` speak of behaviours without haste.
- Transactions of IndexedDB succeed: a save, deletion or load that fails is caught (main.ts:345, 383, 1313), and
  `providerKeys.set` that fails ends the construction without an agent (main.ts:354), against `SignedInIsShown`.
- A disagreement without a run: `newChat` promises that "a refresh doesn't restore the cleared chat" (main.ts:1305). The
  agent of a chat that is cleared while a reply streams still saves (main.ts:381), which writes the session and its
  pointer again. `ClearedIsGone` therefore speaks of chats that were idle.

Theorems (`ChatHistoryProofs`), for any number of accounts, messages, builds and reloads: `TypeCorrect`, and under
`OneAccount` every safety property of the run:

- `HistoryStaysWithAccount` (`PointerOwner`), for any haste. `OwnerInv`: every session has one owner, whose are all
  messages that are stored of it or about to be saved; the pointers, the session on the screen and the loads
  respect the owners, a load for the account it was asked for. Only a turn begins a session (`OwnerTurn`), and
  only `Loaded` can show one to another account (`OwnerCommit`), which is what `crossed` records.
- `ClearedStaysAway` (`ClearedIsGone`). `ClearInv`: nothing that was cleared is stored, about to be saved or being loaded
  for a pointer or for the session on the screen; an agent may still hold it, idle, until it is replaced. That the
  pointers of the other accounts do not lead there comes from `OwnerInv`.
- `ShownStaysSaved` (`ShownIsSaved`). `Becomes` is what the store will hold when the transactions under way are carried
  out. `SavedInv`: it begins with what is shown. `LeftInv` and `LoadInv` turn that around while a chat is being replaced:
  the agent that is left may still talk, so that what the next one loads may be behind what is stored, never besides it.

The last two need, as long as nobody has hurried, that whoever builds an agent is alone (`OneBuild`) and builds for the
account that is signed in (`CalmInv`). Liveness is model-checked only.

## 8. Agent session

`AgentSession.tla` is `agent-session.ts` around an agent reduced to what the session sees: a run is a
sequence of replies. `events` is the chain of promises in which events are handled, `handler` what handling
the end of a run waits for, `retrying` the retry promise, `timers` the deferred calls of `agent.continue`, `mirror` the
queue shown to the user (no property speaks of it), `entries` the session file, and `pc[p]` the await of a call of `prompt`.

| Action | Code |
|---|---|
| `ReplyAndGoOn`, `ReplyAndEnd`, `Throws` | what a run can do, with `_createRetryPromiseForAgentEnd` at its end |
| `ProcessAgentEvent` (`HandleUser`, `HandleReply`, `HandleEnd`) | `_processAgentEvent`, `_handleRetryableError`, `_checkCompaction` |
| `BackoffEnds`, `TimerFires`, `HandlerCompacts` | the sleep before a retry; the deferred `continue`; `_runAutoCompaction` |
| `PromptSteers`, `PromptBegins`, `PromptCompacts`, `PromptRuns`, `PromptWaits` | `prompt` from await to await |
| `Abort`, `ClearQueue`, `RecordBash` | `abort`, `clearQueue`, `recordBashResult` |
| `Disconnect`, `Reconnect` | `_disconnectFromAgent` and `abort`, with which `newSession`, `switchSession` and `compact` begin; `_reconnectToAgent` |
| `NewSession`, `SwitchSession`, `CompactStarts`, `CompactEnds` | what they do once `abort` has waited for the run |
| `Fork` | `fork` to a message of the user |

`sid` numbers the sessions, and every message carries the one it was said in; `shelf` is the session that can be resumed.

- Run `agent_session` (two prompts, every outcome of every reply, one command at any moment): retries in a row
  are bounded over recoveries, compactions and queued messages, and counted anew after a retry that the user cancels or a
  change of session (`RetriesBounded`); a pending retry promise has
  something under way that settles it (`RetryUnderWay`); context
  and file hold the same (`ContextFollowsFile`); nothing crosses between sessions (`NothingSaidCrosses`); left alone, the session comes
  to rest and no prompt is left waiting (`SessionSettles`). Fairness: models answer, timers go off, extensions
  and compactions end; nobody has to do anything.
- Run `agent_retry_throws` is expected to fail: "Retry failed - will be caught by next agent_end"
  (agent-session.ts:2529, `RetryIsCaught`). The trace has a reply that fails, its handling (attempt 1), the backoff, the
  deferred `continue` and a run that throws before its first reply. That run announces no message but only its end, so
  `_handleRetryableError` is not asked; nobody settles the retry promise, which is pending since the first failure, and the
  prompt waits for ever, whatever the text of the error. A first run that throws is the same if the text looks retryable,
  because then its end creates the promise (agent-session.ts:451); with another text there is no promise to wait for.
- The conditions are constants, and each names an interleaving the code does not prevent: `HandlersArePrompt` (a command
  between an event and its handling), `PromptsTakeTurns` (a prompt between a recovery and its `continue`; the
  interactive mode queues what is typed, RPC does not), `CompactionIsFast` (a new session during compaction:
  the summary then enters the new session; a compaction asked for when a run is about to begin), `ThrowsMeetRetries` (the
  finding), `SwitchesAreClean`, `RunsOutlastTimers` (a prompt that has compacted begins its run before the deferred `continue`
  goes off 100 ms later, agent-session.ts:2034, and that goes off before the run ends, which waits for a model).
- Each condition was also dropped alone. Without `HandlersArePrompt` or `CompactionIsFast` TLC finds all four safety properties
  violated; without `PromptsTakeTurns`, `RetryUnderWay` and `ContextFollowsFile`; without `SwitchesAreClean`,
  `RetryUnderWay` and `NothingSaidCrosses`; with `ThrowsMeetRetries`, `RetryUnderWay`. `RunsOutlastTimers` takes three prompts and an
  abort to miss: a prompt compacts while a message is queued, the `continue` goes off before the prompt begins its run and ends in
  another compaction, and that replaces the context under the run the prompt has begun meanwhile (`ContextFollowsFile`).
- `SwitchesAreClean` deserves a word: resuming a session clears the session's copies of the queue (agent-session.ts:2709)
  but not the agent's queue, so what was queued is answered in the session that is resumed; and a fork (agent-session.ts:2781)
  stops neither a run nor a retry. Without the condition TLC finds `NothingSaidCrosses` and `RetryUnderWay` violated.
- Bounds: two prompts and one retry let every pair of a retry, a recovery, a steered message and a command meet. There is
  one command per behaviour (`MaxCommands`); two make more than two million states.
- A prompt that meets a run steers. Without `streamingBehavior` it throws instead (agent-session.ts:966), before it has
  changed anything, and `followUp` uses the other queue of the agent, which section 5 has.
- Left out: forks to a message before the last compaction, which copy the entries the compaction replaced, and navigating in a
  session, which section 9 has.

### Theorems (`AgentSessionProofs`)

`TypeCorrect` holds under none of the conditions; that `attempt` never exceeds `maxRetries` is part of it. Under all of them
(`Conditions`, the values of the run), and for any number of prompts, retries and commands, `RetriesStayBounded`,
`RetryStaysUnderWay`, `ContextStaysWithFile` and `NothingSaidEverCrosses` prove the four safety properties. None is inductive. The
invariant they share, `Inv`, adds to the types:

| Part | Says | Why it is needed |
|---|---|---|
| `TurnInv` | who can be at work with whom: one prompt before its run, and then no run, event, handler or retry; a handler at work only when the run has ended and every event before it is handled; the listener is away exactly during a change of session | each of the others says what holds between two steps of one actor, which no other may disturb |
| `EventInv` | the end of a run is the last event, a failed reply comes right before it and is still the last message; a run has something to answer | the handler takes back the last message of the context: it must be the one it was called for |
| `RetryInv` | a pending retry has a run, a handler asleep, an end announced with a reply, or a timer whose `continue` will find something to answer | `RetryUnderWay` alone counts a timer that finds nothing to do, or an end that settles nothing |
| `CountInv` | when `attempt` was reset though the replies still fail, the next run begins with a message of the user | the bound is on `inARow`, the code counts in `attempt` |
| `SessionInv` | what is said in context, file, queue, events, shelf and prepared compaction is of their session | `NothingSaidCrosses` |
| `FileInv` | the good messages of the context are those of the file and those whose event is yet to be handled | `ContextFollowsFile` speaks only of the session at rest |

Each action has a lemma that it keeps every part (`ReplyAndGoOnKeeps`, ..., `ForkKeeps`), and TLC has
found `Inv` to hold with two prompts and two commands (3.1 million states). `SessionSettles` is liveness and model-checked only.

## 9. Session file

`SessionFile.tla` is `session-manager.ts`: `entries` in memory with `leaf`, `labels` and `flushed`,
`disk` the lines of each file, `writing` the lines of a write under way, so that `Crash` can come between
lines and within one (`Torn`; the next line continues it and both are lost, `Spoilt`). Entries keep their kind and the entries
they refer to. `PathTo` and `ContextOf` are `getBranch` and `buildSessionContext`, `Load` is
`loadEntriesFromFile` with `_buildIndex`.

| Action | Code |
|---|---|
| `AppendMessage`, `AppendCompaction`, `AppendLabelChange`, `Branch`, `BranchWithSummary` | the methods of that name |
| `Write`, `Crash` | a line of `_persist` or of a rewrite; the end of the process |
| `NewSession`, `SetSessionFile`, `Fork` | `newSession`; opening a file; `createBranchedSession` |

- Run `session_file` (four entries, two files, one crash): file and memory agree from the first answer on
  (`FileFollows`); a session is found as it was left (`ReopenRestores`); no entry loses its parent, even after a crash
  (`TreesAreWhole`); a fork has
  the context and the labels of its path (`ForkKeepsPath`). Files with half a line in them are excepted (`Damaged`): what is appended
  to such a line is lost, and the code does nothing about it.
- Run `session_fork` is expected to fail: "only the path from root to the specified leaf" (session-manager.ts:1161).
  Label entries are taken out of the path and the next entry keeps its parent, so a fork loses every message before a
  label. `ForkPastGaps` = FALSE excludes it from the other run: there a path is forked only if it holds every entry it refers to
  (`RefersWithin`). A path has a gap, too, once the process has ended within a line and the session was
  opened again: the line is lost, its children are there, and a fork copies them into a file that shows no damage. TLC found
  `TreesAreWhole` violated by that, with two crashes, as long as the condition spoke only of labels.
- Opening a file: one without a header is truncated and its header written, and the process may end between the two
  (session-manager.ts:704); a path where there is nothing gets a session that waits for its first answer (718). `disk` does
  not tell an empty file from none: the header of an empty file, written when it is opened in the code, waits as well.
- A disagreement without a run: the "duplicate-header bug" that a fork avoids (session-manager.ts:1226) is there when a
  file without an answer is opened (session-manager.ts:713); the second header is never read.
- Bounds: four entries hold a label, its entry, a compaction and what it keeps; two files are a session and its fork.
  Every entry may be labelled, navigated to or forked at, which makes 1.5 million states. With two crashes,
  and with three files of three entries, TLC finds the same; the theorems hold for any number.

### Theorems (`SessionFileProofs`)

For any number of entries, files and crashes, and whether or not paths with gaps are forked, `TypeCorrect`,
`FileAlwaysFollows` and `ReopenAlwaysRestores`; where they are not forked, `TreesStayWhole` and `ForksKeepPath`. The invariant `Inv`:

| Part | Says | Why it is needed |
|---|---|---|
| `FilesInv` | files that were not begun are empty, and nothing is written unless a session is open | a new session or fork begins in an empty file |
| `DiskInv` | in every file parents are older than their children; one without half a line begins with a header, and each of its entries comes after its parent (`Readable`) | any prefix of such a file is one: so a crash between two lines leaves one |
| `OpenInv`, `Follows` | file and write under way together end with what is in memory (`EndsWith`), and hold nothing else; labels and leaf are those of the entries | the file need not be equal to it: what precedes the first answer may be in it twice, if a file without an answer was opened |

Two facts carry `ReopenAlwaysRestores`: the path to an entry depends on the set of the entries only (`PathIs`), and last entry and
labels only on the end of the file (`LeafOfEnd`, `LabelledOfEnd`), since what precedes that end is in it again.
`ParentsOfPath` is why a fork keeps parents first: a path grows in age, so that a parent in it comes earlier.

Paths and filters are recursive functions, and these proofs need what they compute for every input. The library's induction
theorems take an operator as a parameter and cannot be used, but the least element of a set of naturals can be had from the
well-foundedness of strict inclusion among finite sets (`LeastNatural`), and with it induction over a set of numbers (`UpTo`): a
recursive function exists (`OnlyExists`, `PathExists`), hence its equation holds, and its properties follow step by step.
Therefore `Only` filters in the model, and not the library's `SelectSeq`, which is a recursive operator.

`ForksKeepPath` is `ForkKeepsPath` where no path with gaps is forked (the run `session_fork` shows that this is needed). A label
is nothing to the context (`ContextOfLabel`). If the entries that are kept have their parents among them, the labels of the path
are all at its end (`UnlabelledEnd`), so that what is kept is a path of the old tree (`IsPathOf`), the same path in the new one,
where every entry is still found by its identifier (`SamePath`, `ForkedEntries`); the labels written below it add nothing to the context
(`ForkedContext`) and name just the entries that had one (`LabelTargets`, `LabelledBySet`).

## 10. Credential store

`AuthStorage.tla` is `auth-storage.ts`: the file, its lock, and of each instance its copy (`data`) and
whether it could read the file last (`loadError`). A token is its number, and a refresh token is good once: `spent` are those the
provider exchanged, `lost` those whose answer did not arrive.

| Action | Code |
|---|---|
| `Login`, `Logout` with `Persist` | `set`, `remove`, `persistProviderChange` |
| `GetApiKey`, `Acquire`, `Refreshed`, `RefreshFails`, `Release`, `GiveUp`, `Fallback` | `getApiKey`, `refreshOAuthTokenWithLock`, `withLockAsync` from await to await |
| `Crash`, `OrphanExpires`, `Start`, `Expire` | an instance dies, with the lock perhaps; its lock goes stale; it starts; time |

- Run `auth_storage` (two instances with a call each, two providers, three tokens, one crash; instances and providers are
  symmetric): no exchanged token is presented again (`RefreshOnce`) or left in the file (`FileCanRefresh`) unless
  its successor got lost; the file goes back to no older token (`FileNeverBack`) and loses no credential that nobody
  logged out of (`NothingVanishes`).
- Assumed: tokens are good for equally long, and a lock is honoured while its holder lives. The code's two
  ways to lock disagree on when a lock is stale (auth-storage.ts:69), which is proper-lockfile's business and not modelled.

Theorems (`AuthStorageProofs`), for any number of instances, providers, calls, tokens and crashes: `TypeCorrect`,
`RefreshedOnce`, `FileRefreshes`, `NeverBack`, `NoneVanishes`. They rest on `InvCorrect`: whoever refreshes holds the
lock (`LockHeld`), so the file is still as it was read and the copy that will be merged differs from it by logins and
logouts that could not be persisted (`Mergeable`); no two providers have the same token (`Distinct`), so the exchange of one spoils no
other.

## 11. Not modelled

- The translations of the model providers, the terminal user interface, the components of the web user interface, the
  generated tables and the pod manager are most of the lines of this tree. They hold little state that outlives a call; what
  they do wrong shows in values and in layout, where tests reach better than a model.
- The backend for frontend keeps nothing between requests. The connect screen polls `wa.js` through it and keeps
  what it was last told.
- Settings are read, merged and written under a lock in one synchronous step. It has one race: a file that
  does not exist yet is read without the lock (settings-manager.ts:185), so that of two instances that create it one loses its change.
- The Slack bot has one queue per channel that runs one thing after the other; the file mutation queue is one chain of
  promises per path. Each is a few lines with nothing to cross.
- Extensions, the interactive and the RPC mode call the agent session and are seen there as commands at any moment.
