------------------------------- MODULE BulkSend -------------------------------
(***************************************************************************)
(* The scheduled WhatsApp bulk sender of MoneyShot:                        *)
(*   src/backend/hermes/skills/send-whatsapp-bulk/scripts/bulk.js          *)
(*   src/backend/db/init.sql                                               *)
(*                                                                         *)
(* `bulk.js start` stages one row per recipient in customer_messages;      *)
(* `bulk.js dispatch`, run by cron every minute, claims one due row at a   *)
(* time and hands it to wa.js.  Every run is an operating-system process   *)
(* and every SQL statement commits on its own, so each `await` of the two  *)
(* commands is a separate action here: runs interleave between any two     *)
(* awaits, and may die at any of them.                                     *)
(*                                                                         *)
(* Time is a counter of abstract units; the constants keep the order of    *)
(* the real ones (75 s gap <= 75..105 s delays < 3 h cooldown < one day).  *)
(***************************************************************************)
EXTENDS Integers, Sequences

CONSTANTS
  Dispatchers,    \* processes running `bulk.js dispatch`
  Starters,       \* processes running `bulk.js start`
  Phones,         \* normalised recipient numbers
  Requests,       \* recipient lists, already normalised and deduplicated
  DelayMin,       \* DELAY_MIN_MS
  DelayMax,       \* DELAY_MAX_MS
  MinSendGap,     \* MIN_SEND_GAP_MS
  Cooldown,       \* COOLDOWN_MS
  MaxAttempts,    \* MAX_ATTEMPTS
  MaxClaims,      \* the `guard < 50` of the dispatch loop
  DayLength,      \* one IST day
  WindowStart,    \* WINDOW_START_H, as an offset in the day
  WindowEnd,      \* WINDOW_END_H
  DispatchEnd     \* DISPATCH_END_H:DISPATCH_END_M

CONSTANTS         \* bounds of the model, not of the code
  Horizon,        \* the clock stops here
  MaxRows,        \* rows the table may hold
  MaxStarts,      \* batches that may be started
  MaxCrashes,     \* processes that may die
  MaxTicks        \* disconnected ticks counted per day

ASSUME DelayAssumption ==
  /\ DelayMin \in Nat \ {0}
  /\ DelayMax \in Nat
  /\ DelayMin <= DelayMax
  /\ MinSendGap \in Nat
  /\ Cooldown \in Nat

ASSUME WindowAssumption ==
  /\ DayLength \in Nat \ {0}
  /\ WindowStart \in Nat
  /\ WindowEnd \in Nat
  /\ DispatchEnd \in Nat
  /\ WindowStart < WindowEnd
  /\ WindowEnd <= DispatchEnd
  /\ DispatchEnd <= DayLength

ASSUME LimitAssumption ==
  /\ MaxAttempts \in Nat \ {0}
  /\ MaxClaims \in Nat
  /\ MaxRows \in Nat
  /\ MaxStarts \in Nat
  /\ MaxCrashes \in Nat
  /\ MaxTicks \in Nat
  /\ Horizon \in Nat

ASSUME RequestAssumption == Requests \subseteq Seq(Phones)

VARIABLES
  now,         \* the wall clock
  msgs,        \* table customer_messages; a row's id is its position
  customers,   \* phones in table customers
  ticks,       \* disconnected_whatsapp_ticks_daily: day -> count
  disp,        \* local state of each dispatch process
  starter,     \* local state of each start process
  starts,      \* batches started so far (bounded by MaxStarts)
  crashes,     \* processes that have died so far (bounded by MaxCrashes)
  sends        \* history: every call of waSend that was answered or lost

vars == <<now, msgs, customers, ticks, disp, starter, starts, crashes, sends>>

(***************************************************************************)
(* Rows, and what the queries of the two commands ask of the table.        *)
(***************************************************************************)
Statuses == {"scheduled", "sending", "sent", "failed", "skipped_cooldown"}
Terminal == {"sent", "failed", "skipped_cooldown"}

Row == [phone: Phones, status: Statuses, scheduledAt: Int,
        attempts: Nat, createdAt: Nat]

Ids == DOMAIN msgs

Pending(id) == msgs[id].status \in {"scheduled", "sending"}

\* (mutant) a reaper takes rows in any state back
DueAnyStatus(id, t) == msgs[id].scheduledAt <= t

Due(id, t) == msgs[id].status = "scheduled" /\ msgs[id].scheduledAt <= t

\* (mutant) the age of the last send with its operands swapped
SentWithinSwapped(ids, t, span) ==
  \E id \in ids : msgs[id].status = "sent" /\ msgs[id].createdAt - t < span

\* max(created_at) over the sent rows of `ids` lies less than `span` before t.
SentWithin(ids, t, span) ==
  \E id \in ids : msgs[id].status = "sent" /\ t - msgs[id].createdAt < span

RowsOf(p) == {id \in Ids : msgs[id].phone = p}

\* (mutant) a row being sent no longer counts as queued
BlockReasonScheduledOnly(p, t) ==
  IF \E id \in RowsOf(p) : msgs[id].status = "scheduled" THEN "already_queued"
  ELSE IF SentWithin(RowsOf(p), t, Cooldown) THEN "cooldown"
  ELSE "none"

\* (mutant) the cooldown is counted within the day
BlockReasonSameDay(p, t) ==
  IF \E id \in RowsOf(p) : Pending(id) THEN "already_queued"
  ELSE IF SentWithin({id \in RowsOf(p) : msgs[id].createdAt \div DayLength = t \div DayLength}, t, Cooldown)
    THEN "cooldown"
  ELSE "none"

\* blockReason: null, "already_queued" or "cooldown".
BlockReason(p, t) ==
  IF \E id \in RowsOf(p) : Pending(id) THEN "already_queued"
  ELSE IF SentWithin(RowsOf(p), t, Cooldown) THEN "cooldown"
  ELSE "none"

(***************************************************************************)
(* istWindow, for the day that contains t.                                 *)
(***************************************************************************)
Day(t) == t \div DayLength
DayStart(t) == t - (t % DayLength)
StartOf(t) == DayStart(t) + WindowStart
EndOf(t) == DayStart(t) + WindowEnd
DispatchEndOf(t) == DayStart(t) + DispatchEnd

InSendWindow(t) == StartOf(t) <= t /\ t < DispatchEndOf(t)

\* queueTail: the pending rows of today's scheduling window.
TailRows(t) ==
  {id \in Ids : /\ Pending(id)
                /\ StartOf(t) <= msgs[id].scheduledAt
                /\ msgs[id].scheduledAt <= EndOf(t)}

Later(a, b) == IF a < b THEN b ELSE a

\* randDelay
Delays == DelayMin .. DelayMax

(***************************************************************************)
(* Process-local state.                                                    *)
(***************************************************************************)
DispatchPC == {"idle", "peek", "status", "gap", "claim", "cooldown",
               "skip", "send", "record"}

DispatchState == [pc: DispatchPC, tick: Nat, id: Nat, attempts: Nat,
                  loops: Nat, ok: BOOLEAN]

IdleDispatch == [pc |-> "idle", tick |-> 0, id |-> 0, attempts |-> 0,
                 loops |-> 0, ok |-> FALSE]

StartPC == {"idle", "tail", "check", "upsert", "insert"}

StartState == [pc: StartPC, now: Nat, base: Int, todo: Seq(Phones), at: Int]

IdleStart == [pc |-> "idle", now |-> 0, base |-> 0, todo |-> <<>>, at |-> 0]

Days == 0 .. Day(Horizon)

TypeOK ==
  /\ now \in Nat
  /\ msgs \in Seq(Row)
  /\ customers \subseteq Phones
  /\ ticks \in [Days -> Nat]
  /\ disp \in [Dispatchers -> DispatchState]
  /\ starter \in [Starters -> StartState]
  /\ \A s \in Starters :
       starter[s].pc \in {"upsert", "insert"} => starter[s].todo # <<>>
  /\ starts \in Nat
  /\ crashes \in Nat
  /\ sends \subseteq [id: Nat, n: Nat, at: Nat, tick: Nat, delivered: BOOLEAN]

Init ==
  /\ now = 0
  /\ msgs = <<>>
  /\ customers = {}
  /\ ticks = [d \in Days |-> 0]
  /\ disp = [d \in Dispatchers |-> IdleDispatch]
  /\ starter = [s \in Starters |-> IdleStart]
  /\ starts = 0
  /\ crashes = 0
  /\ sends = {}

(***************************************************************************)
(* dispatch.                                                               *)
(***************************************************************************)
GoDispatch(d, pc) == disp' = [disp EXCEPT ![d].pc = pc]
ReturnDispatch(d) == disp' = [disp EXCEPT ![d] = IdleDispatch]

\* cron starts a run: `now` is read once and the run keeps it to the end.
DispatchBegin(d) ==
  /\ disp[d].pc = "idle"
  /\ InSendWindow(now)
  /\ disp' = [disp EXCEPT ![d] = [IdleDispatch EXCEPT !.pc = "peek", !.tick = now]]
  /\ UNCHANGED <<now, msgs, customers, ticks, starter, starts, crashes, sends>>

\* ... and returns at once outside 9:00-19:30 IST.
DispatchOutsideWindow(d) ==
  /\ disp[d].pc = "idle"
  /\ ~ InSendWindow(now)
  /\ UNCHANGED vars

\* duePeek
DispatchPeek(d) ==
  /\ disp[d].pc = "peek"
  /\ IF \E id \in Ids : Due(id, disp[d].tick)
       THEN GoDispatch(d, "status")
       ELSE ReturnDispatch(d)
  /\ UNCHANGED <<now, msgs, customers, ticks, starter, starts, crashes, sends>>

\* wa.js status answers connected: true
DispatchConnected(d) ==
  /\ disp[d].pc = "status"
  /\ GoDispatch(d, "gap")
  /\ UNCHANGED <<now, msgs, customers, ticks, starter, starts, crashes, sends>>

\* wa.js status answers connected: false; recordDisconnectTick upserts the day.
DispatchDisconnected(d) ==
  /\ disp[d].pc = "status"
  /\ ticks[Day(disp[d].tick)] < MaxTicks
  /\ ticks' = [ticks EXCEPT ![Day(disp[d].tick)] = @ + 1]
  /\ ReturnDispatch(d)
  /\ UNCHANGED <<now, msgs, customers, starter, starts, crashes, sends>>

\* the pacing query, over every sent row
DispatchGap(d) ==
  /\ disp[d].pc = "gap"
  /\ IF SentWithin(Ids, disp[d].tick, MinSendGap)
       THEN ReturnDispatch(d)
       ELSE GoDispatch(d, "claim")
  /\ UNCHANGED <<now, msgs, customers, ticks, starter, starts, crashes, sends>>

\* ORDER BY scheduled_at ASC LIMIT 1 FOR UPDATE SKIP LOCKED: one atomic statement
EarliestDue(t) ==
  {id \in Ids : /\ Due(id, t)
                /\ \A j \in Ids : Due(j, t) =>
                     msgs[id].scheduledAt <= msgs[j].scheduledAt}

DispatchClaim(d) ==
  /\ disp[d].pc = "claim"
  /\ disp[d].loops < MaxClaims
  /\ \E id \in EarliestDue(disp[d].tick) :
       /\ msgs' = [msgs EXCEPT ![id].status = "sending"]
       /\ disp' = [disp EXCEPT ![d].pc = "cooldown", ![d].id = id,
                               ![d].attempts = msgs[id].attempts,
                               ![d].loops = @ + 1]
  /\ UNCHANGED <<now, customers, ticks, starter, starts, crashes, sends>>

\* the claim returns no row, or the loop has run out
DispatchNothingLeft(d) ==
  /\ disp[d].pc = "claim"
  /\ \/ disp[d].loops >= MaxClaims
     \/ EarliestDue(disp[d].tick) = {}
  /\ ReturnDispatch(d)
  /\ UNCHANGED <<now, msgs, customers, ticks, starter, starts, crashes, sends>>

\* the per-number cooldown query
DispatchCooldown(d) ==
  /\ disp[d].pc = "cooldown"
  /\ IF SentWithin(RowsOf(msgs[disp[d].id].phone), disp[d].tick, Cooldown)
       THEN GoDispatch(d, "skip")
       ELSE GoDispatch(d, "send")
  /\ UNCHANGED <<now, msgs, customers, ticks, starter, starts, crashes, sends>>

\* `continue`: a skip is not a send, so the loop goes round
DispatchSkip(d) ==
  /\ disp[d].pc = "skip"
  /\ msgs' = [msgs EXCEPT ![disp[d].id].status = "skipped_cooldown"]
  /\ GoDispatch(d, "claim")
  /\ UNCHANGED <<now, customers, ticks, starter, starts, crashes, sends>>

\* waSend.  wa.js answers ok after WhatsApp took the message, fails before
\* that, or its 45 s guard answers "timeout" for a message that still arrives.
SendOutcomes == {[ok |-> TRUE, delivered |-> TRUE],
                 [ok |-> FALSE, delivered |-> FALSE],
                 [ok |-> FALSE, delivered |-> TRUE]}

DispatchSend(d) ==
  /\ disp[d].pc = "send"
  /\ \E o \in SendOutcomes :
       /\ sends' = sends \cup {[id |-> disp[d].id, n |-> disp[d].attempts + 1,
                                at |-> now, tick |-> disp[d].tick,
                                delivered |-> o.delivered]}
       /\ disp' = [disp EXCEPT ![d].pc = "record", ![d].ok = o.ok]
  /\ UNCHANGED <<now, msgs, customers, ticks, starter, starts, crashes>>

\* (mutants) the attempt is not stored; the retry keeps its old time; one retry too many
SettledForgetful(row, ok, n, retryAt) ==
  IF ok THEN [row EXCEPT !.status = "sent"]
  ELSE IF n < MaxAttempts
    THEN [row EXCEPT !.status = "scheduled", !.scheduledAt = retryAt]
    ELSE [row EXCEPT !.status = "failed"]
SettledAtOnce(row, ok, n, retryAt) ==
  IF ok THEN [row EXCEPT !.status = "sent", !.attempts = n]
  ELSE IF n < MaxAttempts
    THEN [row EXCEPT !.status = "scheduled", !.attempts = n]
    ELSE [row EXCEPT !.status = "failed", !.attempts = n]
SettledOneMore(row, ok, n, retryAt) ==
  IF ok THEN [row EXCEPT !.status = "sent", !.attempts = n]
  ELSE IF n <= MaxAttempts
    THEN [row EXCEPT !.status = "scheduled", !.attempts = n, !.scheduledAt = retryAt]
    ELSE [row EXCEPT !.status = "failed", !.attempts = n]
\* The row after attempt n: sent, back in the queue, or failed.
Settled(row, ok, n, retryAt) ==
  IF ok THEN [row EXCEPT !.status = "sent", !.attempts = n]
  ELSE IF n < MaxAttempts
    THEN [row EXCEPT !.status = "scheduled", !.attempts = n, !.scheduledAt = retryAt]
    ELSE [row EXCEPT !.status = "failed", !.attempts = n]

DispatchRecord(d) ==
  /\ disp[d].pc = "record"
  /\ \E delay \in Delays :
       msgs' = [msgs EXCEPT ![disp[d].id] =
                  Settled(@, disp[d].ok, disp[d].attempts + 1, disp[d].tick + delay)]
  /\ ReturnDispatch(d)
  /\ UNCHANGED <<now, customers, ticks, starter, starts, crashes, sends>>

(***************************************************************************)
(* start.                                                                  *)
(***************************************************************************)
\* WhatsApp is connected and the arguments are valid: otherwise the command
\* reports the error and changes nothing.
StartBegin(s) ==
  /\ starter[s].pc = "idle"
  /\ starts < MaxStarts
  /\ starts' = starts + 1
  /\ \E r \in Requests :
       starter' = [starter EXCEPT ![s] =
                     [IdleStart EXCEPT !.pc = "tail", !.now = now, !.todo = r]]
  /\ UNCHANGED <<now, msgs, customers, ticks, disp, crashes, sends>>

\* queueTail, read once for the whole batch
StartTail(s) ==
  LET t == starter[s].now
      floor == Later(t, StartOf(t))
      tail == TailRows(t)
  IN /\ starter[s].pc = "tail"
     /\ \/ /\ tail = {}
           /\ starter' = [starter EXCEPT ![s].pc = "check", ![s].base = floor]
        \/ \E id \in tail :
             /\ \A j \in tail : msgs[j].scheduledAt <= msgs[id].scheduledAt
             /\ starter' = [starter EXCEPT ![s].pc = "check",
                              ![s].base = Later(floor, msgs[id].scheduledAt)]
     /\ UNCHANGED <<now, msgs, customers, ticks, disp, starts, crashes, sends>>

\* The number cannot be queued: blocked, or the day's window is full.
Refused(s, at) ==
  \/ BlockReason(Head(starter[s].todo), starter[s].now) # "none"
  \/ starter[s].now >= EndOf(starter[s].now)
  \/ at > EndOf(starter[s].now)

StartCheck(s) ==
  /\ starter[s].pc = "check"
  /\ starter[s].todo # <<>>
  /\ \E delay \in Delays :
       LET at == starter[s].base + delay
       IN IF Refused(s, at)
            THEN starter' = [starter EXCEPT ![s].todo = Tail(@)]
            ELSE starter' = [starter EXCEPT ![s].pc = "upsert", ![s].at = at]
  /\ UNCHANGED <<now, msgs, customers, ticks, disp, starts, crashes, sends>>

\* upsertCustomer
StartUpsert(s) ==
  /\ starter[s].pc = "upsert"
  /\ customers' = customers \cup {Head(starter[s].todo)}
  /\ starter' = [starter EXCEPT ![s].pc = "insert"]
  /\ UNCHANGED <<now, msgs, ticks, disp, starts, crashes, sends>>

\* (mutant) the batch does not move its base on
StartInsertSameBase(s) ==
  /\ starter[s].pc = "insert"
  /\ Len(msgs) < MaxRows
  /\ now + MinSendGap <= Horizon
  /\ msgs' = Append(msgs, [phone |-> Head(starter[s].todo), status |-> "scheduled",
                           scheduledAt |-> starter[s].at, attempts |-> 0,
                           createdAt |-> now])
  /\ starter' = [starter EXCEPT ![s].pc = "check", ![s].todo = Tail(@)]
  /\ UNCHANGED <<now, customers, ticks, disp, starts, crashes, sends>>

\* created_at is the instant of the INSERT (DEFAULT now()).  The two bounds keep
\* the table small and leave the modelled clock time to send what is staged.
StartInsert(s) ==
  /\ starter[s].pc = "insert"
  /\ Len(msgs) < MaxRows
  /\ now + MinSendGap <= Horizon
  /\ msgs' = Append(msgs, [phone |-> Head(starter[s].todo), status |-> "scheduled",
                           scheduledAt |-> starter[s].at, attempts |-> 0,
                           createdAt |-> now])
  /\ starter' = [starter EXCEPT ![s].pc = "check", ![s].todo = Tail(@),
                                ![s].base = starter[s].at]
  /\ UNCHANGED <<now, customers, ticks, disp, starts, crashes, sends>>

StartEnd(s) ==
  /\ starter[s].pc = "check"
  /\ starter[s].todo = <<>>
  /\ starter' = [starter EXCEPT ![s] = IdleStart]
  /\ UNCHANGED <<now, msgs, customers, ticks, disp, starts, crashes, sends>>

(***************************************************************************)
(* The clock, and the death of a process: a restarted container, a killed  *)
(* run, or a query that throws.  What was committed stays, the rest is     *)
(* lost.  A dispatcher in "send" may die after wa.js delivered.            *)
(***************************************************************************)
ClockTick ==
  /\ now < Horizon
  /\ now' = now + 1
  /\ UNCHANGED <<msgs, customers, ticks, disp, starter, starts, crashes, sends>>

DispatchCrash(d) ==
  /\ disp[d].pc # "idle"
  /\ crashes < MaxCrashes
  /\ crashes' = crashes + 1
  /\ ReturnDispatch(d)
  /\ UNCHANGED <<now, msgs, customers, ticks, starter, starts, sends>>

StartCrash(s) ==
  /\ starter[s].pc # "idle"
  /\ crashes < MaxCrashes
  /\ crashes' = crashes + 1
  /\ starter' = [starter EXCEPT ![s] = IdleStart]
  /\ UNCHANGED <<now, msgs, customers, ticks, disp, starts, sends>>

DispatchStep(d) ==
  \/ DispatchBegin(d) \/ DispatchOutsideWindow(d) \/ DispatchPeek(d)
  \/ DispatchConnected(d) \/ DispatchDisconnected(d) \/ DispatchGap(d)
  \/ DispatchClaim(d) \/ DispatchNothingLeft(d) \/ DispatchCooldown(d)
  \/ DispatchSkip(d) \/ DispatchSend(d) \/ DispatchRecord(d)

StartStep(s) ==
  \/ StartBegin(s) \/ StartTail(s) \/ StartCheck(s)
  \/ StartUpsert(s) \/ StartInsert(s) \/ StartEnd(s)

Next ==
  \/ ClockTick
  \/ \E d \in Dispatchers : DispatchStep(d) \/ DispatchCrash(d)
  \/ \E s \in Starters : StartStep(s) \/ StartCrash(s)

Spec == Init /\ [][Next]_vars

\* Time passes, cron keeps starting dispatchers and a started run is scheduled;
\* WhatsApp is not disconnected for ever.  Nothing obliges anyone to `start`.
Fairness ==
  /\ WF_vars(ClockTick)
  /\ \A d \in Dispatchers : WF_vars(DispatchStep(d)) /\ SF_vars(DispatchConnected(d))

FairSpec == Spec /\ Fairness

(***************************************************************************)
(* Properties.                                                             *)
(***************************************************************************)
Holding == {"cooldown", "skip", "send", "record"}
Holds(d) == disp[d].pc \in Holding

\* FOR UPDATE SKIP LOCKED: a row is worked on by at most one dispatch run, and
\* for as long as a run works on it the row says 'sending'.
ClaimExclusive ==
  /\ \A d \in Dispatchers : Holds(d) =>
       disp[d].id \in Ids /\ msgs[disp[d].id].status = "sending"
  /\ \A d, e \in Dispatchers : Holds(d) /\ Holds(e) /\ disp[d].id = disp[e].id => d = e

\* The attempts column counts the calls of waSend made for the row, whatever
\* the disconnections and crashes: calls 1..attempts have been made, one more
\* may be under way (or was cut short by a crash) while the row is 'sending',
\* each of them once, and never more than MAX_ATTEMPTS of them.
AttemptsCountSends ==
  \A id \in Ids :
    LET made == {s.n : s \in {x \in sends : x.id = id}}
    IN /\ msgs[id].attempts <= MaxAttempts
       /\ msgs[id].status = "scheduled" => msgs[id].attempts < MaxAttempts
       /\ \/ made = 1 .. msgs[id].attempts
          \/ /\ msgs[id].status = "sending"
             /\ msgs[id].attempts < MaxAttempts
             /\ made = 1 .. (msgs[id].attempts + 1)
       /\ \A x, y \in sends : x.id = id /\ y.id = id /\ x.n = y.n => x = y

\* A number has at most one message waiting: `start` refuses a number that is
\* already queued.  (True of one `start` at a time, see NoDuplicateStaging.)
NoDuplicatePending ==
  \A i, j \in Ids :
    Pending(i) /\ Pending(j) /\ msgs[i].phone = msgs[j].phone => i = j

\* Messages waiting for their first attempt keep the cumulative delay of the
\* schedule, across batches and whatever the dispatchers sent meanwhile.
FirstAttempt(id) == msgs[id].status = "scheduled" /\ msgs[id].attempts = 0
StagedSpacing ==
  \A i, j \in Ids :
    FirstAttempt(i) /\ FirstAttempt(j) /\ i < j =>
      msgs[j].scheduledAt - msgs[i].scheduledAt >= DelayMin

\* A number that was sent a message is staged again only a cooldown after that
\* message was staged.
StagedCooldown ==
  \A i, j \in Ids :
    /\ i < j
    /\ msgs[i].phone = msgs[j].phone
    /\ msgs[i].status = "sent"
    => msgs[j].createdAt - msgs[i].createdAt >= Cooldown

\* What staging promises is kept by both, for any one number and for all of them.
StagedApart == StagedSpacing /\ StagedCooldown

\* A message leaves the queue for good: once sent, failed or skipped, a row is
\* never written again, and the table only grows.
TerminalIsFinal ==
  [][\A id \in Ids : /\ id \in DOMAIN msgs'
                     /\ msgs[id].status \in Terminal => msgs'[id] = msgs[id]]_vars

\* A failed send is put off: successive attempts of a row belong to runs that
\* began at least the minimum delay apart, each inside the sending window.
RetriesPaced ==
  /\ \A x, y \in sends : x.id = y.id /\ x.n < y.n => y.tick - x.tick >= DelayMin
  /\ \A x \in sends : InSendWindow(x.tick) /\ x.tick <= x.at

\* Every staged message is eventually sent, skipped or given up, unless a
\* retry moved it past the end of the modelled time.
Dispatched ==
  \A id \in 1 .. MaxRows :
    (id \in Ids) ~>
      (id \in Ids /\ \/ msgs[id].status \in Terminal
                     \/ msgs[id].scheduledAt > Horizon)

(***************************************************************************)
(* The sender implements the life cycle of MessageLifecycle.               *)
(***************************************************************************)
RowIds == 1 .. MaxRows

Called(id) == [id |-> id, n |-> msgs[id].attempts + 1] \in
              {[id |-> x.id, n |-> x.n] : x \in sends}

StageOf(id) ==
  IF id \notin Ids THEN "absent"
  ELSE CASE msgs[id].status = "scheduled" -> "queued"
         [] msgs[id].status = "sending" -> IF Called(id) THEN "called" ELSE "claimed"
         [] msgs[id].status = "skipped_cooldown" -> "skipped"
         [] OTHER -> msgs[id].status

CallsOf(id) ==
  IF id \notin Ids THEN 0
  ELSE IF StageOf(id) = "called" THEN msgs[id].attempts + 1 ELSE msgs[id].attempts

Lifecycle == INSTANCE MessageLifecycle
  WITH Messages <- RowIds,
       stage <- [id \in RowIds |-> StageOf(id)],
       calls <- [id \in RowIds |-> CallsOf(id)]

\* Every behaviour of the dispatchers, whatever runs overlap or die, takes each
\* message through the abstract life cycle.
ImplementsLifecycle == Lifecycle!LSpec
=============================================================================
