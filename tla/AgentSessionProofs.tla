-------------------------- MODULE AgentSessionProofs --------------------------
(***************************************************************************)
(* AgentSession, for any number of prompts, retries and commands: type     *)
(* correctness whatever the switches leave in, and its four safety         *)
(* properties under the conditions that the switches name.                 *)
(***************************************************************************)
EXTENDS AgentSession, SequenceTheorems, TLAPS

(***************************************************************************)
(* Sequences and messages.                                                 *)
(***************************************************************************)
LEMMA FrontAndLast ==
  ASSUME NEW S, NEW s \in Seq(S), s # <<>>
  PROVE  Front(s) \in Seq(S) /\ Last(s) \in S
BY DEF Front, Last

LEMMA RemovedAt ==
  ASSUME NEW S, NEW s \in Seq(S), NEW i \in DOMAIN s
  PROVE  RemoveAt(s, i) \in Seq(S)
<1>1. SubSeq(s, 1, i - 1) \in Seq(S) /\ SubSeq(s, i + 1, Len(s)) \in Seq(S)
  OBVIOUS
<1> QED
  BY <1>1 DEF RemoveAt

LEMMA NewMessage ==
  ASSUME TypeOK, NEW kind \in Kinds
  PROVE  New(kind) \in Message
BY DEF TypeOK, New, Message

LEMMA WithoutLastReplyType ==
  ASSUME NEW ms \in Seq(Message)
  PROVE  WithoutLastReply(ms) \in Seq(Message)
BY FrontAndLast DEF WithoutLastReply, EndsWithReply

LEMMA PolledType ==
  ASSUME queued \in Seq(Message)
  PROVE  Polled \in Seq(Message) /\ Unpolled \in Seq(Message)
<1>1. <<>> \in Seq(Message)
  OBVIOUS
<1>2. CASE queued = <<>>
  BY <1>1, <1>2 DEF Polled, Unpolled
<1>3. CASE queued # <<>>
  BY <1>3 DEF Polled, Unpolled
<1> QED
  BY <1>2, <1>3

LEMMA EmitType ==
  ASSUME events \in Seq(Event), NEW es \in Seq(Event), Emit(es)
  PROVE  events' \in Seq(Event)
BY DEF Emit

LEMMA CompactedType ==
  ASSUME TypeOK
  PROVE  Compacted \in Seq(Message) /\ Compacted # <<>>
<1> DEFINE summary == [kind |-> "summary", n |-> prepared.n, s |-> prepared.sid]
           kept == IF prepared.length = 0 THEN 1 ELSE prepared.length
<1>1. summary \in Message
  BY DEF TypeOK, Message, Kinds
<1>2. <<summary>> \in Seq(Message)
  BY <1>1
<1>3. kept \in Nat \ {0}
  BY DEF TypeOK
<1>4. SubSeq(entries, kept, Len(entries)) \in Seq(Message)
  BY <1>3 DEF TypeOK
<1>5. Compacted = IF prepared.sid = sid THEN <<summary>> \o SubSeq(entries, kept, Len(entries)) ELSE <<summary>>
  BY DEF Compacted
<1> HIDE DEF summary, kept
<1>6. <<summary>> \o SubSeq(entries, kept, Len(entries)) \in Seq(Message)
  BY <1>2, <1>4
<1>7. <<summary>> \o SubSeq(entries, kept, Len(entries)) # <<>>
  BY <1>2, <1>4
<1> QED
  BY <1>2, <1>5, <1>6, <1>7

(***************************************************************************)
(* What the parts of the actions do.                                       *)
(***************************************************************************)
Stages == [Prompts -> {"idle", "overflow", "threshold", "ready", "running", "ended",
                       "waiting", "done"}]
TranscriptType == transcript \in Seq(Message)
PreparedType == prepared \in [n: Nat, length: Nat, sid: Nat]
HandlerType == handler \in [at: {"free", "backoff", "compact"}, reason: Reasons \cup {"none"},
                            message: Message \cup {NoMessage}]

LEMMA ReasonType ==
  ASSUME NEW m, NEW skipAborted, NEW reason \in Reason(m, skipAborted)
  PROVE  reason \in Reasons \cup {"none"}
BY DEF Reason, Reasons

LEMMA BeginsType ==
  ASSUME TypeOK, NEW p \in Prompts \cup {NoPrompt}, NEW ms \in Seq(Message), Begins(p, ms)
  PROVE  /\ run' = "running" /\ owner' = p /\ aborting' = FALSE
         /\ TranscriptType' /\ events' \in Seq(Event)
<1>1. [i \in DOMAIN ms |-> [type |-> "user", message |-> ms[i]]] \in Seq(Event)
  <2>1. [i \in DOMAIN ms |-> [type |-> "user", message |-> ms[i]]] \in [1 .. Len(ms) -> Event]
    BY DEF Event
  <2>2. Len(ms) \in Nat
    OBVIOUS
  <2> QED
    BY <2>1, <2>2, SeqDef
<1>2. events' \in Seq(Event)
  BY <1>1, EmitType DEF Begins, TypeOK
<1>3. TranscriptType'
  BY DEF Begins, TypeOK, TranscriptType
<1> QED
  BY <1>2, <1>3 DEF Begins

LEMMA EndsType ==
  ASSUME TypeOK, NEW m \in Message, NEW es \in Seq(Event), Ends(m, es)
  PROVE  /\ run' = "idle" /\ owner' = NoPrompt /\ aborting' = FALSE
         /\ TranscriptType' /\ events' \in Seq(Event)
         /\ pc' \in [Prompts -> {"idle", "overflow", "threshold", "ready", "running", "ended",
                                 "waiting", "done"}]
         /\ retrying' \in BOOLEAN
         /\ clock' \in Nat
<1>1. Append(es, [type |-> "agentEnd", message |-> m]) \in Seq(Event)
  BY DEF Event
<1>2. events' \in Seq(Event)
  BY <1>1, EmitType DEF Ends, TypeOK
<1>3. TranscriptType'
  BY DEF Ends, TypeOK, TranscriptType
<1>4. pc' \in [Prompts -> {"idle", "overflow", "threshold", "ready", "running", "ended",
                          "waiting", "done"}]
  BY DEF Ends, TypeOK
<1>5. retrying' \in BOOLEAN
  BY DEF Ends, TypeOK
<1> QED
  BY <1>2, <1>3, <1>4, <1>5 DEF Ends, Tick, TypeOK

LEMMA StartCompactionType ==
  ASSUME TypeOK, NEW reason, NEW messages \in Seq(Message), StartCompaction(reason, messages)
  PROVE  TranscriptType' /\ PreparedType'
<1>1. CASE reason = "none"
  BY <1>1 DEF StartCompaction, TypeOK, TranscriptType, PreparedType
<1>2. CASE reason # "none"
  <2>1. TranscriptType'
    BY <1>2, WithoutLastReplyType DEF StartCompaction, TranscriptType
  <2>2. PreparedType'
    BY <1>2 DEF StartCompaction, TypeOK, PreparedType
  <2> QED
    BY <2>1, <2>2
<1> QED
  BY <1>1, <1>2

LEMMA SettleType ==
  ASSUME TypeOK, NEW m \in Message \cup {NoMessage}, NEW messages \in Seq(Message), Settle(m, messages)
  PROVE  /\ retrying' \in BOOLEAN /\ overflowAttempted' \in BOOLEAN
         /\ HandlerType' /\ TranscriptType' /\ PreparedType'
<1>1. PICK reason \in Reason(m, TRUE) :
        /\ retrying' = FALSE
        /\ overflowAttempted' = (overflowAttempted \/ reason = "overflow")
        /\ handler' = IF reason = "none" THEN Free
                      ELSE [at |-> "compact", reason |-> reason, message |-> m]
        /\ StartCompaction(reason, messages)
  BY DEF Settle
<1>2. reason \in Reasons \cup {"none"}
  BY ReasonType
<1>3. HandlerType'
  BY <1>1, <1>2 DEF HandlerType, Free
<1>4. TranscriptType' /\ PreparedType'
  BY <1>1, StartCompactionType
<1>5. overflowAttempted' \in BOOLEAN
  BY <1>1 DEF TypeOK
<1> QED
  BY <1>1, <1>3, <1>4, <1>5

LEMMA CompactType ==
  ASSUME TypeOK, NEW reason, Compact(reason) \/ CompactionFails
  PROVE  /\ entries' \in Seq(Message) /\ compactedAt' \in Nat /\ TranscriptType'
         /\ timers' \in Nat
<1>1. CASE CompactionFails
  BY <1>1 DEF CompactionFails, TypeOK, TranscriptType
<1>2. CASE Compact(reason)
  <2>1. Front(Compacted) \in Seq(Message) /\ Compacted \in Seq(Message)
    BY CompactedType, FrontAndLast
  <2>2. TranscriptType'
    BY <1>2, <2>1 DEF Compact, TranscriptType
  <2> QED
    BY <1>2, <2>1, <2>2 DEF Compact, TypeOK
<1> QED
  BY <1>1, <1>2

LEMMA AbortAllType ==
  ASSUME TypeOK, AbortAll
  PROVE  /\ aborting' \in BOOLEAN /\ retrying' \in BOOLEAN /\ overflowAttempted' \in BOOLEAN
         /\ attempt' \in 0 .. MaxRetries /\ inARow' \in Nat
         /\ HandlerType' /\ TranscriptType' /\ PreparedType'
<1>0. aborting' \in BOOLEAN
  BY DEF AbortAll
<1>1. CASE handler.at = "backoff"
  <2>1. Settle(handler.message, transcript) /\ attempt' = 0 /\ inARow' = 0
    BY <1>1 DEF AbortAll
  <2>2. handler.message \in Message \cup {NoMessage} /\ transcript \in Seq(Message)
    BY DEF TypeOK
  <2> QED
    BY <1>0, <2>1, <2>2, SettleType, BoundAssumption
<1>2. CASE handler.at # "backoff"
  BY <1>0, <1>2 DEF AbortAll, TypeOK, HandlerType, TranscriptType, PreparedType
<1> QED
  BY <1>1, <1>2

(***************************************************************************)
(* The actions.                                                            *)
(***************************************************************************)
LEMMA RepliesType ==
  ASSUME TypeOK, Replies
  PROVE  TypeOK'
<1>1. \A kind \in ReplyKinds : New(kind) \in Message
  BY NewMessage DEF Kinds
<1>2. CASE ReplyAndGoOn
  <2>1. New("ok") \in Message /\ Head(queued) \in Message /\ Tail(queued) \in Seq(Message)
    BY <1>1, <1>2 DEF ReplyAndGoOn, TypeOK, ReplyKinds
  <2>2. <<New("ok"), Head(queued)>> \in Seq(Message)
    BY <2>1
  <2>3. transcript' \in Seq(Message) /\ queued' \in Seq(Message)
    BY <1>2, <2>1, <2>2 DEF ReplyAndGoOn, TypeOK
  <2>4. [type |-> "reply", message |-> New("ok")] \in Event /\ [type |-> "user", message |-> Head(queued)] \in Event
    BY <2>1 DEF Event
  <2>5. <<[type |-> "reply", message |-> New("ok")], [type |-> "user", message |-> Head(queued)]>>
          \in Seq(Event)
    BY <2>4
  <2>6. Emit(<<[type |-> "reply", message |-> New("ok")], [type |-> "user", message |-> Head(queued)]>>)
    BY <1>2 DEF ReplyAndGoOn
  <2>7. events' \in Seq(Event)
    BY <2>5, <2>6, EmitType DEF TypeOK
  <2> QED
    BY <1>2, <2>3, <2>7 DEF ReplyAndGoOn, Tick, TypeOK, retryVars
<1>3. ASSUME NEW kind \in ReplyKinds, ReplyAndEnd(kind)
      PROVE  TypeOK'
  <2>1. New(kind) \in Message
    BY <1>1
  <2>2. <<[type |-> "reply", message |-> New(kind)]>> \in Seq(Event)
    BY <2>1 DEF Event
  <2>3. Ends(New(kind), <<[type |-> "reply", message |-> New(kind)]>>)
    BY <1>3 DEF ReplyAndEnd
  <2> QED
    BY <1>3, <2>1, <2>2, <2>3, EndsType DEF ReplyAndEnd, TypeOK, TranscriptType
<1>4. ASSUME NEW kind \in ReplyKinds, Throws(kind)
      PROVE  TypeOK'
  <2>1. New(kind) \in Message
    BY <1>1
  <2>2. <<>> \in Seq(Event)
    OBVIOUS
  <2>3. Ends(New(kind), <<>>)
    BY <1>4 DEF Throws
  <2> QED
    BY <1>4, <2>1, <2>2, <2>3, EndsType DEF Throws, TypeOK, TranscriptType
<1> QED
  BY <1>2, <1>3, <1>4 DEF Replies

LEMMA TimerFiresType ==
  ASSUME TypeOK, TimerFires
  PROVE  TypeOK'
<1>1. timers' \in Nat
  BY DEF TimerFires, TypeOK
<1>2. CASE UNCHANGED <<agentVars, events>>
  BY <1>1, <1>2 DEF TimerFires, TypeOK, agentVars, retryVars, fileVars
<1>3. CASE Begins(NoPrompt, Polled) /\ queued' = Unpolled
  <2>1. Polled \in Seq(Message) /\ Unpolled \in Seq(Message)
    BY PolledType DEF TypeOK
  <2>2. /\ run' = "running" /\ owner' = NoPrompt /\ aborting' = FALSE
        /\ transcript' \in Seq(Message) /\ events' \in Seq(Event)
    BY <1>3, <2>1, BeginsType DEF TranscriptType
  <2> QED
    BY <1>1, <1>3, <2>1, <2>2 DEF TimerFires, TypeOK, retryVars, fileVars
<1> QED
  BY <1>2, <1>3 DEF TimerFires

LEMMA HandlerCompactsType ==
  ASSUME TypeOK, HandlerCompacts
  PROVE  TypeOK'
<1>1. /\ entries' \in Seq(Message) /\ compactedAt' \in Nat /\ transcript' \in Seq(Message)
      /\ timers' \in Nat
  BY CompactType DEF HandlerCompacts, TranscriptType
<1>2. handler' \in [at: {"free", "backoff", "compact"}, reason: Reasons \cup {"none"},
                   message: Message \cup {NoMessage}]
  BY DEF HandlerCompacts, Free
<1> QED
  BY <1>1, <1>2 DEF HandlerCompacts, TypeOK, retryVars

LEMMA BackoffEndsType ==
  ASSUME TypeOK, BackoffEnds
  PROVE  TypeOK'
<1>1. handler' \in [at: {"free", "backoff", "compact"}, reason: Reasons \cup {"none"},
                   message: Message \cup {NoMessage}]
  BY DEF BackoffEnds, Free
<1>2. timers' \in Nat /\ inARow' \in Nat
  BY DEF BackoffEnds, TypeOK
<1> QED
  BY <1>1, <1>2 DEF BackoffEnds, TypeOK, agentVars, retryVars, fileVars

LEMMA ProcessAgentEventType ==
  ASSUME TypeOK, ProcessAgentEvent
  PROVE  TypeOK'
<1> DEFINE m == Head(events).message
<1>1. m \in Message /\ events' \in Seq(Event)
  <2>1. Head(events) \in Event /\ Tail(events) \in Seq(Event)
    BY DEF ProcessAgentEvent, TypeOK
  <2> QED
    BY <2>1 DEF ProcessAgentEvent, Event
<1> HIDE DEF m
<1>5. UNCHANGED <<queued, run, owner, aborting, subscribed, pendingBash, pc, sid, clock,
                  compactedAt, shelf, purpose, commands>>
  BY DEF ProcessAgentEvent
<1>2. CASE HandleUser
  <2>1. mirror' = mirror \/ \E i \in DOMAIN mirror : mirror' = RemoveAt(mirror, i)
    <3>1. CASE Head(events).message.n \in ToSet(mirror)
      <4> DEFINE j == CHOOSE i \in DOMAIN mirror : mirror[i] = Head(events).message.n
      <4>1. j \in DOMAIN mirror
        BY <3>1 DEF ToSet
      <4>2. mirror' = RemoveAt(mirror, j)
        BY <1>2, <3>1, Zenon DEF HandleUser
      <4> QED
        BY <4>1, <4>2
    <3>2. CASE Head(events).message.n \notin ToSet(mirror)
      BY <1>2, <3>2 DEF HandleUser
    <3> QED
      BY <3>1, <3>2
  <2>4. mirror \in Seq(Nat)
    BY DEF TypeOK
  <2>7. mirror' \in Seq(Nat)
    BY <2>1, <2>4, RemovedAt
  <2>2. entries' = Append(entries, m)
    BY <1>2 DEF HandleUser, m
  <2>3. entries' \in Seq(Message)
    BY <1>1, <2>2 DEF TypeOK
  <2>8. UNCHANGED <<transcript, handler, last, attempt, retrying, timers, prepared>>
    BY <1>2, Zenon DEF HandleUser
  <2>9. overflowAttempted' \in BOOLEAN
    BY <1>2, Zenon DEF HandleUser
  <2>10. inARow' \in Nat
    <3>1. inARow' = 0
      BY <1>2, Zenon DEF HandleUser
    <3> QED
      BY <3>1
  <2> QED
    BY <1>1, <1>5, <2>3, <2>7, <2>8, <2>9, <2>10 DEF TypeOK
<1>3. CASE HandleReply
  <2>1. entries' = Append(entries, m) /\ last' = m
    BY <1>3 DEF HandleReply, m
  <2>2. entries' \in Seq(Message)
    BY <1>1, <2>1 DEF TypeOK
  <2>3. attempt' \in 0 .. MaxRetries /\ inARow' \in Nat
    BY <1>3, BoundAssumption DEF HandleReply, TypeOK
  <2>4. overflowAttempted' \in BOOLEAN
    BY <1>3 DEF HandleReply, TypeOK
  <2> QED
    BY <1>1, <1>3, <2>1, <2>2, <2>3, <2>4 DEF HandleReply, ProcessAgentEvent, TypeOK
<1>4. CASE HandleEnd
  <2>1. last \in Message \cup {NoMessage} /\ transcript \in Seq(Message) /\ handler = Free
    BY DEF TypeOK, ProcessAgentEvent
  <2>2. /\ retrying' \in BOOLEAN /\ overflowAttempted' \in BOOLEAN
        /\ HandlerType' /\ TranscriptType' /\ PreparedType' /\ attempt' \in 0 .. MaxRetries
    <3>1. CASE UNCHANGED <<transcript, handler, attempt, retrying, overflowAttempted, prepared>>
      BY <3>1 DEF TypeOK, HandlerType, TranscriptType, PreparedType
    <3>2. CASE /\ attempt < MaxRetries
               /\ attempt' = attempt + 1 /\ retrying' = TRUE
               /\ transcript' = WithoutLastReply(transcript)
               /\ handler' = [at |-> "backoff", reason |-> "none", message |-> last]
               /\ UNCHANGED <<overflowAttempted, prepared>>
      <4>1. HandlerType'
        BY <2>1, <3>2 DEF HandlerType
      <4>2. TranscriptType'
        BY <2>1, <3>2, WithoutLastReplyType DEF TranscriptType
      <4>3. attempt' \in 0 .. MaxRetries
        BY <3>2, BoundAssumption DEF TypeOK
      <4> QED
        BY <3>2, <4>1, <4>2, <4>3 DEF TypeOK, PreparedType
    <3>3. CASE Settle(last, transcript) /\ attempt' \in {attempt, 0}
      <4>1. attempt' \in 0 .. MaxRetries
        BY <3>3, BoundAssumption DEF TypeOK
      <4> QED
        BY <2>1, <3>3, <4>1, SettleType
    <3> QED
      BY <1>4, <3>1, <3>2, <3>3 DEF HandleEnd
  <2> QED
    BY <1>1, <1>4, <2>2
       DEF HandleEnd, ProcessAgentEvent, TypeOK, HandlerType, TranscriptType, PreparedType
<1> QED
  BY <1>2, <1>3, <1>4 DEF ProcessAgentEvent

LEMMA PromptingType ==
  ASSUME TypeOK, NEW p \in Prompts, Prompting(p)
  PROVE  TypeOK'
<1>1. New("user") \in Message
  BY NewMessage DEF Kinds
<1>2. CASE PromptSteers(p)
  <2>1. queued' = Append(queued, New("user")) /\ mirror' = Append(mirror, clock + 1)
    BY <1>2 DEF PromptSteers
  <2>2. queued' \in Seq(Message) /\ mirror' \in Seq(Nat)
    BY <1>1, <2>1 DEF TypeOK
  <2> QED
    BY <1>2, <2>2 DEF PromptSteers, Tick, TypeOK, retryVars
<1>3. CASE PromptBegins(p)
  <2> DEFINE messages == transcript \o pendingBash
             replies == IF LastReply(messages) = NoMessage THEN {"none"}
                        ELSE Reason(LastReply(messages), FALSE)
  <2>1. PICK reason \in replies :
          /\ overflowAttempted' = (overflowAttempted \/ reason = "overflow")
          /\ pc' = [pc EXCEPT ![p] = IF reason = "none" THEN "ready" ELSE reason]
          /\ StartCompaction(reason, messages)
    BY <1>3 DEF PromptBegins
  <2>2. reason \in Reasons \cup {"none"}
    BY <2>1, ReasonType
  <2>3. messages \in Seq(Message)
    BY DEF TypeOK
  <2>4. TranscriptType' /\ PreparedType'
    BY <2>1, <2>3, StartCompactionType
  <2>5. overflowAttempted' \in BOOLEAN
    BY <2>1 DEF TypeOK
  <2>6. pc' \in [Prompts -> {"idle", "overflow", "threshold", "ready", "running", "ended",
                            "waiting", "done"}]
    BY <2>1, <2>2 DEF TypeOK, Reasons
  <2>7. entries' \in Seq(Message) /\ pendingBash' \in Seq(Message)
    BY <1>3 DEF PromptBegins, TypeOK
  <2> QED
    BY <1>3, <2>4, <2>5, <2>6, <2>7 DEF PromptBegins, TypeOK, TranscriptType, PreparedType
<1>4. CASE PromptCompacts(p)
  <2>1. /\ entries' \in Seq(Message) /\ compactedAt' \in Nat /\ transcript' \in Seq(Message)
        /\ timers' \in Nat
    BY <1>4, CompactType DEF PromptCompacts, TranscriptType
  <2> QED
    BY <1>4, <2>1 DEF PromptCompacts, TypeOK, retryVars
<1>5. CASE PromptRuns(p)
  <2>1. CASE run = "idle"
    <3>1. Polled \in Seq(Message) /\ Unpolled \in Seq(Message) /\ <<New("user")>> \in Seq(Message)
      BY <1>1, PolledType DEF TypeOK
    <3>2. <<New("user")>> \o Polled \in Seq(Message)
      BY <3>1
    <3>3. /\ Begins(p, <<New("user")>> \o Polled) /\ queued' = Unpolled
          /\ pc' = [pc EXCEPT ![p] = "running"] /\ clock' = clock + 1
      BY <1>5, <2>1 DEF PromptRuns, Tick
    <3>4. /\ run' = "running" /\ owner' = p /\ aborting' = FALSE
          /\ transcript' \in Seq(Message) /\ events' \in Seq(Event)
      BY <3>2, <3>3, BeginsType DEF TranscriptType
    <3>5. pc' \in Stages
      BY <3>3 DEF TypeOK, Stages
    <3>6. clock' \in Nat
      BY <3>3 DEF TypeOK
    <3> QED
      BY <1>5, <3>1, <3>3, <3>4, <3>5, <3>6 DEF PromptRuns, TypeOK, retryVars, Stages
  <2>2. CASE run # "idle"
    <3>1. pc' = [pc EXCEPT ![p] = "done"] /\ UNCHANGED <<agentVars, events, clock>>
      BY <1>5, <2>2 DEF PromptRuns
    <3>2. pc' \in Stages
      BY <3>1 DEF TypeOK, Stages
    <3> QED
      BY <1>5, <3>1, <3>2 DEF PromptRuns, TypeOK, agentVars, retryVars, Stages
  <2> QED
    BY <2>1, <2>2
<1>6. CASE PromptWaits(p)
  <2>1. pc' \in Stages
    BY <1>6 DEF PromptWaits, TypeOK, Stages
  <2> QED
    BY <1>6, <2>1 DEF PromptWaits, TypeOK, agentVars, retryVars, fileVars, Stages
<1> QED
  BY <1>2, <1>3, <1>4, <1>5, <1>6 DEF Prompting

LEMMA AbortType ==
  ASSUME TypeOK, Abort
  PROVE  TypeOK'
<1>1. AbortAll
  BY DEF Abort
<1>2. commands' \in Nat
  BY DEF Abort, Command, TypeOK
<1> QED
  BY <1>1, <1>2, AbortAllType
     DEF Abort, TypeOK, HandlerType, TranscriptType, PreparedType, fileVars

LEMMA DisconnectType ==
  ASSUME TypeOK, NEW why \in {"new", "resume", "compact"}, Disconnect(why)
  PROVE  TypeOK'
<1>1. AbortAll /\ purpose' = why /\ subscribed' = FALSE
  BY DEF Disconnect
<1>2. commands' \in Nat
  BY DEF Disconnect, Command, TypeOK
<1> QED
  BY <1>1, <1>2, AbortAllType
     DEF Disconnect, TypeOK, HandlerType, TranscriptType, PreparedType, fileVars

LEMMA ClearQueueType ==
  ASSUME TypeOK, ClearQueue
  PROVE  TypeOK'
<1>1. queued' \in Seq(Message) /\ mirror' \in Seq(Nat)
  BY DEF ClearQueue
<1>2. commands' \in Nat
  BY DEF ClearQueue, Command, TypeOK
<1> QED
  BY <1>1, <1>2 DEF ClearQueue, TypeOK, retryVars, fileVars

LEMMA RecordBashType ==
  ASSUME TypeOK, RecordBash
  PROVE  TypeOK'
<1> DEFINE m == New("bash")
<1>1. m \in Message
  BY NewMessage DEF Kinds
<1>2. commands' \in Nat /\ clock' \in Nat
  BY DEF RecordBash, Command, Tick, TypeOK
<1>3. /\ transcript' \in {transcript, Append(transcript, m)}
      /\ entries' \in {entries, Append(entries, m)}
      /\ pendingBash' \in {pendingBash, Append(pendingBash, m)}
      /\ inARow' \in {inARow, 0}
  BY DEF RecordBash
<1> HIDE DEF m
<1>4. transcript' \in Seq(Message) /\ entries' \in Seq(Message) /\ pendingBash' \in Seq(Message)
  <2>1. transcript \in Seq(Message) /\ entries \in Seq(Message) /\ pendingBash \in Seq(Message)
    BY DEF TypeOK
  <2>2. /\ Append(transcript, m) \in Seq(Message) /\ Append(entries, m) \in Seq(Message)
        /\ Append(pendingBash, m) \in Seq(Message)
    BY <1>1, <2>1
  <2> QED
    BY <1>3, <2>1, <2>2
<1>5. inARow' \in Nat
  BY <1>3 DEF TypeOK
<1> QED
  BY <1>2, <1>4, <1>5 DEF RecordBash, TypeOK, retryVars

LEMMA LeftType ==
  ASSUME TypeOK
  PROVE  Left \in Session
BY DEF TypeOK, Left, Session

LEMMA ForkType ==
  ASSUME TypeOK, NEW k \in DOMAIN entries, Fork(k)
  PROVE  TypeOK'
<1> DEFINE copies == [i \in 1 .. k - 1 |-> [entries[i] EXCEPT !.s = commands + 2]]
<1>1. copies \in Seq(Message)
  <2>1. k \in 1 .. Len(entries) /\ entries \in Seq(Message) /\ commands + 2 \in Nat
    BY DEF TypeOK
  <2>2. \A i \in 1 .. k - 1 : entries[i] \in Message
    BY <2>1
  <2>3. \A i \in 1 .. k - 1 : [entries[i] EXCEPT !.s = commands + 2] \in Message
    BY <2>1, <2>2 DEF Message
  <2>4. copies \in [1 .. k - 1 -> Message] /\ k - 1 \in Nat
    BY <2>1, <2>3
  <2> HIDE DEF copies
  <2> QED
    BY <2>4, SeqDef
<1>2. transcript' = copies /\ entries' = copies /\ shelf' = Left /\ sid' = commands + 2
  BY DEF Fork
<1> HIDE DEF copies
<1>3. commands' = commands + 1
  BY DEF Fork, Command
<1>4. commands' \in Nat /\ sid' \in Nat
  BY <1>2, <1>3 DEF TypeOK
<1>5. /\ UNCHANGED <<queued, run, owner, aborting, subscribed, events, handler, retryVars, mirror,
                     pendingBash, timers, pc, prepared, clock, compactedAt, purpose>>
      /\ inARow' = 0
  BY DEF Fork
<1> QED
  BY <1>1, <1>2, <1>4, <1>5, LeftType DEF TypeOK, retryVars

LEMMA SwitchingType ==
  ASSUME TypeOK, Switching
  PROVE  TypeOK'
<1>1. ASSUME NEW why, Reconnect(why),
             transcript' \in Seq(Message), queued' \in Seq(Message), mirror' \in Seq(Nat),
             sid' \in Nat, entries' \in Seq(Message), compactedAt' \in Nat, shelf' \in Session,
             inARow' \in Nat
      PROVE  TypeOK'
  BY <1>1 DEF Reconnect, TypeOK, retryVars
<1>2. <<>> \in Seq(Message) /\ <<>> \in Seq(Nat)
  OBVIOUS
<1>3. CASE NewSession
  <2>1. sid' \in Nat
    BY <1>3 DEF NewSession, TypeOK
  <2> QED
    BY <1>1, <1>2, <1>3, <2>1, LeftType DEF NewSession
<1>4. CASE SwitchSession
  <2>1. shelf.entries \in Seq(Message) /\ shelf.id \in Nat /\ shelf.compactedAt \in Nat
    BY DEF TypeOK, Session
  <2>2. queued' \in Seq(Message)
    BY <1>4 DEF SwitchSession, TypeOK
  <2> QED
    BY <1>1, <1>2, <1>4, <2>1, <2>2, LeftType DEF SwitchSession
<1>5. CASE CompactStarts
  <2>1. CASE Reconnect("compact") /\ UNCHANGED <<transcript, queued, mirror, sid, entries, compactedAt, shelf, inARow>>
    BY <1>1, <2>1 DEF TypeOK
  <2>2. CASE /\ purpose' = "compacting"
             /\ prepared' = [n |-> clock, length |-> Len(entries), sid |-> sid]
             /\ UNCHANGED <<agentVars, subscribed, events, handler, retryVars, mirror, pendingBash,
                            timers, pc, fileVars, inARow, commands>>
    <3>1. prepared' \in [n: Nat, length: Nat, sid: Nat]
      BY <2>2 DEF TypeOK
    <3> QED
      BY <2>2, <3>1 DEF TypeOK, agentVars, retryVars, fileVars
  <2> QED
    BY <1>5, <2>1, <2>2 DEF CompactStarts
<1>6. CASE CompactEnds
  <2>1. /\ entries' \in {entries, Compacted} /\ transcript' \in {transcript, Compacted}
        /\ compactedAt' \in {compactedAt, clock}
    BY <1>6 DEF CompactEnds
  <2>2. entries' \in Seq(Message) /\ transcript' \in Seq(Message) /\ compactedAt' \in Nat
    BY <2>1, CompactedType DEF TypeOK
  <2>3. /\ Reconnect("compacting")
        /\ queued' \in Seq(Message) /\ mirror' \in Seq(Nat) /\ sid' \in Nat /\ shelf' \in Session
        /\ inARow' \in Nat
    BY <1>6 DEF CompactEnds, TypeOK
  <2> QED
    BY <1>1, <2>2, <2>3
<1> QED
  BY <1>3, <1>4, <1>5, <1>6 DEF Switching

(***************************************************************************)
(* The theorem.                                                            *)
(***************************************************************************)
LEMMA InitType ==
  ASSUME Init
  PROVE  TypeOK
<1>1. <<>> \in Seq(Message) /\ <<>> \in Seq(Event) /\ <<>> \in Seq(Nat)
  OBVIOUS
<1>2. Earlier \in Session
  <2>1. [kind |-> "user", n |-> 1, s |-> 1] \in Message /\ [kind |-> "ok", n |-> 2, s |-> 1] \in Message
    BY DEF Message, Kinds, ReplyKinds
  <2>2. <<[kind |-> "user", n |-> 1, s |-> 1], [kind |-> "ok", n |-> 2, s |-> 1]>> \in Seq(Message)
    BY <2>1
  <2> QED
    BY <2>2 DEF Earlier, Session
<1>3. handler \in [at: {"free", "backoff", "compact"}, reason: Reasons \cup {"none"},
                  message: Message \cup {NoMessage}]
  BY DEF Init, Free
<1>4. attempt \in 0 .. MaxRetries
  BY BoundAssumption DEF Init
<1>5. pc \in Stages
  BY DEF Init, Stages
<1>6. prepared \in [n: Nat, length: Nat, sid: Nat]
  BY DEF Init
<1> QED
  BY <1>1, <1>2, <1>3, <1>4, <1>5, <1>6 DEF Init, TypeOK, Stages

\* The variables keep their types in every behaviour: sequences hold messages and events
\* only, whoever cuts, copies or replaces them, and the attempt counter of the retries
\* stays within maxRetries.
THEOREM TypeCorrect == Spec => []TypeOK
<1>1. Init => TypeOK
  BY InitType
<1>2. TypeOK /\ [Next]_vars => TypeOK'
  <2> SUFFICES ASSUME TypeOK, [Next]_vars
               PROVE  TypeOK'
    OBVIOUS
  <2>1. CASE UNCHANGED vars
    BY <2>1 DEF TypeOK, vars, agentVars, retryVars, fileVars
  <2>2. ASSUME NEW p \in Prompts, Prompting(p)
        PROVE  TypeOK'
    BY <2>2, PromptingType
  <2>3. ASSUME NEW why \in {"new", "resume", "compact"}, Disconnect(why)
        PROVE  TypeOK'
    BY <2>3, DisconnectType
  <2>4. ASSUME NEW k \in DOMAIN entries, Fork(k)
        PROVE  TypeOK'
    BY <2>4, ForkType
  <2> QED
    BY <2>1, <2>2, <2>3, <2>4, RepliesType, ProcessAgentEventType, HandlerCompactsType,
       BackoffEndsType, TimerFiresType, AbortType, ClearQueueType, RecordBashType, SwitchingType
       DEF Next
<1> QED
  BY <1>1, <1>2, PTL DEF Spec


(***************************************************************************)
(* The four safety properties, under the conditions that the constants     *)
(* name.  None is inductive: each rests on who can be at work with whom    *)
(* (TurnInv), on the order in which the end of a run is announced          *)
(* (EventInv) and on what a pending retry still needs.                     *)
(***************************************************************************)
Conditions ==
  /\ HandlersArePrompt /\ PromptsTakeTurns /\ CompactionIsFast
  /\ RunsOutlastTimers /\ SwitchesAreClean /\ ~ThrowsMeetRetries

Quiet == {"idle", "done"}
BeforeRun == {"overflow", "threshold", "ready"}

\* Who may be at work with whom.
TurnInv ==
  /\ \A p, q \in Prompts : pc[p] \notin Quiet /\ pc[q] \notin Quiet => p = q
  /\ owner \in Prompts => pc[owner] = "running"
  /\ \A p \in Prompts : pc[p] \in BeforeRun =>
       /\ run = "idle" /\ events = <<>> /\ handler.at = "free" /\ ~retrying
       /\ pc[p] \in Reasons => timers = 0
  /\ handler.at # "free" => run = "idle" /\ events = <<>> /\ timers = 0
  /\ handler.at = "backoff" => retrying /\ handler.message.kind = "error"
  /\ handler.at = "compact" => ~retrying
  /\ subscribed = (purpose = "none")
  /\ purpose # "none" => events = <<>> /\ ~retrying
  /\ purpose \in {"compact", "compacting"} =>
       timers = 0 /\ handler.at = "free" /\ \A p \in Prompts : pc[p] \notin BeforeRun
  /\ purpose = "compact" /\ run = "running" => aborting
  /\ purpose = "compacting" => run = "idle"

\* The last event of a run announces its end, and a failed reply comes right before it.
EndPending(es) == es # <<>> /\ es[Len(es)].type = "agentEnd"
EventsOK(es) ==
  \A i \in DOMAIN es :
    /\ es[i].type = "user" => es[i].message.kind = "user"
    /\ es[i].type \in {"reply", "agentEnd"} => IsReply(es[i].message)
    /\ es[i].type = "agentEnd" => i = Len(es)
    /\ es[i].type = "reply" /\ es[i].message.kind \in ErrorKinds =>
         /\ i + 1 \in DOMAIN es
         /\ es[i + 1].type = "agentEnd" /\ es[i + 1].message = es[i].message

\* A request can be made of these messages: they do not end with a reply.
Continues(ms) == ms # <<>> /\ ~IsReply(ms[Len(ms)])
AllOf(ms, kind) == \A m \in ToSet(ms) : m.kind = kind

EventInv ==
  /\ EventsOK(events)
  /\ EndPending(events) =>
       /\ run = "idle" /\ timers = 0
       /\ Len(transcript) > 1
       /\ transcript[Len(transcript)] = events[Len(events)].message
       /\ ~IsReply(transcript[Len(transcript) - 1])
  /\ run = "running" => Continues(transcript)
  /\ AllOf(queued, "user") /\ AllOf(pendingBash, "bash")
  /\ last.kind \in ErrorKinds =>
       /\ Len(events) = 1 /\ EndPending(events) /\ events[1].message = last
       /\ entries # <<>> /\ entries[Len(entries)] = last
  /\ last = NoMessage \/ IsReply(last)

\* The handling of these events will settle the retry: they announce an end with a reply.
EndsTheRetry(es, m) ==
  EndPending(es) /\ (m # NoMessage \/ (Len(es) > 1 /\ es[Len(es) - 1].type = "reply"))

RetryInv ==
  /\ handler.at = "backoff" => Continues(transcript)
  /\ retrying =>
       \/ handler.at = "backoff"
       \/ run = "running"
       \/ EndsTheRetry(events, last)
       \/ timers > 0 /\ Continues(transcript)

\* The attempts are counted anew though nothing new was said: the next run, if one
\* begins, begins with a message of the user.
GivenUp == attempt < inARow
CountInv ==
  /\ inARow <= MaxRetries
  /\ handler.at = "backoff" => inARow < attempt
  /\ GivenUp =>
       /\ events # <<>> => events[1].type = "user"
       /\ run = "running" /\ subscribed => events # <<>>
       /\ handler.at = "compact" =>
            /\ handler.reason = "threshold"
            /\ entries # <<>> /\ IsReply(entries[Len(entries)])
            /\ prepared.length = Len(entries) /\ prepared.sid = sid
       /\ timers > 0 /\ run = "idle" /\ (\A p \in Prompts : pc[p] \notin BeforeRun) =>
            ~Continues(transcript)

SaidIn(ms, id) == \A m \in ToSet(ms) : m.kind # "bash" => m.s = id

SessionInv ==
  /\ SaidIn(transcript, sid) /\ SaidIn(entries, sid) /\ SaidIn(queued, sid)
  /\ \A e \in ToSet(events) : e.message.s = sid
  /\ SaidIn(shelf.entries, shelf.id)
  /\ handler.at = "compact" \/ purpose = "compacting" \/ (\E p \in Prompts : pc[p] \in Reasons)
       => prepared.sid = sid
  /\ purpose = "resume" => queued = <<>>

\* The good messages are those of the file and those whose event is still to be handled.
GoodKinds == Kinds \ (ErrorKinds \cup {"aborted"})
Announced(m, es) == \E e \in ToSet(es) : e.type # "agentEnd" /\ e.message = m
Follows(ts, ms, es) ==
  \A m \in Message : m.kind \in GoodKinds =>
    (m \in ToSet(ts) <=> m \in ToSet(ms) \/ Announced(m, es))

FileInv ==
  purpose \in {"none", "compact", "compacting"} => Follows(transcript, entries, events)

Inv == TypeOK /\ TurnInv /\ EventInv /\ RetryInv /\ CountInv /\ SessionInv /\ FileInv

\* What every action has to keep beside the types.
Kept == TurnInv' /\ EventInv' /\ RetryInv' /\ CountInv' /\ SessionInv' /\ FileInv'

(***************************************************************************)
(* Lemmas about sequences of messages and of events.                       *)
(***************************************************************************)
LEMMA JoinFacts ==
  ASSUME NEW S, NEW s \in Seq(S), NEW t \in Seq(S)
  PROVE  /\ s \o t \in Seq(S) /\ Len(s \o t) = Len(s) + Len(t)
         /\ \A i \in DOMAIN s : i \in DOMAIN (s \o t) /\ (s \o t)[i] = s[i]
         /\ \A i \in DOMAIN t : Len(s) + i \in DOMAIN (s \o t) /\ (s \o t)[Len(s) + i] = t[i]
         /\ \A i \in DOMAIN (s \o t) :
              \/ i \in DOMAIN s /\ (s \o t)[i] = s[i]
              \/ i - Len(s) \in DOMAIN t /\ i > Len(s) /\ (s \o t)[i] = t[i - Len(s)]
         /\ s \o t = <<>> <=> s = <<>> /\ t = <<>>
         /\ t # <<>> => (s \o t)[Len(s \o t)] = t[Len(t)]
         /\ t = <<>> => s \o t = s
         /\ s = <<>> => s \o t = t
<1> DEFINE u == s \o t
<1>1. u \in Seq(S) /\ Len(u) = Len(s) + Len(t)
  BY ConcatProperties
<1>2. \A i \in 1 .. Len(s) + Len(t) : u[i] = IF i <= Len(s) THEN s[i] ELSE t[i - Len(s)]
  BY ConcatProperties
<1>3. /\ DOMAIN s = 1 .. Len(s) /\ DOMAIN t = 1 .. Len(t) /\ DOMAIN u = 1 .. Len(s) + Len(t)
      /\ Len(s) \in Nat /\ Len(t) \in Nat
  BY <1>1, LenProperties
<1>4. s = <<>> <=> Len(s) = 0
  BY EmptySeq
<1>5. t = <<>> <=> Len(t) = 0
  BY EmptySeq
<1>6. u = <<>> <=> Len(u) = 0
  BY <1>1, EmptySeq
<1>7. (t = <<>> => u = s) /\ (s = <<>> => u = t)
  BY ConcatEmptySeq
<1> HIDE DEF u
<1>8. \A i \in DOMAIN s : i \in DOMAIN u /\ u[i] = s[i]
  BY <1>2, <1>3
<1>9. \A i \in DOMAIN t : Len(s) + i \in DOMAIN u /\ u[Len(s) + i] = t[i]
  <2> SUFFICES ASSUME NEW i \in 1 .. Len(t)
               PROVE  Len(s) + i \in 1 .. Len(s) + Len(t) /\ u[Len(s) + i] = t[i]
    BY <1>3
  <2>1. Len(s) + i \in 1 .. Len(s) + Len(t) /\ ~(Len(s) + i <= Len(s)) /\ (Len(s) + i) - Len(s) = i
    BY <1>3
  <2> QED
    BY <1>2, <2>1
<1>10. \A i \in DOMAIN u :
         \/ i \in DOMAIN s /\ u[i] = s[i]
         \/ i - Len(s) \in DOMAIN t /\ i > Len(s) /\ u[i] = t[i - Len(s)]
  BY <1>2, <1>3
<1>11. t # <<>> => u[Len(u)] = t[Len(t)]
  BY <1>1, <1>2, <1>3, <1>5
<1>12. u = <<>> <=> s = <<>> /\ t = <<>>
  BY <1>1, <1>3, <1>4, <1>5, <1>6
<1> QED
  BY <1>1, <1>7, <1>8, <1>9, <1>10, <1>11, <1>12 DEF u

LEMMA AddFacts ==
  ASSUME NEW S, NEW s \in Seq(S), NEW x \in S
  PROVE  /\ Append(s, x) \in Seq(S) /\ Len(Append(s, x)) = Len(s) + 1 /\ Len(s) \in Nat
         /\ Append(s, x) # <<>> /\ Append(s, x)[Len(s) + 1] = x
         /\ DOMAIN s = 1 .. Len(s) /\ DOMAIN Append(s, x) = 1 .. Len(s) + 1
         /\ \A i \in 1 .. Len(s) : Append(s, x)[i] = s[i]
OBVIOUS

LEMMA FrontFacts ==
  ASSUME NEW S, NEW s \in Seq(S), s # <<>>
  PROVE  /\ Front(s) \in Seq(S) /\ Len(Front(s)) = Len(s) - 1 /\ Len(s) \in Nat \ {0}
         /\ DOMAIN s = 1 .. Len(s) /\ DOMAIN Front(s) = 1 .. Len(s) - 1
         /\ \A i \in 1 .. Len(s) - 1 : Front(s)[i] = s[i]
         /\ Last(s) = s[Len(s)]
<1>1. Front(s) = SubSeq(s, 1, Len(s) - 1) /\ Last(s) = s[Len(s)]
  BY DEF Front, Last
<1>2. Len(s) \in Nat \ {0} /\ DOMAIN s = 1 .. Len(s)
  BY EmptySeq, LenProperties
<1>3. \A i \in 1 .. Len(s) - 1 : s[i] \in S
  BY <1>2, ElementOfSeq
<1>4. /\ SubSeq(s, 1, Len(s) - 1) \in Seq(S)
      /\ Len(SubSeq(s, 1, Len(s) - 1)) = Len(s) - 1
      /\ \A i \in 1 .. Len(s) - 1 : SubSeq(s, 1, Len(s) - 1)[i] = s[i]
  BY <1>2
<1>5. DOMAIN SubSeq(s, 1, Len(s) - 1) = 1 .. Len(s) - 1
  BY <1>4, LenProperties
<1> QED
  BY <1>1, <1>2, <1>4, <1>5

LEMMA SetOfSeq ==
  ASSUME NEW S, NEW s \in Seq(S)
  PROVE  /\ ToSet(s) \subseteq S
         /\ \A i \in DOMAIN s : s[i] \in ToSet(s)
         /\ s # <<>> => s[1] \in ToSet(s) /\ s[Len(s)] \in ToSet(s) /\ Last(s) = s[Len(s)]
<1>1. DOMAIN s = 1 .. Len(s) /\ Len(s) \in Nat /\ \A i \in 1 .. Len(s) : s[i] \in S
  BY LenProperties, ElementOfSeq
<1>2. s # <<>> => 1 \in DOMAIN s /\ Len(s) \in DOMAIN s
  BY <1>1, EmptySeq
<1>3. ToSet(s) \subseteq S /\ \A i \in DOMAIN s : s[i] \in ToSet(s)
  BY <1>1, Zenon DEF ToSet
<1> QED
  BY <1>2, <1>3 DEF Last

LEMMA SetOfFew ==
  /\ ToSet(<<>>) = {}
  /\ \A a : ToSet(<<a>>) = {a}
  /\ \A a, b : ToSet(<<a, b>>) = {a, b}
<1>1. ToSet(<<>>) = {}
  BY DEF ToSet
<1>2. \A a : ToSet(<<a>>) = {a}
  <2> TAKE a
  <2>1. DOMAIN <<a>> = {1} /\ <<a>>[1] = a
    OBVIOUS
  <2> QED
    BY <2>1, Zenon DEF ToSet
<1>3. \A a, b : ToSet(<<a, b>>) = {a, b}
  <2> TAKE a, b
  <2>1. DOMAIN <<a, b>> = {1, 2} /\ <<a, b>>[1] = a /\ <<a, b>>[2] = b
    OBVIOUS
  <2> QED
    BY <2>1, Zenon DEF ToSet
<1> QED
  BY <1>1, <1>2, <1>3

LEMMA SetOfJoin ==
  ASSUME NEW S, NEW s \in Seq(S), NEW t \in Seq(S)
  PROVE  ToSet(s \o t) = ToSet(s) \cup ToSet(t)
<1>1. Range(s \o t) = Range(s) \cup Range(t)
  BY RangeConcatenation
<1>2. \A q : ToSet(q) = Range(q)
  BY Zenon DEF ToSet, Range
<1> QED
  BY <1>1, <1>2, Zenon

LEMMA SetOfMore ==
  ASSUME NEW S, NEW s \in Seq(S), NEW x \in S
  PROVE  ToSet(Append(s, x)) = ToSet(s) \cup {x}
<1>1. Append(s, x) = s \o <<x>> /\ <<x>> \in Seq(S)
  BY AppendIsConcat
<1>2. ToSet(s \o <<x>>) = ToSet(s) \cup ToSet(<<x>>)
  BY <1>1, SetOfJoin
<1> QED
  BY <1>1, <1>2, SetOfFew, Zenon

LEMMA SetOfFront ==
  ASSUME NEW S, NEW s \in Seq(S), s # <<>>
  PROVE  ToSet(s) = ToSet(Front(s)) \cup {s[Len(s)]}
<1>1. PICK t : t = Front(s)
  OBVIOUS
<1>2. /\ Len(s) \in Nat \ {0} /\ DOMAIN s = 1 .. Len(s) /\ DOMAIN t = 1 .. Len(s) - 1
      /\ \A i \in 1 .. Len(s) - 1 : t[i] = s[i]
  BY <1>1, FrontFacts
<1>3. ASSUME NEW i \in DOMAIN s, i # Len(s)
      PROVE  i \in DOMAIN t /\ t[i] = s[i]
  <2>1. i \in 1 .. Len(s) - 1
    BY <1>2, <1>3
  <2> QED
    BY <1>2, <2>1
<1>4. Len(s) \in DOMAIN s /\ \A i \in DOMAIN t : i \in DOMAIN s /\ t[i] = s[i]
  BY <1>2
<1>5. ToSet(s) = ToSet(t) \cup {s[Len(s)]}
  BY <1>3, <1>4, Zenon DEF ToSet
<1> QED
  BY <1>1, <1>5

LEMMA SetOfTail ==
  ASSUME NEW S, NEW s \in Seq(S), s # <<>>
  PROVE  ToSet(s) = ToSet(Tail(s)) \cup {Head(s)}
<1>1. PICK t, x : t = Tail(s) /\ x = Head(s)
  OBVIOUS
<1>2. /\ Len(s) \in Nat \ {0} /\ DOMAIN s = 1 .. Len(s) /\ DOMAIN t = 1 .. Len(s) - 1
      /\ \A i \in 1 .. Len(s) - 1 : t[i] = s[i + 1]
      /\ x = s[1]
  BY <1>1
<1>3. ASSUME NEW i \in DOMAIN s, i # 1
      PROVE  \E j \in DOMAIN t : s[i] = t[j]
  <2>1. i - 1 \in DOMAIN t /\ (i - 1) + 1 = i
    BY <1>2, <1>3
  <2>2. t[i - 1] = s[(i - 1) + 1]
    BY <1>2, <2>1
  <2> QED
    BY <2>1, <2>2
<1>4. ASSUME NEW i \in DOMAIN t
      PROVE  \E j \in DOMAIN s : t[i] = s[j]
  <2>1. i + 1 \in DOMAIN s /\ t[i] = s[i + 1]
    BY <1>2
  <2> QED
    BY <2>1
<1>5. 1 \in DOMAIN s
  BY <1>2
<1>6. ASSUME NEW y \in ToSet(s)
      PROVE  y \in ToSet(t) \cup {x}
  <2>1. PICK i \in DOMAIN s : y = s[i]
    BY Zenon DEF ToSet
  <2>2. i = 1 \/ \E j \in DOMAIN t : y = t[j]
    BY <1>3, <2>1
  <2>3. (\E j \in DOMAIN t : y = t[j]) => y \in ToSet(t)
    BY Zenon DEF ToSet
  <2> QED
    BY <1>2, <2>1, <2>2, <2>3
<1>7. ToSet(t) \cup {x} \subseteq ToSet(s)
  BY <1>2, <1>4, <1>5, Zenon DEF ToSet
<1> QED
  BY <1>1, <1>6, <1>7

LEMMA SetOfRest ==
  ASSUME NEW S, NEW s \in Seq(S), NEW k \in Nat \ {0}
  PROVE  ToSet(SubSeq(s, k, Len(s))) \subseteq ToSet(s)
<1>1. PICK t : t = SubSeq(s, k, Len(s))
  OBVIOUS
<1>2. CASE k > Len(s)
  <2>1. t = <<>>
    BY <1>1, <1>2, SubSeqProperties
  <2> QED
    BY <1>1, <2>1, SetOfFew
<1>3. CASE k <= Len(s)
  <2>1. /\ DOMAIN s = 1 .. Len(s) /\ DOMAIN t = 1 .. Len(s) - k + 1 /\ Len(s) \in Nat
        /\ \A i \in 1 .. Len(s) - k + 1 : t[i] = s[k + i - 1]
    BY <1>1, <1>3, SubSeqProperties, LenProperties
  <2>2. ASSUME NEW i \in DOMAIN t
        PROVE  \E j \in DOMAIN s : t[i] = s[j]
    <3>1. k + i - 1 \in DOMAIN s /\ t[i] = s[k + i - 1]
      BY <1>3, <2>1
    <3> QED
      BY <3>1
  <2>3. ToSet(t) \subseteq ToSet(s)
    BY <2>2, Zenon DEF ToSet
  <2> QED
    BY <1>1, <2>3
<1>4. Len(s) \in Nat
  BY LenProperties
<1> QED
  BY <1>2, <1>3, <1>4

LEMMA JoinAnnounced ==
  ASSUME NEW s \in Seq(Event), NEW t \in Seq(Event), NEW m
  PROVE  Announced(m, s \o t) <=> Announced(m, s) \/ Announced(m, t)
<1>1. ToSet(s \o t) = ToSet(s) \cup ToSet(t)
  BY SetOfJoin
<1> QED
  BY <1>1, Zenon DEF Announced

LEMMA TailAnnounced ==
  ASSUME NEW s \in Seq(Event), s # <<>>, NEW m
  PROVE  Announced(m, s) <=>
           \/ Announced(m, Tail(s))
           \/ Head(s).type # "agentEnd" /\ Head(s).message = m
<1>1. ToSet(s) = ToSet(Tail(s)) \cup {Head(s)}
  BY SetOfTail
<1> QED
  BY <1>1, Zenon DEF Announced

\* While no end is announced no event tells of a failure.
LEMMA NoEnd ==
  ASSUME NEW es \in Seq(Event), EventsOK(es), ~EndPending(es), NEW i \in DOMAIN es
  PROVE  /\ es[i].type # "agentEnd"
         /\ es[i].type = "reply" => es[i].message.kind \notin ErrorKinds
<1>1. es[i].type # "agentEnd"
  BY DEF EventsOK, EndPending
<1>2. ASSUME es[i].type = "reply", es[i].message.kind \in ErrorKinds PROVE FALSE
  <2>1. i + 1 \in DOMAIN es /\ es[i + 1].type = "agentEnd" /\ i + 1 = Len(es)
    BY <1>2 DEF EventsOK
  <2> QED
    BY <2>1 DEF EndPending
<1> QED
  BY <1>1, <1>2

\* Events that come after others which announce no end.
LEMMA JoinEvents ==
  ASSUME NEW es \in Seq(Event), NEW fs \in Seq(Event),
         EventsOK(es), EventsOK(fs), ~EndPending(es)
  PROVE  /\ EventsOK(es \o fs)
         /\ EndPending(es \o fs) <=> EndPending(fs)
         /\ es # <<>> => (es \o fs)[1] = es[1]
<1> DEFINE gs == es \o fs
<1>1. gs \in Seq(Event) /\ Len(gs) = Len(es) + Len(fs)
  BY JoinFacts
<1>2. ASSUME NEW i \in DOMAIN gs
      PROVE  /\ gs[i].type = "user" => gs[i].message.kind = "user"
             /\ gs[i].type \in {"reply", "agentEnd"} => IsReply(gs[i].message)
             /\ gs[i].type = "agentEnd" => i = Len(gs)
             /\ gs[i].type = "reply" /\ gs[i].message.kind \in ErrorKinds =>
                  /\ i + 1 \in DOMAIN gs
                  /\ gs[i + 1].type = "agentEnd" /\ gs[i + 1].message = gs[i].message
  <2>1. CASE i \in DOMAIN es /\ gs[i] = es[i]
    BY <2>1, NoEnd DEF EventsOK
  <2>2. CASE i - Len(es) \in DOMAIN fs /\ i > Len(es) /\ gs[i] = fs[i - Len(es)]
    <3> DEFINE j == i - Len(es)
    <3>0. j \in DOMAIN fs /\ gs[i] = fs[j] /\ j \in Nat /\ Len(es) + j = i /\ Len(es) \in Nat
          /\ Len(es) + (j + 1) = i + 1 /\ Len(fs) \in Nat
      BY <2>2, <1>1
    <3> HIDE DEF j
    <3>1. /\ fs[j].type = "user" => fs[j].message.kind = "user"
          /\ fs[j].type \in {"reply", "agentEnd"} => IsReply(fs[j].message)
          /\ fs[j].type = "agentEnd" => j = Len(fs)
      BY <3>0 DEF EventsOK
    <3>2. ASSUME fs[j].type = "reply", fs[j].message.kind \in ErrorKinds
          PROVE  /\ i + 1 \in DOMAIN gs
                 /\ gs[i + 1].type = "agentEnd" /\ gs[i + 1].message = gs[i].message
      <4>1. j + 1 \in DOMAIN fs /\ fs[j + 1].type = "agentEnd" /\ fs[j + 1].message = fs[j].message
        BY <3>0, <3>2 DEF EventsOK
      <4>2. Len(es) + (j + 1) \in DOMAIN gs /\ gs[Len(es) + (j + 1)] = fs[j + 1]
        BY <4>1, JoinFacts
      <4> QED
        BY <3>0, <4>1, <4>2
    <3> QED
      BY <1>1, <3>0, <3>1, <3>2
  <2> QED
    BY <2>1, <2>2, JoinFacts
<1>3. EventsOK(gs)
  BY <1>2 DEF EventsOK
<1>4. EndPending(gs) <=> EndPending(fs)
  BY JoinFacts DEF EndPending
<1>5. es # <<>> => gs[1] = es[1]
  <2>1. es # <<>> => 1 \in DOMAIN es
    OBVIOUS
  <2> QED
    BY <2>1, JoinFacts
<1> QED
  BY <1>3, <1>4, <1>5

LEMMA TailEvents ==
  ASSUME NEW es \in Seq(Event), es # <<>>, EventsOK(es)
  PROVE  /\ Tail(es) \in Seq(Event) /\ EventsOK(Tail(es))
         /\ Len(Tail(es)) = Len(es) - 1
         /\ EndPending(Tail(es)) => EndPending(es) /\ Tail(es)[Len(Tail(es))] = es[Len(es)]
         /\ Len(es) > 1 => (EndPending(Tail(es)) <=> EndPending(es))
         /\ Len(es) > 2 => Tail(es)[Len(Tail(es)) - 1] = es[Len(es) - 1]
<1> DEFINE fs == Tail(es)
<1>1. /\ fs \in Seq(Event) /\ Len(fs) = Len(es) - 1 /\ Len(es) \in Nat \ {0}
      /\ \A i \in 1 .. Len(es) - 1 : fs[i] = es[i + 1]
      /\ DOMAIN es = 1 .. Len(es) /\ DOMAIN fs = 1 .. Len(es) - 1
  OBVIOUS
<1> HIDE DEF fs
<1>2. ASSUME NEW i \in DOMAIN fs
      PROVE  /\ fs[i].type = "user" => fs[i].message.kind = "user"
             /\ fs[i].type \in {"reply", "agentEnd"} => IsReply(fs[i].message)
             /\ fs[i].type = "agentEnd" => i = Len(fs)
             /\ fs[i].type = "reply" /\ fs[i].message.kind \in ErrorKinds =>
                  /\ i + 1 \in DOMAIN fs
                  /\ fs[i + 1].type = "agentEnd" /\ fs[i + 1].message = fs[i].message
  <2>1. i \in 1 .. Len(es) - 1 /\ fs[i] = es[i + 1] /\ i + 1 \in DOMAIN es
    BY <1>1, <1>2
  <2>2. /\ es[i + 1].type = "user" => es[i + 1].message.kind = "user"
        /\ es[i + 1].type \in {"reply", "agentEnd"} => IsReply(es[i + 1].message)
        /\ es[i + 1].type = "agentEnd" => i + 1 = Len(es)
    BY <2>1 DEF EventsOK
  <2>3. ASSUME es[i + 1].type = "reply", es[i + 1].message.kind \in ErrorKinds
        PROVE  /\ i + 1 \in DOMAIN fs
               /\ fs[i + 1].type = "agentEnd" /\ fs[i + 1].message = fs[i].message
    <3>1. /\ (i + 1) + 1 \in DOMAIN es /\ es[(i + 1) + 1].type = "agentEnd"
          /\ es[(i + 1) + 1].message = es[i + 1].message
      BY <2>1, <2>3 DEF EventsOK
    <3>2. i + 1 \in 1 .. Len(es) - 1
      BY <1>1, <2>1, <3>1
    <3>3. fs[i + 1] = es[(i + 1) + 1]
      BY <1>1, <3>2
    <3> QED
      BY <1>1, <2>1, <3>1, <3>2, <3>3
  <2> QED
    BY <1>1, <2>1, <2>2, <2>3
<1>3. EventsOK(fs)
  BY <1>2 DEF EventsOK
<1>4. Len(es) > 1 => fs[Len(fs)] = es[Len(es)] /\ fs # <<>>
  BY <1>1
<1>5. Len(es) = 1 => fs = <<>>
  BY <1>1
<1>6. Len(es) > 2 => fs[Len(fs) - 1] = es[Len(es) - 1]
  BY <1>1
<1> QED
  BY <1>1, <1>3, <1>4, <1>5, <1>6 DEF EndPending, fs

(***************************************************************************)
(* What the invariants say when a command may come, and what the parts of  *)
(* the actions do then.                                                    *)
(***************************************************************************)
LEMMA WhenReady ==
  ASSUME Inv, Conditions, Ready
  PROVE  /\ events = <<>>
         /\ handler.at # "compact" /\ purpose \notin {"compact", "compacting"}
         /\ \A p \in Prompts : pc[p] \notin Reasons
<1>1. events = <<>> \/ handler.at # "free"
  BY DEF Ready, HandlersDone, Conditions
<1>2. events = <<>>
  BY <1>1 DEF Inv, TurnInv
<1> QED
  BY <1>2 DEF Ready, Compacting, Conditions

LEMMA NoEventLeft ==
  ASSUME Inv, events = <<>>
  PROVE  /\ last.kind \notin ErrorKinds
         /\ ~EndPending(events) /\ \A m : ~EndsTheRetry(events, m)
<1>1. ~EndPending(events)
  BY DEF EndPending
<1> QED
  BY <1>1 DEF Inv, EventInv, EndsTheRetry

LEMMA WhenRunning ==
  ASSUME Inv, run = "running"
  PROVE  /\ handler.at = "free" /\ purpose # "compacting" /\ (purpose = "compact" => aborting)
         /\ \A p \in Prompts : pc[p] \notin BeforeRun
         /\ ~EndPending(events) /\ last.kind \notin ErrorKinds
<1>1. ~EndPending(events)
  BY DEF Inv, EventInv
<1> QED
  BY <1>1 DEF Inv, EventInv, TurnInv

LEMMA NewOne ==
  ASSUME TypeOK, NEW kind \in Kinds
  PROVE  New(kind) \in Message /\ New(kind).kind = kind /\ New(kind).s = sid
BY NewMessage DEF New

\* When nothing waits to be handled a run begins with events of messages of the user.
LEMMA BeginsEffect ==
  ASSUME Inv, events = <<>>, NEW p, NEW ms \in Seq(Message), Begins(p, ms),
         AllOf(ms, "user"), SaidIn(ms, sid)
  PROVE  /\ run' = "running" /\ owner' = p /\ aborting' = FALSE /\ transcript' = transcript \o ms
         /\ events' \in Seq(Event) /\ EventsOK(events') /\ ~EndPending(events')
         /\ \A e \in ToSet(events') : e.message.s = sid
         /\ ~subscribed => events' = <<>>
         /\ subscribed => \A m : Announced(m, events') <=> m \in ToSet(ms)
         /\ events' # <<>> => events'[1].type = "user"
         /\ subscribed /\ ms # <<>> => events' # <<>>
<1>1. PICK es : es = [i \in DOMAIN ms |-> [type |-> "user", message |-> ms[i]]]
  OBVIOUS
<1>2. DOMAIN ms = 1 .. Len(ms) /\ Len(ms) \in Nat /\ \A i \in DOMAIN ms : ms[i] \in Message
  BY ElementOfSeq, LenProperties
<1>3. /\ DOMAIN es = DOMAIN ms
      /\ \A i \in DOMAIN ms : es[i].type = "user" /\ es[i].message = ms[i] /\ es[i] \in Event
  BY <1>1, <1>2 DEF Event
<1>4. es \in Seq(Event)
  <2>1. es \in [1 .. Len(ms) -> Event]
    BY <1>1, <1>2, <1>3
  <2> QED
    BY <1>2, <2>1, SeqDef
<1>5. events' = IF subscribed THEN es ELSE <<>>
  <2>1. <<>> \o es = es
    BY <1>4, ConcatEmptySeq
  <2> QED
    BY <1>1, <2>1 DEF Begins, Emit
<1>6. \A i \in DOMAIN ms : ms[i] \in ToSet(ms)
  BY SetOfSeq
<1>7. \A i \in DOMAIN ms : ms[i].kind = "user" /\ ms[i].s = sid
  BY <1>6 DEF AllOf, SaidIn
<1>8. EventsOK(es) /\ ~EndPending(es)
  <2>1. EventsOK(es)
    BY <1>3, <1>7 DEF EventsOK
  <2>2. ASSUME EndPending(es) PROVE FALSE
    <3>1. es # <<>> /\ es[Len(es)].type = "agentEnd"
      BY <2>2 DEF EndPending
    <3>2. Len(es) \in DOMAIN es
      BY <1>4, <3>1, EmptySeq, LenProperties
    <3> QED
      BY <1>3, <3>1, <3>2
  <2> QED
    BY <2>1, <2>2
<1>9. EventsOK(<<>>) /\ ~EndPending(<<>>) /\ <<>> \in Seq(Event) /\ ToSet(<<>>) = {}
  BY SetOfFew DEF EventsOK, EndPending
<1>10. \A e \in ToSet(es) : e.message.s = sid
  BY <1>3, <1>7 DEF ToSet
<1>11. \A m : Announced(m, es) <=> m \in ToSet(ms)
  <2>1. \A m : Announced(m, es) <=> \E i \in DOMAIN es : es[i].type # "agentEnd" /\ es[i].message = m
    BY Zenon DEF Announced, ToSet
  <2>2. \A m : m \in ToSet(ms) <=> \E i \in DOMAIN ms : ms[i] = m
    BY Zenon DEF ToSet
  <2> QED
    BY <1>3, <2>1, <2>2
<1>12. es # <<>> => es[1].type = "user"
  <2>1. es # <<>> => 1 \in DOMAIN es
    BY <1>4, EmptySeq, LenProperties
  <2> QED
    BY <1>3, <2>1
<1>13. ms # <<>> => es # <<>>
  <2>1. ms # <<>> => 1 \in DOMAIN es
    BY <1>2, <1>3, EmptySeq
  <2> QED
    BY <2>1
<1> QED
  BY <1>4, <1>5, <1>8, <1>9, <1>10, <1>11, <1>12, <1>13 DEF Begins

LEMMA PolledFacts ==
  ASSUME Inv
  PROVE  /\ Polled \in Seq(Message) /\ Unpolled \in Seq(Message)
         /\ AllOf(Polled, "user") /\ AllOf(Unpolled, "user")
         /\ SaidIn(Polled, sid) /\ SaidIn(Unpolled, sid)
         /\ queued # <<>> => Polled = <<Head(queued)>> /\ Head(queued) \in Message
                             /\ Head(queued).kind = "user"
         /\ queued = <<>> => Polled = <<>> /\ Unpolled = <<>>
<1>0. queued \in Seq(Message) /\ AllOf(queued, "user") /\ SaidIn(queued, sid)
  BY DEF Inv, TypeOK, EventInv, SessionInv
<1>1. Polled \in Seq(Message) /\ Unpolled \in Seq(Message)
  BY <1>0, PolledType
<1>2. CASE queued = <<>>
  BY <1>0, <1>1, <1>2 DEF Polled, Unpolled
<1>3. CASE queued # <<>>
  <2>1. ToSet(queued) = ToSet(Tail(queued)) \cup {Head(queued)} /\ Head(queued) \in Message
    BY <1>0, <1>3, SetOfTail
  <2>2. ToSet(<<Head(queued)>>) = {Head(queued)}
    BY SetOfFew
  <2>3. Polled = <<Head(queued)>> /\ Unpolled = Tail(queued)
    BY <1>3 DEF Polled, Unpolled
  <2>4. AllOf(Polled, "user") /\ SaidIn(Polled, sid) /\ AllOf(Unpolled, "user") /\ SaidIn(Unpolled, sid)
        /\ Head(queued).kind = "user"
    BY <1>0, <2>1, <2>2, <2>3 DEF AllOf, SaidIn
  <2> QED
    BY <1>1, <1>3, <2>1, <2>3, <2>4
<1> QED
  BY <1>2, <1>3

\* What a summary and a kept entry leave of the session.
LEMMA CompactedFacts ==
  ASSUME Inv, prepared.sid = sid
  PROVE  /\ Compacted \in Seq(Message) /\ Compacted # <<>>
         /\ SaidIn(Compacted, sid)
         /\ entries # <<>> /\ prepared.length = Len(entries) =>
              Len(Compacted) = 2 /\ Compacted[2] = entries[Len(entries)]
<1> DEFINE summary == [kind |-> "summary", n |-> prepared.n, s |-> prepared.sid]
           kept == IF prepared.length = 0 THEN 1 ELSE prepared.length
<1>1. Compacted \in Seq(Message) /\ Compacted # <<>>
  BY CompactedType DEF Inv
<1>2. Compacted = <<summary>> \o SubSeq(entries, kept, Len(entries))
  BY DEF Compacted
<1>3. summary \in Message /\ summary.s = sid
  BY DEF Inv, TypeOK, Message, Kinds
<1>4. kept \in Nat \ {0} /\ entries \in Seq(Message) /\ Len(entries) \in Nat
  BY LenProperties DEF Inv, TypeOK
<1> HIDE DEF summary, kept
<1>5. PICK rest : rest = SubSeq(entries, kept, Len(entries))
  OBVIOUS
<1>6. rest \in Seq(Message) /\ ToSet(rest) \subseteq ToSet(entries)
  <2>1. SubSeq(entries, kept, Len(entries)) \in Seq(Message)
    BY <1>4
  <2> QED
    BY <1>4, <1>5, <2>1, SetOfRest
<1>7. ToSet(Compacted) = {summary} \cup ToSet(rest)
  <2>1. PICK one : one = <<summary>>
    OBVIOUS
  <2>2. one \in Seq(Message) /\ ToSet(one) = {summary}
    BY <1>3, <2>1, SetOfFew
  <2>3. ToSet(one \o rest) = ToSet(one) \cup ToSet(rest)
    BY <1>6, <2>2, SetOfJoin
  <2> QED
    BY <1>2, <1>5, <2>1, <2>2, <2>3
<1>8. SaidIn(Compacted, sid)
  <2>1. SaidIn(entries, sid)
    BY DEF Inv, SessionInv
  <2> QED
    BY <1>3, <1>6, <1>7, <2>1 DEF SaidIn
<1>9. ASSUME entries # <<>>, prepared.length = Len(entries)
      PROVE  Len(Compacted) = 2 /\ Compacted[2] = entries[Len(entries)]
  <2>1. kept = Len(entries) /\ Len(entries) \in Nat \ {0}
    BY <1>4, <1>9, EmptySeq DEF kept
  <2>2. entries[Len(entries)] \in Message
    BY <1>4, <2>1, ElementOfSeq
  <2>3. Len(rest) = 1 /\ rest[1] = entries[Len(entries)]
    BY <1>4, <1>5, <2>1
  <2>4. PICK one : one = <<summary>>
    OBVIOUS
  <2>5. one \in Seq(Message) /\ Len(one) = 1
    BY <1>3, <2>4
  <2>6. rest # <<>>
    BY <2>3
  <2>7. Len(one \o rest) = 2 /\ (one \o rest)[Len(one \o rest)] = rest[Len(rest)]
    BY <1>6, <2>3, <2>5, <2>6, JoinFacts
  <2> QED
    BY <1>2, <1>5, <2>3, <2>4, <2>7
<1> QED
  BY <1>1, <1>8, <1>9

LEMMA AbortAllEffect ==
  ASSUME Inv, Conditions, Ready, AbortAll
  PROVE  /\ aborting' = (run = "running") /\ retrying' = FALSE /\ transcript' = transcript
         /\ handler'.at \in {"free", "compact"}
         /\ handler'.at = "compact" => handler.at = "backoff" /\ prepared'.sid = sid
         /\ prepared' # prepared => prepared'.sid = sid
         /\ \/ attempt' = 0 /\ inARow' = 0
            \/ attempt' = attempt /\ inARow' = inARow
         /\ handler.at = "free" => UNCHANGED <<handler, prepared>>
<1>1. handler.at # "compact"
  BY WhenReady
<1>2. handler.at \in {"free", "backoff"}
  BY <1>1 DEF Inv, TypeOK
<1>3. CASE handler.at = "backoff"
  <2>1. Settle(handler.message, transcript) /\ attempt' = 0 /\ inARow' = 0 /\ aborting' = (run = "running")
    BY <1>3 DEF AbortAll
  <2>2. handler.message.kind = "error"
    BY <1>3 DEF Inv, TurnInv
  <2>3. PICK reason \in Reason(handler.message, TRUE) :
          /\ retrying' = FALSE
          /\ handler' = IF reason = "none" THEN Free
                        ELSE [at |-> "compact", reason |-> reason, message |-> handler.message]
          /\ StartCompaction(reason, transcript)
    BY <2>1 DEF Settle
  <2>4. reason \in {"none", "threshold"}
    BY <2>2, <2>3 DEF Reason
  <2>5. transcript' = transcript /\ (prepared' = prepared \/ prepared'.sid = sid)
        /\ (reason # "none" => prepared'.sid = sid)
    BY <2>3, <2>4 DEF StartCompaction
  <2>6. handler'.at \in {"free", "compact"} /\ (handler'.at = "compact" => reason # "none")
    BY <2>3, <2>4 DEF Free
  <2> QED
    BY <1>3, <2>1, <2>3, <2>5, <2>6
<1>4. CASE handler.at = "free"
  BY <1>4 DEF AbortAll
<1> QED
  BY <1>2, <1>3, <1>4

(***************************************************************************)
(* The actions: what each of them keeps.                                   *)
(***************************************************************************)
LEMMA ReplyAndGoOnKeeps ==
  ASSUME Inv, Conditions, ReplyAndGoOn
  PROVE  Kept
<1> DEFINE m == New("ok")
           u == Head(queued)
           fs == <<[type |-> "reply", message |-> m], [type |-> "user", message |-> u]>>
<1>1. /\ run = "running" /\ ~aborting /\ queued # <<>>
      /\ transcript' = transcript \o <<m, u>> /\ queued' = Tail(queued)
      /\ events' = IF subscribed THEN events \o fs ELSE events
      /\ UNCHANGED <<run, owner, aborting, subscribed, handler, last, attempt, retrying,
                     pendingBash, timers, pc, prepared, sid, entries, shelf, purpose, inARow>>
  BY DEF ReplyAndGoOn, Emit, retryVars
<1>2. /\ m \in Message /\ m.kind = "ok" /\ m.s = sid
      /\ u \in Message /\ u.kind = "user" /\ u.s = sid
  <2>1. "ok" \in Kinds
    BY DEF Kinds, ReplyKinds
  <2>2. u \in Message /\ u.kind = "user"
    BY <1>1, PolledFacts
  <2>3. u \in ToSet(queued)
    BY <1>1, SetOfTail DEF Inv, TypeOK
  <2>4. u.s = sid
    BY <2>2, <2>3 DEF Inv, SessionInv, SaidIn
  <2> QED
    BY <2>1, <2>2, <2>4, NewOne DEF Inv
<1> HIDE DEF m, u
<1>3. fs \in Seq(Event) /\ Len(fs) = 2 /\ fs[1].type = "reply" /\ fs[1].message = m
      /\ fs[2].type = "user" /\ fs[2].message = u /\ DOMAIN fs = {1, 2}
      /\ ToSet(fs) = {fs[1], fs[2]}
  <2>1. [type |-> "reply", message |-> m] \in Event /\ [type |-> "user", message |-> u] \in Event
    BY <1>2 DEF Event
  <2>2. ToSet(fs) = {[type |-> "reply", message |-> m], [type |-> "user", message |-> u]}
    BY SetOfFew
  <2> QED
    BY <2>1, <2>2
<1> HIDE DEF fs
<1>4. PICK ms : ms = <<m, u>>
  OBVIOUS
<1>5. ms \in Seq(Message) /\ ToSet(ms) = {m, u} /\ Len(ms) = 2 /\ ms[2] = u /\ ms # <<>>
  BY <1>2, <1>4, SetOfFew
<1>6. /\ transcript \in Seq(Message) /\ queued \in Seq(Message) /\ events \in Seq(Event)
      /\ subscribed \in BOOLEAN
  BY DEF Inv, TypeOK
<1>7. /\ handler.at = "free" /\ purpose \notin {"compact", "compacting"}
      /\ \A p \in Prompts : pc[p] \notin BeforeRun
      /\ ~EndPending(events) /\ last.kind \notin ErrorKinds
  BY <1>1, WhenRunning
<1>8. TurnInv'
  BY <1>1, <1>7 DEF Inv, TurnInv
<1>9. EventsOK(fs) /\ ~EndPending(fs)
  BY <1>2, <1>3 DEF EventsOK, EndPending, IsReply, ReplyKinds, ErrorKinds
<1>10. EventsOK(events') /\ ~EndPending(events') /\ (events # <<>> => events'[1] = events[1])
  BY <1>1, <1>3, <1>6, <1>7, <1>9, JoinEvents DEF Inv, EventInv
<1>11. transcript' # <<>> /\ transcript'[Len(transcript')] = u
  BY <1>1, <1>4, <1>5, <1>6, JoinFacts
<1>12. ToSet(transcript') = ToSet(transcript) \cup {m, u}
  <2>1. ToSet(transcript \o ms) = ToSet(transcript) \cup ToSet(ms)
    BY <1>5, <1>6, SetOfJoin
  <2> QED
    BY <1>1, <1>4, <1>5, <2>1
<1>13. ToSet(queued) = ToSet(queued') \cup {u}
  BY <1>1, <1>6, SetOfTail DEF u
<1>14. EventInv'
  <2>1. Continues(transcript')
    BY <1>2, <1>11 DEF Continues, IsReply, ReplyKinds, ErrorKinds
  <2> QED
    BY <1>1, <1>7, <1>10, <1>13, <2>1 DEF Inv, EventInv, AllOf
<1>15. RetryInv'
  BY <1>1, <1>7 DEF RetryInv
<1>16. CountInv'
  BY <1>1, <1>7, <1>10 DEF Inv, CountInv, GivenUp
<1>17. \A e \in ToSet(events') : e \in ToSet(events) \/ e \in ToSet(fs)
  BY <1>1, <1>3, <1>6, SetOfJoin
<1>18. SessionInv'
  <2>1. SaidIn(transcript', sid) /\ SaidIn(queued', sid)
    BY <1>2, <1>12, <1>13 DEF Inv, SessionInv, SaidIn
  <2>2. \A e \in ToSet(events') : e.message.s = sid
    BY <1>2, <1>3, <1>17 DEF Inv, SessionInv
  <2> QED
    BY <1>1, <2>1, <2>2 DEF Inv, SessionInv
<1>19. FileInv'
  <2>1. CASE purpose = "none"
    <3>1. subscribed
      BY <2>1 DEF Inv, TurnInv
    <3>2. \A x : Announced(x, events') <=> Announced(x, events) \/ Announced(x, fs)
      BY <1>1, <1>3, <1>6, <3>1, JoinAnnounced
    <3>3. \A x : Announced(x, fs) <=> x \in {m, u}
      BY <1>3 DEF Announced
    <3>4. Follows(transcript, entries, events)
      BY <2>1 DEF Inv, FileInv
    <3>5. Follows(transcript', entries, events')
      BY <1>12, <3>2, <3>3, <3>4 DEF Follows
    <3> QED
      BY <1>1, <3>5 DEF FileInv
  <2>2. CASE purpose # "none"
    BY <1>1, <1>7, <2>2 DEF FileInv
  <2> QED
    BY <2>1, <2>2
<1> QED
  BY <1>8, <1>14, <1>15, <1>16, <1>18, <1>19 DEF Kept

\* The end of a run, whether a reply or an exception ends it.
LEMMA EndsKeeps ==
  ASSUME Inv, Conditions, run = "running", timers = 0,
         NEW kind \in ReplyKinds, Outcome(kind), NEW es, Ends(New(kind), es),
         \/ es = <<[type |-> "reply", message |-> New(kind)]>>
         \/ es = <<>> /\ kind # "error" /\ ~retrying /\ kind # "ok",
         UNCHANGED <<queued, subscribed, handler, last, attempt, pendingBash, timers, prepared,
                     sid, entries, shelf, purpose, inARow>>
  PROVE  Kept
<1> DEFINE m == New(kind)
           fs == Append(es, [type |-> "agentEnd", message |-> m])
<1>1. /\ run' = "idle" /\ pc' = [p \in Prompts |-> IF p = owner THEN "ended" ELSE pc[p]]
      /\ owner' = NoPrompt /\ aborting' = FALSE
      /\ transcript' = Append(transcript, m)
      /\ events' = IF subscribed THEN events \o fs ELSE events
      /\ retrying' = (retrying \/ (subscribed /\ m.kind = "error"))
  BY DEF Ends, Emit
<1>2. m \in Message /\ m.kind = kind /\ m.s = sid /\ IsReply(m)
  <2>1. kind \in Kinds
    BY DEF Kinds
  <2> QED
    BY <2>1, NewOne DEF Inv, IsReply
<1>3. /\ fs \in Seq(Event) /\ fs # <<>> /\ fs[Len(fs)].type = "agentEnd" /\ EventsOK(fs)
      /\ \A e \in ToSet(fs) : e.message = m
      /\ \A i \in DOMAIN fs : i = Len(fs) \/ fs[i].type = "reply"
      /\ fs[Len(fs)].message = m
      /\ es # <<>> => Len(fs) = 2 /\ fs[1].type = "reply"
      /\ \A x : Announced(x, fs) <=> es # <<>> /\ x = m
  <2> DEFINE r == [type |-> "reply", message |-> m]
             a == [type |-> "agentEnd", message |-> m]
  <2>1. r \in Event /\ a \in Event /\ r.type = "reply" /\ a.type = "agentEnd"
        /\ r.message = m /\ a.message = m
    BY <1>2 DEF Event
  <2>2. fs = Append(es, a) /\ (es = <<>> \/ es = <<r>>)
    BY Zenon
  <2> HIDE DEF r, a, fs, m
  <2>3. CASE es = <<>>
    <3>1. fs = <<a>>
      BY <2>2, <2>3
    <3>2. ToSet(fs) = {a}
      BY <3>1, SetOfFew
    <3>3. fs \in Seq(Event) /\ Len(fs) = 1 /\ fs[1] = a /\ DOMAIN fs = {1} /\ fs # <<>>
      BY <2>1, <3>1
    <3>4. EventsOK(fs)
      BY <1>2, <2>1, <3>3 DEF EventsOK
    <3>5. \A x : ~Announced(x, fs)
      BY <2>1, <3>2 DEF Announced
    <3> QED
      BY <2>1, <2>3, <3>2, <3>3, <3>4, <3>5
  <2>4. CASE es = <<r>>
    <3>1. es \in Seq(Event) /\ Len(es) = 1 /\ es[1] = r /\ ToSet(es) = {r} /\ es # <<>>
      BY <2>1, <2>4, SetOfFew
    <3>2. ToSet(fs) = {r, a}
      BY <2>1, <2>2, <3>1, SetOfMore
    <3>3. /\ fs \in Seq(Event) /\ Len(fs) = 2 /\ fs[1] = r /\ fs[2] = a /\ DOMAIN fs = {1, 2}
          /\ fs # <<>>
      <4>0. fs = Append(es, a) /\ es \in Seq(Event) /\ a \in Event
        BY <2>1, <2>2, <3>1
      <4>1. /\ fs \in Seq(Event) /\ fs # <<>> /\ Len(fs) = Len(es) + 1 /\ fs[Len(es) + 1] = a
            /\ DOMAIN fs = 1 .. Len(es) + 1 /\ \A i \in 1 .. Len(es) : fs[i] = es[i]
        BY <4>0, AddFacts
      <4>2. 1 .. 2 = {1, 2}
        OBVIOUS
      <4> QED
        BY <3>1, <4>1, <4>2
    <3>4. EventsOK(fs)
      BY <1>2, <2>1, <3>3 DEF EventsOK
    <3>5. \A x : Announced(x, fs) <=> x = m
      BY <2>1, <3>2 DEF Announced
    <3> QED
      BY <2>1, <3>1, <3>2, <3>3, <3>4, <3>5
  <2> QED
    BY <2>2, <2>3, <2>4
<1>4. es # <<>> \/ (kind # "error" /\ ~retrying /\ kind # "ok")
  <2>1. <<[type |-> "reply", message |-> New(kind)]>> # <<>>
    OBVIOUS
  <2> QED
    BY <2>1, Zenon
<1> HIDE DEF m, fs
<1>5. /\ transcript \in Seq(Message) /\ events \in Seq(Event) /\ pc \in Stages
      /\ subscribed \in BOOLEAN /\ retrying \in BOOLEAN
  BY DEF Inv, TypeOK, Stages
<1>6. /\ handler.at = "free" /\ purpose # "compacting" /\ (purpose = "compact" => aborting)
      /\ \A p \in Prompts : pc[p] \notin BeforeRun
      /\ ~EndPending(events) /\ last.kind \notin ErrorKinds
  BY WhenRunning
<1>7. /\ owner \in Prompts => pc[owner] = "running"
      /\ subscribed = (purpose = "none")
      /\ purpose # "none" => events = <<>> /\ ~retrying
  BY DEF Inv, TurnInv
<1>8. TurnInv'
  <2>1. \A p \in Prompts : pc'[p] = IF p = owner THEN "ended" ELSE pc[p]
    BY <1>1, <1>5 DEF Stages
  <2>11. \A p \in Prompts : pc'[p] = pc[p] \/ (pc'[p] = "ended" /\ pc[p] = "running")
    <3> TAKE p \in Prompts
    <3>1. CASE p = owner
      BY <1>7, <2>1, <3>1
    <3>2. CASE p # owner
      BY <2>1, <3>2
    <3> QED
      BY <3>1, <3>2
  <2>2. \A p \in Prompts : pc'[p] \notin Quiet => pc[p] \notin Quiet
    BY <2>11 DEF Quiet
  <2>3. \A p, q \in Prompts : pc'[p] \notin Quiet /\ pc'[q] \notin Quiet => p = q
    BY <2>2 DEF Inv, TurnInv
  <2>4. \A p \in Prompts : pc'[p] \notin BeforeRun
    BY <1>6, <2>11 DEF BeforeRun
  <2>5. owner' \notin Prompts
    BY <1>1, PromptAssumption
  <2>6. purpose' # "none" => events' = <<>> /\ ~retrying'
    BY <1>1, <1>7
  <2> QED
    BY <1>1, <1>6, <1>7, <2>3, <2>4, <2>5, <2>6 DEF TurnInv
<1>9. subscribed => EventsOK(events') /\ EndPending(events')
  <2>1. EndPending(fs)
    BY <1>3 DEF EndPending
  <2> QED
    BY <1>1, <1>3, <1>5, <1>6, <2>1, JoinEvents DEF Inv, EventInv
<1>10. subscribed => /\ events' # <<>> /\ events'[Len(events')] = fs[Len(fs)]
                     /\ (events # <<>> => events'[1] = events[1])
  BY <1>1, <1>3, <1>5, <1>6, JoinFacts, JoinEvents DEF Inv, EventInv
<1>11. /\ Len(transcript) \in Nat \ {0} /\ ~IsReply(transcript[Len(transcript)])
       /\ Len(transcript') = Len(transcript) + 1
       /\ transcript'[Len(transcript')] = m
       /\ transcript'[Len(transcript') - 1] = transcript[Len(transcript)]
  <2>1. Continues(transcript)
    BY DEF Inv, EventInv
  <2>2. Len(transcript) \in Nat \ {0} /\ ~IsReply(transcript[Len(transcript)])
    BY <1>5, <2>1, EmptySeq DEF Continues
  <2>3. PICK ts : ts = Append(transcript, m)
    OBVIOUS
  <2>4. /\ Len(ts) = Len(transcript) + 1 /\ ts[Len(transcript) + 1] = m
        /\ \A i \in 1 .. Len(transcript) : ts[i] = transcript[i]
    BY <1>2, <1>5, <2>3, AddFacts
  <2>5. Len(ts) - 1 = Len(transcript) /\ Len(transcript) \in 1 .. Len(transcript)
    BY <2>2, <2>4
  <2> QED
    BY <1>1, <2>2, <2>3, <2>4, <2>5
<1>12. EventInv'
  <2>1. EndPending(events') =>
          /\ run' = "idle" /\ timers' = 0 /\ Len(transcript') > 1
          /\ transcript'[Len(transcript')] = events'[Len(events')].message
          /\ ~IsReply(transcript'[Len(transcript') - 1])
    <3>1. CASE subscribed
      BY <1>1, <1>3, <1>10, <1>11, <3>1
    <3>2. CASE ~subscribed
      BY <1>1, <1>6, <3>2
    <3> QED
      BY <3>1, <3>2
  <2>2. EventsOK(events')
    BY <1>1, <1>9 DEF Inv, EventInv
  <2> QED
    BY <1>1, <1>6, <2>1, <2>2 DEF Inv, EventInv
<1>13. RetryInv'
  <2>1. ASSUME retrying'
        PROVE  EndsTheRetry(events', last')
    <3>1. subscribed /\ es # <<>>
      BY <1>1, <1>2, <1>4, <1>7, <2>1
    <3>2. /\ Len(events') = Len(events) + Len(fs) /\ Len(events) \in Nat
          /\ \A i \in DOMAIN fs : events'[Len(events) + i] = fs[i]
      BY <1>1, <1>3, <1>5, <3>1, JoinFacts, LenProperties
    <3>3. Len(fs) = 2 /\ fs[1].type = "reply" /\ 1 \in DOMAIN fs
      BY <1>3, <3>1
    <3>4. Len(events') - 1 = Len(events) + 1 /\ Len(events') > 1
      BY <3>2, <3>3
    <3>5. events'[Len(events') - 1].type = "reply"
      BY <3>2, <3>3, <3>4
    <3> QED
      BY <1>9, <3>1, <3>4, <3>5 DEF EndsTheRetry
  <2> QED
    BY <1>6, <2>1 DEF RetryInv
<1>14. CountInv'
  <2>1. GivenUp /\ events' # <<>> => events'[1].type = "user"
    BY <1>1, <1>10 DEF Inv, CountInv
  <2> QED
    BY <1>1, <1>6, <2>1 DEF Inv, CountInv, GivenUp
<1>15. ToSet(transcript') = ToSet(transcript) \cup {m}
  BY <1>1, <1>2, <1>5, SetOfMore
<1>16. SessionInv'
  <2>1. SaidIn(transcript', sid)
    BY <1>2, <1>15 DEF Inv, SessionInv, SaidIn
  <2>2. \A e \in ToSet(events') : e \in ToSet(events) \/ e \in ToSet(fs)
    BY <1>1, <1>3, <1>5, SetOfJoin
  <2>3. \A e \in ToSet(events') : e.message.s = sid
    BY <1>2, <1>3, <2>2 DEF Inv, SessionInv
  <2>4. \A p \in Prompts : pc'[p] \notin Reasons
    BY <1>1, <1>6 DEF BeforeRun, Reasons
  <2> QED
    BY <1>1, <1>6, <2>1, <2>3, <2>4 DEF Inv, SessionInv
<1>17. FileInv'
  <2>1. CASE purpose = "none"
    <3>1. subscribed /\ Follows(transcript, entries, events)
      BY <1>7, <2>1 DEF Inv, FileInv
    <3>2. \A x : Announced(x, events') <=> Announced(x, events) \/ Announced(x, fs)
      BY <1>1, <1>3, <1>5, <3>1, JoinAnnounced
    <3>3. m.kind \in GoodKinds => es # <<>>
      BY <1>2, <1>4 DEF GoodKinds, Kinds, ReplyKinds
    <3>4. Follows(transcript', entries, events')
      BY <1>3, <1>15, <3>1, <3>2, <3>3 DEF Follows
    <3> QED
      BY <3>4 DEF FileInv
  <2>2. CASE purpose = "compact"
    <3>1. ~subscribed /\ Follows(transcript, entries, events) /\ m.kind = "aborted"
      BY <1>2, <1>6, <1>7, <2>2 DEF Inv, FileInv, Outcome
    <3>2. Follows(transcript', entries, events)
      BY <1>15, <3>1 DEF Follows, GoodKinds
    <3> QED
      BY <1>1, <3>1, <3>2 DEF FileInv
  <2> QED
    BY <1>6, <2>1, <2>2 DEF FileInv
<1> QED
  BY <1>8, <1>12, <1>13, <1>14, <1>16, <1>17 DEF Kept

LEMMA RepliesKeep ==
  ASSUME Inv, Conditions, Replies
  PROVE  Kept
<1>1. ASSUME NEW kind \in ReplyKinds, ReplyAndEnd(kind)
      PROVE  Kept
  <2>1. Ends(New(kind), <<[type |-> "reply", message |-> New(kind)]>>)
    BY <1>1 DEF ReplyAndEnd
  <2>2. /\ run = "running" /\ timers = 0 /\ Outcome(kind)
        /\ UNCHANGED <<queued, subscribed, handler, last, attempt, pendingBash, timers, prepared,
                       sid, entries, shelf, purpose, inARow>>
    BY <1>1 DEF ReplyAndEnd, Conditions
  <2> QED
    BY <2>1, <2>2, EndsKeeps
<1>2. ASSUME NEW kind \in ReplyKinds, Throws(kind)
      PROVE  Kept
  <2>1. Ends(New(kind), <<>>) /\ kind # "error" /\ ~retrying /\ kind # "ok"
    BY <1>2 DEF Throws, Conditions
  <2>2. /\ run = "running" /\ timers = 0 /\ Outcome(kind)
        /\ UNCHANGED <<queued, subscribed, handler, last, attempt, pendingBash, timers, prepared,
                       sid, entries, shelf, purpose, inARow>>
    BY <1>2 DEF Throws, Conditions
  <2> QED
    BY <2>1, <2>2, EndsKeeps
<1> QED
  BY <1>1, <1>2, ReplyAndGoOnKeeps DEF Replies

LEMMA TimerFiresKeeps ==
  ASSUME Inv, Conditions, TimerFires
  PROVE  Kept
<1>1. /\ timers > 0 /\ timers' = timers - 1 /\ Ready /\ \A p \in Prompts : pc[p] # "ready"
      /\ UNCHANGED <<subscribed, handler, last, attempt, retrying, pendingBash, pc, prepared,
                     sid, entries, shelf, purpose, inARow>>
  BY DEF TimerFires, Conditions, retryVars, fileVars
<1>2. /\ transcript \in Seq(Message) /\ timers \in Nat /\ queued \in Seq(Message)
      /\ subscribed \in BOOLEAN /\ handler.at \in {"free", "backoff", "compact"}
  BY DEF Inv, TypeOK
<1>3. /\ events = <<>> /\ purpose \notin {"compact", "compacting"}
      /\ \A p \in Prompts : pc[p] \notin Reasons
  BY <1>1, WhenReady
<1>4. \A p \in Prompts : pc[p] \notin BeforeRun
  BY <1>1, <1>3 DEF BeforeRun, Reasons
<1>5. last.kind \notin ErrorKinds /\ ~EndPending(events) /\ \A m : ~EndsTheRetry(events, m)
  BY <1>3, NoEventLeft
<1>6. handler.at = "free"
  BY <1>1, <1>2 DEF Inv, TurnInv
<1>7. subscribed = (purpose = "none") /\ (purpose # "none" => ~retrying)
  BY DEF Inv, TurnInv
<1>8. CASE UNCHANGED <<agentVars, events>> /\ ~(run = "idle" /\ transcript # <<>> /\ ~(IsReply(Last(transcript)) /\ queued = <<>>))
  <2>1. UNCHANGED <<transcript, queued, run, owner, aborting, events>>
    BY <1>8 DEF agentVars
  <2>2. run # "idle" \/ ~Continues(transcript)
    BY <1>2, <1>8, SetOfSeq DEF Continues
  <2>3. TurnInv'
    BY <1>1, <1>2, <1>3, <1>4, <1>6, <2>1 DEF Inv, TurnInv
  <2>4. EventInv'
    BY <1>1, <1>5, <2>1 DEF Inv, EventInv
  <2>5. RetryInv'
    <3>1. run \in {"idle", "running"}
      BY DEF Inv, TypeOK
    <3> QED
      BY <1>1, <1>5, <1>6, <2>1, <2>2, <3>1 DEF Inv, RetryInv
  <2>6. CountInv'
    BY <1>1, <1>3, <1>4, <1>6, <2>1 DEF Inv, CountInv, GivenUp
  <2>7. SessionInv'
    BY <1>1, <2>1 DEF Inv, SessionInv
  <2>8. FileInv'
    BY <1>1, <2>1 DEF Inv, FileInv
  <2> QED
    BY <2>3, <2>4, <2>5, <2>6, <2>7, <2>8 DEF Kept
<1>9. CASE /\ run = "idle" /\ transcript # <<>> /\ ~(IsReply(Last(transcript)) /\ queued = <<>>)
           /\ Begins(NoPrompt, Polled) /\ queued' = Unpolled
  <2>1. /\ Polled \in Seq(Message) /\ AllOf(Polled, "user") /\ SaidIn(Polled, sid)
        /\ AllOf(queued', "user") /\ SaidIn(queued', sid)
        /\ queued # <<>> => Polled = <<Head(queued)>> /\ Head(queued) \in Message /\ Head(queued).kind = "user"
        /\ queued = <<>> => Polled = <<>> /\ queued' = <<>>
    BY <1>9, PolledFacts
  <2>2. /\ run' = "running" /\ owner' = NoPrompt /\ aborting' = FALSE
        /\ transcript' = transcript \o Polled
        /\ EventsOK(events') /\ ~EndPending(events')
        /\ \A e \in ToSet(events') : e.message.s = sid
        /\ ~subscribed => events' = <<>>
        /\ subscribed => \A m : Announced(m, events') <=> m \in ToSet(Polled)
        /\ events' # <<>> => events'[1].type = "user"
        /\ subscribed /\ Polled # <<>> => events' # <<>>
    BY <1>3, <1>9, <2>1, BeginsEffect
  <2>3. TurnInv'
    BY <1>1, <1>3, <1>4, <1>6, <1>7, <2>2, PromptAssumption DEF Inv, TurnInv
  <2>4. Continues(transcript')
    <3>1. CASE queued = <<>>
      <4>1. transcript' = transcript
        BY <1>2, <2>1, <2>2, <3>1, JoinFacts
      <4> QED
        BY <1>2, <1>9, <3>1, <4>1, SetOfSeq DEF Continues
    <3>2. CASE queued # <<>>
      <4>1. Polled # <<>> /\ Len(Polled) = 1 /\ Polled[1].kind = "user"
        BY <2>1, <3>2
      <4>2. transcript' # <<>> /\ transcript'[Len(transcript')] = Polled[1]
        BY <1>2, <2>1, <2>2, <4>1, JoinFacts
      <4> QED
        BY <4>1, <4>2 DEF Continues, IsReply, ReplyKinds, ErrorKinds
    <3> QED
      BY <3>1, <3>2
  <2>5. EventInv'
    BY <1>1, <1>5, <2>1, <2>2, <2>4 DEF Inv, EventInv
  <2>6. RetryInv'
    BY <1>1, <1>6, <2>2 DEF RetryInv
  <2>7. CountInv'
    <3>1. GivenUp => ~Continues(transcript)
      BY <1>1, <1>4, <1>9 DEF Inv, CountInv
    <3>2. GivenUp => queued # <<>>
      BY <1>2, <1>9, <3>1, SetOfSeq DEF Continues
    <3>3. queued # <<>> => Polled # <<>>
      <4>1. <<Head(queued)>> # <<>>
        OBVIOUS
      <4> QED
        BY <2>1, <4>1
    <3> QED
      BY <1>1, <1>6, <2>2, <3>2, <3>3 DEF Inv, CountInv, GivenUp
  <2>8. ToSet(transcript') = ToSet(transcript) \cup ToSet(Polled)
    BY <1>2, <2>1, <2>2, SetOfJoin
  <2>9. SessionInv'
    <3>1. SaidIn(transcript', sid)
      BY <2>1, <2>8 DEF Inv, SessionInv, SaidIn
    <3>2. queued = <<>> => queued' = <<>>
      BY <2>1
    <3> QED
      BY <1>1, <2>1, <2>2, <3>1, <3>2 DEF Inv, SessionInv
  <2>10. FileInv'
    <3>1. ASSUME purpose = "none"
          PROVE  Follows(transcript', entries, events')
      <4>1. Follows(transcript, entries, <<>>) /\ subscribed
        BY <1>3, <1>7, <3>1 DEF Inv, FileInv
      <4>2. \A x : ~Announced(x, <<>>)
        BY SetOfFew DEF Announced
      <4> QED
        BY <2>2, <2>8, <4>1, <4>2 DEF Follows
    <3> QED
      BY <1>1, <1>3, <3>1 DEF FileInv
  <2> QED
    BY <2>3, <2>5, <2>6, <2>7, <2>9, <2>10 DEF Kept
<1> QED
  BY <1>8, <1>9 DEF TimerFires

\* A compaction of this session, or its failure, as the transcript and the file see it.
LEMMA CompactEffect ==
  ASSUME Inv, prepared.sid = sid, NEW reason, Compact(reason) \/ CompactionFails
  PROVE  /\ SaidIn(transcript', sid) /\ SaidIn(entries', sid)
         /\ Follows(transcript, entries, <<>>) => Follows(transcript', entries', <<>>)
         /\ timers' \in {timers, timers + 1}
<1>1. transcript \in Seq(Message) /\ entries \in Seq(Message)
  BY DEF Inv, TypeOK
<1>2. CASE CompactionFails
  BY <1>2 DEF CompactionFails, Inv, SessionInv
<1>3. CASE Compact(reason)
  <2>1. Compacted \in Seq(Message) /\ Compacted # <<>> /\ SaidIn(Compacted, sid)
    BY CompactedFacts
  <2>2. entries' = Compacted /\ timers' \in {timers, timers + 1}
        /\ \/ transcript' = Compacted
           \/ transcript' = Front(Compacted) /\ Last(Compacted).kind \in ErrorKinds
    BY <1>3 DEF Compact
  <2>3. ToSet(Compacted) = ToSet(Front(Compacted)) \cup {Last(Compacted)}
    BY <2>1, SetOfFront, SetOfSeq
  <2>4. ToSet(transcript') \subseteq ToSet(Compacted)
        /\ \A m \in ToSet(Compacted) : m.kind \in GoodKinds => m \in ToSet(transcript')
    BY <2>2, <2>3 DEF GoodKinds
  <2>5. SaidIn(transcript', sid)
    BY <2>1, <2>4 DEF SaidIn
  <2>6. Follows(transcript', entries', <<>>)
    <3>1. \A x : ~Announced(x, <<>>)
      BY SetOfFew DEF Announced
    <3> QED
      BY <2>2, <2>4, <3>1 DEF Follows
  <2> QED
    BY <2>1, <2>2, <2>5, <2>6
<1> QED
  BY <1>2, <1>3

LEMMA HandlerCompactsKeeps ==
  ASSUME Inv, Conditions, HandlerCompacts
  PROVE  Kept
<1>1. /\ handler.at = "compact" /\ handler' = Free
      /\ Compact(handler.reason) \/ CompactionFails
      /\ UNCHANGED <<queued, run, owner, aborting, subscribed, events, last, attempt, retrying,
                     pendingBash, pc, prepared, sid, shelf, purpose, inARow>>
  BY DEF HandlerCompacts, retryVars
<1>2. /\ run = "idle" /\ events = <<>> /\ timers = 0 /\ ~retrying
      /\ purpose \notin {"compact", "compacting"}
      /\ \A p \in Prompts : pc[p] \notin BeforeRun
  BY <1>1 DEF Inv, TurnInv
<1>3. last.kind \notin ErrorKinds /\ ~EndPending(events)
  BY <1>2, NoEventLeft
<1>4. prepared.sid = sid
  BY <1>1 DEF Inv, SessionInv
<1>5. /\ SaidIn(transcript', sid) /\ SaidIn(entries', sid)
      /\ Follows(transcript, entries, <<>>) => Follows(transcript', entries', <<>>)
      /\ timers' \in {timers, timers + 1}
  BY <1>1, <1>4, CompactEffect
<1>6. handler'.at = "free"
  BY <1>1 DEF Free
<1>7. TurnInv'
  BY <1>1, <1>2, <1>6 DEF Inv, TurnInv
<1>8. EventInv'
  BY <1>1, <1>2, <1>3 DEF Inv, EventInv
<1>9. RetryInv'
  BY <1>1, <1>2, <1>6 DEF RetryInv
<1>10. CountInv'
  <2>1. GivenUp /\ timers' > 0 => ~Continues(transcript')
    <3> SUFFICES ASSUME GivenUp, timers' > 0
                 PROVE  ~Continues(transcript')
      OBVIOUS
    <3>1. /\ handler.reason = "threshold" /\ entries # <<>> /\ IsReply(entries[Len(entries)])
          /\ prepared.length = Len(entries)
      BY <1>1 DEF Inv, CountInv
    <3>2. Compact(handler.reason)
      BY <1>1, <1>2 DEF CompactionFails
    <3>3. transcript' = Compacted
      BY <3>1, <3>2 DEF Compact
    <3>4. Len(Compacted) = 2 /\ Compacted[2] = entries[Len(entries)]
      BY <1>4, <3>1, CompactedFacts
    <3> QED
      BY <3>1, <3>3, <3>4 DEF Continues
  <2> QED
    BY <1>1, <1>2, <1>6, <2>1 DEF Inv, CountInv, GivenUp
<1>11. SessionInv'
  BY <1>1, <1>2, <1>5, <1>6 DEF Inv, SessionInv
<1>12. FileInv'
  BY <1>1, <1>2, <1>5 DEF Inv, FileInv
<1> QED
  BY <1>7, <1>8, <1>9, <1>10, <1>11, <1>12 DEF Kept

\* What the handling of any event finds.
LEMMA HandlingFacts ==
  ASSUME Inv, ProcessAgentEvent
  PROVE  /\ events # <<>> /\ events \in Seq(Event) /\ Head(events) = events[1]
         /\ handler.at = "free" /\ purpose = "none" /\ subscribed
         /\ \A p \in Prompts : pc[p] \notin BeforeRun /\ pc[p] \notin Reasons
         /\ events' = Tail(events) /\ events' \in Seq(Event) /\ EventsOK(events')
         /\ events[1] \in Event /\ events[1].message \in Message
         /\ Len(events) \in Nat \ {0} /\ Len(events') = Len(events) - 1 /\ 1 \in DOMAIN events
         /\ EndPending(events') => EndPending(events) /\ events'[Len(events')] = events[Len(events)]
         /\ Len(events) > 1 => (EndPending(events') <=> EndPending(events))
         /\ Len(events) > 2 => events'[Len(events') - 1] = events[Len(events) - 1]
         /\ UNCHANGED <<queued, run, owner, aborting, subscribed, pendingBash, pc, sid, shelf, purpose>>
<1>1. events # <<>> /\ handler = Free /\ events' = Tail(events) /\ events \in Seq(Event)
  BY DEF ProcessAgentEvent, Inv, TypeOK
<1>2. Head(events) = events[1]
  BY <1>1
<1>3. Len(events) \in Nat \ {0} /\ 1 \in DOMAIN events /\ events[1] \in Event
  BY <1>1, EmptySeq, LenProperties, ElementOfSeq
<1>4. events[1].message \in Message
  BY <1>3 DEF Event
<1>5. handler.at = "free"
  BY <1>1 DEF Free
<1>6. /\ purpose = "none" /\ subscribed
      /\ \A p \in Prompts : pc[p] \notin BeforeRun
  BY <1>1 DEF Inv, TurnInv
<1>7. \A p \in Prompts : pc[p] \notin Reasons
  BY <1>6 DEF BeforeRun, Reasons
<1>8. /\ events' \in Seq(Event) /\ EventsOK(events') /\ Len(events') = Len(events) - 1
      /\ EndPending(events') => EndPending(events) /\ events'[Len(events')] = events[Len(events)]
      /\ Len(events) > 1 => (EndPending(events') <=> EndPending(events))
      /\ Len(events) > 2 => events'[Len(events') - 1] = events[Len(events) - 1]
  BY <1>1, TailEvents DEF Inv, EventInv
<1> QED
  BY <1>1, <1>2, <1>3, <1>4, <1>5, <1>6, <1>7, <1>8 DEF ProcessAgentEvent

LEMMA HandledEvents ==
  ASSUME Inv, ProcessAgentEvent
  PROVE  /\ \A e \in ToSet(events') : e.message.s = sid
         /\ events[1].message.s = sid
         /\ \A m : Announced(m, events) <=>
              Announced(m, events') \/ (events[1].type # "agentEnd" /\ events[1].message = m)
<1>1. /\ events # <<>> /\ events \in Seq(Event) /\ events' = Tail(events)
      /\ Head(events) = events[1]
  BY HandlingFacts
<1>2. ToSet(events) = ToSet(events') \cup {events[1]}
  BY <1>1, SetOfTail
<1>3. \A m : Announced(m, events) <=>
        Announced(m, events') \/ (events[1].type # "agentEnd" /\ events[1].message = m)
  BY <1>1, TailAnnounced
<1> QED
  BY <1>2, <1>3 DEF Inv, SessionInv

\* A message enters the file when its event is handled.
LEMMA HandledMessage ==
  ASSUME Inv, ProcessAgentEvent, events[1].type # "agentEnd",
         entries' = Append(entries, events[1].message), transcript' = transcript,
         handler' = handler
  PROVE  SessionInv' /\ FileInv'
<1> DEFINE m == events[1].message
<1>1. /\ m \in Message /\ purpose = "none" /\ entries \in Seq(Message)
      /\ handler.at = "free" /\ \A p \in Prompts : pc[p] \notin Reasons
      /\ UNCHANGED <<queued, pc, sid, shelf, purpose>>
  BY HandlingFacts DEF Inv, TypeOK
<1>2. m.s = sid /\ \A e \in ToSet(events') : e.message.s = sid
  BY HandledEvents
<1>3. \A x : Announced(x, events) <=> Announced(x, events') \/ m = x
  BY HandledEvents
<1>4. ToSet(entries') = ToSet(entries) \cup {m}
  BY <1>1, SetOfMore
<1> HIDE DEF m
<1>5. SaidIn(entries', sid)
  BY <1>2, <1>4 DEF Inv, SessionInv, SaidIn
<1>6. SessionInv'
  BY <1>1, <1>2, <1>5 DEF Inv, SessionInv
<1>7. Follows(transcript, entries', events')
  BY <1>1, <1>3, <1>4 DEF Inv, FileInv, Follows
<1> QED
  BY <1>6, <1>7 DEF FileInv

LEMMA HandleUserKeeps ==
  ASSUME Inv, Conditions, ProcessAgentEvent, HandleUser
  PROVE  Kept
<1>0. Head(events) = events[1] /\ events # <<>>
  BY HandlingFacts
<1>1. /\ events[1].type = "user" /\ entries' = Append(entries, events[1].message) /\ inARow' = 0
      /\ UNCHANGED <<transcript, handler, last, attempt, retrying, timers, prepared>>
  BY <1>0, Zenon DEF HandleUser
<1>2. /\ handler.at = "free" /\ purpose = "none" /\ subscribed
      /\ \A p \in Prompts : pc[p] \notin BeforeRun /\ pc[p] \notin Reasons
      /\ EventsOK(events') /\ Len(events) \in Nat \ {0} /\ Len(events') = Len(events) - 1
      /\ EndPending(events') => EndPending(events) /\ events'[Len(events')] = events[Len(events)]
      /\ Len(events) > 1 => (EndPending(events') <=> EndPending(events))
      /\ Len(events) > 2 => events'[Len(events') - 1] = events[Len(events) - 1]
      /\ UNCHANGED <<queued, run, owner, aborting, subscribed, pendingBash, pc, sid, shelf, purpose>>
  BY HandlingFacts
<1>3. EndPending(events) => Len(events) > 1
  BY <1>1, <1>2 DEF EndPending
<1>4. last.kind \notin ErrorKinds
  BY <1>2, <1>3 DEF Inv, EventInv
<1>5. TurnInv'
  BY <1>1, <1>2 DEF Inv, TurnInv
<1>6. EventInv'
  BY <1>1, <1>2, <1>4 DEF Inv, EventInv
<1>7. RetryInv'
  <2>1. ASSUME EndsTheRetry(events, last)
        PROVE  EndsTheRetry(events', last)
    <3>1. EndPending(events) /\ EndPending(events')
      BY <1>2, <1>3, <2>1 DEF EndsTheRetry
    <3>2. CASE last # NoMessage
      BY <3>1, <3>2 DEF EndsTheRetry
    <3>3. CASE Len(events) > 1 /\ events[Len(events) - 1].type = "reply"
      <4>1. Len(events) # 2
        <5>1. Len(events) = 2 => Len(events) - 1 = 1
          OBVIOUS
        <5> QED
          BY <1>1, <3>3, <5>1
      <4>2. Len(events) > 2 /\ Len(events') > 1
        BY <1>2, <3>3, <4>1
      <4> QED
        BY <1>2, <3>1, <3>3, <4>2 DEF EndsTheRetry
    <3> QED
      BY <2>1, <3>2, <3>3 DEF EndsTheRetry
  <2> QED
    BY <1>1, <1>2, <2>1 DEF Inv, RetryInv
<1>8. CountInv'
  <2>1. attempt \in 0 .. MaxRetries
    BY DEF Inv, TypeOK
  <2> QED
    BY <1>1, <1>2, <2>1, BoundAssumption DEF CountInv, GivenUp
<1>9. SessionInv' /\ FileInv'
  BY <1>1, HandledMessage
<1> QED
  BY <1>5, <1>6, <1>7, <1>8, <1>9 DEF Kept

LEMMA HandleReplyKeeps ==
  ASSUME Inv, Conditions, ProcessAgentEvent, HandleReply
  PROVE  Kept
<1> DEFINE m == events[1].message
<1>0. Head(events) = events[1] /\ events # <<>>
  BY HandlingFacts
<1>1. /\ events[1].type = "reply" /\ entries' = Append(entries, m) /\ last' = m
      /\ attempt' = IF m.kind \notin ErrorKinds THEN 0 ELSE attempt
      /\ inARow' = IF m.kind \notin ErrorKinds THEN 0 ELSE inARow
      /\ UNCHANGED <<transcript, handler, retrying, timers, prepared>>
  BY <1>0, Zenon DEF HandleReply
<1>2. /\ handler.at = "free" /\ purpose = "none" /\ subscribed /\ m \in Message
      /\ \A p \in Prompts : pc[p] \notin BeforeRun /\ pc[p] \notin Reasons
      /\ EventsOK(events') /\ Len(events) \in Nat \ {0} /\ Len(events') = Len(events) - 1
      /\ EndPending(events') => EndPending(events) /\ events'[Len(events')] = events[Len(events)]
      /\ Len(events) > 1 => (EndPending(events') <=> EndPending(events))
      /\ 1 \in DOMAIN events /\ events \in Seq(Event)
      /\ UNCHANGED <<queued, run, owner, aborting, subscribed, pendingBash, pc, sid, shelf, purpose>>
  BY HandlingFacts
<1>3. EndPending(events) => Len(events) > 1
  BY <1>1, <1>2 DEF EndPending
<1>4. IsReply(m)
  BY <1>1, <1>2 DEF Inv, EventInv, EventsOK
<1>5. m.kind \in ErrorKinds => Len(events) = 2 /\ EndPending(events) /\ events[2].message = m
  <2>1. m.kind \in ErrorKinds =>
          1 + 1 \in DOMAIN events /\ events[1 + 1].type = "agentEnd" /\ events[1 + 1].message = m
          /\ 1 + 1 = Len(events)
    BY <1>1, <1>2 DEF Inv, EventInv, EventsOK
  <2> QED
    BY <1>0, <2>1 DEF EndPending
<1>6. TurnInv'
  BY <1>1, <1>2 DEF Inv, TurnInv
<1>7. EventInv'
  <2>1. entries \in Seq(Message)
    BY DEF Inv, TypeOK
  <2>2. entries' # <<>> /\ entries'[Len(entries')] = m
    BY <1>1, <1>2, <2>1, AddFacts
  <2>3. m.kind \in ErrorKinds => Len(events') = 1 /\ EndPending(events') /\ events'[1].message = m
    BY <1>2, <1>5
  <2> QED
    BY <1>1, <1>2, <1>4, <2>2, <2>3 DEF Inv, EventInv
<1>8. RetryInv'
  <2>1. m # NoMessage
    BY <1>4 DEF IsReply, NoMessage, ReplyKinds, ErrorKinds
  <2>2. EndPending(events) => EndsTheRetry(events', m)
    BY <1>2, <1>3, <2>1 DEF EndsTheRetry
  <2>3. EndsTheRetry(events, last) => EndPending(events)
    BY DEF EndsTheRetry
  <2> QED
    BY <1>1, <1>2, <2>2, <2>3 DEF Inv, RetryInv
<1>9. CountInv'
  <2>1. attempt \in 0 .. MaxRetries /\ inARow \in Nat
    BY DEF Inv, TypeOK
  <2>2. ~GivenUp
    BY <1>0, <1>1 DEF Inv, CountInv
  <2> QED
    BY <1>1, <1>2, <2>1, <2>2, BoundAssumption DEF Inv, CountInv, GivenUp
<1>10. SessionInv' /\ FileInv'
  BY <1>1, HandledMessage
<1> QED
  BY <1>6, <1>7, <1>8, <1>9, <1>10 DEF Kept

\* The last reply of a sequence.
LEMMA LastReplyAtEnd ==
  ASSUME NEW ms \in Seq(Message), EndsWithReply(ms)
  PROVE  LastReply(ms) = ms[Len(ms)] /\ ms[Len(ms)] \in Message
<1> DEFINE r == {i \in DOMAIN ms : IsReply(ms[i])}
           last1 == CHOOSE i \in r : \A j \in r : j <= i
<1>1. /\ ms # <<>> /\ Last(ms) = ms[Len(ms)] /\ IsReply(ms[Len(ms)])
      /\ DOMAIN ms = 1 .. Len(ms) /\ Len(ms) \in Nat \ {0}
  BY SetOfSeq, EmptySeq, LenProperties DEF EndsWithReply
<1>2. Len(ms) \in r /\ \A j \in r : j <= Len(ms) /\ j \in Nat
  BY <1>1
<1>3. LastReply(ms) = ms[last1]
  BY <1>2, Zenon DEF LastReply
<1>4. last1 \in r /\ \A j \in r : j <= last1
  BY <1>2, Zenon
<1> HIDE DEF r, last1
<1>5. last1 = Len(ms)
  BY <1>1, <1>2, <1>4
<1> QED
  BY <1>1, <1>3, <1>5, ElementOfSeq

LEMMA WithoutLastReplyFacts ==
  ASSUME NEW ms \in Seq(Message)
  PROVE  /\ WithoutLastReply(ms) \in Seq(Message)
         /\ ToSet(WithoutLastReply(ms)) \subseteq ToSet(ms)
         /\ EndsWithReply(ms) => /\ WithoutLastReply(ms) = Front(ms)
                                 /\ ToSet(ms) = ToSet(WithoutLastReply(ms)) \cup {ms[Len(ms)]}
         /\ ~EndsWithReply(ms) => WithoutLastReply(ms) = ms
<1>1. CASE EndsWithReply(ms)
  <2>1. ms # <<>>
    BY <1>1 DEF EndsWithReply
  <2>2. Front(ms) \in Seq(Message) /\ ToSet(ms) = ToSet(Front(ms)) \cup {ms[Len(ms)]}
    BY <2>1, SetOfFront, FrontFacts
  <2> QED
    BY <1>1, <2>2 DEF WithoutLastReply
<1>2. CASE ~EndsWithReply(ms)
  BY <1>2 DEF WithoutLastReply
<1> QED
  BY <1>1, <1>2

\* A compaction that starts takes at most a last reply away, which ran out of context.
LEMMA StartsEffect ==
  ASSUME Inv, NEW reason, NEW ms \in Seq(Message), StartCompaction(reason, ms),
         EndsWithReply(ms) /\ reason = "overflow" => ms[Len(ms)].kind = "overflow"
  PROVE  /\ ToSet(transcript') \subseteq ToSet(ms)
         /\ \A m \in ToSet(ms) : m.kind \in GoodKinds => m \in ToSet(transcript')
         /\ reason # "none" => prepared'.sid = sid /\ prepared'.length = Len(entries)
         /\ reason = "none" => prepared' = prepared
         /\ reason # "overflow" => transcript' = ms
<1>1. CASE reason = "overflow"
  <2>1. transcript' = WithoutLastReply(ms) /\ prepared'.sid = sid /\ prepared'.length = Len(entries)
    BY <1>1 DEF StartCompaction
  <2>2. /\ ToSet(transcript') \subseteq ToSet(ms)
        /\ EndsWithReply(ms) => ToSet(ms) = ToSet(transcript') \cup {ms[Len(ms)]}
        /\ ~EndsWithReply(ms) => transcript' = ms
    BY <2>1, WithoutLastReplyFacts
  <2>3. \A m \in ToSet(ms) : m.kind \in GoodKinds => m \in ToSet(transcript')
    BY <1>1, <2>2 DEF GoodKinds, ErrorKinds
  <2> QED
    BY <1>1, <2>1, <2>2, <2>3
<1>2. CASE reason # "overflow"
  BY <1>2 DEF StartCompaction
<1> QED
  BY <1>1, <1>2

LEMMA HandleEndKeeps ==
  ASSUME Inv, Conditions, ProcessAgentEvent, HandleEnd
  PROVE  Kept
<1>0. Head(events) = events[1] /\ events # <<>>
  BY HandlingFacts
<1>1. /\ events[1].type = "agentEnd" /\ last' = NoMessage
      /\ UNCHANGED <<timers, entries, inARow>>
  BY <1>0, Zenon DEF HandleEnd
<1>2. /\ handler.at = "free" /\ purpose = "none" /\ subscribed
      /\ \A p \in Prompts : pc[p] \notin BeforeRun /\ pc[p] \notin Reasons
      /\ Len(events) \in Nat \ {0} /\ Len(events') = Len(events) - 1 /\ 1 \in DOMAIN events
      /\ events' \in Seq(Event) /\ EventsOK(events')
      /\ UNCHANGED <<queued, run, owner, aborting, subscribed, pendingBash, pc, sid, shelf, purpose>>
  BY HandlingFacts
<1>3. /\ transcript \in Seq(Message) /\ entries \in Seq(Message)
      /\ attempt \in 0 .. MaxRetries /\ inARow \in Nat /\ retrying \in BOOLEAN
  BY DEF Inv, TypeOK
<1>4. Len(events) = 1 /\ EndPending(events) /\ IsReply(events[1].message)
  <2>1. Len(events) = 1 /\ IsReply(events[1].message)
    BY <1>1, <1>2 DEF Inv, EventInv, EventsOK
  <2> QED
    BY <1>0, <1>1, <2>1 DEF EndPending
<1>5. events' = <<>>
  BY <1>2, <1>4, EmptySeq
<1>6. /\ run = "idle" /\ timers = 0 /\ Len(transcript) > 1
      /\ transcript[Len(transcript)] = events[1].message
      /\ ~IsReply(transcript[Len(transcript) - 1])
  BY <1>4 DEF Inv, EventInv
<1>7. last.kind \in ErrorKinds =>
        events[1].message = last /\ entries # <<>> /\ entries[Len(entries)] = last
  BY DEF Inv, EventInv
<1>8. attempt >= inARow
  BY <1>0, <1>1, <1>3, BoundAssumption DEF Inv, CountInv, GivenUp
<1>9. \A x : ~Announced(x, <<>>) /\ (Announced(x, events) <=> FALSE)
  <2>1. \A x : ~Announced(x, <<>>)
    BY SetOfFew DEF Announced
  <2> QED
    BY <1>1, <1>5, <2>1, HandledEvents
<1>10. Follows(transcript, entries, <<>>)
  BY <1>2, <1>9 DEF Inv, FileInv, Follows
<1>11. ToSet(<<>>) = {} /\ ~EndPending(<<>>)
  BY SetOfFew DEF EndPending
<1>12. NoMessage.kind \notin ErrorKinds
  BY DEF NoMessage, ErrorKinds
<1>13. EventInv'
  BY <1>1, <1>2, <1>5, <1>6, <1>11, <1>12 DEF Inv, EventInv
<1>14. CASE last = NoMessage /\ UNCHANGED <<transcript, handler, attempt, retrying, prepared>>
  <2>1. ~EndsTheRetry(events, last)
    BY <1>4, <1>14 DEF EndsTheRetry
  <2>2. ~retrying
    BY <1>2, <1>6, <2>1 DEF Inv, RetryInv
  <2>3. TurnInv'
    BY <1>1, <1>2, <1>5, <1>14 DEF Inv, TurnInv
  <2>4. RetryInv'
    BY <1>2, <1>14, <2>2 DEF RetryInv
  <2>5. CountInv'
    BY <1>1, <1>2, <1>3, <1>8, <1>14 DEF Inv, CountInv, GivenUp
  <2>6. SessionInv'
    BY <1>1, <1>2, <1>5, <1>11, <1>14 DEF Inv, SessionInv
  <2>7. FileInv'
    BY <1>1, <1>5, <1>10, <1>14 DEF FileInv
  <2> QED
    BY <1>13, <1>14, <2>3, <2>4, <2>5, <2>6, <2>7 DEF Kept
<1>15. CASE /\ last.kind = "error" /\ attempt < MaxRetries
            /\ attempt' = attempt + 1 /\ retrying' = TRUE
            /\ transcript' = WithoutLastReply(transcript)
            /\ handler' = [at |-> "backoff", reason |-> "none", message |-> last]
            /\ prepared' = prepared
  <2>1. EndsWithReply(transcript)
    <3>1. transcript # <<>>
      BY <1>6, EmptySeq
    <3> QED
      BY <1>3, <1>4, <1>6, <3>1, SetOfSeq DEF EndsWithReply
  <2>2. /\ transcript' = Front(transcript)
        /\ ToSet(transcript) = ToSet(transcript') \cup {last}
    BY <1>3, <1>6, <1>7, <1>15, <2>1, WithoutLastReplyFacts DEF ErrorKinds
  <2>3. Continues(transcript')
    <3>1. transcript # <<>>
      BY <2>1 DEF EndsWithReply
    <3>2. /\ transcript' \in Seq(Message) /\ Len(transcript') = Len(transcript) - 1
          /\ Len(transcript) \in Nat
          /\ \A i \in 1 .. Len(transcript) - 1 : transcript'[i] = transcript[i]
      BY <1>3, <2>2, <3>1, FrontFacts
    <3>3. transcript' # <<>>
      BY <1>6, <3>2, EmptySeq
    <3>4. Len(transcript) - 1 \in 1 .. Len(transcript) - 1
      BY <1>6, <3>2
    <3>5. transcript'[Len(transcript')] = transcript[Len(transcript) - 1]
      BY <3>2, <3>4
    <3> QED
      BY <1>6, <3>3, <3>5 DEF Continues
  <2>4. handler'.at = "backoff" /\ handler'.message = last
    BY <1>15
  <2>5. TurnInv'
    BY <1>1, <1>2, <1>5, <1>6, <1>15, <2>4 DEF Inv, TurnInv
  <2>7. RetryInv'
    BY <2>3, <2>4 DEF RetryInv
  <2>8. CountInv'
    BY <1>1, <1>3, <1>8, <1>15, <2>4, BoundAssumption DEF Inv, CountInv, GivenUp
  <2>9. SessionInv'
    BY <1>1, <1>2, <1>5, <1>11, <1>15, <2>2, <2>4 DEF Inv, SessionInv, SaidIn
  <2>10. FileInv'
    BY <1>1, <1>5, <1>9, <1>10, <1>15, <2>2 DEF FileInv, Follows, GoodKinds, ErrorKinds
  <2> QED
    BY <1>13, <2>5, <2>7, <2>8, <2>9, <2>10 DEF Kept
<1>16. CASE /\ last # NoMessage /\ Settle(last, transcript)
            /\ attempt' = IF last.kind = "error" THEN 0 ELSE attempt
  <2>1. PICK reason \in Reason(last, TRUE) :
          /\ retrying' = FALSE
          /\ handler' = IF reason = "none" THEN Free
                        ELSE [at |-> "compact", reason |-> reason, message |-> last]
          /\ StartCompaction(reason, transcript)
    BY <1>16 DEF Settle
  <2>2. /\ reason = "overflow" => last.kind = "overflow"
        /\ last.kind = "error" => reason \in {"none", "threshold"}
    BY <2>1 DEF Reason
  <2>3. reason = "overflow" => transcript[Len(transcript)].kind = "overflow"
    BY <1>6, <1>7, <2>2 DEF ErrorKinds
  <2>4. /\ ToSet(transcript') \subseteq ToSet(transcript)
        /\ \A m \in ToSet(transcript) : m.kind \in GoodKinds => m \in ToSet(transcript')
        /\ reason # "none" => prepared'.sid = sid /\ prepared'.length = Len(entries)
    BY <1>3, <2>1, <2>3, StartsEffect
  <2>5. handler'.at = (IF reason = "none" THEN "free" ELSE "compact")
        /\ (reason # "none" => handler'.reason = reason)
    BY <2>1 DEF Free
  <2>6. TurnInv'
    BY <1>1, <1>2, <1>5, <1>6, <2>1, <2>5 DEF Inv, TurnInv
  <2>8. RetryInv'
    BY <2>1, <2>5 DEF RetryInv
  <2>9. CountInv'
    <3>1. GivenUp' => last.kind = "error"
      BY <1>1, <1>3, <1>8, <1>16, BoundAssumption DEF GivenUp
    <3>2. last.kind = "error" => entries # <<>> /\ IsReply(entries[Len(entries)])
      BY <1>7 DEF IsReply, ReplyKinds, ErrorKinds
    <3> QED
      BY <1>1, <1>2, <1>5, <1>6, <2>2, <2>4, <2>5, <3>1, <3>2 DEF Inv, CountInv
  <2>10. SessionInv'
    BY <1>1, <1>2, <1>5, <1>11, <2>4, <2>5 DEF Inv, SessionInv, SaidIn
  <2>11. FileInv'
    BY <1>1, <1>5, <1>9, <1>10, <2>4 DEF FileInv, Follows
  <2> QED
    BY <1>13, <2>6, <2>8, <2>9, <2>10, <2>11 DEF Kept
<1> QED
  BY <1>14, <1>15, <1>16 DEF HandleEnd

LEMMA ProcessAgentEventKeeps ==
  ASSUME Inv, Conditions, ProcessAgentEvent
  PROVE  Kept
BY HandleUserKeeps, HandleReplyKeeps, HandleEndKeeps DEF ProcessAgentEvent

LEMMA BackoffEndsKeeps ==
  ASSUME Inv, Conditions, BackoffEnds
  PROVE  Kept
<1>1. /\ handler.at = "backoff" /\ handler' = Free /\ timers' = timers + 1 /\ inARow' = inARow + 1
      /\ UNCHANGED <<transcript, queued, run, owner, aborting, subscribed, events, last, attempt,
                     retrying, pendingBash, pc, prepared, sid, entries, shelf, purpose>>
  BY DEF BackoffEnds, agentVars, retryVars, fileVars
<1>2. /\ run = "idle" /\ events = <<>> /\ timers = 0 /\ retrying /\ purpose = "none"
      /\ \A p \in Prompts : pc[p] \notin BeforeRun
  BY <1>1 DEF Inv, TurnInv
<1>3. last.kind \notin ErrorKinds /\ ~EndPending(events)
  BY <1>2, NoEventLeft
<1>4. handler'.at = "free"
  BY <1>1 DEF Free
<1>5. TurnInv'
  BY <1>1, <1>2, <1>4 DEF Inv, TurnInv
<1>6. EventInv'
  BY <1>1, <1>2, <1>3 DEF Inv, EventInv
<1>7. RetryInv'
  BY <1>1, <1>2, <1>4 DEF Inv, RetryInv
<1>8. CountInv'
  <2>1. attempt \in 0 .. MaxRetries /\ inARow \in Nat
    BY DEF Inv, TypeOK
  <2> QED
    BY <1>1, <1>4, <2>1, BoundAssumption DEF Inv, CountInv, GivenUp
<1>9. SessionInv'
  BY <1>1, <1>4 DEF Inv, SessionInv
<1>10. FileInv'
  BY <1>1 DEF Inv, FileInv
<1> QED
  BY <1>5, <1>6, <1>7, <1>8, <1>9, <1>10 DEF Kept

LEMMA PromptSteersKeeps ==
  ASSUME Inv, Conditions, NEW p \in Prompts, PromptSteers(p)
  PROVE  Kept
<1>1. /\ pc[p] = "idle" /\ purpose = "none" /\ run = "running"
      /\ pc' = [pc EXCEPT ![p] = "done"] /\ queued' = Append(queued, New("user"))
      /\ UNCHANGED <<transcript, run, owner, aborting, subscribed, events, handler, last, attempt,
                     retrying, pendingBash, timers, prepared, sid, entries, shelf, purpose, inARow>>
  BY DEF PromptSteers, retryVars
<1>2. /\ handler.at = "free" /\ \A q \in Prompts : pc[q] \notin BeforeRun
      /\ ~EndPending(events) /\ last.kind \notin ErrorKinds
  BY <1>1, WhenRunning
<1>3. pc \in Stages /\ queued \in Seq(Message)
  BY DEF Inv, TypeOK, Stages
<1>4. /\ \A q \in Prompts : pc'[q] = IF q = p THEN "done" ELSE pc[q]
      /\ \A q \in Prompts : pc'[q] \notin BeforeRun
  BY <1>1, <1>2, <1>3 DEF Stages, BeforeRun
<1>5. New("user") \in Message /\ New("user").kind = "user" /\ New("user").s = sid
  BY NewOne DEF Inv, Kinds
<1>6. ToSet(queued') = ToSet(queued) \cup {New("user")}
  BY <1>1, <1>3, <1>5, SetOfMore
<1>7. TurnInv'
  <2>1. \A q \in Prompts : pc'[q] \notin Quiet => pc[q] \notin Quiet
    BY <1>4 DEF Quiet
  <2>2. \A q, o \in Prompts : pc'[q] \notin Quiet /\ pc'[o] \notin Quiet => q = o
    BY <2>1 DEF Inv, TurnInv
  <2>3. owner \in Prompts => pc[owner] = "running" /\ owner # p
    BY <1>1 DEF Inv, TurnInv
  <2>4. owner \in Prompts => pc'[owner] = "running"
    BY <1>4, <2>3
  <2> QED
    BY <1>1, <1>2, <1>4, <2>2, <2>4 DEF Inv, TurnInv
<1>8. EventInv'
  BY <1>1, <1>2, <1>5, <1>6 DEF Inv, EventInv, AllOf
<1>9. RetryInv'
  BY <1>1, <1>2 DEF RetryInv
<1>10. CountInv'
  BY <1>1, <1>2 DEF Inv, CountInv, GivenUp
<1>11. SessionInv'
  <2>1. SaidIn(queued', sid)
    BY <1>5, <1>6 DEF Inv, SessionInv, SaidIn
  <2>2. \A q \in Prompts : pc'[q] \notin Reasons
    BY <1>4 DEF BeforeRun, Reasons
  <2> QED
    BY <1>1, <1>2, <2>1, <2>2 DEF Inv, SessionInv
<1>12. FileInv'
  BY <1>1 DEF Inv, FileInv
<1> QED
  BY <1>7, <1>8, <1>9, <1>10, <1>11, <1>12 DEF Kept

LEMMA PromptBeginsKeeps ==
  ASSUME Inv, Conditions, NEW p \in Prompts, PromptBegins(p)
  PROVE  Kept
<1> DEFINE messages == transcript \o pendingBash
           reasons == IF LastReply(messages) = NoMessage THEN {"none"}
                      ELSE Reason(LastReply(messages), FALSE)
<1>1. /\ purpose = "none" /\ run = "idle" /\ Ready
      /\ ~retrying /\ timers = 0 /\ \A q \in Prompts : pc[q] \in {"idle", "done"}
      /\ entries' = entries \o pendingBash /\ pendingBash' = <<>>
      /\ UNCHANGED <<queued, run, owner, aborting, subscribed, events, handler, last, attempt,
                     retrying, timers, sid, shelf, purpose, inARow>>
  BY DEF PromptBegins, Conditions
<1>2. PICK reason \in reasons :
        /\ pc' = [pc EXCEPT ![p] = IF reason = "none" THEN "ready" ELSE reason]
        /\ StartCompaction(reason, messages)
  BY DEF PromptBegins
<1>3. reason = "overflow" => LastReply(messages).kind = "overflow"
  BY <1>2 DEF Reason
<1>4. /\ transcript \in Seq(Message) /\ pendingBash \in Seq(Message) /\ entries \in Seq(Message)
      /\ pc \in Stages /\ handler.at \in {"free", "backoff", "compact"}
  BY DEF Inv, TypeOK, Stages
<1>5. messages \in Seq(Message)
  BY <1>4
<1>6. /\ ToSet(messages) = ToSet(transcript) \cup ToSet(pendingBash)
      /\ ToSet(entries') = ToSet(entries) \cup ToSet(pendingBash)
  BY <1>1, <1>4, SetOfJoin
<1> HIDE DEF messages, reasons
<1>7. EndsWithReply(messages) /\ reason = "overflow" => messages[Len(messages)].kind = "overflow"
  BY <1>3, <1>5, LastReplyAtEnd
<1>8. /\ ToSet(transcript') \subseteq ToSet(messages)
      /\ \A m \in ToSet(messages) : m.kind \in GoodKinds => m \in ToSet(transcript')
      /\ reason # "none" => prepared'.sid = sid
  BY <1>2, <1>5, <1>7, StartsEffect
<1>9. events = <<>> /\ handler.at # "compact"
  BY <1>1, WhenReady
<1>10. handler.at = "free"
  BY <1>1, <1>4, <1>9 DEF Inv, TurnInv
<1>11. last.kind \notin ErrorKinds /\ ~EndPending(events)
  BY <1>9, NoEventLeft
<1>12. \A q \in Prompts : pc'[q] = IF q = p THEN IF reason = "none" THEN "ready" ELSE reason ELSE pc[q]
  BY <1>2, <1>4 DEF Stages
<1>13. TurnInv'
  <2>1. owner \notin Prompts
    BY <1>1 DEF Inv, TurnInv
  <2>2. \A q \in Prompts : pc'[q] \notin Quiet => q = p
    BY <1>1, <1>12 DEF Quiet
  <2> QED
    BY <1>1, <1>9, <1>10, <2>1, <2>2 DEF Inv, TurnInv
<1>14. AllOf(pendingBash, "bash")
  BY DEF Inv, EventInv
<1>15. EventInv'
  BY <1>1, <1>11, SetOfFew DEF Inv, EventInv, AllOf
<1>16. RetryInv'
  BY <1>1, <1>10 DEF RetryInv
<1>17. CountInv'
  BY <1>1, <1>9, <1>10 DEF Inv, CountInv, GivenUp
<1>18. SessionInv'
  <2>1. SaidIn(transcript', sid) /\ SaidIn(entries', sid)
    BY <1>6, <1>8, <1>14 DEF Inv, SessionInv, SaidIn, AllOf
  <2>2. (\E q \in Prompts : pc'[q] \in Reasons) => prepared'.sid = sid
    BY <1>1, <1>8, <1>12 DEF Reasons
  <2> QED
    BY <1>1, <1>10, <2>1, <2>2 DEF Inv, SessionInv
<1>19. FileInv'
  <2>1. Follows(transcript, entries, events)
    BY <1>1 DEF Inv, FileInv
  <2>2. Follows(transcript', entries', events)
    BY <1>6, <1>8, <2>1 DEF Follows
  <2> QED
    BY <1>1, <2>2 DEF FileInv
<1> QED
  BY <1>13, <1>15, <1>16, <1>17, <1>18, <1>19 DEF Kept

LEMMA PromptCompactsKeeps ==
  ASSUME Inv, Conditions, NEW p \in Prompts, PromptCompacts(p)
  PROVE  Kept
<1>1. /\ pc[p] \in Reasons /\ pc' = [pc EXCEPT ![p] = "ready"]
      /\ Compact(pc[p]) \/ CompactionFails
      /\ UNCHANGED <<queued, run, owner, aborting, subscribed, events, handler, last, attempt,
                     retrying, pendingBash, prepared, sid, shelf, purpose, inARow>>
  BY DEF PromptCompacts, retryVars
<1>2. pc[p] \in BeforeRun /\ pc[p] \notin Quiet
  BY <1>1 DEF BeforeRun, Reasons, Quiet
<1>3. /\ run = "idle" /\ events = <<>> /\ handler.at = "free" /\ ~retrying /\ timers = 0
      /\ \A q \in Prompts : pc[q] \notin Quiet => q = p
      /\ purpose \notin {"compact", "compacting"}
  BY <1>1, <1>2 DEF Inv, TurnInv
<1>4. prepared.sid = sid
  BY <1>1 DEF Inv, SessionInv
<1>5. /\ SaidIn(transcript', sid) /\ SaidIn(entries', sid)
      /\ Follows(transcript, entries, <<>>) => Follows(transcript', entries', <<>>)
  BY <1>1, <1>4, CompactEffect
<1>6. last.kind \notin ErrorKinds /\ ~EndPending(events)
  BY <1>3, NoEventLeft
<1>7. \A q \in Prompts : pc'[q] = IF q = p THEN "ready" ELSE pc[q]
  BY <1>1 DEF Inv, TypeOK
<1>8. TurnInv'
  <2>1. \A q \in Prompts : pc'[q] \notin Quiet => q = p
    BY <1>3, <1>7
  <2>2. owner \in Prompts => pc[owner] = "running" /\ owner # p
    BY <1>1 DEF Inv, TurnInv, Reasons
  <2>3. owner \in Prompts => pc'[owner] = "running"
    BY <1>7, <2>2
  <2>4. pc'[p] = "ready" /\ "ready" \notin Reasons
    BY <1>7 DEF Reasons
  <2>5. \A q \in Prompts : pc'[q] \in BeforeRun => pc'[q] \notin Reasons
    BY <2>1, <2>4 DEF BeforeRun, Quiet
  <2> QED
    BY <1>1, <1>3, <2>1, <2>3, <2>5 DEF Inv, TurnInv
<1>9. EventInv'
  BY <1>1, <1>3, <1>6 DEF Inv, EventInv
<1>10. RetryInv'
  BY <1>1, <1>3 DEF RetryInv
<1>11. CountInv'
  <2>1. pc'[p] \in BeforeRun
    BY <1>7 DEF BeforeRun
  <2> QED
    BY <1>1, <1>3, <2>1 DEF Inv, CountInv, GivenUp
<1>12. SessionInv'
  BY <1>1, <1>4, <1>5 DEF Inv, SessionInv
<1>13. FileInv'
  BY <1>1, <1>3, <1>5 DEF Inv, FileInv
<1> QED
  BY <1>8, <1>9, <1>10, <1>11, <1>12, <1>13 DEF Kept

LEMMA PromptRunsKeeps ==
  ASSUME Inv, Conditions, NEW p \in Prompts, PromptRuns(p)
  PROVE  Kept
<1>1. pc[p] = "ready" /\ Ready
  BY DEF PromptRuns
<1>2. pc[p] \in BeforeRun /\ pc[p] \notin Quiet
  BY <1>1 DEF BeforeRun, Quiet
<1>3. /\ run = "idle" /\ events = <<>> /\ handler.at = "free" /\ ~retrying
      /\ \A q \in Prompts : pc[q] \notin Quiet => q = p
      /\ purpose \notin {"compact", "compacting"}
      /\ subscribed = (purpose = "none")
  BY <1>2 DEF Inv, TurnInv
<1>4. /\ Begins(p, <<New("user")>> \o Polled) /\ queued' = Unpolled
      /\ pc' = [pc EXCEPT ![p] = "running"]
      /\ UNCHANGED <<subscribed, handler, last, attempt, retrying, pendingBash, timers, prepared,
                     sid, entries, shelf, purpose, inARow>>
  BY <1>3 DEF PromptRuns, retryVars
<1>5. PICK u : u = New("user")
  OBVIOUS
<1>6. u \in Message /\ u.kind = "user" /\ u.s = sid
  BY <1>5, NewOne DEF Inv, Kinds
<1>7. /\ Polled \in Seq(Message) /\ AllOf(Polled, "user") /\ SaidIn(Polled, sid)
      /\ AllOf(queued', "user") /\ SaidIn(queued', sid)
      /\ queued = <<>> => queued' = <<>>
  BY <1>4, PolledFacts
<1>8. PICK one : one = <<u>>
  OBVIOUS
<1>9. one \in Seq(Message) /\ ToSet(one) = {u} /\ one # <<>> /\ Len(one) = 1 /\ one[1] = u
  BY <1>6, <1>8, SetOfFew
<1>10. PICK ms : ms = one \o Polled
  OBVIOUS
<1>11. ms \in Seq(Message) /\ ms # <<>> /\ ToSet(ms) = {u} \cup ToSet(Polled)
  BY <1>7, <1>9, <1>10, SetOfJoin, JoinFacts
<1>12. AllOf(ms, "user") /\ SaidIn(ms, sid)
  BY <1>6, <1>7, <1>11 DEF AllOf, SaidIn
<1>13. Begins(p, ms)
  BY <1>4, <1>5, <1>8, <1>10
<1>14. /\ run' = "running" /\ owner' = p /\ aborting' = FALSE
       /\ transcript' = transcript \o ms
       /\ EventsOK(events') /\ ~EndPending(events')
       /\ \A e \in ToSet(events') : e.message.s = sid
       /\ ~subscribed => events' = <<>>
       /\ subscribed => \A m : Announced(m, events') <=> m \in ToSet(ms)
       /\ events' # <<>> => events'[1].type = "user"
       /\ subscribed /\ ms # <<>> => events' # <<>>
  BY <1>3, <1>11, <1>12, <1>13, BeginsEffect
<1>15. transcript \in Seq(Message) /\ pc \in Stages
  BY DEF Inv, TypeOK, Stages
<1>16. \A q \in Prompts : pc'[q] = IF q = p THEN "running" ELSE pc[q]
  BY <1>4, <1>15 DEF Stages
<1>17. \A q \in Prompts : pc'[q] \notin BeforeRun
  BY <1>3, <1>16 DEF Quiet, BeforeRun
<1>18. last.kind \notin ErrorKinds
  BY <1>3, NoEventLeft
<1>19. TurnInv'
  <2>1. \A q \in Prompts : pc'[q] \notin Quiet => q = p
    BY <1>3, <1>16
  <2> QED
    BY <1>3, <1>4, <1>14, <1>16, <1>17, <2>1 DEF TurnInv
<1>20. Continues(transcript')
  <2>1. ms[Len(ms)] \in ToSet(ms)
    BY <1>11, SetOfSeq
  <2>2. ms[Len(ms)].kind = "user"
    BY <1>12, <2>1 DEF AllOf
  <2>3. transcript' # <<>> /\ transcript'[Len(transcript')] = ms[Len(ms)]
    BY <1>11, <1>14, <1>15, JoinFacts
  <2> QED
    BY <2>2, <2>3 DEF Continues, IsReply, ReplyKinds, ErrorKinds
<1>21. EventInv'
  BY <1>4, <1>7, <1>14, <1>18, <1>20 DEF Inv, EventInv
<1>22. RetryInv'
  BY <1>3, <1>4, <1>14 DEF RetryInv
<1>23. CountInv'
  BY <1>3, <1>4, <1>11, <1>14 DEF Inv, CountInv, GivenUp
<1>24. ToSet(transcript') = ToSet(transcript) \cup ToSet(ms)
  BY <1>11, <1>14, <1>15, SetOfJoin
<1>25. SessionInv'
  <2>1. SaidIn(transcript', sid)
    BY <1>12, <1>24 DEF Inv, SessionInv, SaidIn
  <2>2. \A q \in Prompts : pc'[q] \notin Reasons
    BY <1>17 DEF BeforeRun, Reasons
  <2> QED
    BY <1>3, <1>4, <1>7, <1>14, <2>1, <2>2 DEF Inv, SessionInv
<1>26. FileInv'
  <2>1. ASSUME purpose = "none"
        PROVE  Follows(transcript', entries, events')
    <3>1. Follows(transcript, entries, <<>>) /\ subscribed
      BY <1>3, <2>1 DEF Inv, FileInv
    <3>2. \A x : ~Announced(x, <<>>)
      BY SetOfFew DEF Announced
    <3> QED
      BY <1>14, <1>24, <3>1, <3>2 DEF Follows
  <2> QED
    BY <1>3, <1>4, <2>1 DEF FileInv
<1> QED
  BY <1>19, <1>21, <1>22, <1>23, <1>25, <1>26 DEF Kept

LEMMA PromptWaitsKeeps ==
  ASSUME Inv, Conditions, NEW p \in Prompts, PromptWaits(p)
  PROVE  Kept
<1>1. /\ pc[p] \in {"ended", "waiting"}
      /\ \E stage \in {"waiting", "done"} : pc' = [pc EXCEPT ![p] = stage]
      /\ UNCHANGED <<transcript, queued, run, owner, aborting, subscribed, events, handler, last,
                     attempt, retrying, pendingBash, timers, prepared, sid, entries, shelf,
                     purpose, inARow>>
  BY DEF PromptWaits, agentVars, retryVars, fileVars
<1>2. pc \in Stages
  BY DEF Inv, TypeOK, Stages
<1>3. \A q \in Prompts : \/ pc'[q] = pc[q]
                         \/ q = p /\ pc'[q] \in {"waiting", "done"}
  BY <1>1, <1>2 DEF Stages
<1>4. /\ \A q \in Prompts : pc'[q] \notin Quiet => pc[q] \notin Quiet
      /\ \A q \in Prompts : pc'[q] \in BeforeRun <=> pc[q] \in BeforeRun
      /\ \A q \in Prompts : pc'[q] \in BeforeRun => pc'[q] = pc[q]
      /\ \A q \in Prompts : pc'[q] \in Reasons => pc[q] \in Reasons
  BY <1>1, <1>3 DEF Quiet, BeforeRun, Reasons
<1>5. TurnInv'
  <2>1. \A q, o \in Prompts : pc'[q] \notin Quiet /\ pc'[o] \notin Quiet => q = o
    BY <1>4 DEF Inv, TurnInv
  <2>2. owner \in Prompts => pc[owner] = "running" /\ owner # p
    BY <1>1 DEF Inv, TurnInv
  <2>3. owner \in Prompts => pc'[owner] = "running"
    BY <1>3, <2>2
  <2>4. \A q \in Prompts : pc'[q] \in BeforeRun =>
          /\ run = "idle" /\ events = <<>> /\ handler.at = "free" /\ ~retrying
          /\ pc'[q] \in Reasons => timers = 0
    BY <1>4 DEF Inv, TurnInv
  <2> QED
    BY <1>1, <1>4, <2>1, <2>3, <2>4 DEF Inv, TurnInv
<1>6. EventInv'
  BY <1>1 DEF Inv, EventInv
<1>7. RetryInv'
  BY <1>1 DEF Inv, RetryInv
<1>8. CountInv'
  BY <1>1, <1>4 DEF Inv, CountInv, GivenUp
<1>9. SessionInv'
  BY <1>1, <1>4 DEF Inv, SessionInv
<1>10. FileInv'
  BY <1>1 DEF Inv, FileInv
<1> QED
  BY <1>5, <1>6, <1>7, <1>8, <1>9, <1>10 DEF Kept

LEMMA AbortKeeps ==
  ASSUME Inv, Conditions, Abort
  PROVE  Kept
<1>1. /\ Ready /\ AbortAll
      /\ UNCHANGED <<queued, run, owner, subscribed, events, last, pendingBash, timers, pc,
                     sid, entries, shelf, purpose>>
  BY DEF Abort, fileVars
<1>2. /\ events = <<>> /\ purpose \notin {"compact", "compacting"}
      /\ \A p \in Prompts : pc[p] \notin Reasons
  BY <1>1, WhenReady
<1>3. /\ retrying' = FALSE /\ transcript' = transcript
      /\ handler'.at \in {"free", "compact"}
      /\ handler'.at = "compact" => handler.at = "backoff" /\ prepared'.sid = sid
      /\ \/ attempt' = 0 /\ inARow' = 0
         \/ attempt' = attempt /\ inARow' = inARow
      /\ handler.at = "free" => UNCHANGED <<handler, prepared>>
  BY <1>1, AbortAllEffect
<1>4. last.kind \notin ErrorKinds /\ ~EndPending(events)
  BY <1>2, NoEventLeft
<1>5. handler'.at = "compact" => run = "idle" /\ timers = 0 /\ \A p \in Prompts : pc[p] \notin BeforeRun
  BY <1>3 DEF Inv, TurnInv
<1>6. \A p \in Prompts : pc[p] \in BeforeRun => handler'.at = "free"
  BY <1>3 DEF Inv, TurnInv
<1>7. TurnInv'
  BY <1>1, <1>2, <1>3, <1>5, <1>6 DEF Inv, TurnInv
<1>8. EventInv'
  BY <1>1, <1>2, <1>3, <1>4 DEF Inv, EventInv
<1>9. RetryInv'
  BY <1>3 DEF RetryInv
<1>10. CountInv'
  <2>1. attempt \in 0 .. MaxRetries /\ inARow \in Nat
    BY DEF Inv, TypeOK
  <2>2. handler'.at = "compact" => ~GivenUp'
    BY <1>3, <2>1, BoundAssumption DEF Inv, CountInv, GivenUp
  <2> QED
    BY <1>1, <1>2, <1>3, <2>1, <2>2, BoundAssumption DEF Inv, CountInv, GivenUp
<1>11. SessionInv'
  BY <1>1, <1>2, <1>3 DEF Inv, SessionInv
<1>12. FileInv'
  BY <1>1, <1>3 DEF Inv, FileInv
<1> QED
  BY <1>7, <1>8, <1>9, <1>10, <1>11, <1>12 DEF Kept

LEMMA DisconnectKeeps ==
  ASSUME Inv, Conditions, NEW why \in {"new", "resume", "compact"}, Disconnect(why)
  PROVE  Kept
<1>1. /\ Ready /\ AbortAll /\ purpose = "none" /\ purpose' = why /\ subscribed' = FALSE
      /\ why = "resume" => queued = <<>>
      /\ why = "compact" => ~retrying /\ timers = 0 /\ \A p \in Prompts : pc[p] # "ready"
      /\ UNCHANGED <<queued, run, owner, events, last, pendingBash, timers, pc, sid, entries, shelf>>
  BY DEF Disconnect, Conditions, fileVars
<1>2. /\ events = <<>> /\ handler.at # "compact"
      /\ \A p \in Prompts : pc[p] \notin Reasons
  BY <1>1, WhenReady
<1>3. /\ retrying' = FALSE /\ transcript' = transcript /\ aborting' = (run = "running")
      /\ handler'.at \in {"free", "compact"}
      /\ handler'.at = "compact" => handler.at = "backoff" /\ prepared'.sid = sid
      /\ \/ attempt' = 0 /\ inARow' = 0
         \/ attempt' = attempt /\ inARow' = inARow
      /\ handler.at = "free" => UNCHANGED <<handler, prepared>>
  BY <1>1, AbortAllEffect
<1>4. last.kind \notin ErrorKinds /\ ~EndPending(events)
  BY <1>2, NoEventLeft
<1>5. handler'.at = "compact" => run = "idle" /\ timers = 0 /\ \A p \in Prompts : pc[p] \notin BeforeRun
  BY <1>3 DEF Inv, TurnInv
<1>6. \A p \in Prompts : pc[p] \in BeforeRun => handler'.at = "free"
  BY <1>3 DEF Inv, TurnInv
<1>7. why = "compact" => handler'.at = "free" /\ \A p \in Prompts : pc[p] \notin BeforeRun
  BY <1>1, <1>2, <1>3 DEF Inv, TurnInv, BeforeRun, Reasons
<1>8. TurnInv'
  BY <1>1, <1>2, <1>3, <1>5, <1>6, <1>7 DEF Inv, TurnInv
<1>9. EventInv'
  BY <1>1, <1>2, <1>3, <1>4 DEF Inv, EventInv
<1>10. RetryInv'
  BY <1>3 DEF RetryInv
<1>11. CountInv'
  <2>1. attempt \in 0 .. MaxRetries /\ inARow \in Nat
    BY DEF Inv, TypeOK
  <2>2. handler'.at = "compact" => ~GivenUp'
    BY <1>3, <2>1, BoundAssumption DEF Inv, CountInv, GivenUp
  <2> QED
    BY <1>1, <1>2, <1>3, <2>1, <2>2, BoundAssumption DEF Inv, CountInv, GivenUp
<1>12. SessionInv'
  BY <1>1, <1>2, <1>3 DEF Inv, SessionInv
<1>13. FileInv'
  BY <1>1, <1>3 DEF Inv, FileInv
<1> QED
  BY <1>8, <1>9, <1>10, <1>11, <1>12, <1>13 DEF Kept

\* A session is connected again once the run has ended.
LEMMA ReconnectFacts ==
  ASSUME Inv, NEW why \in {"new", "resume", "compact", "compacting"}, Reconnect(why)
  PROVE  /\ purpose = why /\ run = "idle" /\ events = <<>> /\ ~retrying
         /\ handler.at \in {"free", "compact"}
         /\ last.kind \notin ErrorKinds /\ ~EndPending(events)
         /\ purpose' = "none" /\ subscribed' = TRUE
         /\ UNCHANGED <<run, owner, aborting, events, handler, last, attempt, retrying,
                        pendingBash, timers, pc, prepared>>
<1>1. /\ purpose = why /\ run = "idle" /\ purpose' = "none" /\ subscribed' = TRUE
      /\ UNCHANGED <<run, owner, aborting, events, handler, last, attempt, retrying,
                     pendingBash, timers, pc, prepared>>
  BY DEF Reconnect, retryVars
<1>2. events = <<>> /\ ~retrying
  BY <1>1 DEF Inv, TurnInv
<1>3. last.kind \notin ErrorKinds /\ ~EndPending(events)
  BY <1>2, NoEventLeft
<1>4. handler.at \in {"free", "backoff", "compact"} /\ handler.at # "backoff"
  BY <1>2 DEF Inv, TypeOK, TurnInv
<1> QED
  BY <1>1, <1>2, <1>3, <1>4

\* Another session is put in place.
LEMMA SwitchedKeeps ==
  ASSUME Inv, Conditions, NEW why \in {"new", "resume"}, Ready, Reconnect(why),
         NEW ms \in Seq(Message), transcript' = ms, entries' = ms, inARow' = 0, shelf' = Left,
         SaidIn(ms, sid'), queued' = <<>>
  PROVE  Kept
<1>1. /\ purpose = why /\ run = "idle" /\ events = <<>> /\ ~retrying
      /\ last.kind \notin ErrorKinds /\ ~EndPending(events)
      /\ purpose' = "none" /\ subscribed' = TRUE
      /\ UNCHANGED <<run, owner, aborting, events, handler, last, attempt, retrying,
                     pendingBash, timers, pc, prepared>>
  BY ReconnectFacts
<1>2. handler.at = "free" /\ \A p \in Prompts : pc[p] \notin Reasons
  BY WhenReady, ReconnectFacts
<1>3. ToSet(<<>>) = {}
  BY SetOfFew
<1>4. TurnInv'
  BY <1>1, <1>2 DEF Inv, TurnInv
<1>5. EventInv'
  BY <1>1, <1>3 DEF Inv, EventInv, AllOf
<1>6. RetryInv'
  BY <1>1, <1>2 DEF RetryInv
<1>7. CountInv'
  <2>1. attempt \in 0 .. MaxRetries
    BY DEF Inv, TypeOK
  <2> QED
    BY <1>1, <1>2, <2>1, BoundAssumption DEF CountInv, GivenUp
<1>8. SessionInv'
  <2>1. SaidIn(shelf'.entries, shelf'.id)
    BY DEF Left, Inv, SessionInv
  <2>2. SaidIn(queued', sid') /\ \A e \in ToSet(events') : e.message.s = sid'
    BY <1>1, <1>3 DEF SaidIn
  <2> QED
    BY <1>1, <1>2, <2>1, <2>2 DEF SessionInv
<1>9. FileInv'
  <2>1. \A x : ~Announced(x, <<>>)
    BY <1>3 DEF Announced
  <2> QED
    BY <1>1, <2>1 DEF FileInv, Follows
<1> QED
  BY <1>4, <1>5, <1>6, <1>7, <1>8, <1>9 DEF Kept

LEMMA NewSessionKeeps ==
  ASSUME Inv, Conditions, NewSession
  PROVE  Kept
<1>1. /\ Ready /\ Reconnect("new") /\ transcript' = <<>> /\ entries' = <<>> /\ queued' = <<>>
      /\ inARow' = 0 /\ shelf' = Left
  BY DEF NewSession
<1>2. <<>> \in Seq(Message) /\ SaidIn(<<>>, sid')
  BY SetOfFew DEF SaidIn
<1> QED
  BY <1>1, <1>2, SwitchedKeeps

LEMMA SwitchSessionKeeps ==
  ASSUME Inv, Conditions, SwitchSession
  PROVE  Kept
<1>1. /\ Ready /\ Reconnect("resume") /\ transcript' = shelf.entries /\ entries' = shelf.entries
      /\ queued' = queued /\ sid' = shelf.id /\ inARow' = 0 /\ shelf' = Left
  BY DEF SwitchSession
<1>2. queued = <<>>
  BY <1>1, ReconnectFacts DEF Inv, SessionInv
<1>3. shelf.entries \in Seq(Message) /\ SaidIn(shelf.entries, shelf.id)
  BY DEF Inv, TypeOK, Session, SessionInv
<1> QED
  BY <1>1, <1>2, <1>3, SwitchedKeeps

LEMMA CompactStartsKeeps ==
  ASSUME Inv, Conditions, CompactStarts
  PROVE  Kept
<1>1. CASE /\ purpose = "compact" /\ run = "idle" /\ purpose' = "compacting"
           /\ prepared' = [n |-> clock, length |-> Len(entries), sid |-> sid]
           /\ UNCHANGED <<agentVars, subscribed, events, handler, retryVars, mirror, pendingBash,
                          timers, pc, fileVars, inARow, commands>>
  <2>1. /\ prepared'.sid = sid
        /\ UNCHANGED <<transcript, queued, run, owner, aborting, subscribed, events, handler, last,
                       attempt, retrying, pendingBash, timers, pc, sid, entries, shelf, inARow>>
    BY <1>1 DEF agentVars, retryVars, fileVars
  <2>2. TurnInv'
    BY <1>1, <2>1 DEF Inv, TurnInv
  <2>3. EventInv'
    BY <2>1 DEF Inv, EventInv
  <2>4. RetryInv'
    BY <2>1 DEF Inv, RetryInv
  <2>5. CountInv'
    BY <1>1, <2>1 DEF Inv, TurnInv, CountInv, GivenUp
  <2>6. SessionInv'
    BY <1>1, <2>1 DEF Inv, SessionInv
  <2>7. FileInv'
    BY <1>1, <2>1 DEF Inv, FileInv
  <2> QED
    BY <2>2, <2>3, <2>4, <2>5, <2>6, <2>7 DEF Kept
<1>2. CASE /\ Reconnect("compact")
           /\ UNCHANGED <<transcript, queued, mirror, sid, entries, compactedAt, shelf, inARow>>
  <2>1. /\ purpose = "compact" /\ run = "idle" /\ events = <<>> /\ ~retrying
        /\ last.kind \notin ErrorKinds /\ ~EndPending(events)
        /\ purpose' = "none" /\ subscribed' = TRUE
        /\ UNCHANGED <<run, owner, aborting, events, handler, last, attempt, retrying,
                       pendingBash, timers, pc, prepared>>
    BY <1>2, ReconnectFacts
  <2>2. handler.at = "free"
    BY <2>1 DEF Inv, TurnInv
  <2>3. TurnInv'
    BY <2>1, <2>2 DEF Inv, TurnInv
  <2>4. EventInv'
    BY <1>2, <2>1 DEF Inv, EventInv
  <2>5. RetryInv'
    BY <1>2, <2>1 DEF Inv, RetryInv
  <2>6. CountInv'
    BY <1>2, <2>1, <2>2 DEF Inv, CountInv, GivenUp
  <2>7. SessionInv'
    BY <1>2, <2>1 DEF Inv, SessionInv
  <2>8. FileInv'
    BY <1>2, <2>1 DEF Inv, FileInv
  <2> QED
    BY <2>3, <2>4, <2>5, <2>6, <2>7, <2>8 DEF Kept
<1> QED
  BY <1>1, <1>2 DEF CompactStarts

LEMMA CompactEndsKeeps ==
  ASSUME Inv, Conditions, CompactEnds
  PROVE  Kept
<1>1. /\ Reconnect("compacting")
      /\ \/ entries' = Compacted /\ transcript' = Compacted
         \/ UNCHANGED <<entries, transcript>>
      /\ UNCHANGED <<queued, sid, shelf, inARow>>
  BY DEF CompactEnds
<1>2. /\ purpose = "compacting" /\ run = "idle" /\ events = <<>> /\ ~retrying
      /\ last.kind \notin ErrorKinds /\ ~EndPending(events)
      /\ purpose' = "none" /\ subscribed' = TRUE
      /\ UNCHANGED <<run, owner, aborting, events, handler, last, attempt, retrying,
                     pendingBash, timers, pc, prepared>>
  BY <1>1, ReconnectFacts
<1>3. handler.at = "free" /\ timers = 0 /\ \A p \in Prompts : pc[p] \notin BeforeRun
  BY <1>2 DEF Inv, TurnInv
<1>4. prepared.sid = sid
  BY <1>2 DEF Inv, SessionInv
<1>5. SaidIn(transcript', sid) /\ SaidIn(entries', sid)
  BY <1>1, <1>4, CompactedFacts DEF Inv, SessionInv
<1>6. Follows(transcript', entries', events)
  <2>1. CASE entries' = Compacted /\ transcript' = Compacted
    <3>1. \A x : ~Announced(x, <<>>)
      BY SetOfFew DEF Announced
    <3> QED
      BY <1>2, <2>1, <3>1 DEF Follows
  <2>2. CASE UNCHANGED <<entries, transcript>>
    BY <1>2, <2>2 DEF Inv, FileInv
  <2> QED
    BY <1>1, <2>1, <2>2
<1>7. TurnInv'
  BY <1>2, <1>3 DEF Inv, TurnInv
<1>8. EventInv'
  BY <1>1, <1>2 DEF Inv, EventInv
<1>9. RetryInv'
  BY <1>2, <1>3 DEF RetryInv
<1>10. CountInv'
  BY <1>1, <1>2, <1>3 DEF Inv, CountInv, GivenUp
<1>11. SessionInv'
  BY <1>1, <1>2, <1>4, <1>5 DEF Inv, SessionInv
<1>12. FileInv'
  BY <1>2, <1>6 DEF FileInv
<1> QED
  BY <1>7, <1>8, <1>9, <1>10, <1>11, <1>12 DEF Kept

LEMMA ForkKeeps ==
  ASSUME Inv, Conditions, NEW k \in DOMAIN entries, Fork(k)
  PROVE  Kept
<1> DEFINE copies == [i \in 1 .. k - 1 |-> [entries[i] EXCEPT !.s = commands + 2]]
<1>1. /\ Ready /\ purpose = "none" /\ run = "idle" /\ ~retrying /\ queued = <<>>
      /\ transcript' = copies /\ sid' = commands + 2 /\ entries' = copies /\ shelf' = Left
      /\ inARow' = 0
      /\ UNCHANGED <<queued, run, owner, aborting, subscribed, events, handler, last, attempt,
                     retrying, pendingBash, timers, pc, prepared, purpose>>
  BY DEF Fork, Conditions, retryVars
<1>2. \A m \in ToSet(copies) : m.s = commands + 2
  <2>1. /\ entries \in Seq(Message) /\ DOMAIN entries = 1 .. Len(entries) /\ Len(entries) \in Nat
        /\ \A i \in 1 .. Len(entries) : entries[i] \in Message
    BY LenProperties, ElementOfSeq DEF Inv, TypeOK
  <2>2. \A i \in 1 .. k - 1 : [entries[i] EXCEPT !.s = commands + 2].s = commands + 2
    BY <2>1 DEF Message
  <2>3. \A i \in DOMAIN copies : copies[i].s = commands + 2
    BY <2>2
  <2> HIDE DEF copies
  <2> QED
    BY <2>3 DEF ToSet
<1> HIDE DEF copies
<1>3. /\ events = <<>> /\ handler.at # "compact"
      /\ \A p \in Prompts : pc[p] \notin Reasons
  BY <1>1, WhenReady
<1>4. last.kind \notin ErrorKinds /\ ~EndPending(events)
  BY <1>3, NoEventLeft
<1>5. handler.at = "free"
  BY <1>1, <1>3 DEF Inv, TypeOK, TurnInv
<1>6. TurnInv'
  BY <1>1, <1>3 DEF Inv, TurnInv
<1>7. EventInv'
  BY <1>1, <1>4 DEF Inv, EventInv
<1>8. RetryInv'
  BY <1>1, <1>5 DEF RetryInv
<1>9. CountInv'
  <2>1. attempt \in 0 .. MaxRetries
    BY DEF Inv, TypeOK
  <2> QED
    BY <1>1, <1>5, <2>1, BoundAssumption DEF CountInv, GivenUp
<1>10. ToSet(<<>>) = {}
  BY SetOfFew
<1>11. SessionInv'
  <2>1. SaidIn(shelf'.entries, shelf'.id)
    BY <1>1 DEF Left, Inv, SessionInv
  <2>2. SaidIn(transcript', sid') /\ SaidIn(entries', sid') /\ SaidIn(queued', sid')
    BY <1>1, <1>2, <1>10 DEF SaidIn
  <2> QED
    BY <1>1, <1>3, <1>5, <1>10, <2>1, <2>2 DEF SessionInv
<1>12. FileInv'
  <2>1. \A x : ~Announced(x, <<>>)
    BY <1>10 DEF Announced
  <2> QED
    BY <1>1, <1>3, <2>1 DEF FileInv, Follows
<1> QED
  BY <1>6, <1>7, <1>8, <1>9, <1>11, <1>12 DEF Kept

LEMMA ClearQueueKeeps ==
  ASSUME Inv, Conditions, ClearQueue
  PROVE  Kept
<1>1. /\ queued' = <<>>
      /\ UNCHANGED <<transcript, run, owner, aborting, subscribed, events, handler, last, attempt,
                     retrying, pendingBash, timers, pc, prepared, sid, entries, shelf, purpose, inARow>>
  BY DEF ClearQueue, retryVars, fileVars
<1>2. ToSet(<<>>) = {}
  BY SetOfFew
<1>3. TurnInv'
  BY <1>1 DEF Inv, TurnInv
<1>4. EventInv'
  BY <1>1, <1>2 DEF Inv, EventInv, AllOf
<1>5. RetryInv'
  BY <1>1 DEF Inv, RetryInv
<1>6. CountInv'
  BY <1>1 DEF Inv, CountInv, GivenUp
<1>7. SessionInv'
  BY <1>1, <1>2 DEF Inv, SessionInv, SaidIn
<1>8. FileInv'
  BY <1>1 DEF Inv, FileInv
<1> QED
  BY <1>3, <1>4, <1>5, <1>6, <1>7, <1>8 DEF Kept

LEMMA RecordBashKeeps ==
  ASSUME Inv, Conditions, RecordBash
  PROVE  Kept
<1> DEFINE m == New("bash")
<1>1. /\ Ready
      /\ UNCHANGED <<queued, run, owner, aborting, subscribed, events, handler, last, attempt,
                     retrying, timers, pc, prepared, sid, shelf, purpose>>
  BY DEF RecordBash, retryVars
<1>2. \/ /\ run = "running" /\ pendingBash' = Append(pendingBash, m)
         /\ UNCHANGED <<transcript, entries, inARow>>
      \/ /\ run # "running" /\ transcript' = Append(transcript, m)
         /\ entries' = Append(entries, m) /\ inARow' = 0 /\ UNCHANGED pendingBash
  BY DEF RecordBash
<1>3. m \in Message /\ m.kind = "bash"
  BY NewOne DEF Inv, Kinds
<1> HIDE DEF m
<1>4. /\ transcript \in Seq(Message) /\ entries \in Seq(Message) /\ pendingBash \in Seq(Message)
      /\ attempt \in 0 .. MaxRetries /\ inARow \in Nat
  BY DEF Inv, TypeOK
<1>5. /\ events = <<>> /\ handler.at # "compact" /\ purpose \notin {"compact", "compacting"}
      /\ \A p \in Prompts : pc[p] \notin Reasons
  BY <1>1, WhenReady
<1>6. last.kind \notin ErrorKinds /\ ~EndPending(events) /\ \A x : ~EndsTheRetry(events, x)
  BY <1>5, NoEventLeft
<1>7. TurnInv'
  BY <1>1 DEF Inv, TurnInv
<1>8. CASE run = "running"
  <2>1. /\ pendingBash' = Append(pendingBash, m) /\ UNCHANGED <<transcript, entries, inARow>>
    BY <1>2, <1>8
  <2>2. AllOf(pendingBash', "bash")
    <3>1. ToSet(pendingBash') = ToSet(pendingBash) \cup {m}
      BY <1>3, <1>4, <2>1, SetOfMore
    <3> QED
      BY <1>3, <3>1 DEF Inv, EventInv, AllOf
  <2>3. EventInv'
    BY <1>1, <2>1, <2>2 DEF Inv, EventInv
  <2>4. RetryInv'
    BY <1>1, <2>1 DEF Inv, RetryInv
  <2>5. CountInv'
    BY <1>1, <2>1 DEF Inv, CountInv, GivenUp
  <2>6. SessionInv'
    BY <1>1, <2>1 DEF Inv, SessionInv
  <2>7. FileInv'
    BY <1>1, <2>1 DEF Inv, FileInv
  <2> QED
    BY <1>7, <2>3, <2>4, <2>5, <2>6, <2>7 DEF Kept
<1>9. CASE run # "running"
  <2>1. /\ transcript' = Append(transcript, m) /\ entries' = Append(entries, m) /\ inARow' = 0
        /\ UNCHANGED pendingBash
    BY <1>2, <1>9
  <2>2. /\ ToSet(transcript') = ToSet(transcript) \cup {m}
        /\ ToSet(entries') = ToSet(entries) \cup {m}
    BY <1>3, <1>4, <2>1, SetOfMore
  <2>3. Continues(transcript')
    <3>1. transcript' # <<>> /\ transcript'[Len(transcript')] = m
      BY <1>3, <1>4, <2>1, AddFacts
    <3> QED
      BY <1>3, <3>1 DEF Continues, IsReply, ReplyKinds, ErrorKinds
  <2>4. EventInv'
    BY <1>1, <1>6, <1>9, <2>1 DEF Inv, EventInv
  <2>5. RetryInv'
    BY <1>1, <1>6, <2>3 DEF Inv, RetryInv
  <2>6. CountInv'
    BY <1>1, <1>4, <1>5, <2>1, BoundAssumption DEF Inv, CountInv, GivenUp
  <2>7. SessionInv'
    <3>1. SaidIn(transcript', sid) /\ SaidIn(entries', sid)
      BY <1>3, <2>2 DEF Inv, SessionInv, SaidIn
    <3> QED
      BY <1>1, <3>1 DEF Inv, SessionInv
  <2>8. FileInv'
    BY <1>1, <1>5, <2>2 DEF Inv, FileInv, Follows
  <2> QED
    BY <1>7, <2>4, <2>5, <2>6, <2>7, <2>8 DEF Kept
<1> QED
  BY <1>8, <1>9

LEMMA StutterKeeps ==
  ASSUME Inv, UNCHANGED vars
  PROVE  Kept
<1>1. UNCHANGED <<transcript, queued, run, owner, aborting, subscribed, events, handler, last,
                  attempt, retrying, pendingBash, timers, pc, prepared, sid, entries, shelf,
                  purpose, inARow>>
  BY DEF vars, agentVars, retryVars, fileVars
<1>2. TurnInv' /\ EventInv'
  BY <1>1 DEF Inv, TurnInv, EventInv
<1>3. RetryInv' /\ CountInv'
  BY <1>1 DEF Inv, RetryInv, CountInv, GivenUp
<1>4. SessionInv' /\ FileInv'
  BY <1>1 DEF Inv, SessionInv, FileInv
<1> QED
  BY <1>2, <1>3, <1>4 DEF Kept

LEMMA InvInit ==
  ASSUME Init
  PROVE  Inv
<1>1. TypeOK
  BY InitType
<1>2. ToSet(<<>>) = {} /\ ~EndPending(<<>>)
  BY SetOfFew DEF EndPending
<1>3. TurnInv
  BY PromptAssumption DEF Init, TurnInv, Quiet, BeforeRun, Free
<1>4. EventInv
  BY <1>2 DEF Init, EventInv, EventsOK, AllOf, NoMessage, ErrorKinds
<1>5. RetryInv
  BY DEF Init, RetryInv, Free
<1>6. CountInv
  BY BoundAssumption DEF Init, CountInv, GivenUp, Free
<1>7. SessionInv
  <2>1. SaidIn(shelf.entries, shelf.id)
    <3>1. ToSet(Earlier.entries) = {[kind |-> "user", n |-> 1, s |-> 1], [kind |-> "ok", n |-> 2, s |-> 1]}
      BY SetOfFew DEF Earlier
    <3> QED
      BY <3>1 DEF Init, SaidIn, Earlier
  <2>2. \A p \in Prompts : pc[p] \notin Reasons
    BY DEF Init, Reasons
  <2> QED
    BY <1>2, <2>1, <2>2 DEF Init, SessionInv, SaidIn, Free
<1>8. FileInv
  BY <1>2 DEF Init, FileInv, Follows, Announced
<1> QED
  BY <1>1, <1>3, <1>4, <1>5, <1>6, <1>7, <1>8 DEF Inv

LEMMA InvStep ==
  ASSUME Inv, Conditions, TypeOK', [Next]_vars
  PROVE  Inv'
<1>1. ASSUME NEW p \in Prompts, Prompting(p)
      PROVE  Kept
  BY <1>1, PromptSteersKeeps, PromptBeginsKeeps, PromptCompactsKeeps, PromptRunsKeeps,
     PromptWaitsKeeps DEF Prompting
<1>2. ASSUME NEW why \in {"new", "resume", "compact"}, Disconnect(why)
      PROVE  Kept
  BY <1>2, DisconnectKeeps
<1>3. ASSUME NEW k \in DOMAIN entries, Fork(k)
      PROVE  Kept
  BY <1>3, ForkKeeps
<1>4. ASSUME Switching
      PROVE  Kept
  BY <1>4, NewSessionKeeps, SwitchSessionKeeps, CompactStartsKeeps, CompactEndsKeeps DEF Switching
<1>5. Kept
  BY <1>1, <1>2, <1>3, <1>4, RepliesKeep, ProcessAgentEventKeeps, HandlerCompactsKeeps,
     BackoffEndsKeeps, TimerFiresKeeps, AbortKeeps, ClearQueueKeeps, RecordBashKeeps,
     StutterKeeps DEF Next
<1> QED
  BY <1>5 DEF Kept, Inv

LEMMA InvAlways ==
  ASSUME Conditions
  PROVE  Spec => []Inv
<1>1. Init => Inv
  BY InvInit
<1>2. Inv /\ TypeOK' /\ [Next]_vars => Inv'
  BY InvStep
<1> QED
  BY <1>1, <1>2, TypeCorrect, PTL DEF Spec

\* However faults, overflows, compactions, queued messages and cancelled retries alternate,
\* without new input or a good reply the session retries at most maxRetries times in a row:
\* _handleRetryableError counts an attempt that an earlier end of a run has not given up.
THEOREM RetriesStayBounded ==
  ASSUME Conditions
  PROVE  Spec => []RetriesBounded
<1>1. Inv => RetriesBounded
  BY DEF Inv, CountInv, RetriesBounded
<1> QED
  BY <1>1, InvAlways, PTL

\* While the promise of a retry is pending, waitForRetry is not waiting in vain: a run, an
\* event, a handler or a timer is under way that can settle it.
THEOREM RetryStaysUnderWay ==
  ASSUME Conditions
  PROVE  Spec => []RetryUnderWay
<1>1. Inv => RetryUnderWay
  <2> SUFFICES ASSUME Inv, retrying
               PROVE  run = "running" \/ events # <<>> \/ handler # Free \/ timers > 0
    BY DEF RetryUnderWay
  <2>1. handler.at = "backoff" => handler # Free
    BY DEF Free
  <2>2. EndsTheRetry(events, last) => events # <<>>
    BY DEF EndsTheRetry, EndPending
  <2> QED
    BY <2>1, <2>2 DEF Inv, RetryInv
<1> QED
  BY <1>1, InvAlways, PTL

\* Whenever the session is at rest, the context of the next request and the session file
\* hold the same messages but for the failed replies: what a retry or a compaction takes
\* out of the one it takes out of the other, and nothing said is lost between them.
THEOREM ContextStaysWithFile ==
  ASSUME Conditions
  PROVE  Spec => []ContextFollowsFile
<1>1. Inv => ContextFollowsFile
  <2> SUFFICES ASSUME Inv, AtRest
               PROVE  Good(transcript) = Good(entries)
    BY DEF ContextFollowsFile
  <2>1. Follows(transcript, entries, <<>>)
    BY DEF AtRest, Inv, FileInv
  <2>2. \A m : ~Announced(m, <<>>)
    BY SetOfFew DEF Announced
  <2>3. ToSet(transcript) \subseteq Message /\ ToSet(entries) \subseteq Message
    BY SetOfSeq DEF Inv, TypeOK
  <2>4. \A m \in Message : m.kind \in GoodKinds <=> m.kind \notin ErrorKinds \cup {"aborted"}
    BY DEF Message, GoodKinds
  <2> QED
    BY <2>1, <2>2, <2>3, <2>4 DEF Good, Follows
<1> QED
  BY <1>1, InvAlways, PTL

\* Nothing said or summarised in a session enters another one, whatever was under way when
\* a session was begun, resumed or forked.
THEOREM NothingSaidEverCrosses ==
  ASSUME Conditions
  PROVE  Spec => []NothingSaidCrosses
<1>1. Inv => NothingSaidCrosses
  BY DEF Inv, SessionInv, SaidIn, NothingSaidCrosses
<1> QED
  BY <1>1, InvAlways, PTL

==============================================================================
