----------------------------- MODULE AgentProofs ------------------------------
(***************************************************************************)
(* Theorems about Agent, for every number of messages, calls and runs.     *)
(***************************************************************************)
EXTENDS Agent, SequenceTheorems, TLAPS

(***************************************************************************)
(* Sequences.                                                              *)
(***************************************************************************)
LEMMA DrainType ==
  ASSUME NEW q \in Seq(Ids), NEW mode
  PROVE  Drained(q, mode) \in Seq(Ids) /\ Left(q, mode) \in Seq(Ids)
BY DEF Drained, Left

LEMMA DrainNonEmpty ==
  ASSUME NEW q \in Seq(Ids), q # <<>>, NEW mode
  PROVE  Drained(q, mode) # <<>>
BY DEF Drained

LEMMA MessageType ==
  /\ \A m \in Ids : User(m) \in Message
  /\ \A r, n \in Nat : \A stop \in {"done", "error", "aborted"} : Reply(r, n, stop) \in Message
  /\ \A c \in Calls : Result(c) \in Message
BY BoundAssumption DEF Ids, Calls, Message, User, Reply, Result

LEMMA UsersType ==
  ASSUME NEW q \in Seq(Ids)
  PROVE  Users(q) \in Seq(Message) /\ Len(Users(q)) = Len(q)
BY MessageType DEF Users

\* What stands before a sequence may take over its first element.
LEMMA HeadShift ==
  ASSUME NEW S, NEW s \in Seq(S), NEW u \in Seq(S), u # <<>>
  PROVE  s \o u = Append(s, Head(u)) \o Tail(u)
<1> DEFINE l == s \o u
           a == Append(s, Head(u))
           r == a \o Tail(u)
<1>1. Len(u) > 0 /\ Head(u) = u[1] /\ Head(u) \in S /\ Tail(u) \in Seq(S) /\ Len(Tail(u)) = Len(u) - 1
  OBVIOUS
<1>2. l \in Seq(S) /\ Len(l) = Len(s) + Len(u)
  OBVIOUS
<1>3. a \in Seq(S) /\ Len(a) = Len(s) + 1 /\ a[Len(s) + 1] = u[1]
  BY <1>1
<1>4. r \in Seq(S) /\ Len(r) = Len(a) + Len(Tail(u))
  BY <1>1, <1>3
<1>5. ASSUME NEW i \in 1 .. Len(l) PROVE l[i] = r[i]
  <2>1. CASE i <= Len(s)
    <3>1. l[i] = s[i]
      BY <2>1
    <3>2. a[i] = s[i]
      BY <2>1, <1>1
    <3> QED
      BY <2>1, <3>1, <3>2, <1>1, <1>3
  <2>2. CASE i = Len(s) + 1
    <3>1. l[i] = u[1]
      BY <2>2, <1>1, <1>2
    <3>2. r[i] = a[i]
      BY <2>2, <1>1, <1>3
    <3> QED
      BY <2>2, <3>1, <3>2, <1>3
  <2>3. CASE i > Len(s) + 1
    <3>1. l[i] = u[i - Len(s)]
      BY <2>3, <1>2
    <3>2. r[i] = Tail(u)[i - Len(a)]
      BY <2>3, <1>1, <1>2, <1>3
    <3>3. i - Len(a) \in 1 .. Len(Tail(u))
      BY <2>3, <1>1, <1>2, <1>3
    <3>4. Tail(u)[i - Len(a)] = u[i - Len(a) + 1]
      BY <3>3, <1>1
    <3> QED
      BY <3>1, <3>2, <3>4, <1>3
  <2> QED
    BY <2>1, <2>2, <2>3, <1>2
<1> HIDE DEF l, r
<1>6. Len(l) = Len(r)
  BY <1>1, <1>2, <1>3, <1>4
<1>7. l = r
  BY <1>2, <1>4, <1>5, <1>6
<1> QED
  BY <1>7 DEF l, r

\* Emitting the first prompt moves it from the prompts that are left to the transcript.
LEMMA UsersShift ==
  ASSUME NEW ms \in Seq(Message), NEW q \in Seq(Ids), q # <<>>
  PROVE  ms \o Users(q) = Append(ms, User(Head(q))) \o Users(Tail(q))
<1>1. Tail(q) \in Seq(Ids) /\ Len(Tail(q)) = Len(q) - 1 /\ Len(q) > 0 /\ Head(q) = q[1]
  OBVIOUS
<1>2. /\ Users(q) \in Seq(Message) /\ Len(Users(q)) = Len(q)
      /\ Users(Tail(q)) \in Seq(Message) /\ Len(Users(Tail(q))) = Len(q) - 1
  BY <1>1, UsersType
<1>3. Users(q) # <<>> /\ Head(Users(q)) = User(Head(q))
  <2>1. Users(q)[1] = User(q[1])
    BY <1>1 DEF Users
  <2> QED
    BY <2>1, <1>1, <1>2
<1>4. Tail(Users(q)) = Users(Tail(q))
  <2>1. Tail(Users(q)) \in Seq(Message) /\ Len(Tail(Users(q))) = Len(q) - 1
    BY <1>2, <1>3
  <2>2. ASSUME NEW i \in 1 .. Len(q) - 1 PROVE Tail(Users(q))[i] = Users(Tail(q))[i]
    <3>1. Tail(Users(q))[i] = Users(q)[i + 1]
      BY <2>1, <1>2, <1>3
    <3>2. i + 1 \in 1 .. Len(q) /\ i \in 1 .. Len(Tail(q))
      BY <1>1
    <3>3. Users(q)[i + 1] = User(q[i + 1]) /\ Users(Tail(q))[i] = User(Tail(q)[i])
      BY <3>2, <1>1 DEF Users
    <3>4. Tail(q)[i] = q[i + 1]
      BY <3>2, <1>1
    <3> QED
      BY <3>1, <3>3, <3>4
  <2> QED
    BY <2>1, <2>2, <1>2
<1>5. ms \o Users(q) = Append(ms, Head(Users(q))) \o Tail(Users(q))
  BY <1>2, <1>3, HeadShift
<1> QED
  BY <1>3, <1>4, <1>5

(***************************************************************************)
(* The type invariant.  A run in "prompts" has a prompt left to emit: this *)
(* is what gives the head of `pending` its type.                           *)
(***************************************************************************)
PromptsLeft == pc = "prompts" => pending # <<>>

TypeInv == TypeOK /\ PromptsLeft

LEMMA EmptyType ==
  /\ <<>> \in Seq(Message) /\ <<>> \in Seq(Ids) /\ <<>> \in Seq(Calls)
  /\ <<>> \in Seq([id: Ids, at: Nat]) /\ <<>> \in Seq({"prompt", "steer", "followUp"})
OBVIOUS

LEMMA InitType == Init => TypeInv
<1> SUFFICES ASSUME Init PROVE TypeInv
  OBVIOUS
<1>1. Len(via) <= MaxMessages
  BY BoundAssumption DEF Init
<1>2. /\ messages \in Seq(Message) /\ context \in Seq(Message) /\ results \in Seq(Message)
      /\ steering \in Seq(Ids) /\ followUp \in Seq(Ids) /\ pending \in Seq(Ids)
      /\ todo \in Seq(Calls) /\ prepared \in Seq(Calls) /\ running \in Seq(Calls)
      /\ delivered \in Seq([id: Ids, at: Nat]) /\ via \in Seq({"prompt", "steer", "followUp"})
  BY EmptyType DEF Init
<1>3. pc \in PC /\ pc # "prompts"
  BY DEF Init, PC
<1> QED
  BY <1>1, <1>2, <1>3 DEF Init, TypeInv, TypeOK, PromptsLeft

\* What handing a message over does to `via`.
LEMMA AcceptType ==
  ASSUME TypeInv, NEW kind \in {"prompt", "steer", "followUp"}, Accept(kind)
  PROVE  /\ New \in Ids
         /\ via' \in Seq({"prompt", "steer", "followUp"})
         /\ Len(via') <= MaxMessages
BY BoundAssumption DEF TypeInv, TypeOK, Accept, New, Ids

LEMMA StartType ==
  ASSUME TypeInv, NEW ms \in Seq(Ids), ms # <<>>, NEW skipPoll \in BOOLEAN, StartRun(ms, skipPoll),
         steering' \in Seq(Ids), followUp' \in Seq(Ids),
         via' \in Seq({"prompt", "steer", "followUp"}), Len(via') <= MaxMessages
  PROVE  TypeInv'
<1>1. messages \o Users(ms) \in Seq(Message)
  BY UsersType DEF TypeInv, TypeOK
<1> QED
  BY <1>1 DEF TypeInv, TypeOK, PromptsLeft, StartRun, PC, batch, bounds

LEMMA IncidentType ==
  ASSUME TypeInv, Incident
  PROVE  incidents' \in Nat
BY BoundAssumption DEF TypeInv, TypeOK, Incident

LEMMA DeliveredType ==
  ASSUME TypeInv, NEW m \in Ids, Delivered(m)
  PROVE  delivered' \in Seq([id: Ids, at: Nat])
BY DEF TypeInv, TypeOK, Delivered

LEMMA ReplyType ==
  ASSUME TypeInv, NEW n \in 0 .. MaxCalls, NEW stop \in {"done", "error", "aborted"},
         ReplyEnds(n, stop)
  PROVE  TypeInv'
<1> USE DEF TypeInv, TypeOK
<1>1. n \in Nat /\ replies + 1 \in Nat
  BY BoundAssumption
<1>2. Reply(replies + 1, n, stop) \in Message
  BY <1>1, MessageType
<1>3. messages' \in Seq(Message) /\ context' \in Seq(Message)
  BY <1>2 DEF ReplyEnds
<1>4. [k \in 1 .. n |-> <<replies + 1, k>>] \in Seq(Calls)
  BY <1>1 DEF Calls
<1>5. todo' \in Seq(Calls)
  BY <1>4 DEF ReplyEnds
<1>6. pc' \in {"agentEnd", "tools", "turnEnd"}
  BY DEF ReplyEnds
<1>7. incidents' \in Nat
  <2>1. CASE stop = "error"
    BY <2>1, IncidentType DEF ReplyEnds
  <2>2. CASE stop # "error"
    BY <2>2 DEF ReplyEnds
  <2> QED
    BY <2>1, <2>2
<1>8. toolTurns' \in Nat
  <2>1. toolTurns' = IF n > 0 THEN toolTurns + 1 ELSE toolTurns
    BY DEF ReplyEnds
  <2>2. toolTurns' = toolTurns \/ toolTurns' = toolTurns + 1
    BY <2>1
  <2>3. toolTurns \in Nat
    OBVIOUS
  <2> QED
    BY <2>2, <2>3
<1>9. /\ results' = <<>> /\ partial' = FALSE /\ replies' = replies + 1
      /\ UNCHANGED <<options, pendingToolCalls, steering, followUp, aborted, pending, skip, prepared,
                     running, executing, via, delivered, cleared, faults>>
  BY DEF ReplyEnds, queues, history
<1>10. results' \in Seq(Message) /\ partial' \in BOOLEAN /\ replies' \in Nat
  BY <1>1, <1>9, EmptyType
<1>11. pc' \in PC /\ PromptsLeft'
  BY <1>6 DEF PC, PromptsLeft
<1>12. TypeOK'
  BY <1>3, <1>5, <1>7, <1>8, <1>9, <1>10, <1>11
<1> QED
  BY <1>11, <1>12

LEMMA BatchType ==
  ASSUME TypeInv,
         \/ CallStarts \/ PrepareCall \/ RefuseCall \/ LaunchCalls \/ FinalizeCall \/ BatchDone
         \/ \E c \in executing : ToolReturns(c)
  PROVE  TypeInv'
<1> USE DEF TypeInv, TypeOK, PromptsLeft, PC
<1>1. ASSUME NEW q \in Seq(Calls), q # <<>>
      PROVE  Head(q) \in Calls /\ Tail(q) \in Seq(Calls) /\ Result(Head(q)) \in Message
  BY <1>1, MessageType
<1>2. CASE CallStarts
  BY <1>1, <1>2 DEF CallStarts, queues, loop, batch, history, bounds
<1>3. CASE PrepareCall
  BY <1>1, <1>3 DEF PrepareCall, Preparing, queues, history, bounds
<1>4. CASE RefuseCall
  BY <1>1, <1>4 DEF RefuseCall, Preparing, queues, history, bounds
<1>5. CASE LaunchCalls
  <2>1. ToSet(prepared) \subseteq Calls
    BY DEF ToSet
  <2> QED
    BY <1>5, <2>1 DEF LaunchCalls, queues, history, bounds
<1>6. CASE FinalizeCall
  <2>1. Head(running) \in Calls /\ Tail(running) \in Seq(Calls) /\ Result(Head(running)) \in Message
    BY <1>1, <1>6 DEF FinalizeCall
  <2>2. messages' \in Seq(Message) /\ results' \in Seq(Message)
    BY <1>6, <2>1 DEF FinalizeCall
  <2> QED
    BY <1>6, <2>1, <2>2 DEF FinalizeCall, queues, history, bounds
<1>7. CASE BatchDone
  BY <1>7 DEF BatchDone, queues, history, bounds
<1>8. ASSUME NEW c \in executing, ToolReturns(c) PROVE TypeInv'
  BY <1>8 DEF ToolReturns, queues, loop, batch, history, bounds
<1> QED
  BY <1>2, <1>3, <1>4, <1>5, <1>6, <1>7, <1>8

LEMMA QueuedType ==
  ASSUME TypeOK
  PROVE  Queued \subseteq Ids /\ cleared \subseteq Ids
BY DEF TypeOK, Queued, ToSet

LEMMA NextType == TypeInv /\ [Next]_vars => TypeInv'
<1> SUFFICES ASSUME TypeInv, [Next]_vars PROVE TypeInv'
  OBVIOUS
<1> USE DEF TypeInv
<1>0. ASSUME UNCHANGED vars PROVE TypeInv'
  BY <1>0 DEF TypeOK, PromptsLeft, vars, queues, loop, batch, history, bounds
<1>1. ASSUME NEW mode
      PROVE  /\ Drained(steering, mode) \in Seq(Ids) /\ Left(steering, mode) \in Seq(Ids)
             /\ Drained(followUp, mode) \in Seq(Ids) /\ Left(followUp, mode) \in Seq(Ids)
  BY DrainType DEF TypeOK
<1>2. CASE Steer
  BY <1>2, AcceptType DEF Steer, TypeOK, PromptsLeft, loop, batch, bounds
<1>3. CASE FollowUp
  BY <1>3, AcceptType DEF FollowUp, TypeOK, PromptsLeft, loop, batch, bounds
<1>4. CASE ClearQueues
  <2>1. cleared' \subseteq Ids
    BY <1>4, QueuedType DEF ClearQueues
  <2> QED
    BY <1>4, <2>1, EmptyType, IncidentType DEF ClearQueues, TypeOK, PromptsLeft, loop, batch
<1>5. CASE Prompt
  <2>1. <<New>> \in Seq(Ids) /\ <<New>> # <<>>
    BY <1>5, AcceptType DEF Prompt
  <2>2. via' \in Seq({"prompt", "steer", "followUp"}) /\ Len(via') <= MaxMessages
    BY <1>5, AcceptType DEF Prompt
  <2> QED
    BY <1>5, <2>1, <2>2, StartType DEF Prompt, TypeOK, queues
<1>6. CASE ContinueSteering
  <2>1. Drained(steering, options.steeringMode) # <<>>
    BY <1>6, DrainNonEmpty DEF ContinueSteering, TypeOK
  <2> QED
    BY <1>1, <1>6, <2>1, StartType DEF ContinueSteering, TypeOK
<1>7. CASE ContinueFollowUps
  <2>1. Drained(followUp, options.followUpMode) # <<>>
    BY <1>7, DrainNonEmpty DEF ContinueFollowUps, TypeOK
  <2> QED
    BY <1>1, <1>7, <2>1, StartType DEF ContinueFollowUps, TypeOK
<1>8. CASE ContinueTranscript
  BY <1>8 DEF ContinueTranscript, TypeOK, PromptsLeft, PC, queues, batch, history, bounds
<1>9. CASE PromptEmitted
  <2>1. /\ Head(pending) \in Ids /\ User(Head(pending)) \in Message
        /\ Tail(pending) \in Seq(Ids)
    BY <1>9, MessageType DEF PromptEmitted, PromptsLeft, TypeOK
  <2>2. delivered' \in Seq([id: Ids, at: Nat])
    BY <1>9, <2>1, DeliveredType DEF PromptEmitted
  <2>3. messages' \in Seq(Message)
    BY <1>9, <2>1 DEF PromptEmitted, TypeOK
  <2> QED
    BY <1>9, <2>1, <2>2, <2>3 DEF PromptEmitted, TypeOK, PromptsLeft, PC, queues, batch, bounds
<1>10. CASE InitialPoll
  <2>1. pending' \in Seq(Ids) /\ steering' \in Seq(Ids)
    BY <1>1, <1>10 DEF InitialPoll, TypeOK
  <2> QED
    BY <1>10, <2>1 DEF InitialPoll, TypeOK, PromptsLeft, PC, batch, history, bounds
<1>11. CASE Inject
  <2>1. /\ Head(pending) \in Ids /\ User(Head(pending)) \in Message
        /\ Tail(pending) \in Seq(Ids)
    BY <1>11, MessageType DEF Inject, TypeOK
  <2>2. delivered' \in Seq([id: Ids, at: Nat])
    BY <1>11, <2>1, DeliveredType DEF Inject
  <2>3. messages' \in Seq(Message) /\ context' \in Seq(Message)
    BY <1>11, <2>1 DEF Inject, TypeOK
  <2> QED
    BY <1>11, <2>1, <2>2, <2>3 DEF Inject, TypeOK, PromptsLeft, PC, queues, batch, bounds
<1>12. CASE RequestReply
  BY <1>12 DEF RequestReply, TypeOK, PromptsLeft, PC, queues, batch, history, bounds
<1>13. CASE ReplyStarts
  BY <1>13 DEF ReplyStarts, TypeOK, PromptsLeft, queues, loop, batch, history, bounds
<1>14. CASE PollSteering
  <2>1. pending' \in Seq(Ids) /\ steering' \in Seq(Ids) /\ pc' \in {"turn", "followUps"}
    BY <1>1, <1>14 DEF PollSteering
  <2> QED
    BY <1>14, <2>1 DEF PollSteering, TypeOK, PromptsLeft, PC, batch, history, bounds
<1>15. CASE PollFollowUps
  <2>1. pending' \in Seq(Ids) /\ followUp' \in Seq(Ids) /\ pc' \in {"turn", "agentEnd"}
    BY <1>1, <1>15 DEF PollFollowUps
  <2> QED
    BY <1>15, <2>1 DEF PollFollowUps, TypeOK, PromptsLeft, PC, batch, history, bounds
<1>16. CASE FinishRun
  BY <1>16, EmptyType DEF FinishRun, TypeOK, PromptsLeft, PC, queues, batch, history, bounds
<1>17. CASE LoopThrows
  <2>1. incidents' \in Nat /\ faults' \in Nat
    BY <1>17, IncidentType DEF LoopThrows, TypeOK
  <2>2. /\ pending' \in Seq(Ids) /\ context' \in Seq(Message) /\ results' \in Seq(Message)
        /\ todo' \in Seq(Calls) /\ prepared' \in Seq(Calls) /\ running' \in Seq(Calls)
    BY <1>17, EmptyType DEF LoopThrows
  <2>3. pc' = "failed" /\ skip' = FALSE
    BY <1>17 DEF LoopThrows
  <2> QED
    BY <1>17, <2>1, <2>2, <2>3 DEF LoopThrows, TypeOK, PromptsLeft, PC, queues, history
<1>18. CASE HandleRunFailure
  <2>1. replies + 1 \in Nat /\ 0 \in Nat
    BY DEF TypeOK
  <2>2. messages' \in Seq(Message)
    BY <1>18, <2>1, MessageType DEF HandleRunFailure, TypeOK
  <2> QED
    BY <1>18, <2>1, <2>2 DEF HandleRunFailure, TypeOK, PromptsLeft, PC, queues, batch, history, bounds
<1>19. CASE Abort
  BY <1>19, IncidentType DEF Abort, TypeOK, PromptsLeft, queues, loop, batch, history
<1>20. CASE Reset
  <2>1. cleared' \subseteq Ids
    BY <1>20, QueuedType DEF Reset
  <2> QED
    BY <1>20, <2>1, EmptyType, IncidentType DEF Reset, TypeOK, PromptsLeft, loop, batch
<1>21. CASE DropFailure
  <2>1. Front(messages) \in Seq(Message)
    BY <1>21 DEF DropFailure, LastIs, Front, TypeOK
  <2> QED
    BY <1>21, <2>1 DEF DropFailure, TypeOK, PromptsLeft, queues, loop, batch, history, bounds
<1> QED
  BY <1>0, <1>2, <1>3, <1>4, <1>5, <1>6, <1>7, <1>8, <1>9, <1>10, <1>11, <1>12, <1>13, <1>14,
     <1>15, <1>16, <1>17, <1>18, <1>19, <1>20, <1>21, ReplyType, BatchType DEF Next, LoopStep

\* The agent's state, the loop's locals and the transcript keep their types.
THEOREM TypeCorrect == Spec => []TypeOK
<1>1. TypeInv => TypeOK
  BY DEF TypeInv
<1> QED
  BY <1>1, InitType, NextType, PTL DEF Spec

(***************************************************************************)
(* The transcript.  While a run emits its prompts they are in the context  *)
(* already; while it executes a batch the results are in the transcript    *)
(* already.                                                                *)
(***************************************************************************)
Settled == {"poll", "turn", "stream", "turnEnd", "followUps", "agentEnd"}

TranscriptInv ==
  /\ pc = "prompts" => context = messages \o Users(pending)
  /\ pc \in Settled => messages = context
  /\ pc = "tools" => messages = context \o results

LEMMA ConcatEmpty ==
  ASSUME NEW S, NEW s \in Seq(S)
  PROVE  s \o <<>> = s
OBVIOUS

LEMMA ConcatAppend ==
  ASSUME NEW s \in Seq(Message), NEW t \in Seq(Message), NEW e \in Message
  PROVE  Append(s \o t, e) = s \o Append(t, e)
<1> DEFINE l == Append(s \o t, e)
           r == s \o Append(t, e)
<1>1. s \o t \in Seq(Message) /\ Len(s \o t) = Len(s) + Len(t)
  OBVIOUS
<1>2. Append(t, e) \in Seq(Message) /\ Len(Append(t, e)) = Len(t) + 1
  OBVIOUS
<1>3. l \in Seq(Message) /\ Len(l) = Len(s) + Len(t) + 1
  BY <1>1
<1>4. r \in Seq(Message) /\ Len(r) = Len(s) + Len(t) + 1
  BY <1>2
<1>5. ASSUME NEW i \in 1 .. Len(l) PROVE l[i] = r[i]
  <2>1. CASE i <= Len(s)
    BY <2>1, <1>1, <1>2
  <2>2. CASE i > Len(s) /\ i <= Len(s) + Len(t)
    BY <2>2, <1>1, <1>2
  <2>3. CASE i = Len(s) + Len(t) + 1
    BY <2>3, <1>1, <1>2
  <2> QED
    BY <2>1, <2>2, <2>3, <1>3
<1> HIDE DEF l, r
<1>6. l = r
  BY <1>3, <1>4, <1>5
<1> QED
  BY <1>6 DEF l, r

LEMMA InitTranscript == Init => TranscriptInv
BY DEF Init, TranscriptInv, Settled

LEMMA StartTranscript ==
  ASSUME NEW ms, NEW skipPoll, StartRun(ms, skipPoll)
  PROVE  TranscriptInv'
BY DEF StartRun, TranscriptInv, Settled

LEMMA NextTranscript == TypeInv /\ TranscriptInv /\ [Next]_vars => TranscriptInv'
<1> SUFFICES ASSUME TypeInv, TranscriptInv, [Next]_vars PROVE TranscriptInv'
  OBVIOUS
<1>0. TypeInv'
  BY NextType
<1> USE DEF TypeInv, TypeOK, TranscriptInv, Settled
<1>1. ASSUME UNCHANGED <<pc, messages, context, pending, results>> PROVE TranscriptInv'
  BY <1>1
<1>2. CASE UNCHANGED vars
  BY <1>1, <1>2 DEF vars, loop, batch
<1>3. CASE Steer \/ FollowUp \/ ClearQueues \/ ReplyStarts \/ Abort \/ CallStarts
           \/ \E c \in executing : ToolReturns(c)
  BY <1>1, <1>3 DEF Steer, FollowUp, ClearQueues, ReplyStarts, Abort, CallStarts, ToolReturns,
                    loop, batch
<1>4. CASE PrepareCall \/ LaunchCalls
  BY <1>1, <1>4 DEF PrepareCall, LaunchCalls
<1>5. CASE Prompt \/ ContinueSteering \/ ContinueFollowUps
  BY <1>5, StartTranscript DEF Prompt, ContinueSteering, ContinueFollowUps
<1>6. CASE ContinueTranscript
  BY <1>6 DEF ContinueTranscript
<1>7. CASE PromptEmitted
  <2>1. context = Append(messages, User(Head(pending))) \o Users(Tail(pending))
    BY <1>7, UsersShift DEF PromptEmitted, PromptsLeft
  <2>2. context' = messages' \o Users(pending')
    BY <1>7, <2>1 DEF PromptEmitted
  <2>3. CASE Tail(pending) = <<>>
    <3>1. Users(<<>>) = <<>>
      BY DEF Users
    <3>2. messages' \in Seq(Message)
      BY <1>0
    <3>3. messages' \o <<>> = messages'
      BY <3>2, ConcatEmpty
    <3> QED
      BY <1>7, <2>2, <2>3, <3>1, <3>3 DEF PromptEmitted
  <2>4. CASE Tail(pending) # <<>>
    BY <1>7, <2>2, <2>4 DEF PromptEmitted
  <2> QED
    BY <2>3, <2>4
<1>8. CASE InitialPoll \/ RequestReply
  BY <1>8 DEF InitialPoll, RequestReply
<1>9. CASE Inject
  BY <1>9 DEF Inject
<1>10. ASSUME NEW n \in 0 .. MaxCalls, NEW stop \in {"done", "error", "aborted"},
              ReplyEnds(n, stop)
       PROVE  TranscriptInv'
  <2>1. messages' = context' /\ results' = <<>>
    BY <1>10 DEF ReplyEnds
  <2>2. messages' = context' \o results'
    <3>1. context' \in Seq(Message)
      BY <1>0
    <3>2. context' \o <<>> = context'
      BY <3>1, ConcatEmpty
    <3> QED
      BY <2>1, <3>2
  <2>3. pc' # "prompts"
    BY <1>10 DEF ReplyEnds
  <2> QED
    BY <2>1, <2>2, <2>3
<1>11. ASSUME pc = "tools", pc' = "tools", UNCHANGED context, NEW c \in Calls,
              messages' = Append(messages, Result(c)), results' = Append(results, Result(c))
       PROVE  TranscriptInv'
  <2>1. Result(c) \in Message /\ context \in Seq(Message) /\ results \in Seq(Message)
    BY MessageType
  <2>2. \A e \in Message : Append(context \o results, e) = context \o Append(results, e)
    BY <2>1, ConcatAppend
  <2> QED
    BY <1>11, <2>1, <2>2
<1>12. CASE RefuseCall
  <2>1. Head(todo) \in Calls
    BY <1>12 DEF RefuseCall, Preparing
  <2> QED
    BY <1>11, <1>12, <2>1 DEF RefuseCall, Preparing
<1>13. CASE FinalizeCall
  <2>1. Head(running) \in Calls
    BY <1>13 DEF FinalizeCall
  <2> QED
    BY <1>11, <1>13, <2>1 DEF FinalizeCall
<1>14. CASE BatchDone
  BY <1>14 DEF BatchDone
<1>15. CASE PollSteering
  <2>1. pc' \in {"turn", "followUps"}
    BY <1>15 DEF PollSteering
  <2> QED
    BY <1>15, <2>1 DEF PollSteering
<1>16. CASE PollFollowUps
  <2>1. pc' \in {"turn", "agentEnd"}
    BY <1>16 DEF PollFollowUps
  <2> QED
    BY <1>16, <2>1 DEF PollFollowUps
<1>17. CASE FinishRun \/ LoopThrows \/ HandleRunFailure
  BY <1>17 DEF FinishRun, LoopThrows, HandleRunFailure
<1>18. CASE Reset \/ DropFailure
  BY <1>18 DEF Reset, DropFailure, loop
<1> QED
  BY <1>2, <1>3, <1>4, <1>5, <1>6, <1>7, <1>8, <1>9, <1>10, <1>12, <1>13, <1>14, <1>15, <1>16,
     <1>17, <1>18 DEF Next, LoopStep

\* Whenever a reply is requested or a turn ends, the transcript that the agent rebuilt
\* from the events is the context that the loop sends to the model.
THEOREM TranscriptsMatch == Spec => []TranscriptMatches
<1>1. TranscriptInv => TranscriptMatches
  BY DEF TranscriptInv, TranscriptMatches, Settled
<1> QED
  BY <1>1, InitType, NextType, InitTranscript, NextTranscript, PTL DEF Spec

(***************************************************************************)
(* Tool calls.  A batch is a queue of calls in three places, each call in  *)
(* one of them, and the calls shown as pending are those that have started *)
(* and have no result.                                                     *)
(***************************************************************************)
Distinct(q) == \A i, j \in DOMAIN q : q[i] = q[j] => i = j

BatchInv ==
  /\ pc # "tools" => todo = <<>> /\ prepared = <<>> /\ running = <<>>
  /\ Distinct(todo) /\ Distinct(prepared) /\ Distinct(running)
  /\ ToSet(todo) \cap (ToSet(prepared) \cup ToSet(running)) = {}
  /\ prepared # <<>> => running = <<>>
  /\ Preparing =>
       running = <<>> /\ (options.toolExecution = "sequential" => prepared = <<>>)

PendingInv ==
  /\ pc \notin {"tools", "failed", "failEnd"} => pendingToolCalls = {}
  /\ pc = "tools" =>
       /\ ToSet(prepared) \cup ToSet(running) \subseteq pendingToolCalls
       /\ \A c \in pendingToolCalls :
            c \in ToSet(prepared) \cup ToSet(running) \/ (todo # <<>> /\ c = Head(todo))

ExecutingInv ==
  /\ faults = 0 => executing \subseteq ToSet(running)
  /\ pc \in {"failed", "failEnd"} => faults > 0

PartialInv == pc \notin {"stream", "failed"} => ~ partial

CallsInv == BatchInv /\ PendingInv /\ ExecutingInv

LEMMA EmptySet == ToSet(<<>>) = {} /\ Distinct(<<>>)
BY DEF ToSet, Distinct

LEMMA TailSet ==
  ASSUME NEW S, NEW q \in Seq(S), q # <<>>, Distinct(q)
  PROVE  /\ Head(q) \in ToSet(q)
         /\ ToSet(Tail(q)) = ToSet(q) \ {Head(q)}
         /\ Distinct(Tail(q))
<1>1. /\ Len(q) > 0 /\ Head(q) = q[1] /\ Tail(q) \in Seq(S) /\ Len(Tail(q)) = Len(q) - 1
      /\ \A i \in 1 .. Len(q) - 1 : Tail(q)[i] = q[i + 1]
  OBVIOUS
<1>2. Head(q) \in ToSet(q)
  BY <1>1 DEF ToSet
<1>3. ASSUME NEW c \in ToSet(Tail(q)) PROVE c \in ToSet(q) \ {Head(q)}
  <2>1. PICK i \in 1 .. Len(q) - 1 : c = q[i + 1]
    BY <1>1, <1>3 DEF ToSet
  <2>2. i + 1 \in 1 .. Len(q) /\ i + 1 # 1 /\ 1 \in 1 .. Len(q)
    BY <1>1
  <2> QED
    BY <1>1, <2>1, <2>2 DEF ToSet, Distinct
<1>4. ASSUME NEW c \in ToSet(q), c # Head(q) PROVE c \in ToSet(Tail(q))
  <2>1. PICK i \in 1 .. Len(q) : c = q[i]
    BY DEF ToSet
  <2>2. i - 1 \in 1 .. Len(q) - 1
    BY <1>1, <1>4, <2>1
  <2>3. Tail(q)[i - 1] = q[i]
    BY <1>1, <2>2
  <2>4. DOMAIN Tail(q) = 1 .. Len(q) - 1
    BY <1>1
  <2>5. \E k \in DOMAIN Tail(q) : c = Tail(q)[k]
    BY <2>1, <2>2, <2>3, <2>4
  <2> QED
    BY <2>5 DEF ToSet
<1>5. ASSUME NEW i \in 1 .. Len(q) - 1, NEW j \in 1 .. Len(q) - 1, Tail(q)[i] = Tail(q)[j]
      PROVE  i = j
  <2>1. i + 1 \in 1 .. Len(q) /\ j + 1 \in 1 .. Len(q) /\ q[i + 1] = q[j + 1]
    BY <1>1, <1>5
  <2>2. i + 1 = j + 1
    BY <2>1 DEF Distinct
  <2> QED
    BY <2>2
<1>6. Distinct(Tail(q))
  BY <1>1, <1>5 DEF Distinct
<1> QED
  BY <1>2, <1>3, <1>4, <1>6

LEMMA AppendSet ==
  ASSUME NEW S, NEW q \in Seq(S), NEW c \in S, c \notin ToSet(q), Distinct(q)
  PROVE  ToSet(Append(q, c)) = ToSet(q) \cup {c} /\ Distinct(Append(q, c))
<1> DEFINE a == Append(q, c)
<1>1. /\ Len(a) = Len(q) + 1 /\ a \in Seq(S) /\ a[Len(q) + 1] = c
      /\ \A i \in 1 .. Len(q) : a[i] = q[i]
  OBVIOUS
<1> HIDE DEF a
<1>2. ToSet(q) = {q[i] : i \in 1 .. Len(q)} /\ ToSet(a) = {a[i] : i \in 1 .. Len(q) + 1}
  BY <1>1 DEF ToSet
<1>3. \A i \in 1 .. Len(q) + 1 : i \in 1 .. Len(q) \/ i = Len(q) + 1
  OBVIOUS
<1>4. ToSet(a) = ToSet(q) \cup {c}
  <2>1. Len(q) + 1 \in 1 .. Len(q) + 1 /\ \A i \in 1 .. Len(q) : i \in 1 .. Len(q) + 1
    OBVIOUS
  <2>2. ToSet(q) \subseteq ToSet(a)
    BY <1>1, <1>2, <2>1
  <2>3. c \in ToSet(a)
    BY <1>1, <1>2, <2>1
  <2>4. ASSUME NEW x \in ToSet(a) PROVE x \in ToSet(q) \cup {c}
    BY <1>1, <1>2, <1>3
  <2> QED
    BY <2>2, <2>3, <2>4
<1>5. ASSUME NEW i \in 1 .. Len(q) + 1, NEW j \in 1 .. Len(q) + 1, a[i] = a[j] PROVE i = j
  BY <1>1, <1>2, <1>3, <1>5 DEF Distinct
<1>6. Distinct(a)
  BY <1>1, <1>5 DEF Distinct
<1> QED
  BY <1>4, <1>6 DEF a

LEMMA InitCalls == Init => CallsInv
BY EmptySet DEF Init, CallsInv, BatchInv, PendingInv, ExecutingInv, Preparing

\* A step outside the batch, within a run or between runs.
LEMMA QuietCalls ==
  ASSUME CallsInv,
         UNCHANGED <<options, todo, prepared, running, pendingToolCalls, executing, faults>>,
         pc' = pc \/ {pc, pc'} \cap {"tools", "failed", "failEnd"} = {}
  PROVE  CallsInv'
<1>1. CASE pc' = pc
  BY <1>1 DEF CallsInv, BatchInv, PendingInv, ExecutingInv, Preparing
<1>2. CASE {pc, pc'} \cap {"tools", "failed", "failEnd"} = {}
  <2>1. /\ pc # "tools" /\ pc # "failed" /\ pc # "failEnd"
        /\ pc' # "tools" /\ pc' # "failed" /\ pc' # "failEnd"
    BY <1>2
  <2> QED
    BY <2>1 DEF CallsInv, BatchInv, PendingInv, ExecutingInv, Preparing
<1> QED
  BY <1>1, <1>2

\* The steps of a batch.
LEMMA BatchCalls ==
  ASSUME TypeInv, CallsInv,
         \/ CallStarts \/ PrepareCall \/ RefuseCall \/ LaunchCalls \/ FinalizeCall \/ BatchDone
         \/ \E c \in executing : ToolReturns(c)
  PROVE  CallsInv'
<1> USE DEF CallsInv, BatchInv, PendingInv, ExecutingInv
<1>1. /\ todo \in Seq(Calls) /\ prepared \in Seq(Calls) /\ running \in Seq(Calls)
      /\ options.toolExecution \in {"parallel", "sequential"}
  BY OptionsAssumption DEF TypeInv, TypeOK, AgentOptions
<1>2. ASSUME todo # <<>>
      PROVE  /\ Head(todo) \in Calls /\ Head(todo) \in ToSet(todo)
             /\ ToSet(Tail(todo)) = ToSet(todo) \ {Head(todo)}
             /\ Distinct(Tail(todo))
             /\ Tail(todo) # <<>> => Head(Tail(todo)) \in ToSet(Tail(todo))
  <2>1. Head(todo) \in Calls /\ Tail(todo) \in Seq(Calls)
    BY <1>1, <1>2
  <2>2. /\ Head(todo) \in ToSet(todo) /\ Distinct(Tail(todo))
        /\ ToSet(Tail(todo)) = ToSet(todo) \ {Head(todo)}
    BY <1>1, <1>2, TailSet
  <2> QED
    BY <2>1, <2>2, TailSet
<1>3. CASE CallStarts
  BY <1>3 DEF CallStarts, Preparing, loop, batch, bounds
<1>4. CASE PrepareCall
  <2>1. /\ ToSet(prepared') = ToSet(prepared) \cup {Head(todo)} /\ Distinct(prepared')
        /\ running = <<>> /\ todo # <<>> /\ pc = "tools" /\ Head(todo) \in pendingToolCalls
    BY <1>1, <1>2, <1>4, AppendSet DEF PrepareCall, Preparing
  <2>2. /\ todo' = Tail(todo) /\ running' = running
        /\ UNCHANGED <<options, pc, pendingToolCalls, executing, faults>>
    BY <1>4 DEF PrepareCall, bounds
  <2>3. ToSet(todo') \cap (ToSet(prepared') \cup ToSet(running')) = {}
    BY <1>2, <2>1, <2>2
  <2>4. \A c \in pendingToolCalls : c \in ToSet(prepared') \cup ToSet(running')
    BY <2>1, <2>2
  <2>5. ~ Preparing'
    BY <1>2, <2>1, <2>2, <2>3, <2>4 DEF Preparing
  <2> QED
    BY <1>2, <2>1, <2>2, <2>3, <2>4, <2>5
<1>5. CASE RefuseCall
  <2>1. todo # <<>> /\ pc = "tools" /\ Head(todo) \in pendingToolCalls
    BY <1>5 DEF RefuseCall, Preparing
  <2>2. /\ todo' = Tail(todo) /\ pendingToolCalls' = pendingToolCalls \ {Head(todo)}
        /\ UNCHANGED <<options, pc, prepared, running, executing, faults>>
    BY <1>5 DEF RefuseCall, bounds
  <2>3. ToSet(todo') \cap (ToSet(prepared) \cup ToSet(running)) = {}
    BY <1>2, <2>1, <2>2
  <2>4. \A c \in pendingToolCalls' : c \in ToSet(prepared) \cup ToSet(running)
    BY <2>1, <2>2
  <2>5. ~ Preparing'
    BY <1>2, <2>1, <2>2, <2>3, <2>4 DEF Preparing
  <2>6. ToSet(prepared) \cup ToSet(running) \subseteq pendingToolCalls'
    BY <1>2, <2>1, <2>2
  <2> QED
    BY <1>2, <2>1, <2>2, <2>3, <2>4, <2>5, <2>6
<1>6. CASE LaunchCalls
  <2>1. prepared # <<>> /\ pc = "tools" /\ running = <<>> /\ ToSet(running) = {}
    BY <1>6, EmptySet DEF LaunchCalls
  <2>2. /\ running' = prepared /\ prepared' = <<>> /\ executing' = executing \cup ToSet(prepared)
        /\ UNCHANGED <<options, pc, todo, pendingToolCalls, faults>>
    BY <1>6 DEF LaunchCalls, bounds
  <2>3. ToSet(prepared') = {} /\ Distinct(prepared')
    BY <2>2, EmptySet
  <2>4. ~ Preparing'
    <3>1. CASE options.toolExecution = "parallel"
      BY <1>6, <2>2, <3>1 DEF LaunchCalls, Preparing
    <3>2. CASE options.toolExecution = "sequential"
      BY <2>1, <2>2, <3>2 DEF Preparing
    <3> QED
      BY <1>1, <3>1, <3>2
  <2> QED
    BY <2>1, <2>2, <2>3, <2>4
<1>7. CASE FinalizeCall
  <2>1. running # <<>> /\ pc = "tools" /\ Head(running) \notin executing /\ prepared = <<>>
    BY <1>7 DEF FinalizeCall
  <2>2. /\ running' = Tail(running) /\ pendingToolCalls' = pendingToolCalls \ {Head(running)}
        /\ UNCHANGED <<options, pc, todo, prepared, executing, faults>>
    BY <1>7 DEF FinalizeCall, bounds
  <2>3. /\ Head(running) \in ToSet(running) /\ ToSet(running') = ToSet(running) \ {Head(running)}
        /\ Distinct(running') /\ ToSet(prepared) = {}
    BY <1>1, <2>1, <2>2, TailSet, EmptySet
  <2>4. ~ Preparing'
    BY <2>1, <2>2 DEF Preparing
  <2>5. faults' = 0 => executing' \subseteq ToSet(running')
    BY <2>1, <2>2, <2>3
  <2>6. ToSet(todo') \cap (ToSet(prepared') \cup ToSet(running')) = {}
    BY <2>2, <2>3
  <2>7. /\ ToSet(prepared') \cup ToSet(running') \subseteq pendingToolCalls'
        /\ \A c \in pendingToolCalls' : c \in ToSet(running') \/ (todo # <<>> /\ c = Head(todo))
    BY <2>1, <2>2, <2>3
  <2> QED
    BY <2>1, <2>2, <2>3, <2>4, <2>5, <2>6, <2>7
<1>8. CASE BatchDone
  <2>1. /\ pc = "tools" /\ pc' = "turnEnd" /\ todo = <<>> /\ prepared = <<>> /\ running = <<>>
        /\ UNCHANGED <<options, todo, prepared, running, pendingToolCalls, executing, faults>>
    BY <1>8 DEF BatchDone, bounds
  <2>2. pendingToolCalls = {}
    BY <2>1, EmptySet
  <2> QED
    BY <2>1, <2>2 DEF Preparing
<1>9. ASSUME NEW c \in executing, ToolReturns(c) PROVE CallsInv'
  BY <1>9 DEF ToolReturns, Preparing, loop, batch, bounds
<1> QED
  BY <1>3, <1>4, <1>5, <1>6, <1>7, <1>8, <1>9

\* A reply opens a batch, of the calls that it holds.
LEMMA ReplyCalls ==
  ASSUME TypeInv, CallsInv, NEW n \in 0 .. MaxCalls, NEW stop \in {"done", "error", "aborted"},
         ReplyEnds(n, stop)
  PROVE  CallsInv'
<1> DEFINE calls == [k \in 1 .. n |-> <<replies + 1, k>>]
<1>1. n \in Nat /\ replies \in Nat
  BY BoundAssumption DEF TypeInv, TypeOK
<1>2. calls \in Seq(Calls) /\ Len(calls) = n
  BY <1>1 DEF Calls
<1>3. Distinct(calls)
  BY <1>1 DEF Distinct
<1>4. n = 0 => calls = <<>>
  BY <1>2
<1> HIDE DEF calls
<1>5. /\ pc = "stream"
      /\ todo' = IF stop = "done" THEN calls ELSE <<>>
      /\ pc' \in {"agentEnd", "tools", "turnEnd"}
      /\ pc' # "tools" => stop # "done" \/ n = 0
      /\ UNCHANGED <<options, pendingToolCalls, prepared, running, executing, faults>>
  BY <1>1 DEF ReplyEnds, calls
<1>6. /\ prepared = <<>> /\ running = <<>> /\ pendingToolCalls = {}
      /\ ToSet(prepared) = {} /\ ToSet(running) = {}
  BY <1>5, EmptySet DEF CallsInv, BatchInv, PendingInv
<1>7. Distinct(todo') /\ (pc' # "tools" => todo' = <<>>)
  BY <1>3, <1>4, <1>5, EmptySet
<1>8. ~ Preparing'
  BY <1>5, <1>6 DEF Preparing
<1>9. BatchInv'
  BY <1>5, <1>6, <1>7, <1>8, EmptySet DEF BatchInv
<1>10. PendingInv' /\ ExecutingInv'
  BY <1>5, <1>6 DEF CallsInv, PendingInv, ExecutingInv
<1> QED
  BY <1>9, <1>10 DEF CallsInv

LEMMA NextCalls == TypeInv /\ CallsInv /\ [Next]_vars => CallsInv'
<1> SUFFICES ASSUME TypeInv, CallsInv, [Next]_vars PROVE CallsInv'
  OBVIOUS
<1> DEFINE quiet == UNCHANGED <<options, todo, prepared, running, pendingToolCalls, executing, faults>>
<1>1. CASE UNCHANGED vars
  BY <1>1, QuietCalls DEF vars, loop, batch, bounds
<1>2. CASE Steer \/ FollowUp \/ ClearQueues \/ ReplyStarts \/ Abort \/ DropFailure
  <2>1. quiet /\ pc' = pc
    BY <1>2 DEF Steer, FollowUp, ClearQueues, ReplyStarts, Abort, DropFailure, loop, batch, bounds
  <2> QED
    BY <2>1, QuietCalls
<1>3. CASE Reset
  <2>1. pendingToolCalls = {}
    BY <1>3 DEF Reset, CallsInv, PendingInv
  <2>2. quiet /\ pc' = pc
    BY <1>3, <2>1 DEF Reset, loop, batch
  <2> QED
    BY <2>2, QuietCalls
<1>4. CASE Prompt \/ ContinueSteering \/ ContinueFollowUps \/ ContinueTranscript
  <2>1. quiet /\ pc = "idle" /\ pc' \in {"prompts", "poll"}
    BY <1>4 DEF Prompt, ContinueSteering, ContinueFollowUps, ContinueTranscript, StartRun, batch,
                bounds
  <2> QED
    BY <2>1, QuietCalls
<1>5. CASE PromptEmitted \/ InitialPoll \/ Inject \/ RequestReply
  <2>1. /\ quiet /\ pc \in {"prompts", "poll", "turn"}
        /\ pc' \in {"prompts", "poll", "turn", "stream"}
    BY <1>5 DEF PromptEmitted, InitialPoll, Inject, RequestReply, batch, bounds
  <2> QED
    BY <2>1, QuietCalls
<1>6. CASE PollSteering \/ PollFollowUps
  <2>1. /\ quiet /\ pc \in {"turnEnd", "followUps"}
        /\ pc' \in {"turn", "followUps", "agentEnd"}
    BY <1>6 DEF PollSteering, PollFollowUps, batch, bounds
  <2> QED
    BY <2>1, QuietCalls
<1>7. CASE FinishRun
  BY <1>7 DEF FinishRun, CallsInv, BatchInv, PendingInv, ExecutingInv, Preparing, batch, bounds
<1>8. CASE LoopThrows
  <2>1. faults' > 0
    BY <1>8 DEF LoopThrows, TypeInv, TypeOK
  <2>2. pc' = "failed" /\ todo' = <<>> /\ prepared' = <<>> /\ running' = <<>>
    BY <1>8 DEF LoopThrows
  <2> QED
    BY <2>1, <2>2, EmptySet DEF CallsInv, BatchInv, PendingInv, ExecutingInv, Preparing
<1>9. CASE HandleRunFailure
  BY <1>9 DEF HandleRunFailure, CallsInv, BatchInv, PendingInv, ExecutingInv, Preparing, batch, bounds
<1> QED
  BY <1>1, <1>2, <1>3, <1>4, <1>5, <1>6, <1>7, <1>8, <1>9, ReplyCalls, BatchCalls DEF Next, LoopStep

LEMMA InitPartial == Init => PartialInv
BY DEF Init, PartialInv

LEMMA NextPartial == PartialInv /\ [Next]_vars => PartialInv'
<1> SUFFICES ASSUME PartialInv, [Next]_vars PROVE PartialInv'
  OBVIOUS
<1> USE DEF PartialInv
<1>1. CASE UNCHANGED vars
  BY <1>1 DEF vars, loop
<1>2. CASE Steer \/ FollowUp \/ ClearQueues \/ Abort \/ Reset \/ DropFailure
  BY <1>2 DEF Steer, FollowUp, ClearQueues, Abort, Reset, DropFailure, loop
<1>3. CASE Prompt \/ ContinueSteering \/ ContinueFollowUps \/ ContinueTranscript
  BY <1>3 DEF Prompt, ContinueSteering, ContinueFollowUps, ContinueTranscript, StartRun
<1>4. CASE PromptEmitted \/ InitialPoll \/ Inject \/ RequestReply \/ PollSteering \/ PollFollowUps
  BY <1>4 DEF PromptEmitted, InitialPoll, Inject, RequestReply, PollSteering, PollFollowUps
<1>5. CASE ReplyStarts
  BY <1>5 DEF ReplyStarts, loop
<1>6. ASSUME NEW n \in 0 .. MaxCalls, NEW stop \in {"done", "error", "aborted"}, ReplyEnds(n, stop)
      PROVE  PartialInv'
  BY <1>6 DEF ReplyEnds
<1>7. CASE \/ CallStarts \/ PrepareCall \/ RefuseCall \/ LaunchCalls \/ FinalizeCall \/ BatchDone
           \/ \E c \in executing : ToolReturns(c)
  BY <1>7 DEF CallStarts, PrepareCall, Preparing, RefuseCall, LaunchCalls, FinalizeCall, BatchDone,
              ToolReturns, loop
<1>8. CASE FinishRun \/ LoopThrows \/ HandleRunFailure
  BY <1>8 DEF FinishRun, LoopThrows, HandleRunFailure
<1> QED
  BY <1>1, <1>2, <1>3, <1>4, <1>5, <1>6, <1>7, <1>8 DEF Next, LoopStep

\* Between runs the agent shows neither a partial reply nor a pending call; and unless a
\* run was cut short, every tool at work is shown as pending.
THEOREM RunsSettle == Spec => []RunSettled
<1>1. CallsInv /\ PartialInv => RunSettled
  <2> SUFFICES ASSUME CallsInv, PartialInv PROVE RunSettled
    OBVIOUS
  <2>1. pc = "idle" => ~ partial /\ pendingToolCalls = {}
    BY DEF CallsInv, PendingInv, PartialInv
  <2>2. ASSUME faults = 0 PROVE executing \subseteq pendingToolCalls
    <3>1. executing \subseteq ToSet(running)
      BY <2>2 DEF CallsInv, ExecutingInv
    <3>2. CASE pc = "tools"
      BY <3>1, <3>2 DEF CallsInv, PendingInv
    <3>3. CASE pc # "tools"
      BY <3>1, <3>3, EmptySet DEF CallsInv, BatchInv
    <3> QED
      BY <3>2, <3>3
  <2> QED
    BY <2>1, <2>2 DEF RunSettled
<1> QED
  BY <1>1, InitType, NextType, InitCalls, NextCalls, InitPartial, NextPartial, PTL DEF Spec

(***************************************************************************)
(* The mailbox.  A message that was handed over is in one queue, or taken  *)
(* by the run, or in the transcript, and nowhere twice.                    *)
(***************************************************************************)
Taken == ToSet(pending)
Arrived == {delivered[i].id : i \in DOMAIN delivered}

Places ==
  /\ Queued \cup Taken \cup Arrived \subseteq DOMAIN via
  /\ ToSet(steering) \cap ToSet(followUp) = {}
  /\ Queued \cap Taken = {} /\ Queued \cap Arrived = {} /\ Taken \cap Arrived = {}
  /\ cleared \subseteq DOMAIN via
  /\ cleared \cap Queued = {} /\ cleared \cap Taken = {}
  /\ Distinct(steering) /\ Distinct(followUp) /\ Distinct(pending)

TakenInv == pc \notin {"prompts", "turn"} => pending = <<>>

MailInv == Places /\ TakenInv

BoxStep == [Box!MNext]_<<[m \in Ids |-> StageOf(m)], Mode>>

LEMMA StageIs ==
  \A m : StageOf(m) = IF m \notin DOMAIN via THEN "new"
                      ELSE IF m \in Queued THEN "queued"
                      ELSE IF m \in Taken THEN "taken"
                      ELSE IF m \in Arrived THEN "delivered"
                      ELSE IF m \in cleared THEN "cleared" ELSE "lost"
BY DEF StageOf, Queued, Taken, Arrived

LEMMA StageWillBe ==
  \A m : StageOf(m)' = IF m \notin DOMAIN via' THEN "new"
                       ELSE IF m \in Queued' THEN "queued"
                       ELSE IF m \in Taken' THEN "taken"
                       ELSE IF m \in Arrived' THEN "delivered"
                       ELSE IF m \in cleared' THEN "cleared" ELSE "lost"
BY DEF StageOf, Queued, Taken, Arrived

LEMMA Moves ==
  ASSUME NEW S, NEW to, \A m \in Ids : StageOf(m)' = IF m \in S THEN to ELSE StageOf(m)
  PROVE  Box!Move(S, to)
BY DEF Box!Move

LEMMA Waits ==
  ASSUME Places, DOMAIN via \subseteq Ids
  PROVE  /\ Box!At("taken") = Taken
         /\ Box!At("queued") = Queued
         /\ Box!At("new") = Ids \ DOMAIN via
BY StageIs DEF Box!At, Places

LEMMA ModeIs ==
  /\ Mode = "rest" <=> pc = "idle"
  /\ Mode = "failing" <=> pc \in {"failed", "failEnd"}
  /\ Mode = "running" <=> pc \notin {"idle", "failed", "failEnd"}
BY DEF Mode

\* a step that neither opens, fails nor closes a run
SameMode == Mode' = Mode

LEMMA ModeStays ==
  ASSUME \/ pc' = pc
         \/ pc \notin {"idle", "failed", "failEnd"} /\ pc' \notin {"idle", "failed", "failEnd"}
         \/ pc \in {"failed", "failEnd"} /\ pc' \in {"failed", "failEnd"}
  PROVE  SameMode
BY DEF Mode, SameMode

(***************************************************************************)
(* What may happen to the places, as steps of the mailbox.                 *)
(***************************************************************************)
LEMMA NothingMoves ==
  ASSUME DOMAIN via' = DOMAIN via, Queued' = Queued, Taken' = Taken, Arrived' = Arrived,
         cleared' = cleared, SameMode
  PROVE  BoxStep
<1>1. \A m \in Ids : StageOf(m)' = StageOf(m)
  BY StageIs, StageWillBe
<1> QED
  BY <1>1 DEF BoxStep, SameMode

LEMMA QueueMoves ==
  ASSUME Places, NEW m \in Ids, m \notin DOMAIN via, DOMAIN via' = DOMAIN via \cup {m},
         Queued' = Queued \cup {m}, Taken' = Taken, Arrived' = Arrived,
         cleared' = cleared, SameMode
  PROVE  BoxStep
<1>1. \A i \in Ids : StageOf(i)' = IF i \in {m} THEN "queued" ELSE StageOf(i)
  BY StageIs, StageWillBe DEF Places
<1>2. Box!Move({m}, "queued") /\ StageOf(m) = "new"
  BY <1>1, Moves, StageIs
<1> QED
  BY <1>2 DEF BoxStep, Box!MNext, Box!Queue, SameMode

LEMMA TakeMoves ==
  ASSUME Places, DOMAIN via \subseteq Ids, Taken = {},
         Mode # "failing", Mode' = "running",
         UNCHANGED <<via, cleared>>, Arrived' = Arrived,
         Taken' \subseteq Queued, Queued' = Queued \ Taken'
  PROVE  BoxStep
<1>0. PICK S : S = Taken'
  OBVIOUS
<1>1. \A i \in Ids : StageOf(i)' = IF i \in S THEN "taken" ELSE StageOf(i)
  BY <1>0, StageIs, StageWillBe DEF Places
<1>2. Box!Move(S, "taken") /\ S \in SUBSET Box!At("queued") /\ Box!At("taken") = {}
  BY <1>0, <1>1, Moves, Waits
<1>3. CASE Mode = "rest"
  BY <1>2, <1>3 DEF BoxStep, Box!MNext, Box!Open
<1>4. CASE Mode = "running"
  BY <1>2, <1>4 DEF BoxStep, Box!MNext, Box!Take
<1> QED
  BY <1>3, <1>4 DEF Mode

LEMMA PromptMoves ==
  ASSUME Places, DOMAIN via \subseteq Ids, Taken = {}, Mode = "rest", Mode' = "running",
         cleared' = cleared, NEW m \in Ids, m \notin DOMAIN via, DOMAIN via' = DOMAIN via \cup {m},
         Queued' = Queued, Taken' = {m}, Arrived' = Arrived
  PROVE  BoxStep
<1>1. \A i \in Ids : StageOf(i)' = IF i \in {m} THEN "taken" ELSE StageOf(i)
  BY StageIs, StageWillBe DEF Places
<1>2. Box!Move({m}, "taken") /\ m \in Box!At("new")
  BY <1>1, Moves, Waits
<1> QED
  BY <1>2 DEF BoxStep, Box!MNext, Box!Open

LEMMA DeliverMoves ==
  ASSUME Places, DOMAIN via \subseteq Ids, Mode = "running", SameMode, UNCHANGED <<via, cleared>>,
         NEW m \in Taken, Taken' = Taken \ {m}, Arrived' = Arrived \cup {m}, Queued' = Queued
  PROVE  BoxStep
<1>1. \A i \in Ids : StageOf(i)' = IF i \in {m} THEN "delivered" ELSE StageOf(i)
  BY StageIs, StageWillBe DEF Places
<1>2. Box!Move({m}, "delivered") /\ StageOf(m) = "taken" /\ m \in Ids
  BY <1>1, Moves, StageIs DEF Places
<1> QED
  BY <1>2 DEF BoxStep, Box!MNext, Box!Deliver, SameMode

LEMMA ClearMoves ==
  ASSUME Places, DOMAIN via \subseteq Ids, SameMode, UNCHANGED via,
         Queued' \subseteq Queued, Taken' = Taken, Arrived' = Arrived,
         cleared' = cleared \cup (Queued \ Queued')
  PROVE  BoxStep
<1>0. PICK S : S = Queued \ Queued'
  OBVIOUS
<1>1. \A i \in Ids : StageOf(i)' = IF i \in S THEN "cleared" ELSE StageOf(i)
  BY <1>0, StageIs, StageWillBe DEF Places
<1>2. Box!Move(S, "cleared") /\ S \in SUBSET Box!At("queued")
  BY <1>0, <1>1, Moves, Waits
<1> QED
  BY <1>2 DEF BoxStep, Box!MNext, Box!Clear, SameMode

LEMMA FailMoves ==
  ASSUME Places, DOMAIN via \subseteq Ids, Mode = "running", Mode' = "failing",
         UNCHANGED <<via, cleared>>, Queued' = Queued, Taken' = {}, Arrived' = Arrived
  PROVE  BoxStep
<1>1. \A i \in Ids : StageOf(i)' = IF i \in Taken THEN "lost" ELSE StageOf(i)
  BY StageIs, StageWillBe DEF Places
<1>2. Box!Move(Box!At("taken"), "lost")
  BY <1>1, Moves, Waits
<1> QED
  BY <1>2 DEF BoxStep, Box!MNext, Box!Fail

LEMMA CloseMoves ==
  ASSUME Places, DOMAIN via \subseteq Ids, Mode # "rest", Mode' = "rest", UNCHANGED <<via, cleared>>,
         Queued' = Queued, Taken = {}, Taken' = {}, Arrived' = Arrived
  PROVE  BoxStep
<1>1. \A i \in Ids : StageOf(i)' = StageOf(i)
  BY StageIs, StageWillBe
<1>2. Box!At("taken") = {}
  BY Waits
<1> QED
  BY <1>1, <1>2 DEF BoxStep, Box!MNext, Box!Close

(***************************************************************************)
(* The steps of the agent.                                                 *)
(***************************************************************************)
LEMMA ViaIds ==
  ASSUME TypeInv
  PROVE  DOMAIN via \subseteq Ids
BY BoundAssumption DEF TypeInv, TypeOK, Ids

LEMMA SamePlaces ==
  ASSUME Places, UNCHANGED <<queues, pending, via, delivered, cleared>>
  PROVE  Places' /\ Queued' = Queued /\ Taken' = Taken /\ Arrived' = Arrived
BY DEF Places, Queued, Taken, Arrived, queues, Distinct

LEMMA OneSet ==
  ASSUME NEW c
  PROVE  ToSet(<<c>>) = {c} /\ Distinct(<<c>>)
BY DEF ToSet, Distinct

LEMMA DrainSets ==
  ASSUME NEW q \in Seq(Ids), Distinct(q), NEW mode
  PROVE  /\ ToSet(Drained(q, mode)) \cup ToSet(Left(q, mode)) = ToSet(q)
         /\ ToSet(Drained(q, mode)) \cap ToSet(Left(q, mode)) = {}
         /\ Distinct(Drained(q, mode)) /\ Distinct(Left(q, mode))
<1>1. CASE mode = "all" \/ q = <<>>
  BY <1>1, EmptySet DEF Drained, Left
<1>2. CASE ~(mode = "all" \/ q = <<>>)
  <2>1. Drained(q, mode) = <<Head(q)>> /\ Left(q, mode) = Tail(q)
    BY <1>2 DEF Drained, Left
  <2>2. /\ Head(q) \in ToSet(q) /\ ToSet(Tail(q)) = ToSet(q) \ {Head(q)}
        /\ Distinct(Tail(q))
    BY <1>2, TailSet
  <2> QED
    BY <2>1, <2>2, OneSet
<1> QED
  BY <1>1, <1>2

LEMMA TakePlaces ==
  ASSUME TypeInv, Places, pending = <<>>, UNCHANGED <<via, delivered, cleared>>, NEW mode,
         \/ /\ pending' = Drained(steering, mode) /\ steering' = Left(steering, mode)
            /\ UNCHANGED followUp
         \/ /\ pending' = Drained(followUp, mode) /\ followUp' = Left(followUp, mode)
            /\ UNCHANGED steering
  PROVE  /\ Places' /\ Taken' \subseteq Queued /\ Queued' = Queued \ Taken'
         /\ Arrived' = Arrived /\ Taken = {}
<1>1. steering \in Seq(Ids) /\ followUp \in Seq(Ids)
  BY DEF TypeInv, TypeOK
<1>2. Arrived' = Arrived /\ Taken = {}
  BY EmptySet DEF Arrived, Taken
<1>3. CASE /\ pending' = Drained(steering, mode) /\ steering' = Left(steering, mode)
           /\ UNCHANGED followUp
  <2>1. /\ ToSet(pending') \cup ToSet(steering') = ToSet(steering)
        /\ ToSet(pending') \cap ToSet(steering') = {}
        /\ Distinct(pending') /\ Distinct(steering')
    BY <1>1, <1>3, DrainSets DEF Places
  <2>2. Taken' = ToSet(pending') /\ Queued' = ToSet(steering') \cup ToSet(followUp)
    BY <1>3 DEF Taken, Queued
  <2>3. Taken' \subseteq Queued /\ Queued' = Queued \ Taken'
    BY <2>1, <2>2 DEF Places, Queued
  <2>4. ToSet(steering') \cap ToSet(followUp') = {}
    BY <1>3, <2>1 DEF Places
  <2> QED
    BY <1>2, <1>3, <2>1, <2>3, <2>4 DEF Places
<1>4. CASE /\ pending' = Drained(followUp, mode) /\ followUp' = Left(followUp, mode)
           /\ UNCHANGED steering
  <2>1. /\ ToSet(pending') \cup ToSet(followUp') = ToSet(followUp)
        /\ ToSet(pending') \cap ToSet(followUp') = {}
        /\ Distinct(pending') /\ Distinct(followUp')
    BY <1>1, <1>4, DrainSets DEF Places
  <2>2. Taken' = ToSet(pending') /\ Queued' = ToSet(steering) \cup ToSet(followUp')
    BY <1>4 DEF Taken, Queued
  <2>3. Taken' \subseteq Queued /\ Queued' = Queued \ Taken'
    BY <2>1, <2>2 DEF Places, Queued
  <2>4. ToSet(steering') \cap ToSet(followUp') = {}
    BY <1>4, <2>1 DEF Places
  <2> QED
    BY <1>2, <1>4, <2>1, <2>3, <2>4 DEF Places
<1> QED
  BY <1>3, <1>4

\* Handing over a message that nobody has yet.
LEMMA AcceptPlaces ==
  ASSUME TypeInv, Places, NEW kind \in {"prompt", "steer", "followUp"}, Accept(kind)
  PROVE  /\ New \in Ids /\ New \notin DOMAIN via /\ DOMAIN via' = DOMAIN via \cup {New}
         /\ New \notin Queued \cup Taken \cup Arrived \cup cleared
<1>1. New \notin DOMAIN via /\ DOMAIN via' = DOMAIN via \cup {New}
  BY DEF TypeInv, TypeOK, Accept, New
<1> QED
  BY <1>1, AcceptType DEF Places

LEMMA QueueStep ==
  ASSUME TypeInv, MailInv, Steer \/ FollowUp
  PROVE  MailInv' /\ BoxStep
<1>0. PICK m : m = New
  OBVIOUS
<1>1. /\ m \in Ids /\ m \notin DOMAIN via /\ DOMAIN via' = DOMAIN via \cup {m}
      /\ m \notin Queued \cup Taken \cup Arrived \cup cleared
  BY <1>0, AcceptPlaces DEF MailInv, Steer, FollowUp
<1>2. UNCHANGED <<pc, pending, delivered, cleared>> /\ SameMode
  BY ModeStays DEF Steer, FollowUp, loop
<1>3. Taken' = Taken /\ Arrived' = Arrived
  BY <1>2 DEF Taken, Arrived
<1>4. steering \in Seq(Ids) /\ followUp \in Seq(Ids)
  BY DEF TypeInv, TypeOK
<1>5. /\ m \notin ToSet(steering) /\ m \notin ToSet(followUp)
      /\ Distinct(steering) /\ Distinct(followUp)
  BY <1>1 DEF Queued, MailInv, Places
<1>6. CASE Steer
  <2>1. steering' = Append(steering, m) /\ followUp' = followUp
    BY <1>0, <1>6 DEF Steer
  <2>2. ToSet(steering') = ToSet(steering) \cup {m} /\ Distinct(steering')
    BY <1>1, <1>4, <1>5, <2>1, AppendSet
  <2>3. Queued' = Queued \cup {m}
    BY <2>1, <2>2 DEF Queued
  <2>4. Places'
    BY <1>1, <1>2, <1>3, <1>5, <2>1, <2>2, <2>3 DEF MailInv, Places
  <2> QED
    BY <1>1, <1>2, <1>3, <2>3, <2>4, QueueMoves DEF MailInv, TakenInv
<1>7. CASE FollowUp
  <2>1. followUp' = Append(followUp, m) /\ steering' = steering
    BY <1>0, <1>7 DEF FollowUp
  <2>2. ToSet(followUp') = ToSet(followUp) \cup {m} /\ Distinct(followUp')
    BY <1>1, <1>4, <1>5, <2>1, AppendSet
  <2>3. Queued' = Queued \cup {m}
    BY <2>1, <2>2 DEF Queued
  <2>4. Places'
    BY <1>1, <1>2, <1>3, <1>5, <2>1, <2>2, <2>3 DEF MailInv, Places
  <2> QED
    BY <1>1, <1>2, <1>3, <2>3, <2>4, QueueMoves DEF MailInv, TakenInv
<1> QED
  BY <1>6, <1>7

LEMMA PromptStep ==
  ASSUME TypeInv, MailInv, Prompt
  PROVE  MailInv' /\ BoxStep
<1>0. PICK m : m = New
  OBVIOUS
<1>1. /\ m \in Ids /\ m \notin DOMAIN via /\ DOMAIN via' = DOMAIN via \cup {m}
      /\ m \notin Queued \cup Taken \cup Arrived \cup cleared
  BY <1>0, AcceptPlaces DEF MailInv, Prompt
<1>2. /\ UNCHANGED <<steering, followUp, delivered, cleared>> /\ pending' = <<m>>
      /\ pc = "idle" /\ pc' = "prompts" /\ Mode = "rest" /\ Mode' = "running"
  BY <1>0 DEF Prompt, StartRun, queues, Mode
<1>3. Taken = {}
  BY <1>2, EmptySet DEF MailInv, TakenInv, Taken
<1>4. Queued' = Queued /\ Arrived' = Arrived /\ Taken' = {m} /\ Distinct(pending')
  BY <1>2, OneSet DEF Queued, Arrived, Taken
<1>5. Places'
  BY <1>1, <1>2, <1>4 DEF MailInv, Places
<1> QED
  BY <1>1, <1>2, <1>3, <1>4, <1>5, ViaIds, PromptMoves DEF MailInv, TakenInv

LEMMA TakeStep ==
  ASSUME TypeInv, MailInv,
         ContinueSteering \/ ContinueFollowUps \/ InitialPoll \/ PollSteering \/ PollFollowUps
  PROVE  MailInv' /\ BoxStep
<1>1. /\ pending = <<>> /\ UNCHANGED <<via, delivered, cleared>>
      /\ Mode # "failing" /\ Mode' = "running"
  BY DEF ContinueSteering, ContinueFollowUps, StartRun, InitialPoll, PollSteering, PollFollowUps,
         history, MailInv, TakenInv, Mode
<1>2. ASSUME Places', Taken' \subseteq Queued, Queued' = Queued \ Taken',
             Arrived' = Arrived, Taken = {}
      PROVE  BoxStep
  BY <1>1, <1>2, ViaIds, TakeMoves DEF MailInv
<1>3. CASE InitialPoll /\ skip
  <2>1. /\ UNCHANGED <<queues, pending, via, delivered, cleared>> /\ pc = "poll" /\ pc' = "turn"
        /\ SameMode
    BY <1>3, ModeStays DEF InitialPoll, queues, history
  <2> QED
    BY <2>1, SamePlaces, NothingMoves DEF MailInv, TakenInv
<1>4. CASE InitialPoll /\ ~skip
  <2>1. /\ pending' = Drained(steering, options.steeringMode)
        /\ steering' = Left(steering, options.steeringMode) /\ UNCHANGED followUp /\ pc' = "turn"
    BY <1>4 DEF InitialPoll
  <2> QED
    BY <1>1, <1>2, <2>1, TakePlaces DEF MailInv, TakenInv
<1>5. CASE ContinueSteering
  <2>1. /\ pending' = Drained(steering, options.steeringMode)
        /\ steering' = Left(steering, options.steeringMode) /\ UNCHANGED followUp /\ pc' = "prompts"
    BY <1>5 DEF ContinueSteering, StartRun
  <2> QED
    BY <1>1, <1>2, <2>1, TakePlaces DEF MailInv, TakenInv
<1>6. CASE ContinueFollowUps
  <2>1. /\ pending' = Drained(followUp, options.followUpMode)
        /\ followUp' = Left(followUp, options.followUpMode) /\ UNCHANGED steering /\ pc' = "prompts"
    BY <1>6 DEF ContinueFollowUps, StartRun
  <2> QED
    BY <1>1, <1>2, <2>1, TakePlaces DEF MailInv, TakenInv
<1>7. CASE PollSteering
  <2>1. /\ pending' = Drained(steering, options.steeringMode)
        /\ steering' = Left(steering, options.steeringMode) /\ UNCHANGED followUp
    BY <1>7 DEF PollSteering
  <2>2. pc' = "turn" \/ pending' = <<>>
    BY <1>7 DEF PollSteering, Drained
  <2> QED
    BY <1>1, <1>2, <2>1, <2>2, TakePlaces DEF MailInv, TakenInv
<1>8. CASE PollFollowUps
  <2>1. /\ pending' = Drained(followUp, options.followUpMode)
        /\ followUp' = Left(followUp, options.followUpMode) /\ UNCHANGED steering
    BY <1>8 DEF PollFollowUps
  <2>2. pc' = "turn" \/ pending' = <<>>
    BY <1>8 DEF PollFollowUps, Drained
  <2> QED
    BY <1>1, <1>2, <2>1, <2>2, TakePlaces DEF MailInv, TakenInv
<1> QED
  BY <1>3, <1>4, <1>5, <1>6, <1>7, <1>8

LEMMA DeliverStep ==
  ASSUME TypeInv, MailInv, PromptEmitted \/ Inject
  PROVE  MailInv' /\ BoxStep
<1>1. /\ pending # <<>> /\ pending' = Tail(pending) /\ Delivered(Head(pending))
      /\ UNCHANGED <<steering, followUp, via, cleared>> /\ Mode = "running" /\ SameMode
      /\ pc' \in {"prompts", "turn"} \/ pending' = <<>>
  BY DEF PromptEmitted, Inject, TypeInv, PromptsLeft, queues, Mode, SameMode
<1>2. PICK m : m = Head(pending)
  OBVIOUS
<1>3. /\ m \in ToSet(pending) /\ ToSet(pending') = ToSet(pending) \ {m} /\ Distinct(pending')
  BY <1>1, <1>2, TailSet DEF MailInv, Places, TypeInv, TypeOK
<1>4. m \in Taken /\ Taken' = Taken \ {m} /\ Queued' = Queued
  BY <1>1, <1>3 DEF Taken, Queued
<1>5. Arrived' = Arrived \cup {m}
  <2>1. delivered' = Append(delivered, [id |-> m, at |-> replies]) /\ delivered \in Seq([id: Ids, at: Nat])
    BY <1>1, <1>2 DEF Delivered, TypeInv, TypeOK
  <2>2. /\ DOMAIN delivered' = DOMAIN delivered \cup {Len(delivered) + 1}
        /\ \A i \in DOMAIN delivered : delivered'[i] = delivered[i]
        /\ delivered'[Len(delivered) + 1].id = m
    BY <2>1
  <2> QED
    BY <2>2 DEF Arrived
<1>6. Places'
  BY <1>1, <1>3, <1>4, <1>5 DEF MailInv, Places
<1> QED
  BY <1>1, <1>4, <1>5, <1>6, ViaIds, DeliverMoves DEF MailInv, TakenInv

LEMMA ClearStep ==
  ASSUME TypeInv, MailInv, ClearQueues \/ Reset
  PROVE  MailInv' /\ BoxStep
<1>1. /\ steering' \in {steering, <<>>} /\ followUp' \in {followUp, <<>>}
      /\ UNCHANGED <<pc, pending, via, delivered>> /\ SameMode
      /\ cleared' = cleared \cup (Queued \ Queued')
  <2>1. CASE ClearQueues
    BY <2>1, ModeStays DEF ClearQueues, loop
  <2>2. CASE Reset
    BY <2>2, ModeStays, EmptySet DEF Reset, loop, Queued
  <2> QED
    BY <2>1, <2>2
<1>2. Taken' = Taken /\ Arrived' = Arrived
  BY <1>1 DEF Taken, Arrived
<1>3. /\ ToSet(steering') \subseteq ToSet(steering) /\ ToSet(followUp') \subseteq ToSet(followUp)
      /\ Distinct(steering') /\ Distinct(followUp')
  BY <1>1, EmptySet DEF MailInv, Places
<1>4. Queued' \subseteq Queued
  BY <1>3 DEF Queued
<1>5. Places'
  BY <1>1, <1>2, <1>3, <1>4 DEF MailInv, Places
<1> QED
  BY <1>1, <1>2, <1>4, <1>5, ViaIds, ClearMoves DEF MailInv, TakenInv

LEMMA ThrowStep ==
  ASSUME TypeInv, MailInv, LoopThrows
  PROVE  MailInv' /\ BoxStep
<1>1. /\ UNCHANGED <<steering, followUp, via, delivered, cleared>> /\ pending' = <<>>
      /\ Mode = "running" /\ Mode' = "failing" /\ pc' = "failed"
  BY DEF LoopThrows, queues, history, Mode
<1>2. Queued' = Queued /\ Arrived' = Arrived /\ Taken' = {} /\ Distinct(pending')
  BY <1>1, EmptySet DEF Queued, Arrived, Taken
<1>3. Places'
  BY <1>1, <1>2 DEF MailInv, Places
<1> QED
  BY <1>1, <1>2, <1>3, ViaIds, FailMoves DEF MailInv, TakenInv

\* The other steps move no message; they may end a run or open one without a message.
LEMMA OtherStep ==
  ASSUME TypeInv, MailInv, UNCHANGED <<queues, pending, via, delivered, cleared>>,
         \/ SameMode /\ (pending = <<>> \/ pc' = pc)
         \/ pc = "idle" /\ pc' = "poll"
         \/ pc = "agentEnd" /\ pc' = "idle"
         \/ pc = "failEnd" /\ pc' = "idle"
  PROVE  MailInv' /\ BoxStep
<1>1. Places' /\ Queued' = Queued /\ Taken' = Taken /\ Arrived' = Arrived
  BY SamePlaces DEF MailInv
<1>2. MailInv'
  BY <1>1 DEF MailInv, TakenInv
<1>3. pc' = pc \/ pending = <<>>
  BY DEF MailInv, TakenInv
<1>4. CASE SameMode
  BY <1>1, <1>2, <1>4, NothingMoves
<1>5. ASSUME pending = <<>>
      PROVE  Taken = {} /\ Taken' = {}
  BY <1>1, <1>5, EmptySet DEF Taken
<1>6. CASE pc = "idle" /\ pc' = "poll"
  <2>1. Taken' \subseteq Queued /\ Queued' = Queued \ Taken' /\ Taken = {}
    BY <1>1, <1>3, <1>5, <1>6
  <2>2. Mode # "failing" /\ Mode' = "running"
    BY <1>6 DEF Mode
  <2> QED
    BY <1>1, <1>2, <2>1, <2>2, ViaIds, TakeMoves DEF MailInv
<1>7. CASE pc \in {"agentEnd", "failEnd"} /\ pc' = "idle"
  <2>1. Mode # "rest" /\ Mode' = "rest"
    BY <1>7 DEF Mode
  <2>2. Taken = {} /\ Taken' = {}
    BY <1>3, <1>5, <1>7
  <2> QED
    BY <1>1, <1>2, <2>1, <2>2, ViaIds, CloseMoves DEF MailInv
<1> QED
  BY <1>4, <1>6, <1>7

LEMMA MailStep == TypeInv /\ MailInv /\ [Next]_vars => MailInv' /\ BoxStep
<1> SUFFICES ASSUME TypeInv, MailInv, [Next]_vars PROVE MailInv' /\ BoxStep
  OBVIOUS
<1>1. CASE UNCHANGED vars
  BY <1>1, ModeStays, OtherStep DEF vars, loop, history, queues, MailInv, TakenInv
<1>2. CASE ReplyStarts \/ Abort \/ DropFailure \/ CallStarts \/ \E c \in executing : ToolReturns(c)
  <2>1. UNCHANGED <<queues, pending, via, delivered, cleared>> /\ pc' = pc
    BY <1>2 DEF ReplyStarts, Abort, DropFailure, CallStarts, ToolReturns, loop, history
  <2> QED
    BY <2>1, ModeStays, OtherStep
<1>3. CASE PrepareCall \/ RefuseCall \/ LaunchCalls \/ FinalizeCall
  <2>1. UNCHANGED <<queues, pending, via, delivered, cleared>> /\ pc' = pc
    BY <1>3 DEF PrepareCall, RefuseCall, LaunchCalls, FinalizeCall, history
  <2> QED
    BY <2>1, ModeStays, OtherStep
<1>4. CASE RequestReply \/ BatchDone \/ HandleRunFailure
  <2>1. /\ UNCHANGED <<queues, pending, via, delivered, cleared>> /\ SameMode
        /\ pc \in {"tools", "failed"} \/ pending = <<>>
    BY <1>4, ModeStays DEF RequestReply, BatchDone, HandleRunFailure, history
  <2>2. pending = <<>>
    BY <2>1 DEF MailInv, TakenInv
  <2> QED
    BY <2>1, <2>2, OtherStep
<1>5. CASE ContinueTranscript
  <2>1. UNCHANGED <<queues, pending, via, delivered, cleared>> /\ pc = "idle" /\ pc' = "poll"
    BY <1>5 DEF ContinueTranscript, history
  <2> QED
    BY <2>1, OtherStep
<1>6. CASE FinishRun
  <2>1. UNCHANGED <<queues, pending, via, delivered, cleared>> /\ pc \in {"agentEnd", "failEnd"} /\ pc' = "idle"
    BY <1>6 DEF FinishRun, history
  <2> QED
    BY <2>1, OtherStep
<1>7. ASSUME NEW n \in 0 .. MaxCalls, NEW stop \in {"done", "error", "aborted"}, ReplyEnds(n, stop)
      PROVE  MailInv' /\ BoxStep
  <2>1. UNCHANGED <<queues, pending, via, delivered, cleared>> /\ pc = "stream" /\ SameMode
    BY <1>7, ModeStays DEF ReplyEnds, history
  <2>2. pending = <<>>
    BY <2>1 DEF MailInv, TakenInv
  <2> QED
    BY <2>1, <2>2, OtherStep
<1> QED
  BY <1>1, <1>2, <1>3, <1>4, <1>5, <1>6, <1>7, QueueStep, PromptStep, TakeStep, DeliverStep,
     ClearStep, ThrowStep DEF Next, LoopStep

\* Every message that is handed over is delivered at most once; while it waits only a clear
\* or a reset of the agent (agent.ts, clearAllQueues and reset) throws it away, and the
\* messages a run has taken are lost only in the step in which it fails.
THEOREM MailboxImplemented == Spec => ImplementsMailbox
<1>1. Init => MailInv /\ Box!MInit
  <2> SUFFICES ASSUME Init PROVE MailInv /\ Box!MInit
    OBVIOUS
  <2>1. Queued = {} /\ Taken = {} /\ Arrived = {}
    BY EmptySet DEF Init, Queued, Taken, Arrived
  <2>2. MailInv
    BY <2>1, EmptySet DEF Init, MailInv, Places, TakenInv
  <2>3. \A m \in Ids : StageOf(m) = "new"
    BY StageIs DEF Init
  <2> QED
    BY <2>2, <2>3 DEF Init, Box!MInit, Mode
<1>2. TypeInv /\ MailInv /\ [Next]_vars => MailInv' /\ [Box!MNext]_<<[m \in Ids |-> StageOf(m)], Mode>>
  BY MailStep DEF BoxStep
<1> QED
  BY <1>1, <1>2, InitType, NextType, PTL DEF Spec, ImplementsMailbox, Box!MSpec

(***************************************************************************)
(* Requests.  Every reply in the context is followed by the results of its *)
(* calls, except the last one while its batch is under way: the results    *)
(* that it has and those that it is owed are then the results of its calls. *)
(***************************************************************************)
Done(m) == m.role = "assistant" /\ m.stop = "done"
Complete(s, l) == \A i \in 1 .. l : Done(s[i]) => Answered(s, i)
ResultsOf(r) == {Result(<<r.id, k>>) : k \in 1 .. r.n}
Owed == {Result(c) : c \in ToSet(todo) \cup ToSet(prepared) \cup ToSet(running)}

BatchWhole ==
  /\ context # <<>>
  /\ Len(results) + Len(todo) + Len(prepared) + Len(running) = context[Len(context)].n
  /\ ToSet(results) \cup Owed = ResultsOf(context[Len(context)])

RequestsInv ==
  faults = 0 =>
    /\ pc \in Settled \cup {"prompts"} => Complete(context, Len(context))
    /\ pc = "idle" => Complete(messages, Len(messages))
    /\ pc = "tools" => Complete(context, Len(context) - 1) /\ BatchWhole

\* What was answered stays answered when more is said.
LEMMA CompleteExtended ==
  ASSUME NEW s \in Seq(Message), NEW t \in Seq(Message), NEW l \in 0 .. Len(s),
         Len(s) <= Len(t), \A j \in 1 .. Len(s) : t[j] = s[j], Complete(s, l)
  PROVE  Complete(t, l)
<1> SUFFICES ASSUME NEW i \in 1 .. l, Done(t[i]) PROVE Answered(t, i)
  BY DEF Complete
<1>1. i \in 1 .. Len(s) /\ t[i] = s[i] /\ s[i] \in Message
  OBVIOUS
<1>2. s[i].n \in Nat
  BY <1>1 DEF Message
<1>3. Answered(s, i)
  BY <1>1 DEF Complete
<1>4. i + s[i].n <= Len(s)
  BY <1>3 DEF Answered
<1>5. \A j \in i + 1 .. i + s[i].n : t[j] = s[j]
  BY <1>1, <1>2, <1>4
<1>6. {t[j] : j \in i + 1 .. i + s[i].n} = {s[j] : j \in i + 1 .. i + s[i].n}
  BY <1>5
<1>7. i + s[i].n <= Len(t)
  BY <1>2, <1>4
<1>8. {t[j] : j \in i + 1 .. i + s[i].n} = {Result(<<s[i].id, k>>) : k \in 1 .. s[i].n}
  BY <1>3, <1>6 DEF Answered
<1> QED
  BY <1>1, <1>7, <1>8 DEF Answered

\* A message that is owed nothing may be added.
LEMMA CompleteAppend ==
  ASSUME NEW s \in Seq(Message), NEW e \in Message, Complete(s, Len(s))
  PROVE  /\ Complete(Append(s, e), Len(s))
         /\ ~Done(e) \/ e.n = 0 => Complete(Append(s, e), Len(s) + 1)
<1> DEFINE t == Append(s, e)
<1>1. t \in Seq(Message) /\ Len(t) = Len(s) + 1 /\ t[Len(s) + 1] = e
      /\ \A j \in 1 .. Len(s) : t[j] = s[j]
  OBVIOUS
<1> HIDE DEF t
<1>2. Complete(t, Len(s))
  BY <1>1, CompleteExtended
<1>3. ASSUME e.n = 0 PROVE Answered(t, Len(s) + 1)
  BY <1>1, <1>3 DEF Answered
<1>4. \A i \in 1 .. Len(s) + 1 : i \in 1 .. Len(s) \/ i = Len(s) + 1
  OBVIOUS
<1>5. ~Done(e) \/ e.n = 0 => Complete(t, Len(s) + 1)
  BY <1>1, <1>2, <1>3, <1>4 DEF Complete
<1> QED
  BY <1>2, <1>5 DEF t

\* ... and so may several, behind a reply that they answer.
LEMMA CompleteConcat ==
  ASSUME NEW s \in Seq(Message), NEW t \in Seq(Message), \A j \in 1 .. Len(t) : ~Done(t[j]),
         \/ Complete(s, Len(s))
         \/ /\ s # <<>> /\ Complete(s, Len(s) - 1)
            /\ Len(t) = s[Len(s)].n /\ ToSet(t) = ResultsOf(s[Len(s)])
  PROVE  Complete(s \o t, Len(s \o t))
<1> DEFINE u == s \o t
<1>1. /\ u \in Seq(Message) /\ Len(u) = Len(s) + Len(t)
      /\ \A j \in 1 .. Len(s) : u[j] = s[j]
      /\ \A j \in 1 .. Len(t) : u[Len(s) + j] = t[j]
  OBVIOUS
<1> HIDE DEF u
<1>2. ASSUME NEW l \in 0 .. Len(s), Complete(s, l) PROVE Complete(u, l)
  <2>1. Len(s) <= Len(u)
    BY <1>1
  <2> QED
    BY <1>1, <1>2, <2>1, CompleteExtended
<1>3. Complete(u, Len(s))
  <2>1. CASE Complete(s, Len(s))
    BY <1>2, <2>1
  <2>2. CASE /\ s # <<>> /\ Complete(s, Len(s) - 1)
             /\ Len(t) = s[Len(s)].n /\ ToSet(t) = ResultsOf(s[Len(s)])
    <3>1. Len(s) \in Nat \ {0} /\ u[Len(s)] = s[Len(s)] /\ Complete(u, Len(s) - 1)
      BY <1>1, <1>2, <2>2
    <3>2. {u[j] : j \in Len(s) + 1 .. Len(s) + Len(t)} = ToSet(t)
      <4>1. ToSet(t) = {t[j] : j \in 1 .. Len(t)}
        BY DEF ToSet
      <4>2. \A j \in 1 .. Len(t) : Len(s) + j \in Len(s) + 1 .. Len(s) + Len(t)
        OBVIOUS
      <4>3. \A j \in Len(s) + 1 .. Len(s) + Len(t) : j - Len(s) \in 1 .. Len(t) /\ u[j] = t[j - Len(s)]
        <5>1. \A j \in Len(s) + 1 .. Len(s) + Len(t) : j - Len(s) \in 1 .. Len(t) /\ Len(s) + (j - Len(s)) = j
          OBVIOUS
        <5> QED
          BY <1>1, <5>1
      <4>4. ASSUME NEW m \in ToSet(t) PROVE \E j \in Len(s) + 1 .. Len(s) + Len(t) : u[j] = m
        <5>1. PICK j \in 1 .. Len(t) : m = t[j]
          BY <4>1
        <5>2. Len(s) + j \in Len(s) + 1 .. Len(s) + Len(t) /\ u[Len(s) + j] = m
          BY <1>1, <4>2, <5>1
        <5> QED
          BY <5>2
      <4>5. \A j \in Len(s) + 1 .. Len(s) + Len(t) : u[j] \in ToSet(t)
        BY <4>1, <4>3
      <4> QED
        BY <4>4, <4>5
    <3>3. Answered(u, Len(s))
      <4>1. u[Len(s)].n = Len(t) /\ u[Len(s)].id = s[Len(s)].id
        BY <2>2, <3>1
      <4>2. {u[j] : j \in Len(s) + 1 .. Len(s) + Len(t)}
              = {Result(<<u[Len(s)].id, k>>) : k \in 1 .. u[Len(s)].n}
        BY <2>2, <3>1, <3>2 DEF ResultsOf
      <4>3. Len(s) + u[Len(s)].n <= Len(u)
        BY <1>1, <4>1
      <4>4. {u[j] : j \in Len(s) + 1 .. Len(s) + u[Len(s)].n}
              = {Result(<<u[Len(s)].id, k>>) : k \in 1 .. u[Len(s)].n}
        BY <4>1, <4>2
      <4> QED
        BY <4>3, <4>4 DEF Answered
    <3>4. \A i \in 1 .. Len(s) : i \in 1 .. Len(s) - 1 \/ i = Len(s)
      OBVIOUS
    <3> QED
      BY <3>1, <3>3, <3>4 DEF Complete
  <2> QED
    BY <2>1, <2>2
<1>4. ASSUME NEW i \in 1 .. Len(u), i > Len(s) PROVE ~Done(u[i])
  <2>1. i - Len(s) \in 1 .. Len(t) /\ u[Len(s) + (i - Len(s))] = u[i]
    BY <1>1, <1>4
  <2> QED
    BY <1>1, <2>1
<1>5. \A i \in 1 .. Len(u) : i \in 1 .. Len(s) \/ i > Len(s)
  BY <1>1
<1>6. Complete(u, Len(u))
  BY <1>3, <1>4, <1>5 DEF Complete
<1> QED
  BY <1>6 DEF u

LEMMA FrontElements ==
  ASSUME NEW S, NEW s \in Seq(S), s # <<>>
  PROVE  /\ Front(s) \in Seq(S) /\ Len(Front(s)) = Len(s) - 1 /\ Len(s) \in Nat \ {0}
         /\ \A j \in 1 .. Len(s) - 1 : Front(s)[j] = s[j]
<1>1. Len(s) \in Nat \ {0} /\ Front(s) = SubSeq(s, 1, Len(s) - 1)
  BY DEF Front
<1>2. Len(s) - 1 \in Int /\ \A i \in 1 .. Len(s) - 1 : s[i] \in S
  BY <1>1
<1>3. /\ Front(s) \in Seq(S)
      /\ Len(Front(s)) = IF 1 <= Len(s) - 1 THEN Len(s) - 1 - 1 + 1 ELSE 0
      /\ \A i \in 1 .. Len(s) - 1 - 1 + 1 : Front(s)[i] = s[1 + i - 1]
  BY <1>1, <1>2, SubSeqProperties
<1>4. \A j \in 1 .. Len(s) - 1 : Front(s)[j] = s[j]
  BY <1>1, <1>3
<1> DEFINE l == Len(Front(s))
           k == Len(s)
<1>5. k \in Nat \ {0} /\ l = IF 1 <= k - 1 THEN k - 1 - 1 + 1 ELSE 0
  BY <1>1, <1>3
<1> HIDE DEF l, k
<1>6. l = k - 1
  BY <1>5
<1> QED
  BY <1>1, <1>3, <1>4, <1>6 DEF l, k

\* A failed reply at the end may be taken off: it answers nothing.
LEMMA CompleteFront ==
  ASSUME NEW s \in Seq(Message), s # <<>>, s[Len(s)].role = "assistant", Complete(s, Len(s))
  PROVE  Complete(Front(s), Len(Front(s)))
<1> DEFINE t == Front(s)
<1>1. /\ t \in Seq(Message) /\ Len(t) = Len(s) - 1 /\ Len(s) \in Nat \ {0}
      /\ \A j \in 1 .. Len(s) - 1 : t[j] = s[j]
  BY FrontElements
<1> HIDE DEF t
<1> SUFFICES ASSUME NEW i \in 1 .. Len(s) - 1, Done(t[i]) PROVE Answered(t, i)
  BY <1>1 DEF Complete, t
<1>2. i \in 1 .. Len(s) /\ t[i] = s[i] /\ s[i] \in Message
  BY <1>1
<1>3. s[i].n \in Nat
  BY <1>2 DEF Message
<1>4. Answered(s, i)
  BY <1>2 DEF Complete
<1>5. i + s[i].n <= Len(s) - 1
  <2>1. ASSUME i + s[i].n = Len(s) PROVE FALSE
    <3>1. Len(s) \in i + 1 .. i + s[i].n
      BY <1>1, <1>2, <1>3, <2>1
    <3>2. s[Len(s)] \in {Result(<<s[i].id, k>>) : k \in 1 .. s[i].n}
      BY <1>4, <3>1 DEF Answered
    <3> QED
      BY <3>2 DEF Result
  <2> QED
    BY <1>1, <1>3, <1>4, <2>1 DEF Answered
<1>6. \A j \in i + 1 .. i + s[i].n : t[j] = s[j]
  <2>1. \A j \in i + 1 .. i + s[i].n : j \in 1 .. Len(s) - 1
    BY <1>1, <1>2, <1>3, <1>5
  <2> QED
    BY <1>1, <2>1
<1>7. {t[j] : j \in i + 1 .. i + s[i].n} = {s[j] : j \in i + 1 .. i + s[i].n}
  BY <1>6
<1>8. {t[j] : j \in i + 1 .. i + s[i].n} = {Result(<<s[i].id, k>>) : k \in 1 .. s[i].n}
  BY <1>4, <1>7 DEF Answered
<1> QED
  BY <1>1, <1>2, <1>5, <1>8 DEF Answered

LEMMA AppendElement ==
  ASSUME NEW S, NEW q \in Seq(S), NEW c \in S
  PROVE  ToSet(Append(q, c)) = ToSet(q) \cup {c} /\ Len(Append(q, c)) = Len(q) + 1
<1> DEFINE a == Append(q, c)
<1>1. /\ Len(a) = Len(q) + 1 /\ a \in Seq(S) /\ a[Len(q) + 1] = c
      /\ \A i \in 1 .. Len(q) : a[i] = q[i]
  OBVIOUS
<1> HIDE DEF a
<1>2. ToSet(q) = {q[i] : i \in 1 .. Len(q)} /\ ToSet(a) = {a[i] : i \in 1 .. Len(q) + 1}
  BY <1>1 DEF ToSet
<1>3. \A i \in 1 .. Len(q) + 1 : i \in 1 .. Len(q) \/ i = Len(q) + 1
  OBVIOUS
<1>4. Len(q) + 1 \in 1 .. Len(q) + 1 /\ \A i \in 1 .. Len(q) : i \in 1 .. Len(q) + 1
  OBVIOUS
<1>5. ToSet(q) \subseteq ToSet(a)
  BY <1>1, <1>2, <1>4
<1>6. c \in ToSet(a)
  BY <1>1, <1>2, <1>4
<1>7. ASSUME NEW x \in ToSet(a) PROVE x \in ToSet(q) \cup {c}
  BY <1>1, <1>2, <1>3
<1> QED
  BY <1>1, <1>5, <1>6, <1>7 DEF a

LEMMA InitRequests == Init => RequestsInv
BY DEF Init, RequestsInv, Complete, Settled

\* A step that changes neither the context nor, in a batch, the batch.
LEMMA QuietRequests ==
  ASSUME RequestsInv, UNCHANGED <<context, faults>>,
         \/ pc' = pc /\ UNCHANGED <<messages, todo, prepared, running, results>>
         \/ {pc, pc'} \subseteq Settled \cup {"prompts"}
  PROVE  RequestsInv'
<1>1. CASE pc' = pc /\ UNCHANGED <<messages, todo, prepared, running, results>>
  BY <1>1 DEF RequestsInv, BatchWhole, Owed
<1>2. CASE {pc, pc'} \subseteq Settled \cup {"prompts"}
  BY <1>2 DEF RequestsInv, Settled
<1> QED
  BY <1>1, <1>2

\* A new context that is complete.
LEMMA NewContext ==
  ASSUME pc' \in Settled \cup {"prompts"}, faults' = 0 => Complete(context', Len(context'))
  PROVE  RequestsInv'
BY DEF RequestsInv, Settled

LEMMA StartRequests ==
  ASSUME TypeInv, RequestsInv, NEW ms \in Seq(Ids), NEW skipPoll, StartRun(ms, skipPoll)
  PROVE  RequestsInv'
<1>1. messages \in Seq(Message) /\ Users(ms) \in Seq(Message) /\ Len(Users(ms)) = Len(ms)
  BY UsersType DEF TypeInv, TypeOK
<1>2. \A j \in 1 .. Len(ms) : ~ Done(Users(ms)[j])
  BY DEF Users, User, Done
<1>3. /\ pc = "idle" /\ pc' = "prompts" /\ context' = messages \o Users(ms) /\ faults' = faults
  BY DEF StartRun, bounds
<1>4. faults = 0 => Complete(messages, Len(messages))
  BY <1>3 DEF RequestsInv
<1>5. faults = 0 => Complete(context', Len(context'))
  BY <1>1, <1>2, <1>3, <1>4, CompleteConcat
<1> QED
  BY <1>3, <1>5, NewContext

\* A reply is complete, or it opens a batch that owes all its results.
LEMMA ReplyRequests ==
  ASSUME TypeInv, CallsInv, RequestsInv, NEW n \in 0 .. MaxCalls,
         NEW stop \in {"done", "error", "aborted"}, ReplyEnds(n, stop)
  PROVE  RequestsInv'
<1> DEFINE e == Reply(replies + 1, n, stop)
           calls == [k \in 1 .. n |-> <<replies + 1, k>>]
<1>1. n \in Nat /\ replies + 1 \in Nat /\ context \in Seq(Message)
  BY BoundAssumption DEF TypeInv, TypeOK
<1>2. e \in Message /\ e.n = n /\ e.id = replies + 1 /\ e.stop = stop
  BY <1>1, MessageType DEF Reply
<1>3. /\ pc = "stream" /\ context' = Append(context, e) /\ faults' = faults /\ results' = <<>>
      /\ todo' = IF stop = "done" THEN calls ELSE <<>>
      /\ pc' \in {"agentEnd", "tools", "turnEnd"}
      /\ pc' = "tools" => stop = "done"
      /\ pc' # "tools" => stop # "done" \/ n = 0
      /\ UNCHANGED <<prepared, running>>
  BY <1>1 DEF ReplyEnds
<1>4. calls \in Seq(Calls) /\ Len(calls) = n
  BY <1>1 DEF Calls
<1>5. ToSet(calls) = {<<replies + 1, k>> : k \in 1 .. n}
  BY <1>1 DEF ToSet
<1> HIDE DEF e, calls
<1>6. /\ context' \in Seq(Message) /\ Len(context') = Len(context) + 1 /\ context' # <<>>
      /\ context'[Len(context')] = e
  BY <1>1, <1>2, <1>3
<1>7. faults = 0 => Complete(context, Len(context))
  BY <1>3 DEF RequestsInv, Settled
<1>8. CASE pc' # "tools"
  <2>1. ~ Done(e) \/ e.n = 0
    BY <1>2, <1>3, <1>8 DEF Done
  <2>2. faults = 0 => Complete(context', Len(context'))
    BY <1>1, <1>2, <1>3, <1>6, <1>7, <2>1, CompleteAppend
  <2> QED
    BY <1>3, <1>8, <2>2, NewContext DEF Settled
<1>9. CASE pc' = "tools"
  <2>1. faults = 0 => Complete(context', Len(context') - 1)
    BY <1>1, <1>2, <1>3, <1>6, <1>7, CompleteAppend
  <2>2. prepared = <<>> /\ running = <<>>
    BY <1>3 DEF CallsInv, BatchInv
  <2>3. ToSet(results') = {} /\ ToSet(prepared') = {} /\ ToSet(running') = {} /\ todo' = calls
    BY <1>3, <1>9, <2>2, EmptySet
  <2>4. Owed' = ResultsOf(e)
    <3>1. Owed' = {Result(c) : c \in {<<replies + 1, k>> : k \in 1 .. n}}
      BY <1>5, <2>3 DEF Owed
    <3>2. ResultsOf(e) = {Result(<<replies + 1, k>>) : k \in 1 .. n}
      BY <1>2 DEF ResultsOf
    <3> QED
      BY <3>1, <3>2
  <2>5. Len(results') = 0 /\ Len(todo') = n /\ Len(prepared') = 0 /\ Len(running') = 0
    BY <1>3, <1>4, <2>2, <2>3
  <2>6. BatchWhole'
    BY <1>1, <1>2, <1>6, <2>3, <2>4, <2>5 DEF BatchWhole
  <2> QED
    BY <1>3, <1>9, <2>1, <2>6 DEF RequestsInv, Settled
<1> QED
  BY <1>8, <1>9

\* A batch passes its calls on, and turns each into its result.
LEMMA BatchRequests ==
  ASSUME TypeInv, CallsInv, RequestsInv,
         PrepareCall \/ RefuseCall \/ LaunchCalls \/ FinalizeCall
  PROVE  RequestsInv'
<1>1. /\ todo \in Seq(Calls) /\ prepared \in Seq(Calls) /\ running \in Seq(Calls)
      /\ results \in Seq(Message) /\ context \in Seq(Message)
      /\ Distinct(todo) /\ Distinct(prepared) /\ Distinct(running)
      /\ ToSet(todo) \cap (ToSet(prepared) \cup ToSet(running)) = {}
  BY DEF TypeInv, TypeOK, CallsInv, BatchInv
<1>2. pc = "tools" /\ pc' = "tools" /\ UNCHANGED <<context, faults>>
  BY DEF PrepareCall, RefuseCall, LaunchCalls, FinalizeCall, Preparing, bounds
<1> DEFINE all == ToSet(todo) \cup ToSet(prepared) \cup ToSet(running)
           size == Len(results) + Len(todo) + Len(prepared) + Len(running)
<1>3. SUFFICES ToSet(results') \cup Owed' = ToSet(results) \cup Owed /\ size' = size
  BY <1>2 DEF RequestsInv, BatchWhole, Settled
<1>4. ASSUME NEW q \in Seq(Calls), q # <<>>, Distinct(q)
      PROVE  /\ Head(q) \in Calls /\ Head(q) \in ToSet(q)
             /\ ToSet(Tail(q)) = ToSet(q) \ {Head(q)} /\ Len(Tail(q)) = Len(q) - 1
  <2>1. Head(q) \in Calls /\ Len(Tail(q)) = Len(q) - 1
    BY <1>4
  <2> QED
    BY <1>4, <2>1, TailSet
<1>5. ASSUME NEW c \in Calls
      PROVE  /\ ToSet(Append(results, Result(c))) = ToSet(results) \cup {Result(c)}
             /\ Len(Append(results, Result(c))) = Len(results) + 1
  <2>1. Result(c) \in Message
    BY MessageType
  <2> QED
    BY <1>1, <2>1, AppendElement
<1>6. CASE PrepareCall
  <2>1. /\ todo # <<>> /\ prepared' = Append(prepared, Head(todo)) /\ todo' = Tail(todo)
        /\ UNCHANGED <<running, results>>
    BY <1>6 DEF PrepareCall, Preparing
  <2>2. /\ Head(todo) \in Calls /\ Head(todo) \in ToSet(todo)
        /\ ToSet(todo') = ToSet(todo) \ {Head(todo)} /\ Len(todo') = Len(todo) - 1
    BY <1>1, <1>4, <2>1
  <2>3. ToSet(prepared') = ToSet(prepared) \cup {Head(todo)} /\ Len(prepared') = Len(prepared) + 1
    BY <1>1, <2>1, <2>2, AppendElement
  <2>4. all' = all
    BY <2>1, <2>2, <2>3
  <2>5. Owed' = Owed
    BY <2>4 DEF Owed
  <2> QED
    BY <1>1, <2>1, <2>2, <2>3, <2>5
<1>7. CASE LaunchCalls
  <2>1. running = <<>>
    BY <1>7 DEF LaunchCalls, CallsInv, BatchInv
  <2>2. running' = prepared /\ prepared' = <<>> /\ UNCHANGED <<todo, results>>
    BY <1>7 DEF LaunchCalls
  <2>3. ToSet(running) = {} /\ ToSet(prepared') = {}
    BY <2>1, <2>2, EmptySet
  <2>4. Owed' = Owed
    BY <2>2, <2>3 DEF Owed
  <2> QED
    BY <1>1, <2>1, <2>2, <2>4
<1>8. ASSUME NEW c \in all, results' = Append(results, Result(c)), all' = all \ {c}
      PROVE  ToSet(results') \cup Owed' = ToSet(results) \cup Owed
  <2>1. c \in Calls
    BY <1>1 DEF ToSet
  <2>2. ToSet(results') = ToSet(results) \cup {Result(c)}
    BY <1>5, <1>8, <2>1
  <2>3. Owed = {Result(d) : d \in all} /\ Owed' = {Result(d) : d \in all'}
    BY DEF Owed
  <2> HIDE DEF all
  <2>4. Owed = {Result(d) : d \in all'} \cup {Result(c)}
    BY <1>8, <2>3
  <2> QED
    BY <2>2, <2>3, <2>4
<1>9. CASE RefuseCall
  <2>1. /\ todo # <<>> /\ todo' = Tail(todo) /\ results' = Append(results, Result(Head(todo)))
        /\ UNCHANGED <<prepared, running>>
    BY <1>9 DEF RefuseCall, Preparing
  <2>2. /\ Head(todo) \in Calls /\ Head(todo) \in ToSet(todo)
        /\ ToSet(todo') = ToSet(todo) \ {Head(todo)} /\ Len(todo') = Len(todo) - 1
    BY <1>1, <1>4, <2>1
  <2>3. Head(todo) \in all /\ all' = all \ {Head(todo)}
    BY <1>1, <2>1, <2>2
  <2>4. Len(results') = Len(results) + 1
    BY <1>5, <2>1, <2>2
  <2>5. size' = size
    BY <1>1, <2>1, <2>2, <2>4
  <2> QED
    BY <1>8, <2>1, <2>3, <2>5
<1>10. CASE FinalizeCall
  <2>1. /\ running # <<>> /\ running' = Tail(running)
        /\ results' = Append(results, Result(Head(running)))
        /\ UNCHANGED <<prepared, todo>> /\ prepared = <<>>
    BY <1>10 DEF FinalizeCall, CallsInv, BatchInv
  <2>2. /\ Head(running) \in Calls /\ Head(running) \in ToSet(running)
        /\ ToSet(running') = ToSet(running) \ {Head(running)} /\ Len(running') = Len(running) - 1
    BY <1>1, <1>4, <2>1
  <2>3. ToSet(prepared) = {}
    BY <2>1, EmptySet
  <2>4. Head(running) \in all /\ all' = all \ {Head(running)}
    BY <1>1, <2>1, <2>2, <2>3
  <2>5. Len(results') = Len(results) + 1
    BY <1>5, <2>1, <2>2
  <2>6. size' = size
    BY <1>1, <2>1, <2>2, <2>5
  <2> QED
    BY <1>8, <2>1, <2>4, <2>6
<1> QED
  BY <1>6, <1>7, <1>9, <1>10

\* A batch that has nothing left to run owes nothing: its results answer the reply.
LEMMA DoneRequests ==
  ASSUME TypeInv, RequestsInv, BatchDone
  PROVE  RequestsInv'
<1>1. /\ pc = "tools" /\ pc' = "turnEnd" /\ context' = context \o results /\ faults' = faults
      /\ todo = <<>> /\ prepared = <<>> /\ running = <<>>
  BY DEF BatchDone, bounds
<1>2. context \in Seq(Message) /\ results \in Seq(Message)
  BY DEF TypeInv, TypeOK
<1>3. ASSUME faults = 0 PROVE Complete(context', Len(context'))
  <2>1. Complete(context, Len(context) - 1) /\ BatchWhole
    BY <1>1, <1>3 DEF RequestsInv
  <2>2. ToSet(todo) = {} /\ ToSet(prepared) = {} /\ ToSet(running) = {}
    BY <1>1, EmptySet
  <2>3. Owed = {}
    BY <2>2 DEF Owed
  <2>4. /\ context # <<>> /\ Len(results) = context[Len(context)].n
        /\ ToSet(results) = ResultsOf(context[Len(context)])
    BY <1>1, <1>2, <2>1, <2>3 DEF BatchWhole
  <2>5. \A j \in 1 .. Len(results) : ~ Done(results[j])
    <3>1. \A j \in 1 .. Len(results) : results[j] \in ToSet(results)
      BY <1>2 DEF ToSet
    <3>2. \A m \in ToSet(results) : m.role = "toolResult"
      BY <2>4 DEF ResultsOf, Result
    <3> QED
      BY <3>1, <3>2 DEF Done
  <2> QED
    BY <1>1, <1>2, <2>1, <2>4, <2>5, CompleteConcat
<1> QED
  BY <1>1, <1>3, NewContext DEF Settled

LEMMA NextRequests ==
  TypeInv /\ TranscriptInv /\ CallsInv /\ RequestsInv /\ [Next]_vars => RequestsInv'
<1> SUFFICES ASSUME TypeInv, TranscriptInv, CallsInv, RequestsInv, [Next]_vars
             PROVE  RequestsInv'
  OBVIOUS
<1>1. CASE UNCHANGED vars
  BY <1>1, QuietRequests DEF vars, loop, batch, bounds
<1>2. CASE Steer \/ FollowUp \/ ClearQueues \/ ReplyStarts \/ Abort \/ CallStarts
           \/ \E c \in executing : ToolReturns(c)
  <2>1. pc' = pc /\ UNCHANGED <<context, faults, messages, todo, prepared, running, results>>
    BY <1>2 DEF Steer, FollowUp, ClearQueues, ReplyStarts, Abort, CallStarts, ToolReturns,
                loop, batch, bounds
  <2> QED
    BY <2>1, QuietRequests
<1>3. CASE Prompt \/ ContinueSteering \/ ContinueFollowUps
  <2>1. ASSUME Prompt PROVE RequestsInv'
    <3>1. <<New>> \in Seq(Ids)
      BY <2>1, AcceptType DEF Prompt
    <3> QED
      BY <2>1, <3>1, StartRequests DEF Prompt
  <2>2. ASSUME NEW mode
        PROVE  Drained(steering, mode) \in Seq(Ids) /\ Drained(followUp, mode) \in Seq(Ids)
    BY DrainType DEF TypeInv, TypeOK
  <2> QED
    BY <1>3, <2>1, <2>2, StartRequests DEF ContinueSteering, ContinueFollowUps
<1>4. CASE ContinueTranscript
  <2>1. /\ pc = "idle" /\ pc' = "poll" /\ context' = messages /\ faults' = faults
    BY <1>4 DEF ContinueTranscript, bounds
  <2> QED
    BY <2>1, NewContext DEF RequestsInv, Settled
<1>5. CASE PromptEmitted \/ InitialPoll \/ RequestReply \/ PollSteering \/ PollFollowUps
  <2>1. /\ {pc, pc'} \subseteq Settled \cup {"prompts"} /\ UNCHANGED <<context, faults>>
    BY <1>5 DEF PromptEmitted, InitialPoll, RequestReply, PollSteering, PollFollowUps, Settled, bounds
  <2> QED
    BY <2>1, QuietRequests
<1>6. CASE Inject
  <2>1. /\ pc = "turn" /\ pc' = "turn" /\ faults' = faults /\ pending # <<>>
        /\ context' = Append(context, User(Head(pending)))
    BY <1>6 DEF Inject, bounds
  <2>2. context \in Seq(Message) /\ User(Head(pending)) \in Message
    BY <2>1, MessageType DEF TypeInv, TypeOK
  <2>3. ~ Done(User(Head(pending)))
    BY DEF Done, User
  <2>4. Len(context') = Len(context) + 1
    BY <2>1, <2>2
  <2>5. faults = 0 => Complete(context, Len(context))
    BY <2>1 DEF RequestsInv, Settled
  <2>6. faults = 0 => Complete(context', Len(context'))
    BY <2>1, <2>2, <2>3, <2>4, <2>5, CompleteAppend
  <2> QED
    BY <2>1, <2>6, NewContext DEF Settled
<1>7. CASE FinishRun
  <2>1. /\ pc \in {"agentEnd", "failEnd"} /\ pc' = "idle" /\ UNCHANGED <<messages, faults>>
    BY <1>7 DEF FinishRun, bounds
  <2>2. pc = "failEnd" => faults > 0
    BY DEF CallsInv, ExecutingInv
  <2>3. pc = "agentEnd" => messages = context
    BY DEF TranscriptInv, Settled
  <2> QED
    BY <2>1, <2>2, <2>3 DEF RequestsInv, Settled
<1>8. CASE LoopThrows
  <2>1. faults' # 0
    BY <1>8 DEF LoopThrows, TypeInv, TypeOK
  <2> QED
    BY <2>1 DEF RequestsInv
<1>9. CASE HandleRunFailure
  <2>1. faults' # 0
    BY <1>9 DEF HandleRunFailure, CallsInv, ExecutingInv, bounds
  <2> QED
    BY <2>1 DEF RequestsInv
<1>10. CASE Reset
  <2>1. pc' = "idle" /\ messages' = <<>>
    BY <1>10 DEF Reset, loop
  <2>2. Complete(<<>>, Len(<<>>))
    BY DEF Complete
  <2> QED
    BY <2>1, <2>2 DEF RequestsInv, Settled
<1>11. CASE DropFailure
  <2>1. /\ pc = "idle" /\ pc' = "idle" /\ messages # <<>> /\ Last(messages).role = "assistant"
        /\ messages' = Front(messages) /\ faults' = faults
    BY <1>11 DEF DropFailure, LastIs, loop, bounds
  <2>2. messages \in Seq(Message) /\ messages[Len(messages)].role = "assistant"
    BY <2>1 DEF TypeInv, TypeOK, Last
  <2>3. faults = 0 => Complete(messages, Len(messages))
    BY <2>1 DEF RequestsInv
  <2>4. faults = 0 => Complete(messages', Len(messages'))
    BY <2>1, <2>2, <2>3, CompleteFront
  <2> QED
    BY <2>1, <2>4 DEF RequestsInv, Settled
<1> QED
  BY <1>1, <1>2, <1>3, <1>4, <1>5, <1>6, <1>7, <1>8, <1>9, <1>10, <1>11, ReplyRequests,
     BatchRequests, DoneRequests DEF Next, LoopStep

\* Unless a run was cut short, whenever a reply is requested every reply in the request
\* that calls tools is followed by the result of each of its calls.
THEOREM RequestsAreComplete == Spec => []RequestsComplete
<1>1. TypeInv /\ RequestsInv => RequestsComplete
  <2> SUFFICES ASSUME TypeInv, RequestsInv, pc = "stream", faults = 0,
                      NEW i \in DOMAIN context, Done(context[i])
               PROVE  Answered(context, i)
    BY DEF RequestsComplete, Done
  <2>1. Complete(context, Len(context)) /\ i \in 1 .. Len(context)
    BY DEF RequestsInv, Settled, TypeInv, TypeOK
  <2> QED
    BY <2>1 DEF Complete
<1> QED
  BY <1>1, InitType, NextType, InitTranscript, NextTranscript, InitCalls, NextCalls,
     InitRequests, NextRequests, PTL DEF Spec

(***************************************************************************)
(* The order of delivery.  What was handed over in one way stands in its   *)
(* order: first what was delivered, then what the run has taken, then what *)
(* is queued.                                                              *)
(***************************************************************************)
Ordered(q) == \A i, j \in DOMAIN q : i < j => q[i] < q[j]
Behind(v, S, T) == \A m \in S, n \in T : v[m] = v[n] /\ v[m] # "prompt" => m < n

OrderInv ==
  /\ Ordered(steering) /\ Ordered(followUp) /\ Ordered(pending)
  /\ ToSet(steering) \subseteq ViaOf("steer") /\ ToSet(followUp) \subseteq ViaOf("followUp")
  /\ \A m, n \in Taken : via[m] = via[n]
  /\ Behind(via, Taken, Queued) /\ Behind(via, Arrived, Taken \cup Queued)
  /\ \A i, j \in DOMAIN delivered : i < j => Behind(via, {delivered[i].id}, {delivered[j].id})

LEMMA EmptyOrdered == Ordered(<<>>)
BY DEF Ordered

LEMMA OrderedAppend ==
  ASSUME NEW q \in Seq(Ids), NEW c \in Ids, Ordered(q), \A m \in ToSet(q) : m < c
  PROVE  Ordered(Append(q, c)) /\ ToSet(Append(q, c)) = ToSet(q) \cup {c}
<1> DEFINE a == Append(q, c)
<1>1. /\ Len(a) = Len(q) + 1 /\ DOMAIN a = 1 .. Len(q) + 1 /\ a[Len(q) + 1] = c
      /\ \A i \in 1 .. Len(q) : a[i] = q[i] /\ q[i] < c
  BY DEF ToSet
<1> HIDE DEF a
<1>2. ASSUME NEW i \in 1 .. Len(q) + 1, NEW j \in 1 .. Len(q) + 1, i < j PROVE a[i] < a[j]
  <2>1. i \in 1 .. Len(q)
    BY <1>2
  <2>2. CASE j = Len(q) + 1
    BY <1>1, <2>1, <2>2
  <2>3. CASE j \in 1 .. Len(q)
    BY <1>1, <1>2, <2>1, <2>3 DEF Ordered
  <2> QED
    BY <2>2, <2>3
<1>3. Ordered(a)
  BY <1>1, <1>2 DEF Ordered
<1> QED
  BY <1>3, AppendElement DEF a

LEMMA OrderedTail ==
  ASSUME NEW q \in Seq(Ids), q # <<>>, Ordered(q)
  PROVE  /\ Ordered(Tail(q)) /\ Tail(q) \in Seq(Ids)
         /\ Head(q) \in ToSet(q) /\ ToSet(Tail(q)) \subseteq ToSet(q)
         /\ \A m \in ToSet(Tail(q)) : Head(q) < m
<1>1. /\ Len(q) > 0 /\ Head(q) = q[1] /\ Tail(q) \in Seq(Ids) /\ Len(Tail(q)) = Len(q) - 1
      /\ \A i \in 1 .. Len(q) - 1 : Tail(q)[i] = q[i + 1]
  OBVIOUS
<1>2. \A i \in 1 .. Len(q) - 1 : i + 1 \in DOMAIN q /\ 1 < i + 1
  BY <1>1
<1>3. Ordered(Tail(q))
  BY <1>1, <1>2 DEF Ordered
<1>4. ASSUME NEW m \in ToSet(Tail(q)) PROVE m \in ToSet(q) /\ Head(q) < m
  <2>1. PICK i \in 1 .. Len(q) - 1 : m = q[i + 1]
    BY <1>1, <1>4 DEF ToSet
  <2>2. i + 1 \in DOMAIN q /\ 1 \in DOMAIN q /\ 1 < i + 1
    BY <1>1
  <2> QED
    BY <1>1, <2>1, <2>2 DEF Ordered, ToSet
<1> QED
  BY <1>1, <1>3, <1>4 DEF ToSet

LEMMA OrderedDrain ==
  ASSUME NEW q \in Seq(Ids), Ordered(q), NEW mode
  PROVE  /\ Ordered(Drained(q, mode)) /\ Ordered(Left(q, mode))
         /\ \A m \in ToSet(Drained(q, mode)), n \in ToSet(Left(q, mode)) : m < n
<1>1. CASE mode = "all" \/ q = <<>>
  BY <1>1, EmptySet, EmptyOrdered DEF Drained, Left
<1>2. CASE ~(mode = "all" \/ q = <<>>)
  <2>1. Drained(q, mode) = <<Head(q)>> /\ Left(q, mode) = Tail(q)
    BY <1>2 DEF Drained, Left
  <2>2. Ordered(<<Head(q)>>) /\ ToSet(<<Head(q)>>) = {Head(q)}
    BY OneSet DEF Ordered
  <2> QED
    BY <1>2, <2>1, <2>2, OrderedTail
<1> QED
  BY <1>1, <1>2

LEMMA InitOrder == Init => OrderInv
BY EmptySet, EmptyOrdered DEF Init, OrderInv, Taken, Queued, Arrived, Behind

LEMMA SameOrder ==
  ASSUME OrderInv, UNCHANGED <<queues, pending, via, delivered>>
  PROVE  OrderInv'
BY DEF OrderInv, Ordered, ViaOf, Taken, Queued, Arrived, Behind, queues

\* A queue, or what the run has taken, may be emptied.
LEMMA ClearOrder ==
  ASSUME OrderInv, UNCHANGED <<via, delivered>>,
         steering' \in {steering, <<>>}, followUp' \in {followUp, <<>>}, pending' \in {pending, <<>>}
  PROVE  OrderInv'
<1>1. /\ ToSet(steering') \subseteq ToSet(steering) /\ ToSet(followUp') \subseteq ToSet(followUp)
      /\ Taken' \subseteq Taken /\ Ordered(steering') /\ Ordered(followUp') /\ Ordered(pending')
  BY EmptySet, EmptyOrdered DEF OrderInv, Taken
<1>2. Queued' \subseteq Queued /\ Arrived' = Arrived
  BY <1>1 DEF Queued, Arrived
<1>3. /\ Behind(via, Taken', Queued') /\ Behind(via, Arrived', Taken' \cup Queued')
      /\ \A m, n \in Taken' : via[m] = via[n]
  BY <1>1, <1>2 DEF OrderInv, Behind
<1> QED
  BY <1>1, <1>3 DEF OrderInv, ViaOf, Ordered

\* What a message that is handed over finds.
LEMMA AcceptOrder ==
  ASSUME TypeInv, MailInv, NEW kind \in {"prompt", "steer", "followUp"}, Accept(kind)
  PROVE  /\ New \in Ids /\ DOMAIN via' = DOMAIN via \cup {New} /\ via'[New] = kind
         /\ \A m \in Queued \cup Taken \cup Arrived :
              m \in DOMAIN via /\ via'[m] = via[m] /\ m < New
         /\ \A k \in {"steer", "followUp"} : ViaOf(k) \subseteq ViaOf(k)'
<1>1. /\ DOMAIN via = 1 .. Len(via) /\ Len(via) \in Nat /\ New = Len(via) + 1
      /\ via' = Append(via, kind)
  BY DEF TypeInv, TypeOK, Accept, New
<1>2. /\ \A m \in DOMAIN via : via'[m] = via[m] /\ m < New
      /\ via'[New] = kind /\ DOMAIN via' = DOMAIN via \cup {New}
  BY <1>1 DEF TypeInv, TypeOK
<1>3. \A k \in {"steer", "followUp"} : ViaOf(k) \subseteq ViaOf(k)'
  BY <1>2 DEF ViaOf
<1> QED
  BY <1>2, <1>3, AcceptType DEF MailInv, Places

LEMMA QueueKeepsOrder ==
  ASSUME TypeInv, MailInv, OrderInv, Steer \/ FollowUp
  PROVE  OrderInv'
<1>1. PICK kind \in {"steer", "followUp"} :
        /\ Accept(kind) /\ UNCHANGED <<pending, delivered>>
        /\ steering' = IF kind = "steer" THEN Append(steering, New) ELSE steering
        /\ followUp' = IF kind = "followUp" THEN Append(followUp, New) ELSE followUp
  BY DEF Steer, FollowUp, loop
<1>2. /\ New \in Ids /\ via'[New] = kind /\ DOMAIN via' = DOMAIN via \cup {New}
      /\ \A m \in Queued \cup Taken \cup Arrived :
           m \in DOMAIN via /\ via'[m] = via[m] /\ m < New
      /\ \A k \in {"steer", "followUp"} : ViaOf(k) \subseteq ViaOf(k)'
  BY <1>1, AcceptOrder
<1>3. steering \in Seq(Ids) /\ followUp \in Seq(Ids)
  BY DEF TypeInv, TypeOK
<1>4. /\ Ordered(steering') /\ Ordered(followUp')
      /\ ToSet(steering') = IF kind = "steer" THEN ToSet(steering) \cup {New} ELSE ToSet(steering)
      /\ ToSet(followUp') = IF kind = "followUp" THEN ToSet(followUp) \cup {New} ELSE ToSet(followUp)
  <2>1. \A m \in ToSet(steering) \cup ToSet(followUp) : m < New
    BY <1>2 DEF Queued
  <2> QED
    BY <1>1, <1>2, <1>3, <2>1, OrderedAppend DEF OrderInv
<1>5. Taken' = Taken /\ Arrived' = Arrived /\ Queued' = Queued \cup {New}
  BY <1>1, <1>4 DEF Taken, Arrived, Queued
<1>6. New \in ViaOf(kind)'
  BY <1>2 DEF ViaOf
<1>7. /\ ToSet(steering') \subseteq ViaOf("steer")' /\ ToSet(followUp') \subseteq ViaOf("followUp")'
      /\ Ordered(pending')
  <2>1. Ordered(pending')
    BY <1>1 DEF OrderInv
  <2>2. CASE kind = "steer"
    BY <1>2, <1>4, <1>6, <2>1, <2>2 DEF OrderInv
  <2>3. CASE kind = "followUp"
    BY <1>2, <1>4, <1>6, <2>1, <2>3 DEF OrderInv
  <2> QED
    BY <2>2, <2>3
<1>8. /\ Behind(via', Taken', Queued') /\ Behind(via', Arrived', Taken' \cup Queued')
      /\ \A m, n \in Taken' : via'[m] = via'[n]
  BY <1>2, <1>5 DEF OrderInv, Behind
<1>9. ASSUME NEW i \in DOMAIN delivered, NEW j \in DOMAIN delivered, i < j
      PROVE  Behind(via', {delivered[i].id}, {delivered[j].id})
  <2>1. delivered[i].id \in Arrived /\ delivered[j].id \in Arrived
    BY DEF Arrived
  <2> QED
    BY <1>2, <1>9, <2>1 DEF OrderInv, Behind
<1> QED
  BY <1>1, <1>4, <1>7, <1>8, <1>9 DEF OrderInv

LEMMA PromptOrder ==
  ASSUME TypeInv, MailInv, OrderInv, Prompt
  PROVE  OrderInv'
<1>1. /\ Accept("prompt") /\ pending = <<>> /\ pending' = <<New>>
      /\ UNCHANGED <<steering, followUp, delivered>>
  BY DEF Prompt, StartRun, queues, MailInv, TakenInv
<1>2. /\ New \in Ids /\ via'[New] = "prompt"
      /\ \A m \in Queued \cup Taken \cup Arrived :
           m \in DOMAIN via /\ via'[m] = via[m] /\ m < New
      /\ \A k \in {"steer", "followUp"} : ViaOf(k) \subseteq ViaOf(k)'
  BY <1>1, AcceptOrder
<1>3. Taken' = {New} /\ Arrived' = Arrived /\ Queued' = Queued /\ Ordered(pending')
  BY <1>1, OneSet DEF Taken, Arrived, Queued, Ordered
<1>4. /\ Behind(via', Taken', Queued') /\ Behind(via', Arrived', Taken' \cup Queued')
      /\ \A m, n \in Taken' : via'[m] = via'[n]
  BY <1>2, <1>3 DEF OrderInv, Behind
<1>5. ASSUME NEW i \in DOMAIN delivered, NEW j \in DOMAIN delivered, i < j
      PROVE  Behind(via', {delivered[i].id}, {delivered[j].id})
  <2>1. delivered[i].id \in Arrived /\ delivered[j].id \in Arrived
    BY DEF Arrived
  <2> QED
    BY <1>2, <1>5, <2>1 DEF OrderInv, Behind
<1> QED
  BY <1>1, <1>2, <1>3, <1>4, <1>5 DEF OrderInv

\* A run that holds nothing drains one of the queues.
LEMMA TakeOrder ==
  ASSUME TypeInv, MailInv, OrderInv, pending = <<>>, UNCHANGED <<via, delivered>>, NEW mode,
         \/ /\ pending' = Drained(steering, mode) /\ steering' = Left(steering, mode)
            /\ UNCHANGED followUp
         \/ /\ pending' = Drained(followUp, mode) /\ followUp' = Left(followUp, mode)
            /\ UNCHANGED steering
  PROVE  /\ OrderInv'
         /\ \A k \in {"steer", "followUp"} : Taken' \cap ViaOf(k) # {} => Taken' \subseteq ViaOf(k)
<1>1. PICK kind \in {"steer", "followUp"} :
        /\ pending' = Drained(IF kind = "steer" THEN steering ELSE followUp, mode)
        /\ steering' = IF kind = "steer" THEN Left(steering, mode) ELSE steering
        /\ followUp' = IF kind = "followUp" THEN Left(followUp, mode) ELSE followUp
  <2>1. CASE /\ pending' = Drained(steering, mode) /\ steering' = Left(steering, mode)
             /\ UNCHANGED followUp
    BY <2>1
  <2>2. CASE /\ pending' = Drained(followUp, mode) /\ followUp' = Left(followUp, mode)
             /\ UNCHANGED steering
    BY <2>2
  <2> QED
    BY <2>1, <2>2
<1> DEFINE q == IF kind = "steer" THEN steering ELSE followUp
           o == IF kind = "steer" THEN followUp ELSE steering
<1>2. /\ q \in Seq(Ids) /\ Ordered(q) /\ Distinct(q) /\ Ordered(o)
      /\ ToSet(q) \subseteq ViaOf(kind) /\ Queued = ToSet(q) \cup ToSet(o)
      /\ \A m \in ToSet(o) : via[m] # kind
  BY DEF TypeInv, TypeOK, OrderInv, MailInv, Places, ViaOf, Queued
<1>3. /\ Taken' = ToSet(Drained(q, mode)) /\ Queued' = ToSet(Left(q, mode)) \cup ToSet(o)
      /\ Arrived' = Arrived
  BY <1>1 DEF Taken, Queued, Arrived
<1>4. /\ Ordered(pending') /\ Ordered(steering') /\ Ordered(followUp')
  BY <1>1, <1>2, OrderedDrain
<1>5. /\ \A m \in ToSet(Drained(q, mode)), n \in ToSet(Left(q, mode)) : m < n
      /\ ToSet(Drained(q, mode)) \subseteq ToSet(q) /\ ToSet(Left(q, mode)) \subseteq ToSet(q)
  BY <1>2, OrderedDrain, DrainSets
<1>6. ToSet(steering') \subseteq ViaOf("steer") /\ ToSet(followUp') \subseteq ViaOf("followUp")
  BY <1>1, <1>5 DEF OrderInv
<1> HIDE DEF q, o
<1>7. \A m \in Taken' : m \in Queued /\ m \in DOMAIN via /\ via[m] = kind
  BY <1>2, <1>3, <1>5 DEF ViaOf
<1>8. Behind(via, Taken', Queued')
  BY <1>2, <1>3, <1>5, <1>7 DEF Behind
<1>9. Behind(via, Arrived', Taken' \cup Queued')
  <2>1. Queued' \subseteq Queued
    BY <1>2, <1>3, <1>5
  <2> QED
    BY <1>3, <1>7, <2>1 DEF OrderInv, Behind
<1>10. \A k \in {"steer", "followUp"} : Taken' \cap ViaOf(k) # {} => Taken' \subseteq ViaOf(k)
  BY <1>7 DEF ViaOf
<1> QED
  BY <1>4, <1>6, <1>7, <1>8, <1>9, <1>10 DEF OrderInv, ViaOf

LEMMA DeliverOrder ==
  ASSUME TypeInv, MailInv, OrderInv, pending # <<>>, Delivered(Head(pending)),
         pending' = Tail(pending), UNCHANGED <<queues, via>>
  PROVE  OrderInv'
<1> DEFINE e == [id |-> Head(pending), at |-> replies]
<1>1. /\ pending \in Seq(Ids) /\ delivered \in Seq([id: Ids, at: Nat]) /\ e \in [id: Ids, at: Nat]
      /\ delivered' = Append(delivered, e)
  BY DEF TypeInv, TypeOK, Delivered
<1>2. /\ Ordered(pending') /\ Head(pending) \in Taken /\ Taken' \subseteq Taken
      /\ \A m \in Taken' : Head(pending) < m
  BY <1>1, OrderedTail DEF OrderInv, Taken
<1>3. e.id = Head(pending)
  OBVIOUS
<1> HIDE DEF e
<1>4. /\ DOMAIN delivered' = 1 .. Len(delivered) + 1 /\ Len(delivered) \in Nat
      /\ DOMAIN delivered = 1 .. Len(delivered)
      /\ \A i \in DOMAIN delivered : delivered'[i] = delivered[i]
      /\ delivered'[Len(delivered) + 1] = e
  BY <1>1
<1>5. \A i \in DOMAIN delivered' : delivered'[i].id \in Arrived \/ delivered'[i].id = Head(pending)
  BY <1>3, <1>4 DEF Arrived
<1>6. Queued' = Queued /\ Arrived' \subseteq Arrived \cup {Head(pending)}
  BY <1>5 DEF Queued, Arrived, queues
<1>7. /\ Behind(via, Taken', Queued') /\ Behind(via, Arrived', Taken' \cup Queued')
      /\ \A m, n \in Taken' : via[m] = via[n]
  BY <1>2, <1>6 DEF OrderInv, Behind
<1>8. ASSUME NEW i \in DOMAIN delivered', NEW j \in DOMAIN delivered', i < j
      PROVE  Behind(via, {delivered'[i].id}, {delivered'[j].id})
  <2>1. i \in DOMAIN delivered /\ delivered'[i] = delivered[i] /\ delivered[i].id \in Arrived
    BY <1>4, <1>8 DEF Arrived
  <2>2. CASE j \in DOMAIN delivered
    BY <1>4, <1>8, <2>1, <2>2 DEF OrderInv
  <2>3. CASE j = Len(delivered) + 1
    BY <1>2, <1>3, <1>4, <2>1, <2>3 DEF OrderInv, Behind
  <2> QED
    BY <1>4, <2>2, <2>3
<1> QED
  BY <1>2, <1>7, <1>8 DEF OrderInv, ViaOf, queues

LEMMA NextOrder == TypeInv /\ MailInv /\ OrderInv /\ [Next]_vars => OrderInv'
<1> SUFFICES ASSUME TypeInv, MailInv, OrderInv, [Next]_vars PROVE OrderInv'
  OBVIOUS
<1>1. CASE UNCHANGED vars
  BY <1>1, SameOrder DEF vars, loop, history
<1>2. CASE ReplyStarts \/ Abort \/ DropFailure \/ CallStarts \/ \E c \in executing : ToolReturns(c)
  <2>1. UNCHANGED <<queues, pending, via, delivered>>
    BY <1>2 DEF ReplyStarts, Abort, DropFailure, CallStarts, ToolReturns, loop, history
  <2> QED
    BY <2>1, SameOrder
<1>3. CASE PrepareCall \/ RefuseCall \/ LaunchCalls \/ FinalizeCall \/ RequestReply \/ BatchDone
           \/ HandleRunFailure \/ ContinueTranscript \/ FinishRun
  <2>1. UNCHANGED <<queues, pending, via, delivered>>
    BY <1>3 DEF PrepareCall, RefuseCall, LaunchCalls, FinalizeCall, RequestReply, BatchDone,
                HandleRunFailure, ContinueTranscript, FinishRun, history
  <2> QED
    BY <2>1, SameOrder
<1>4. ASSUME NEW n \in 0 .. MaxCalls, NEW stop \in {"done", "error", "aborted"}, ReplyEnds(n, stop)
      PROVE  OrderInv'
  <2>1. UNCHANGED <<queues, pending, via, delivered>>
    BY <1>4 DEF ReplyEnds, history
  <2> QED
    BY <2>1, SameOrder
<1>5. CASE Steer \/ FollowUp
  BY <1>5, QueueKeepsOrder
<1>6. CASE Prompt
  BY <1>6, PromptOrder
<1>7. CASE ClearQueues \/ Reset \/ LoopThrows
  <2>1. /\ UNCHANGED <<via, delivered>> /\ steering' \in {steering, <<>>}
        /\ followUp' \in {followUp, <<>>} /\ pending' \in {pending, <<>>}
    BY <1>7 DEF ClearQueues, Reset, LoopThrows, loop, queues, history
  <2> QED
    BY <2>1, ClearOrder
<1>8. CASE PromptEmitted \/ Inject
  <2>1. /\ pending # <<>> /\ Delivered(Head(pending)) /\ pending' = Tail(pending)
        /\ UNCHANGED <<queues, via>>
    BY <1>8 DEF PromptEmitted, Inject, TypeInv, PromptsLeft
  <2> QED
    BY <2>1, DeliverOrder
<1>9. CASE InitialPoll
  <2>1. pending = <<>>
    BY <1>9 DEF InitialPoll, MailInv, TakenInv
  <2>2. CASE skip
    <3>1. UNCHANGED <<queues, pending, via, delivered>>
      BY <1>9, <2>2 DEF InitialPoll, queues, history
    <3> QED
      BY <3>1, SameOrder
  <2>3. CASE ~skip
    BY <1>9, <2>1, <2>3, TakeOrder DEF InitialPoll, history
  <2> QED
    BY <2>2, <2>3
<1>10. CASE PollSteering \/ PollFollowUps \/ ContinueSteering \/ ContinueFollowUps
  <2>1. pending = <<>>
    BY <1>10 DEF PollSteering, PollFollowUps, ContinueSteering, ContinueFollowUps, StartRun,
                 MailInv, TakenInv
  <2>2. CASE PollSteering
    BY <2>1, <2>2, TakeOrder DEF PollSteering, history
  <2>3. CASE PollFollowUps
    BY <2>1, <2>3, TakeOrder DEF PollFollowUps, history
  <2>4. CASE ContinueSteering
    BY <2>1, <2>4, TakeOrder DEF ContinueSteering, StartRun
  <2>5. CASE ContinueFollowUps
    BY <2>1, <2>5, TakeOrder DEF ContinueFollowUps, StartRun
  <2> QED
    BY <1>10, <2>2, <2>3, <2>4, <2>5
<1> QED
  BY <1>1, <1>2, <1>3, <1>4, <1>5, <1>6, <1>7, <1>8, <1>9, <1>10 DEF Next, LoopStep

(***************************************************************************)
(* One message per reply.  `replies` numbers the reply that a message which *)
(* is delivered now waits for.                                             *)
(***************************************************************************)
Earlier(kind) == \A i \in DeliveredVia(kind) : delivered[i].at < replies
AllEarlier == \A i \in DOMAIN delivered : delivered[i].at < replies

Unanswered == {"prompts", "poll", "turn", "stream", "failed"}

TurnInv ==
  /\ \A i \in DOMAIN delivered : delivered[i].at <= replies
  /\ pc \notin Unanswered => AllEarlier
  /\ pc \in {"prompts", "poll"} /\ ~skip => Earlier("steer") /\ Taken \cap ViaOf("steer") = {}
  /\ \A kind \in {"steer", "followUp"} :
       ModeOf(kind) = "one-at-a-time" /\ Taken \cap ViaOf(kind) # {} =>
         Len(pending) = 1 /\ Earlier(kind)


LEMMA InitTurn == Init => TurnInv /\ OneAtATime
BY EmptySet DEF Init, TurnInv, OneAtATime, AllEarlier, Taken, ViaOf, DeliveredVia

\* A step that neither delivers nor takes nor answers.
LEMMA SameTurn ==
  ASSUME TurnInv, UNCHANGED <<options, pending, via, delivered, replies, skip>>,
         pc' \in Unanswered \/ pc \notin Unanswered,
         pc' \in {"prompts", "poll"} => pc \in {"prompts", "poll"}
  PROVE  TurnInv'
BY DEF TurnInv, AllEarlier, Earlier, Taken, ViaOf, DeliveredVia, ModeOf, Unanswered

LEMMA SameApart ==
  ASSUME OneAtATime, UNCHANGED <<options, via, delivered>>
  PROVE  OneAtATime'
BY DEF OneAtATime, DeliveredVia, ModeOf

\* What was handed over earlier keeps its way when another message is.
LEMMA AcceptTurn ==
  ASSUME TypeInv, MailInv, NEW kind \in {"prompt", "steer", "followUp"}, Accept(kind),
         UNCHANGED <<delivered, replies>>
  PROVE  \A k \in {"steer", "followUp"} :
           /\ DeliveredVia(k)' = DeliveredVia(k) /\ (Earlier(k) => Earlier(k)')
           /\ Taken \cap ViaOf(k)' = Taken \cap ViaOf(k)
<1>1. /\ New \in Ids /\ DOMAIN via' = DOMAIN via \cup {New} /\ via'[New] = kind
      /\ \A m \in Queued \cup Taken \cup Arrived :
           m \in DOMAIN via /\ via'[m] = via[m] /\ m < New
  BY AcceptOrder
<1>2. \A i \in DOMAIN delivered : via'[delivered[i].id] = via[delivered[i].id]
  BY <1>1 DEF Arrived
<1>3. \A k \in {"steer", "followUp"} : DeliveredVia(k)' = DeliveredVia(k)
  BY <1>2 DEF DeliveredVia
<1>4. \A k \in {"steer", "followUp"} : Taken \cap ViaOf(k)' = Taken \cap ViaOf(k)
  BY <1>1 DEF ViaOf
<1> QED
  BY <1>3, <1>4 DEF Earlier

LEMMA HandTurn ==
  ASSUME TypeInv, MailInv, TurnInv, OneAtATime, Steer \/ FollowUp \/ Prompt
  PROVE  TurnInv' /\ OneAtATime'
<1>1. PICK kind \in {"prompt", "steer", "followUp"} :
        Accept(kind) /\ UNCHANGED <<options, delivered, replies>> /\ (Prompt => kind = "prompt")
  <2>1. CASE Steer
    BY <2>1 DEF Steer, Prompt, StartRun, Accept, TypeInv, TypeOK
  <2>2. CASE FollowUp
    BY <2>2 DEF FollowUp, Prompt, StartRun, Accept, TypeInv, TypeOK
  <2>3. CASE Prompt
    BY <2>3 DEF Prompt, StartRun
  <2> QED
    BY <2>1, <2>2, <2>3
<1>2. \A k \in {"steer", "followUp"} :
        /\ DeliveredVia(k)' = DeliveredVia(k) /\ (Earlier(k) => Earlier(k)')
        /\ Taken \cap ViaOf(k)' = Taken \cap ViaOf(k)
  BY <1>1, AcceptTurn
<1>3. OneAtATime'
  BY <1>1, <1>2 DEF OneAtATime, ModeOf
<1>4. CASE Steer \/ FollowUp
  <2>1. UNCHANGED <<pc, pending, skip>> /\ Taken' = Taken
    BY <1>4 DEF Steer, FollowUp, loop, Taken
  <2> QED
    BY <1>1, <1>2, <1>3, <2>1 DEF TurnInv, AllEarlier, ModeOf
<1>5. CASE Prompt
  <2>1. pc = "idle" /\ pc' = "prompts" /\ pending' = <<New>> /\ Accept("prompt")
    BY <1>5 DEF Prompt, StartRun
  <2>2. New \in Ids /\ via'[New] = "prompt" /\ Taken' = {New}
    BY <2>1, AcceptOrder, OneSet DEF Taken
  <2>3. Taken' \cap ViaOf("steer")' = {} /\ Taken' \cap ViaOf("followUp")' = {}
    BY <2>2 DEF ViaOf
  <2>4. AllEarlier
    BY <2>1 DEF TurnInv, Unanswered
  <2>5. Earlier("steer")
    BY <2>4 DEF AllEarlier, Earlier, DeliveredVia
  <2> QED
    BY <1>1, <1>2, <1>3, <2>1, <2>3, <2>4, <2>5 DEF TurnInv, AllEarlier, ModeOf, Unanswered
<1> QED
  BY <1>4, <1>5

\* A run drains a queue that it has not drained since the last reply.
LEMMA TakeTurn ==
  ASSUME TypeInv, MailInv, OrderInv, TurnInv, pending = <<>>,
         UNCHANGED <<options, via, delivered, replies>>, NEW kind \in {"steer", "followUp"},
         \/ /\ kind = "steer" /\ pending' = Drained(steering, ModeOf(kind))
            /\ steering' = Left(steering, ModeOf(kind)) /\ UNCHANGED followUp
         \/ /\ kind = "followUp" /\ pending' = Drained(followUp, ModeOf(kind))
            /\ followUp' = Left(followUp, ModeOf(kind)) /\ UNCHANGED steering,
         Earlier(kind), pc' \in Unanswered \/ AllEarlier,
         pc' \in {"prompts", "poll"} /\ ~skip' => kind = "followUp" /\ Earlier("steer")
  PROVE  TurnInv'
<1> DEFINE q == IF kind = "steer" THEN steering ELSE followUp
<1>1. /\ q \in Seq(Ids) /\ Distinct(q) /\ ToSet(q) \subseteq ViaOf(kind)
      /\ pending' = Drained(q, ModeOf(kind))
  BY DEF TypeInv, TypeOK, MailInv, Places, OrderInv
<1> HIDE DEF q
<1>2. Taken' \subseteq ViaOf(kind)
  BY <1>1, DrainSets DEF Taken
<1>3. \A k \in {"steer", "followUp"} : Taken' \cap ViaOf(k) # {} => k = kind
  BY <1>2 DEF ViaOf
<1>4. ASSUME ModeOf(kind) = "one-at-a-time", Taken' # {} PROVE Len(pending') = 1
  <2>1. pending' # <<>>
    BY <1>4, EmptySet DEF Taken
  <2>2. pending' = <<Head(q)>>
    BY <1>1, <1>4, <2>1 DEF Drained
  <2> QED
    BY <2>2
<1>5. \A k : ViaOf(k)' = ViaOf(k) /\ Earlier(k)' = Earlier(k)
  BY DEF ViaOf, Earlier, DeliveredVia
<1>6. \A k \in {"steer", "followUp"} : ModeOf(k)' = ModeOf(k)
  BY DEF ModeOf
<1>7. \A k \in {"steer", "followUp"} :
        ModeOf(k)' = "one-at-a-time" /\ Taken' \cap ViaOf(k)' # {} => Len(pending') = 1 /\ Earlier(k)'
  BY <1>2, <1>3, <1>4, <1>5, <1>6
<1>8. pc' \in {"prompts", "poll"} /\ ~skip' => Earlier("steer")' /\ Taken' \cap ViaOf("steer")' = {}
  BY <1>3, <1>5
<1>9. AllEarlier' = AllEarlier
  BY DEF AllEarlier
<1>10. pc' \notin Unanswered => AllEarlier'
  BY <1>9
<1> QED
  BY <1>7, <1>8, <1>10 DEF TurnInv

LEMMA ElementOf ==
  ASSUME NEW S, NEW s \in Seq(S), NEW i \in DOMAIN s
  PROVE  s[i] \in S
OBVIOUS

LEMMA DeliveredAt ==
  ASSUME TypeInv
  PROVE  \A i \in DOMAIN delivered : delivered[i].at \in Nat
<1>1. delivered \in Seq([id: Ids, at: Nat])
  BY DEF TypeInv, TypeOK
<1> SUFFICES ASSUME NEW i \in DOMAIN delivered PROVE delivered[i].at \in Nat
  OBVIOUS
<1>2. delivered[i] \in [id: Ids, at: Nat]
  BY <1>1, ElementOf
<1> QED
  BY <1>2

LEMMA DeliverTurn ==
  ASSUME TypeInv, MailInv, OrderInv, TurnInv, OneAtATime,
         pending # <<>>, Delivered(Head(pending)), pending' = Tail(pending),
         UNCHANGED <<options, via, replies, skip>>,
         pc' \in Unanswered, pc' \in {"prompts", "poll"} => pc \in {"prompts", "poll"}
  PROVE  TurnInv' /\ OneAtATime'
<1> DEFINE e == [id |-> Head(pending), at |-> replies]
           n == Len(delivered) + 1
<1>1. /\ pending \in Seq(Ids) /\ delivered \in Seq([id: Ids, at: Nat]) /\ e \in [id: Ids, at: Nat]
      /\ delivered' = Append(delivered, e) /\ e.id = Head(pending) /\ e.at = replies
      /\ replies \in Nat
  BY DEF TypeInv, TypeOK, Delivered
<1> HIDE DEF e
<1>2. /\ DOMAIN delivered' = 1 .. n /\ DOMAIN delivered = 1 .. n - 1 /\ n \in Nat \ {0}
      /\ \A i \in DOMAIN delivered : delivered'[i] = delivered[i] /\ delivered[i].at \in Nat
      /\ delivered'[n] = e
  <2>1. Len(delivered) \in Nat /\ DOMAIN delivered = 1 .. Len(delivered)
    BY <1>1
  <2>2. \A i \in DOMAIN delivered : delivered[i].at \in Nat
    BY DeliveredAt
  <2> QED
    BY <1>1, <2>1, <2>2
<1>3. Head(pending) \in Taken /\ Taken' \subseteq Taken
  BY <1>1, OrderedTail DEF OrderInv, Taken
<1> HIDE DEF n
<1>4. \A i \in DOMAIN delivered' : i \in DOMAIN delivered \/ i = n
  BY <1>2
<1>5. \A k : ViaOf(k)' = ViaOf(k)
  BY DEF ViaOf
<1>6. \A k \in {"steer", "followUp"} : ModeOf(k)' = ModeOf(k)
  BY DEF ModeOf
<1>7. \A k : DeliveredVia(k)' = DeliveredVia(k) \cup (IF via[Head(pending)] = k THEN {n} ELSE {})
  <2>1. n \in DOMAIN delivered' /\ DOMAIN delivered \subseteq DOMAIN delivered'
    BY <1>2
  <2>2. /\ \A i \in DOMAIN delivered : via[delivered'[i].id] = via[delivered[i].id]
        /\ via[delivered'[n].id] = via[Head(pending)] /\ via' = via
    BY <1>1, <1>2
  <2> SUFFICES ASSUME NEW k
               PROVE  DeliveredVia(k)' = DeliveredVia(k) \cup (IF via[Head(pending)] = k THEN {n} ELSE {})
    OBVIOUS
  <2>3. DeliveredVia(k)' = {i \in DOMAIN delivered' : via[delivered'[i].id] = k}
    BY <2>2 DEF DeliveredVia
  <2>4. CASE via[Head(pending)] = k
    BY <1>4, <2>1, <2>2, <2>3, <2>4 DEF DeliveredVia
  <2>5. CASE via[Head(pending)] # k
    BY <1>4, <2>1, <2>2, <2>3, <2>5 DEF DeliveredVia
  <2> QED
    BY <2>4, <2>5
<1>8. Head(pending) \in DOMAIN via
  BY <1>3 DEF MailInv, Places
<1>9. \A i \in DOMAIN delivered' : delivered'[i].at <= replies'
  BY <1>1, <1>2, <1>4 DEF TurnInv
<1>10. ASSUME NEW k \in {"steer", "followUp"}, ModeOf(k) = "one-at-a-time"
       PROVE  /\ Taken' \cap ViaOf(k) = {}
              /\ via[Head(pending)] = k => Earlier(k)
  <2>1. ASSUME Taken \cap ViaOf(k) # {} PROVE Taken' = {}
    <3>1. Len(pending) = 1
      BY <1>10, <2>1 DEF TurnInv
    <3>2. Tail(pending) = <<>>
      BY <1>1, <3>1
    <3> QED
      BY <3>2, EmptySet DEF Taken
  <2>2. via[Head(pending)] = k => Head(pending) \in Taken \cap ViaOf(k)
    BY <1>3, <1>8 DEF ViaOf
  <2> QED
    BY <1>3, <1>10, <2>1, <2>2 DEF TurnInv
<1>11. ASSUME pc' \in {"prompts", "poll"}, ~skip'
       PROVE  Earlier("steer")' /\ Taken' \cap ViaOf("steer")' = {}
  <2>1. Earlier("steer") /\ Taken \cap ViaOf("steer") = {}
    BY <1>11 DEF TurnInv
  <2>2. via[Head(pending)] # "steer"
    BY <1>3, <1>8, <2>1 DEF ViaOf
  <2>3. DeliveredVia("steer")' = DeliveredVia("steer")
    BY <1>7, <2>2
  <2> QED
    BY <1>2, <1>3, <1>5, <2>1, <2>3 DEF Earlier, DeliveredVia
<1>12. OneAtATime'
  <2> SUFFICES ASSUME NEW k \in {"steer", "followUp"}, ModeOf(k) = "one-at-a-time",
                      NEW i \in DeliveredVia(k)', NEW j \in DeliveredVia(k)', i # j
               PROVE  delivered'[i].at # delivered'[j].at
    BY <1>6 DEF OneAtATime
  <2>1. CASE i \in DeliveredVia(k) /\ j \in DeliveredVia(k)
    BY <1>2, <2>1 DEF OneAtATime, DeliveredVia
  <2>2. CASE i = n \/ j = n
    <3>1. via[Head(pending)] = k
      <4>1. n \notin DOMAIN delivered
        BY <1>2
      <4> QED
        BY <1>7, <2>2, <4>1 DEF DeliveredVia
    <3>2. Earlier(k)
      BY <1>10, <3>1
    <3>3. \A x \in DeliveredVia(k) : delivered'[x].at < replies /\ delivered'[x].at \in Nat
      BY <1>2, <3>2 DEF Earlier, DeliveredVia
    <3>4. (i = n /\ j \in DeliveredVia(k)) \/ (j = n /\ i \in DeliveredVia(k))
      BY <1>7, <2>2
    <3>5. delivered'[n].at = replies
      BY <1>1, <1>2
    <3>6. \A x, y \in Nat : x < y => x # y
      OBVIOUS
    <3> HIDE DEF n
    <3> QED
      BY <1>1, <3>3, <3>4, <3>5, <3>6
  <2> QED
    BY <1>7, <2>1, <2>2
<1> QED
  BY <1>5, <1>6, <1>9, <1>10, <1>11, <1>12 DEF TurnInv

\* A reply, or what stands for it after a failure, answers all that was delivered.
LEMMA AnswerTurn ==
  ASSUME TypeInv, TurnInv, pending = <<>>, replies' = replies + 1,
         UNCHANGED <<pending, delivered>>, pc' \notin Unanswered
  PROVE  TurnInv'
<1>1. \A i \in DOMAIN delivered : delivered[i].at < replies' /\ delivered[i].at <= replies'
  <2>1. replies \in Nat
    BY DEF TypeInv, TypeOK
  <2> QED
    BY <2>1, DeliveredAt DEF TurnInv
<1>2. Taken' = {}
  BY EmptySet DEF Taken
<1> QED
  BY <1>1, <1>2 DEF TurnInv, AllEarlier, Unanswered

LEMMA NextTurn ==
  TypeInv /\ MailInv /\ OrderInv /\ TurnInv /\ OneAtATime /\ [Next]_vars => TurnInv' /\ OneAtATime'
<1> SUFFICES ASSUME TypeInv, MailInv, OrderInv, TurnInv, OneAtATime, [Next]_vars
             PROVE  TurnInv' /\ OneAtATime'
  OBVIOUS
<1>0. ASSUME AllEarlier PROVE Earlier("steer") /\ Earlier("followUp")
  BY <1>0 DEF AllEarlier, Earlier, DeliveredVia
<1>1. CASE UNCHANGED vars
  BY <1>1, SameTurn, SameApart DEF vars, loop, history
<1>2. CASE ReplyStarts \/ Abort \/ DropFailure \/ CallStarts \/ Reset \/ ClearQueues
           \/ \E c \in executing : ToolReturns(c)
  <2>1. UNCHANGED <<options, pc, pending, via, delivered, replies, skip>>
    BY <1>2 DEF ReplyStarts, Abort, DropFailure, CallStarts, Reset, ClearQueues, ToolReturns, loop,
                history
  <2> QED
    BY <2>1, SameTurn, SameApart
<1>3. CASE PrepareCall \/ RefuseCall \/ LaunchCalls \/ FinalizeCall
  <2>1. UNCHANGED <<options, pc, pending, via, delivered, replies, skip>>
    BY <1>3 DEF PrepareCall, RefuseCall, LaunchCalls, FinalizeCall, history
  <2> QED
    BY <2>1, SameTurn, SameApart
<1>4. CASE RequestReply \/ BatchDone \/ FinishRun
  <2>1. /\ UNCHANGED <<options, pending, via, delivered, replies, skip>>
        /\ \/ pc' = "stream"
           \/ pc \in {"tools", "agentEnd", "failEnd"} /\ pc' \in {"turnEnd", "idle"}
    BY <1>4 DEF RequestReply, BatchDone, FinishRun, history
  <2> QED
    BY <2>1, SameTurn, SameApart DEF Unanswered
<1>5. ASSUME NEW n \in 0 .. MaxCalls, NEW stop \in {"done", "error", "aborted"}, ReplyEnds(n, stop)
      PROVE  TurnInv' /\ OneAtATime'
  <2>1. /\ UNCHANGED <<options, pending, via, delivered>> /\ replies' = replies + 1
        /\ pc = "stream" /\ pc' \in {"agentEnd", "tools", "turnEnd"}
    BY <1>5 DEF ReplyEnds, history
  <2>2. pending = <<>>
    BY <2>1 DEF MailInv, TakenInv
  <2> QED
    BY <2>1, <2>2, AnswerTurn, SameApart DEF Unanswered
<1>6. CASE HandleRunFailure
  <2>1. /\ UNCHANGED <<options, pending, via, delivered>> /\ replies' = replies + 1
        /\ pc = "failed" /\ pc' = "failEnd"
    BY <1>6 DEF HandleRunFailure, history
  <2>2. pending = <<>>
    BY <2>1 DEF MailInv, TakenInv
  <2> QED
    BY <2>1, <2>2, AnswerTurn, SameApart DEF Unanswered
<1>7. CASE LoopThrows
  <2>1. /\ UNCHANGED <<options, via, delivered, replies>> /\ pc' = "failed" /\ pending' = <<>>
    BY <1>7 DEF LoopThrows, history
  <2>2. Taken' = {}
    BY <2>1, EmptySet DEF Taken
  <2> QED
    BY <2>1, <2>2, SameApart DEF TurnInv, Unanswered
<1>8. CASE Steer \/ FollowUp \/ Prompt
  BY <1>8, HandTurn
<1>9. CASE PromptEmitted \/ Inject
  <2>1. /\ pending # <<>> /\ Delivered(Head(pending)) /\ pending' = Tail(pending)
        /\ UNCHANGED <<options, via, replies, skip>> /\ pc' \in {"prompts", "poll", "turn"}
        /\ pc' \in {"prompts", "poll"} => pc \in {"prompts", "poll"}
    BY <1>9 DEF PromptEmitted, Inject, TypeInv, PromptsLeft
  <2> QED
    BY <2>1, DeliverTurn DEF Unanswered
<1>10. CASE ContinueTranscript
  <2>1. /\ UNCHANGED <<options, pending, via, delivered, replies, skip>>
        /\ pc = "idle" /\ pc' = "poll" /\ pending = <<>>
    BY <1>10 DEF ContinueTranscript, history, MailInv, TakenInv
  <2>2. AllEarlier /\ Taken = {}
    BY <2>1, EmptySet DEF TurnInv, Unanswered, Taken
  <2> QED
    BY <1>0, <2>1, <2>2, SameApart DEF TurnInv, AllEarlier, Earlier, Taken, ViaOf, DeliveredVia, Unanswered
<1>11. CASE InitialPoll
  <2>1. /\ pending = <<>> /\ pc = "poll" /\ pc' = "turn"
        /\ UNCHANGED <<options, via, delivered, replies>>
    BY <1>11 DEF InitialPoll, MailInv, TakenInv, history
  <2>2. CASE skip
    <3>1. pending' = pending /\ Taken = {} /\ Taken' = {}
      BY <1>11, <2>1, <2>2, EmptySet DEF InitialPoll, Taken
    <3> QED
      BY <2>1, <3>1, SameApart DEF TurnInv, Unanswered
  <2>3. CASE ~skip
    <3>1. Earlier("steer")
      BY <2>1, <2>3 DEF TurnInv
    <3>2. /\ pending' = Drained(steering, ModeOf("steer")) /\ steering' = Left(steering, ModeOf("steer"))
          /\ UNCHANGED followUp
      BY <1>11, <2>3 DEF InitialPoll, ModeOf
    <3> QED
      BY <2>1, <3>1, <3>2, TakeTurn, SameApart DEF Unanswered
  <2> QED
    BY <2>2, <2>3
<1>12. CASE PollSteering \/ PollFollowUps
  <2>1. /\ pending = <<>> /\ AllEarlier /\ UNCHANGED <<options, via, delivered, replies>>
        /\ pc' \notin {"prompts", "poll"}
    BY <1>12 DEF PollSteering, PollFollowUps, MailInv, TakenInv, TurnInv, Unanswered, history
  <2>2. CASE PollSteering
    <3>1. /\ pending' = Drained(steering, ModeOf("steer")) /\ steering' = Left(steering, ModeOf("steer"))
          /\ UNCHANGED followUp
      BY <2>2 DEF PollSteering, ModeOf
    <3> QED
      BY <1>0, <2>1, <3>1, TakeTurn, SameApart
  <2>3. CASE PollFollowUps
    <3>1. /\ pending' = Drained(followUp, ModeOf("followUp"))
          /\ followUp' = Left(followUp, ModeOf("followUp")) /\ UNCHANGED steering
      BY <2>3 DEF PollFollowUps, ModeOf
    <3> QED
      BY <1>0, <2>1, <3>1, TakeTurn, SameApart
  <2> QED
    BY <1>12, <2>2, <2>3
<1>13. CASE ContinueSteering \/ ContinueFollowUps
  <2>1. /\ pending = <<>> /\ AllEarlier /\ UNCHANGED <<options, via, delivered, replies>>
        /\ pc' = "prompts"
    BY <1>13 DEF ContinueSteering, ContinueFollowUps, StartRun, MailInv, TakenInv, TurnInv, Unanswered
  <2>2. CASE ContinueSteering
    <3>1. /\ pending' = Drained(steering, ModeOf("steer")) /\ steering' = Left(steering, ModeOf("steer"))
          /\ UNCHANGED followUp /\ skip'
      BY <2>2 DEF ContinueSteering, StartRun, ModeOf
    <3> QED
      BY <1>0, <2>1, <3>1, TakeTurn, SameApart
  <2>3. CASE ContinueFollowUps
    <3>1. /\ pending' = Drained(followUp, ModeOf("followUp"))
          /\ followUp' = Left(followUp, ModeOf("followUp")) /\ UNCHANGED steering
      BY <2>3 DEF ContinueFollowUps, StartRun, ModeOf
    <3> QED
      BY <1>0, <2>1, <3>1, TakeTurn, SameApart
  <2> QED
    BY <1>13, <2>2, <2>3
<1> QED
  BY <1>1, <1>2, <1>3, <1>4, <1>5, <1>6, <1>7, <1>8, <1>9, <1>10, <1>11, <1>12, <1>13
     DEF Next, LoopStep

(***************************************************************************)
(* Follow-ups wait.  A run that holds follow-ups finds a transcript that    *)
(* may be followed, because the polls that take them come when the last    *)
(* reply has no calls.                                                     *)
(***************************************************************************)
SaidInv == \A i \in DOMAIN messages : messages[i].role = "user" => messages[i].id \in DOMAIN via

LastInv ==
  /\ pc \in {"tools", "turnEnd", "followUps"} => context # <<>> /\ Last(context).role # "user"
  /\ pc = "tools" => \A i \in DOMAIN results : results[i].role = "toolResult"
  /\ pc = "followUps" => Last(context).role = "assistant"

WaitsIn(s) == \A i \in 2 .. Len(s) : IsFollowUp(s[i]) => MayBeFollowed(s[i - 1])

WaitInv ==
  faults = 0 =>
    /\ WaitsIn(messages)
    /\ Taken \cap ViaOf("followUp") # {} => messages # <<>> /\ MayBeFollowed(Last(messages))

SpokenInv == SaidInv /\ LastInv /\ WaitInv

LEMMA InitSpoken == Init => SpokenInv
BY EmptySet DEF Init, SpokenInv, SaidInv, LastInv, WaitInv, WaitsIn, Taken

LEMMA LastOfAppend ==
  ASSUME NEW S, NEW s \in Seq(S), NEW e \in S
  PROVE  /\ Append(s, e) # <<>> /\ Last(Append(s, e)) = e /\ Append(s, e) \in Seq(S)
         /\ DOMAIN Append(s, e) = 1 .. Len(s) + 1 /\ Append(s, e)[Len(s) + 1] = e
         /\ \A i \in 1 .. Len(s) : Append(s, e)[i] = s[i]
BY DEF Last

LEMMA LastOfConcat ==
  ASSUME NEW S, NEW s \in Seq(S), NEW t \in Seq(S), s # <<>>
  PROVE  /\ s \o t # <<>>
         /\ Last(s \o t) = Last(s) \/ \E i \in DOMAIN t : Last(s \o t) = t[i]
<1> DEFINE u == s \o t
<1>1. /\ u \in Seq(S) /\ Len(u) = Len(s) + Len(t) /\ Len(s) \in Nat \ {0} /\ Len(t) \in Nat
      /\ \A i \in 1 .. Len(s) : u[i] = s[i]
      /\ \A i \in 1 .. Len(t) : u[Len(s) + i] = t[i]
  OBVIOUS
<1> HIDE DEF u
<1>2. u # <<>> /\ Last(u) = u[Len(u)] /\ Last(s) = s[Len(s)]
  BY <1>1 DEF Last
<1>3. CASE Len(t) = 0
  BY <1>1, <1>2, <1>3 DEF u
<1>4. CASE Len(t) # 0
  <2>1. Len(t) \in 1 .. Len(t)
    BY <1>1, <1>4
  <2> QED
    BY <1>1, <1>2, <2>1 DEF u
<1> QED
  BY <1>1, <1>3, <1>4

\* More may be said, if it is no follow-up or finds something that may be followed.
LEMMA WaitsAppend ==
  ASSUME NEW s \in Seq(Message), NEW e \in Message, WaitsIn(s),
         IsFollowUp(e) /\ s # <<>> => MayBeFollowed(Last(s))
  PROVE  WaitsIn(Append(s, e))
<1> DEFINE t == Append(s, e)
<1>1. /\ Len(s) \in Nat /\ Len(t) = Len(s) + 1 /\ t[Len(s) + 1] = e
      /\ \A i \in 1 .. Len(s) : t[i] = s[i]
  BY LastOfAppend
<1> HIDE DEF t
<1>2. SUFFICES ASSUME NEW i \in 2 .. Len(t), IsFollowUp(t[i]) PROVE MayBeFollowed(t[i - 1])
  BY DEF WaitsIn, t
<1>3. CASE i \in 2 .. Len(s)
  <2>1. i \in 1 .. Len(s) /\ i - 1 \in 1 .. Len(s)
    BY <1>1, <1>3
  <2> QED
    BY <1>1, <1>2, <1>3, <2>1 DEF WaitsIn
<1>4. CASE i = Len(s) + 1
  <2>1. i - 1 = Len(s) /\ Len(s) \in 1 .. Len(s)
    BY <1>1, <1>2, <1>4
  <2>2. s # <<>> /\ Last(s) = s[Len(s)]
    BY <2>1 DEF Last
  <2> QED
    BY <1>1, <1>2, <1>4, <2>1, <2>2
<1> QED
  BY <1>1, <1>3, <1>4

LEMMA FollowUpIsUser ==
  ASSUME NEW m, m.role # "user"
  PROVE  ~IsFollowUp(m)
BY DEF IsFollowUp

\* A complete transcript that ends with a reply may be followed.
LEMMA CompleteMayBeFollowed ==
  ASSUME NEW s \in Seq(Message), s # <<>>, Last(s).role = "assistant", Complete(s, Len(s))
  PROVE  MayBeFollowed(Last(s))
<1>1. Len(s) \in Nat \ {0} /\ Last(s) = s[Len(s)] /\ s[Len(s)] \in Message
  BY DEF Last
<1>2. s[Len(s)].n \in Nat
  BY <1>1 DEF Message
<1>3. ASSUME Done(s[Len(s)]) PROVE s[Len(s)].n = 0
  <2>1. Answered(s, Len(s))
    BY <1>1, <1>3 DEF Complete
  <2> QED
    BY <1>1, <1>2, <2>1 DEF Answered
<1> QED
  BY <1>1, <1>3 DEF MayBeFollowed, Done

LEMMA SameSaid ==
  ASSUME SaidInv, WaitInv, UNCHANGED <<messages, via, faults>>,
         Taken' \cap ViaOf("followUp") # {} => Taken \cap ViaOf("followUp") # {}
  PROVE  SaidInv' /\ WaitInv'
<1>1. \A m : (IsFollowUp(m)' <=> IsFollowUp(m)) /\ (MayBeFollowed(m)' <=> MayBeFollowed(m))
  BY DEF IsFollowUp, MayBeFollowed, ViaOf
<1>2. SaidInv'
  BY DEF SaidInv
<1>3. ViaOf("followUp")' = ViaOf("followUp")
  BY DEF ViaOf
<1>4. WaitsIn(messages)' <=> WaitsIn(messages)
  BY <1>1 DEF WaitsIn
<1>5. MayBeFollowed(Last(messages))' <=> MayBeFollowed(Last(messages))
  BY <1>1
<1> QED
  BY <1>2, <1>3, <1>4, <1>5 DEF WaitInv

\* A reply, a result or a failure is said.
LEMMA SaySaid ==
  ASSUME TypeInv, SaidInv, WaitInv, NEW e \in Message, e.role # "user",
         messages' = Append(messages, e), Taken' = {}, UNCHANGED <<via, faults>>
  PROVE  SaidInv' /\ WaitInv'
<1>1. messages \in Seq(Message)
  BY DEF TypeInv, TypeOK
<1>2. SaidInv'
  BY <1>1, LastOfAppend DEF SaidInv
<1>3. \A m : (IsFollowUp(m)' <=> IsFollowUp(m)) /\ (MayBeFollowed(m)' <=> MayBeFollowed(m))
  BY DEF IsFollowUp, MayBeFollowed, ViaOf
<1>4. WaitsIn(messages)' <=> WaitsIn(messages')
  BY <1>3 DEF WaitsIn
<1>5. WaitsIn(messages) => WaitsIn(messages')
  BY <1>1, WaitsAppend, FollowUpIsUser
<1> QED
  BY <1>2, <1>4, <1>5 DEF WaitInv

LEMMA DeliverSaid ==
  ASSUME TypeInv, MailInv, OrderInv, SaidInv, WaitInv, pending # <<>>,
         messages' = Append(messages, User(Head(pending))), pending' = Tail(pending),
         UNCHANGED <<via, faults>>
  PROVE  SaidInv' /\ WaitInv'
<1> DEFINE u == User(Head(pending))
<1>1. /\ messages \in Seq(Message) /\ pending \in Seq(Ids) /\ u \in Message
      /\ u.role = "user" /\ u.id = Head(pending) /\ messages' = Append(messages, u)
  <2>1. messages \in Seq(Message) /\ pending \in Seq(Ids) /\ Head(pending) \in Ids
    BY DEF TypeInv, TypeOK
  <2> QED
    BY <2>1, MessageType DEF User
<1> HIDE DEF u
<1>2. Head(pending) \in Taken /\ Taken' \subseteq Taken /\ Taken \subseteq DOMAIN via
  BY <1>1, OrderedTail DEF OrderInv, Taken, MailInv, Places
<1>3. SaidInv'
  BY <1>1, <1>2, LastOfAppend DEF SaidInv
<1>4. \A m : (IsFollowUp(m)' <=> IsFollowUp(m)) /\ (MayBeFollowed(m)' <=> MayBeFollowed(m))
  BY DEF IsFollowUp, MayBeFollowed, ViaOf
<1>5. ViaOf("followUp")' = ViaOf("followUp") /\ Last(messages') = u /\ messages' # <<>>
  BY <1>1, LastOfAppend DEF ViaOf
<1>6. IsFollowUp(u) <=> Taken \cap ViaOf("followUp") # {}
  <2>1. IsFollowUp(u) <=> via[Head(pending)] = "followUp"
    BY <1>1, <1>2 DEF IsFollowUp, ViaOf
  <2> QED
    BY <1>2, <2>1 DEF OrderInv, ViaOf
<1>7. WaitsIn(messages)' <=> WaitsIn(messages')
  BY <1>4 DEF WaitsIn
<1>8. WaitInv /\ faults = 0 => WaitsIn(messages')
  BY <1>1, <1>6, WaitsAppend DEF WaitInv
<1>9. Taken' \cap ViaOf("followUp")' # {} => MayBeFollowed(Last(messages))'
  BY <1>2, <1>4, <1>5, <1>6 DEF MayBeFollowed
<1> QED
  BY <1>3, <1>5, <1>7, <1>8, <1>9 DEF WaitInv

\* What was said keeps its way when another message is handed over.
LEMMA AcceptSaid ==
  ASSUME TypeInv, MailInv, SaidInv, WaitInv, NEW kind \in {"prompt", "steer", "followUp"},
         Accept(kind), UNCHANGED <<messages, faults>>,
         pending' = pending \/ Taken' \cap ViaOf("followUp")' = {}
  PROVE  SaidInv' /\ WaitInv'
<1>1. /\ DOMAIN via' = DOMAIN via \cup {New} /\ New \notin DOMAIN via
      /\ \A m \in DOMAIN via : via'[m] = via[m]
  <2>1. via \in Seq({"prompt", "steer", "followUp"}) /\ via' = Append(via, kind) /\ New = Len(via) + 1
    BY DEF TypeInv, TypeOK, Accept, New
  <2>2. DOMAIN via = 1 .. Len(via) /\ Len(via) \in Nat
    BY <2>1
  <2>3. DOMAIN via' = 1 .. (Len(via) + 1)
    BY <2>1
  <2>4. \A m \in DOMAIN via : via'[m] = via[m]
    BY <2>1, <2>2
  <2>5. DOMAIN via' = DOMAIN via \cup {New}
    BY <2>1, <2>2, <2>3
  <2>6. New \notin DOMAIN via
    BY <2>1, <2>2
  <2> QED
    BY <2>4, <2>5, <2>6
<1>2. SaidInv'
  BY <1>1 DEF SaidInv
<1>3. \A i \in DOMAIN messages : /\ IsFollowUp(messages[i])' <=> IsFollowUp(messages[i])
                                 /\ MayBeFollowed(messages[i])' <=> MayBeFollowed(messages[i])
  BY <1>1 DEF SaidInv, IsFollowUp, MayBeFollowed, ViaOf
<1>4. WaitsIn(messages)' <=> WaitsIn(messages)
  <2>1. \A i \in 2 .. Len(messages) : i \in DOMAIN messages /\ i - 1 \in DOMAIN messages
    BY DEF TypeInv, TypeOK
  <2> QED
    BY <1>3, <2>1 DEF WaitsIn
<1>5. messages # <<>> => (MayBeFollowed(Last(messages))' <=> MayBeFollowed(Last(messages)))
  <2>1. messages # <<>> => Len(messages) \in DOMAIN messages /\ Last(messages) = messages[Len(messages)]
    BY DEF TypeInv, TypeOK, Last
  <2> QED
    BY <1>3, <2>1
<1>6. pending' = pending => Taken' = Taken /\ Taken \cap ViaOf("followUp")' = Taken \cap ViaOf("followUp")
  BY <1>1 DEF Taken, ViaOf, MailInv, Places
<1> QED
  BY <1>2, <1>4, <1>5, <1>6 DEF WaitInv

LEMMA NextSaid ==
  TypeInv /\ TranscriptInv /\ CallsInv /\ RequestsInv /\ MailInv /\ OrderInv /\ SpokenInv /\ [Next]_vars
    => SaidInv' /\ WaitInv'
<1> SUFFICES ASSUME TypeInv, TranscriptInv, CallsInv, RequestsInv, MailInv, OrderInv, SpokenInv,
                    [Next]_vars
             PROVE  SaidInv' /\ WaitInv'
  OBVIOUS
<1> USE DEF SpokenInv
<1>1. CASE UNCHANGED vars
  BY <1>1, SameSaid DEF vars, loop, history, bounds, Taken
<1>2. CASE ReplyStarts \/ Abort \/ CallStarts \/ ClearQueues \/ \E c \in executing : ToolReturns(c)
  <2>1. UNCHANGED <<messages, pending, via, faults>>
    BY <1>2 DEF ReplyStarts, Abort, CallStarts, ClearQueues, ToolReturns, loop, history, bounds
  <2> QED
    BY <2>1, SameSaid DEF Taken
<1>3. CASE PrepareCall \/ LaunchCalls \/ RequestReply \/ BatchDone \/ FinishRun \/ ContinueTranscript
  <2>1. UNCHANGED <<messages, pending, via, faults>>
    BY <1>3 DEF PrepareCall, LaunchCalls, RequestReply, BatchDone, FinishRun, ContinueTranscript,
                history, bounds
  <2> QED
    BY <2>1, SameSaid DEF Taken
<1>4. CASE RefuseCall \/ FinalizeCall
  <2>1. PICK c \in Calls : /\ messages' = Append(messages, Result(c))
                           /\ pc = "tools" /\ UNCHANGED <<pending, via, faults>>
    <3>1. /\ todo \in Seq(Calls) /\ running \in Seq(Calls)
      BY DEF TypeInv, TypeOK
    <3>2. CASE RefuseCall
      BY <3>1, <3>2 DEF RefuseCall, Preparing, history, bounds
    <3>3. CASE FinalizeCall
      BY <3>1, <3>3 DEF FinalizeCall, history, bounds
    <3> QED
      BY <1>4, <3>2, <3>3
  <2>2. Result(c) \in Message /\ Result(c).role # "user"
    BY MessageType DEF Result
  <2>3. Taken' = {}
    BY <2>1, EmptySet DEF MailInv, TakenInv, Taken
  <2> QED
    BY <2>1, <2>2, <2>3, SaySaid
<1>5. ASSUME NEW n \in 0 .. MaxCalls, NEW stop \in {"done", "error", "aborted"}, ReplyEnds(n, stop)
      PROVE  SaidInv' /\ WaitInv'
  <2>1. /\ messages' = Append(messages, Reply(replies + 1, n, stop)) /\ pc = "stream"
        /\ UNCHANGED <<pending, via, faults>>
    BY <1>5 DEF ReplyEnds, history
  <2>2. n \in Nat /\ replies + 1 \in Nat
    BY BoundAssumption DEF TypeInv, TypeOK
  <2>3. Reply(replies + 1, n, stop) \in Message /\ Reply(replies + 1, n, stop).role # "user"
    BY <2>2, MessageType DEF Reply
  <2>4. Taken' = {}
    BY <2>1, EmptySet DEF MailInv, TakenInv, Taken
  <2> QED
    BY <2>1, <2>3, <2>4, SaySaid
<1>6. CASE HandleRunFailure
  <2>1. PICK stop \in {"error", "aborted"} :
          messages' = Append(messages, Reply(replies + 1, 0, stop))
    BY <1>6 DEF HandleRunFailure
  <2>2. pc = "failed" /\ UNCHANGED <<pending, via, faults>>
    BY <1>6 DEF HandleRunFailure, history, bounds
  <2>3. replies + 1 \in Nat
    BY DEF TypeInv, TypeOK
  <2>4. Reply(replies + 1, 0, stop) \in Message /\ Reply(replies + 1, 0, stop).role # "user"
    BY <2>3, MessageType DEF Reply
  <2>5. Taken' = {}
    BY <2>2, EmptySet DEF MailInv, TakenInv, Taken
  <2> QED
    BY <2>1, <2>2, <2>4, <2>5, SaySaid
<1>7. CASE LoopThrows
  <2>1. faults' # 0 /\ UNCHANGED <<messages, via>>
    BY <1>7 DEF LoopThrows, TypeInv, TypeOK, history
  <2> QED
    BY <2>1 DEF WaitInv, SaidInv
<1>8. CASE Steer \/ FollowUp
  <2>1. UNCHANGED <<messages, faults, pending>> /\ \E k \in {"steer", "followUp"} : Accept(k)
    BY <1>8 DEF Steer, FollowUp, loop, bounds
  <2> QED
    BY <2>1, AcceptSaid
<1>9. CASE Prompt
  <2>1. UNCHANGED <<messages, faults>> /\ Accept("prompt") /\ pending' = <<New>>
    BY <1>9 DEF Prompt, StartRun, bounds
  <2>2. Taken' = {New} /\ via'[New] = "prompt"
    BY <2>1, OneSet, AcceptOrder DEF Taken
  <2>3. Taken' \cap ViaOf("followUp")' = {}
    BY <2>2 DEF ViaOf
  <2> QED
    BY <2>1, <2>3, AcceptSaid
<1>10. CASE PromptEmitted \/ Inject
  <2>1. /\ pending # <<>> /\ messages' = Append(messages, User(Head(pending)))
        /\ pending' = Tail(pending) /\ UNCHANGED <<via, faults>>
    BY <1>10 DEF PromptEmitted, Inject, TypeInv, PromptsLeft, bounds
  <2> QED
    BY <2>1, DeliverSaid
<1>11. ASSUME NEW mode, UNCHANGED <<messages, via, faults>>,
              pending' = Drained(steering, mode)
       PROVE  SaidInv' /\ WaitInv'
  <2>1. steering \in Seq(Ids) /\ Distinct(steering) /\ ToSet(steering) \subseteq ViaOf("steer")
    BY DEF TypeInv, TypeOK, MailInv, Places, OrderInv
  <2>2. Taken' \subseteq ViaOf("steer")
    BY <1>11, <2>1, DrainSets DEF Taken
  <2> QED
    BY <1>11, <2>2, SameSaid DEF ViaOf
<1>12. CASE InitialPoll
  <2>1. UNCHANGED <<messages, via, faults>>
    BY <1>12 DEF InitialPoll, history, bounds
  <2>2. CASE skip
    BY <1>12, <2>1, <2>2, SameSaid DEF InitialPoll, Taken
  <2>3. CASE ~skip
    BY <1>11, <1>12, <2>1, <2>3 DEF InitialPoll
  <2> QED
    BY <2>2, <2>3
<1>13. CASE PollSteering \/ ContinueSteering
  <2>1. UNCHANGED <<messages, via, faults>> /\ pending' = Drained(steering, options.steeringMode)
    BY <1>13 DEF PollSteering, ContinueSteering, StartRun, history, bounds
  <2> QED
    BY <1>11, <2>1
<1>14. CASE PollFollowUps \/ ContinueFollowUps
  <2>1. /\ UNCHANGED <<messages, via, faults>> /\ messages \in Seq(Message)
        /\ \/ pc = "followUps" /\ messages = context
           \/ pc = "idle" /\ LastIs("assistant")
    BY <1>14 DEF PollFollowUps, ContinueFollowUps, StartRun, history, bounds, TranscriptInv, Settled,
                 TypeInv, TypeOK
  <2>2. messages # <<>> /\ Last(messages).role = "assistant"
    BY <2>1 DEF LastInv, LastIs
  <2>3. faults = 0 => Complete(messages, Len(messages))
    BY <2>1 DEF RequestsInv, Settled
  <2>4. faults = 0 => MayBeFollowed(Last(messages))
    BY <2>1, <2>2, <2>3, CompleteMayBeFollowed
  <2>5. \A m : (IsFollowUp(m)' <=> IsFollowUp(m)) /\ (MayBeFollowed(m)' <=> MayBeFollowed(m))
    BY <2>1 DEF IsFollowUp, MayBeFollowed, ViaOf
  <2>6. WaitsIn(messages)' <=> WaitsIn(messages)
    BY <2>1, <2>5 DEF WaitsIn
  <2>7. MayBeFollowed(Last(messages))' <=> MayBeFollowed(Last(messages))
    BY <2>1, <2>5
  <2> QED
    BY <2>1, <2>2, <2>4, <2>6, <2>7 DEF WaitInv, SaidInv
<1>15. CASE Reset
  <2>1. messages' = <<>> /\ pc = "idle" /\ UNCHANGED <<pending, via, faults>>
    BY <1>15 DEF Reset, loop, history
  <2>2. Taken' = {}
    BY <2>1, EmptySet DEF MailInv, TakenInv, Taken
  <2> QED
    BY <2>1, <2>2 DEF SaidInv, WaitInv, WaitsIn
<1>16. CASE DropFailure
  <2>1. /\ messages' = Front(messages) /\ messages # <<>> /\ pc = "idle" /\ messages \in Seq(Message)
        /\ UNCHANGED <<pending, via, faults>>
    BY <1>16 DEF DropFailure, LastIs, loop, history, bounds, TypeInv, TypeOK
  <2>2. Taken' = {}
    BY <2>1, EmptySet DEF MailInv, TakenInv, Taken
  <2>3. /\ Len(messages') = Len(messages) - 1 /\ Len(messages) \in Nat \ {0}
        /\ DOMAIN messages' = 1 .. Len(messages) - 1
        /\ \A i \in 1 .. Len(messages) - 1 : messages'[i] = messages[i]
    <3>1. messages' \in Seq(Message)
      BY <2>1, FrontElements
    <3> QED
      BY <2>1, <3>1, FrontElements
  <2>4. \A i \in 2 .. Len(messages) - 1 : i \in 2 .. Len(messages) /\ i - 1 \in 1 .. Len(messages) - 1
                                         /\ i \in 1 .. Len(messages) - 1
    BY <2>3
  <2>5. \A m : (IsFollowUp(m)' <=> IsFollowUp(m)) /\ (MayBeFollowed(m)' <=> MayBeFollowed(m))
    BY <2>1 DEF IsFollowUp, MayBeFollowed, ViaOf
  <2>6. WaitsIn(messages) => WaitsIn(messages)'
    BY <2>3, <2>4, <2>5 DEF WaitsIn
  <2>7. SaidInv'
    BY <2>1, <2>3 DEF SaidInv
  <2> QED
    BY <2>1, <2>2, <2>6, <2>7 DEF WaitInv
<1> QED
  BY <1>1, <1>2, <1>3, <1>4, <1>5, <1>6, <1>7, <1>8, <1>9, <1>10, <1>12, <1>13, <1>14, <1>15, <1>16
     DEF Next, LoopStep

LEMMA NextLast == TypeInv /\ LastInv /\ [Next]_vars => LastInv'
<1> SUFFICES ASSUME TypeInv, LastInv, [Next]_vars PROVE LastInv'
  OBVIOUS
<1>1. ASSUME UNCHANGED <<pc, context, results>> PROVE LastInv'
  BY <1>1 DEF LastInv
<1>2. ASSUME pc' \notin {"tools", "turnEnd", "followUps"} PROVE LastInv'
  BY <1>2 DEF LastInv
<1>3. CASE UNCHANGED vars
  BY <1>1, <1>3 DEF vars, loop, batch
<1>4. CASE ReplyStarts \/ Abort \/ DropFailure \/ CallStarts \/ Reset \/ ClearQueues \/ Steer \/ FollowUp
           \/ \E c \in executing : ToolReturns(c)
  BY <1>1, <1>4 DEF ReplyStarts, Abort, DropFailure, CallStarts, Reset, ClearQueues, Steer, FollowUp,
                    ToolReturns, loop, batch
<1>5. CASE PrepareCall \/ LaunchCalls
  BY <1>1, <1>5 DEF PrepareCall, LaunchCalls
<1>6. CASE Prompt \/ ContinueSteering \/ ContinueFollowUps \/ ContinueTranscript \/ PromptEmitted
           \/ InitialPoll \/ Inject \/ RequestReply
  BY <1>2, <1>6 DEF Prompt, ContinueSteering, ContinueFollowUps, StartRun, ContinueTranscript,
                    PromptEmitted, InitialPoll, Inject, RequestReply
<1>7. CASE FinishRun \/ LoopThrows \/ HandleRunFailure
  BY <1>2, <1>7 DEF FinishRun, LoopThrows, HandleRunFailure
<1>8. CASE PollFollowUps
  BY <1>2, <1>8 DEF PollFollowUps
<1>9. CASE PollSteering
  <2>1. /\ pc = "turnEnd" /\ context' = context /\ pc' \in {"turn", "followUps"}
        /\ pc' = "followUps" => Last(context).role # "toolResult"
    BY <1>9 DEF PollSteering, HasMoreToolCalls
  <2>2. context # <<>> /\ Last(context).role # "user"
    BY <2>1 DEF LastInv
  <2>3. Last(context) \in Message
    BY <2>2 DEF TypeInv, TypeOK, Last
  <2>4. Last(context).role \in {"user", "assistant", "toolResult"}
    BY <2>3 DEF Message
  <2> QED
    BY <2>1, <2>2, <2>4 DEF LastInv
<1>10. ASSUME NEW n \in 0 .. MaxCalls, NEW stop \in {"done", "error", "aborted"}, ReplyEnds(n, stop)
       PROVE  LastInv'
  <2>1. /\ context' = Append(context, Reply(replies + 1, n, stop)) /\ results' = <<>>
        /\ pc' \in {"agentEnd", "tools", "turnEnd"}
    BY <1>10 DEF ReplyEnds
  <2>2. n \in Nat /\ replies + 1 \in Nat /\ context \in Seq(Message)
    BY BoundAssumption DEF TypeInv, TypeOK
  <2>3. Reply(replies + 1, n, stop) \in Message /\ Reply(replies + 1, n, stop).role = "assistant"
    BY <2>2, MessageType DEF Reply
  <2>4. context' # <<>> /\ Last(context').role = "assistant"
    BY <2>1, <2>2, <2>3, LastOfAppend
  <2> QED
    BY <2>1, <2>4 DEF LastInv
<1>11. ASSUME pc = "tools", UNCHANGED <<pc, context>>, NEW c \in Calls,
              results' = Append(results, Result(c))
       PROVE  LastInv'
  <2>1. results \in Seq(Message) /\ Result(c) \in Message /\ Result(c).role = "toolResult"
    BY MessageType DEF TypeInv, TypeOK, Result
  <2>2. \A i \in DOMAIN results' : results'[i].role = "toolResult"
    BY <1>11, <2>1, LastOfAppend DEF LastInv
  <2> QED
    BY <1>11, <2>2 DEF LastInv
<1>12. CASE RefuseCall
  <2>1. Head(todo) \in Calls
    BY <1>12 DEF RefuseCall, Preparing, TypeInv, TypeOK
  <2> QED
    BY <1>11, <1>12, <2>1 DEF RefuseCall, Preparing
<1>13. CASE FinalizeCall
  <2>1. Head(running) \in Calls
    BY <1>13 DEF FinalizeCall, TypeInv, TypeOK
  <2> QED
    BY <1>11, <1>13, <2>1 DEF FinalizeCall
<1>14. CASE BatchDone
  <2>1. pc = "tools" /\ pc' = "turnEnd" /\ context' = context \o results
    BY <1>14 DEF BatchDone
  <2>2. /\ context # <<>> /\ Last(context).role # "user"
        /\ \A i \in DOMAIN results : results[i].role = "toolResult"
    BY <2>1 DEF LastInv
  <2>3. context' # <<>> /\ Last(context').role # "user"
    BY <2>1, <2>2, LastOfConcat DEF TypeInv, TypeOK
  <2> QED
    BY <2>1, <2>3 DEF LastInv
<1> QED
  BY <1>3, <1>4, <1>5, <1>6, <1>7, <1>8, <1>9, <1>10, <1>12, <1>13, <1>14 DEF Next, LoopStep

LEMMA InitMail == Init => MailInv
BY EmptySet DEF Init, MailInv, Places, TakenInv, Queued, Taken, Arrived

\* Messages of one queue are delivered in the order in which they were queued, in
\* one-at-a-time mode one per reply, and follow-ups only behind a reply that calls no more
\* tools, whatever is queued, cleared or aborted meanwhile.
THEOREM DeliveriesInOrder == Spec => []DeliveryOrder
<1>1. TypeInv /\ OrderInv /\ WaitInv /\ OneAtATime => DeliveryOrder
  <2> SUFFICES ASSUME TypeInv, OrderInv, WaitInv, OneAtATime PROVE DeliveryOrder
    OBVIOUS
  <2>1. QueueOrder
    BY DEF QueueOrder, DeliveredVia, OrderInv, Behind
  <2>2. FollowUpsWait
    BY DEF FollowUpsWait, WaitInv, WaitsIn
  <2> QED
    BY <2>1, <2>2 DEF DeliveryOrder
<1>2. TypeInv /\ MailInv /\ [Next]_vars => MailInv'
  BY MailStep
<1>3. Init => TypeInv /\ TranscriptInv /\ CallsInv /\ RequestsInv /\ MailInv /\ OrderInv /\ TurnInv
              /\ OneAtATime /\ SaidInv /\ LastInv /\ WaitInv
  BY InitType, InitTranscript, InitCalls, InitRequests, InitMail, InitOrder, InitTurn, InitSpoken
     DEF SpokenInv
<1>4. TypeInv /\ TranscriptInv /\ CallsInv /\ RequestsInv /\ MailInv /\ OrderInv
        /\ (SaidInv /\ LastInv /\ WaitInv) /\ [Next]_vars => SaidInv' /\ WaitInv'
  BY NextSaid DEF SpokenInv
<1> QED
  BY <1>1, <1>2, <1>3, <1>4, NextType, NextTranscript, NextCalls, NextRequests, NextOrder, NextTurn,
     NextLast, PTL DEF Spec

===============================================================================
