---------------------------- MODULE BulkSendProofs ----------------------------
(***************************************************************************)
(* Theorems about BulkSend, for every number of processes, rows, attempts  *)
(* and every choice of delays and windows.                                 *)
(***************************************************************************)
EXTENDS BulkSend, TLAPS

(***************************************************************************)
(* Lemmas about the table.                                                 *)
(***************************************************************************)
\* Updating a row keeps the table a table of rows with the same ids.
LEMMA RowUpdate ==
  ASSUME NEW s \in Seq(Row), NEW i, NEW r, i \in DOMAIN s => r \in Row
  PROVE  /\ [s EXCEPT ![i] = r] \in Seq(Row)
         /\ DOMAIN [s EXCEPT ![i] = r] = DOMAIN s
         /\ Len([s EXCEPT ![i] = r]) = Len(s)
<1>1. DOMAIN s = 1 .. Len(s) /\ Len(s) \in Nat
  OBVIOUS
<1>2. s \in [1 .. Len(s) -> Row]
  OBVIOUS
<1>3. [s EXCEPT ![i] = r] \in [1 .. Len(s) -> Row]
  BY <1>1, <1>2
<1> QED
  BY <1>1, <1>3

\* A settled row is a row.
LEMMA SettledType ==
  ASSUME NEW row \in Row, NEW ok \in BOOLEAN, NEW n \in Nat, NEW t \in Int
  PROVE  Settled(row, ok, n, t) \in Row
BY DEF Settled, Row, Statuses

\* Counting one more keeps a table of counters a table of counters.
LEMMA CountType ==
  ASSUME NEW S, NEW f \in [S -> Nat], NEW k
  PROVE  [f EXCEPT ![k] = @ + 1] \in [S -> Nat]
<1>1. CASE k \in S
  <2>1. f[k] + 1 \in Nat
    BY <1>1
  <2> QED
    BY <1>1, <2>1
<1>2. CASE k \notin S
  <2>1. [f EXCEPT ![k] = @ + 1] = f
    BY <1>2
  <2> QED
    BY <2>1
<1> QED
  BY <1>1, <1>2

\* The windows of a day are instants.
LEMMA WindowType ==
  ASSUME NEW t \in Nat
  PROVE  StartOf(t) \in Int /\ EndOf(t) \in Int /\ DispatchEndOf(t) \in Int
<1>1. t % DayLength \in Int
  BY WindowAssumption
<1> QED
  BY <1>1, WindowAssumption DEF StartOf, EndOf, DispatchEndOf, DayStart

(***************************************************************************)
(* Type correctness.                                                       *)
(***************************************************************************)
LEMMA InitTypeOK == Init => TypeOK
BY DEF Init, TypeOK, DispatchState, StartState, IdleDispatch, IdleStart,
       DispatchPC, StartPC

\* The local state of a dispatcher after a change of one or of several fields.
LEMMA GoDispatchType ==
  ASSUME disp \in [Dispatchers -> DispatchState], NEW d \in Dispatchers,
         NEW pc \in DispatchPC, GoDispatch(d, pc)
  PROVE  disp' \in [Dispatchers -> DispatchState]
<1>1. [disp[d] EXCEPT !.pc = pc] \in DispatchState
  BY DEF DispatchState
<1> QED
  BY <1>1 DEF GoDispatch

LEMMA ReturnDispatchType ==
  ASSUME disp \in [Dispatchers -> DispatchState], NEW d \in Dispatchers,
         ReturnDispatch(d)
  PROVE  disp' \in [Dispatchers -> DispatchState]
<1>1. IdleDispatch \in DispatchState
  BY DEF IdleDispatch, DispatchState, DispatchPC
<1> QED
  BY <1>1 DEF ReturnDispatch

LEMMA DispatchTypeOK ==
  ASSUME TypeOK, NEW d \in Dispatchers, DispatchStep(d)
  PROVE  TypeOK'
<1> USE DEF TypeOK
<1>0. {"peek", "status", "gap", "claim", "cooldown", "skip", "send", "record"}
        \subseteq DispatchPC
  BY DEF DispatchPC
<1>1. CASE DispatchBegin(d)
  <2>1. [IdleDispatch EXCEPT !.pc = "peek", !.tick = now] \in DispatchState
    BY DEF IdleDispatch, DispatchState, DispatchPC
  <2>2. disp' \in [Dispatchers -> DispatchState]
    BY <1>1, <2>1 DEF DispatchBegin
  <2> QED
    BY <1>1, <2>2 DEF DispatchBegin
<1>2. CASE DispatchOutsideWindow(d)
  BY <1>2 DEF DispatchOutsideWindow, vars
<1>3. CASE DispatchPeek(d)
  <2>1. disp' \in [Dispatchers -> DispatchState]
    BY <1>3, <1>0, GoDispatchType, ReturnDispatchType DEF DispatchPeek
  <2> QED
    BY <1>3, <2>1 DEF DispatchPeek
<1>4. CASE DispatchConnected(d)
  BY <1>4, <1>0, GoDispatchType DEF DispatchConnected
<1>5. CASE DispatchDisconnected(d)
  <2> DEFINE day == Day(disp[d].tick)
  <2>0. ticks' = [ticks EXCEPT ![day] = @ + 1]
    BY <1>5 DEF DispatchDisconnected
  <2>1. ticks' \in [Days -> Nat]
    BY <2>0, CountType
  <2>2. disp' \in [Dispatchers -> DispatchState]
    BY <1>5, ReturnDispatchType DEF DispatchDisconnected
  <2> QED
    BY <1>5, <2>1, <2>2 DEF DispatchDisconnected
<1>6. CASE DispatchGap(d)
  <2>1. disp' \in [Dispatchers -> DispatchState]
    BY <1>6, <1>0, GoDispatchType, ReturnDispatchType DEF DispatchGap
  <2> QED
    BY <1>6, <2>1 DEF DispatchGap
<1>7. CASE DispatchClaim(d)
  <2>1. PICK id \in EarliestDue(disp[d].tick) :
          /\ msgs' = [msgs EXCEPT ![id].status = "sending"]
          /\ disp' = [disp EXCEPT ![d].pc = "cooldown", ![d].id = id,
                                  ![d].attempts = msgs[id].attempts,
                                  ![d].loops = @ + 1]
    BY <1>7 DEF DispatchClaim
  <2>2. id \in DOMAIN msgs /\ id \in Nat /\ msgs[id] \in Row
    BY <2>1 DEF EarliestDue, Ids
  <2>3. msgs' \in Seq(Row)
    <3>1. [msgs[id] EXCEPT !.status = "sending"] \in Row
      BY <2>2 DEF Row, Statuses
    <3> QED
      BY <2>1, <3>1, RowUpdate
  <2>4. disp' \in [Dispatchers -> DispatchState]
    <3>1. msgs[id].attempts \in Nat /\ disp[d] \in DispatchState /\ disp[d].loops + 1 \in Nat
      BY <2>2 DEF Row, DispatchState
    <3>2. [disp[d] EXCEPT !.pc = "cooldown", !.id = id, !.attempts = msgs[id].attempts,
                          !.loops = @ + 1] \in DispatchState
      BY <2>2, <3>1, <1>0 DEF DispatchState
    <3> QED
      BY <2>1, <3>2
  <2> QED
    BY <1>7, <2>3, <2>4 DEF DispatchClaim
<1>8. CASE DispatchNothingLeft(d)
  BY <1>8, ReturnDispatchType DEF DispatchNothingLeft
<1>9. CASE DispatchCooldown(d)
  <2>1. disp' \in [Dispatchers -> DispatchState]
    BY <1>9, <1>0, GoDispatchType DEF DispatchCooldown
  <2> QED
    BY <1>9, <2>1 DEF DispatchCooldown
<1>10. CASE DispatchSkip(d)
  <2>1. disp[d].id \in DOMAIN msgs => [msgs[disp[d].id] EXCEPT !.status = "skipped_cooldown"] \in Row
    <3>1. disp[d].id \in DOMAIN msgs => msgs[disp[d].id] \in Row
      OBVIOUS
    <3> QED
      BY <3>1 DEF Row, Statuses
  <2>2. msgs' \in Seq(Row)
    BY <1>10, <2>1, RowUpdate DEF DispatchSkip
  <2>3. disp' \in [Dispatchers -> DispatchState]
    BY <1>10, <1>0, GoDispatchType DEF DispatchSkip
  <2> QED
    BY <1>10, <2>2, <2>3 DEF DispatchSkip
<1>11. CASE DispatchSend(d)
  <2>1. PICK o \in SendOutcomes :
          /\ sends' = sends \cup {[id |-> disp[d].id, n |-> disp[d].attempts + 1,
                                   at |-> now, tick |-> disp[d].tick,
                                   delivered |-> o.delivered]}
          /\ disp' = [disp EXCEPT ![d].pc = "record", ![d].ok = o.ok]
    BY <1>11 DEF DispatchSend
  <2>2. o.ok \in BOOLEAN /\ o.delivered \in BOOLEAN
    <3>1. SendOutcomes \subseteq [ok: BOOLEAN, delivered: BOOLEAN]
      BY DEF SendOutcomes
    <3>2. o \in [ok: BOOLEAN, delivered: BOOLEAN]
      BY <2>1, <3>1
    <3> QED
      BY <3>2
  <2>3. [disp[d] EXCEPT !.pc = "record", !.ok = o.ok] \in DispatchState
    BY <2>2, <1>0 DEF DispatchState
  <2>4. disp' \in [Dispatchers -> DispatchState]
    BY <2>1, <2>3
  <2>5. /\ disp[d].id \in Nat /\ disp[d].attempts + 1 \in Nat /\ disp[d].tick \in Nat
    BY DEF DispatchState
  <2>6. sends' \subseteq [id: Nat, n: Nat, at: Nat, tick: Nat, delivered: BOOLEAN]
    BY <2>1, <2>2, <2>5
  <2> QED
    BY <1>11, <2>4, <2>6 DEF DispatchSend
<1>12. CASE DispatchRecord(d)
  <2>1. PICK delay \in Delays :
          msgs' = [msgs EXCEPT ![disp[d].id] =
                     Settled(@, disp[d].ok, disp[d].attempts + 1, disp[d].tick + delay)]
    BY <1>12 DEF DispatchRecord
  <2>2. disp[d].ok \in BOOLEAN /\ disp[d].attempts + 1 \in Nat /\ disp[d].tick + delay \in Int
    BY DelayAssumption DEF DispatchState, Delays
  <2>3. disp[d].id \in DOMAIN msgs =>
          Settled(msgs[disp[d].id], disp[d].ok, disp[d].attempts + 1, disp[d].tick + delay) \in Row
    BY <2>2, SettledType
  <2>4. msgs' \in Seq(Row)
    BY <2>1, <2>3, RowUpdate
  <2>5. disp' \in [Dispatchers -> DispatchState]
    BY <1>12, ReturnDispatchType DEF DispatchRecord
  <2> QED
    BY <1>12, <2>4, <2>5 DEF DispatchRecord
<1> QED
  BY <1>1, <1>2, <1>3, <1>4, <1>5, <1>6, <1>7, <1>8, <1>9, <1>10, <1>11, <1>12
  DEF DispatchStep

\* The conjuncts of TypeOK about the starters, of a value of `starter`.
StartersOK(f) ==
  /\ f \in [Starters -> StartState]
  /\ \A s \in Starters : f[s].pc \in {"upsert", "insert"} => f[s].todo # <<>>

LEMMA StartTypeOK ==
  ASSUME TypeOK, NEW s \in Starters, StartStep(s)
  PROVE  TypeOK'
<1> USE DEF TypeOK, StartersOK
<1>0. /\ starter[s] \in StartState
      /\ starter[s].now \in Nat /\ starter[s].base \in Int
      /\ starter[s].todo \in Seq(Phones) /\ starter[s].at \in Int
      /\ {"tail", "check", "upsert", "insert"} \subseteq StartPC
      /\ IdleStart \in StartState
  BY DEF StartState, StartPC, IdleStart
<1>1. CASE StartBegin(s)
  <2>1. PICK r \in Requests :
          starter' = [starter EXCEPT ![s] =
                        [IdleStart EXCEPT !.pc = "tail", !.now = now, !.todo = r]]
    BY <1>1 DEF StartBegin
  <2>2. [IdleStart EXCEPT !.pc = "tail", !.now = now, !.todo = r] \in StartState
    BY <1>0, <2>1, RequestAssumption DEF StartState
  <2>3. starter'[s].pc = "tail"
    BY <2>1, <1>0 DEF IdleStart
  <2>4. StartersOK(starter')
    BY <2>1, <2>2, <2>3
  <2> QED
    BY <1>1, <2>4 DEF StartBegin
<1>2. CASE StartTail(s)
  <2> DEFINE floor == Later(starter[s].now, StartOf(starter[s].now))
  <2>1. floor \in Int
    BY <1>0, WindowType DEF Later
  <2>2. \A id \in TailRows(starter[s].now) : Later(floor, msgs[id].scheduledAt) \in Int
    <3>1. \A id \in TailRows(starter[s].now) : msgs[id] \in Row
      BY DEF TailRows, Ids
    <3>2. \A id \in TailRows(starter[s].now) : msgs[id].scheduledAt \in Int
      BY <3>1 DEF Row
    <3> QED
      BY <2>1, <3>2 DEF Later
  <2>3. PICK b \in Int : starter' = [starter EXCEPT ![s].pc = "check", ![s].base = b]
    BY <1>2, <2>1, <2>2 DEF StartTail
  <2>4. [starter[s] EXCEPT !.pc = "check", !.base = b] \in StartState
    BY <1>0 DEF StartState
  <2>5. StartersOK(starter')
    BY <2>3, <2>4
  <2> QED
    BY <1>2, <2>5 DEF StartTail
<1>3. CASE StartCheck(s)
  <2>1. PICK delay \in Delays :
          \/ starter' = [starter EXCEPT ![s].todo = Tail(@)]
          \/ starter' = [starter EXCEPT ![s].pc = "upsert",
                                        ![s].at = starter[s].base + delay]
    BY <1>3 DEF StartCheck
  <2>2. starter[s].base + delay \in Int
    BY <1>0, DelayAssumption DEF Delays
  <2>3. Tail(starter[s].todo) \in Seq(Phones) /\ starter[s].todo # <<>>
        /\ starter[s].pc = "check"
    BY <1>0, <1>3 DEF StartCheck
  <2>4. /\ [starter[s] EXCEPT !.todo = Tail(@)] \in StartState
        /\ [starter[s] EXCEPT !.pc = "upsert", !.at = starter[s].base + delay] \in StartState
    BY <1>0, <2>2, <2>3 DEF StartState
  <2>5. CASE starter' = [starter EXCEPT ![s].todo = Tail(@)]
    <3>1. starter'[s].pc = "check"
      BY <1>0, <2>3, <2>5 DEF StartState
    <3> QED
      BY <1>3, <2>4, <2>5, <3>1 DEF StartCheck
  <2>6. CASE starter' = [starter EXCEPT ![s].pc = "upsert",
                                        ![s].at = starter[s].base + delay]
    <3>1. starter'[s].todo # <<>>
      BY <1>0, <2>3, <2>6 DEF StartState
    <3> QED
      BY <1>3, <2>4, <2>6, <3>1 DEF StartCheck
  <2> QED
    BY <2>1, <2>5, <2>6
<1>4. CASE StartUpsert(s)
  <2>1. Head(starter[s].todo) \in Phones
    BY <1>0, <1>4 DEF StartUpsert
  <2>2. [starter[s] EXCEPT !.pc = "insert"] \in StartState
    BY <1>0 DEF StartState
  <2>3. StartersOK(starter')
    BY <1>4, <2>2 DEF StartUpsert
  <2> QED
    BY <1>4, <2>1, <2>3 DEF StartUpsert
<1>5. CASE StartInsert(s)
  <2> DEFINE new == [phone |-> Head(starter[s].todo), status |-> "scheduled",
                     scheduledAt |-> starter[s].at, attempts |-> 0, createdAt |-> now]
  <2>1. Head(starter[s].todo) \in Phones /\ Tail(starter[s].todo) \in Seq(Phones)
    BY <1>0, <1>5 DEF StartInsert
  <2>2. new \in Row
    BY <1>0, <2>1 DEF Row, Statuses
  <2>3. msgs' \in Seq(Row)
    BY <1>5, <2>2 DEF StartInsert
  <2>4. [starter[s] EXCEPT !.pc = "check", !.todo = Tail(@), !.base = starter[s].at] \in StartState
    BY <1>0, <2>1 DEF StartState
  <2>5. StartersOK(starter')
    BY <1>5, <2>4 DEF StartInsert
  <2> QED
    BY <1>5, <2>3, <2>5 DEF StartInsert
<1>6. CASE StartEnd(s)
  <2>1. StartersOK(starter')
    BY <1>0, <1>6 DEF StartEnd, IdleStart
  <2> QED
    BY <1>6, <2>1 DEF StartEnd
<1> QED
  BY <1>1, <1>2, <1>3, <1>4, <1>5, <1>6 DEF StartStep

\* The clock and the death of a process.
LEMMA OtherTypeOK ==
  ASSUME TypeOK,
         \/ ClockTick
         \/ \E d \in Dispatchers : DispatchCrash(d)
         \/ \E s \in Starters : StartCrash(s)
         \/ UNCHANGED vars
  PROVE  TypeOK'
<1> USE DEF TypeOK
<1>1. CASE ClockTick
  BY <1>1 DEF ClockTick
<1>2. ASSUME NEW d \in Dispatchers, DispatchCrash(d) PROVE TypeOK'
  <2>1. disp' \in [Dispatchers -> DispatchState]
    BY <1>2, ReturnDispatchType DEF DispatchCrash
  <2> QED
    BY <1>2, <2>1 DEF DispatchCrash
<1>3. ASSUME NEW s \in Starters, StartCrash(s) PROVE TypeOK'
  <2>1. IdleStart \in StartState
    BY DEF IdleStart, StartState, StartPC
  <2>2. StartersOK(starter')
    BY <1>3, <2>1 DEF StartCrash, StartersOK, IdleStart
  <2> QED
    BY <1>3, <2>2 DEF StartCrash, StartersOK
<1>4. CASE UNCHANGED vars
  BY <1>4 DEF vars
<1> QED
  BY <1>1, <1>2, <1>3, <1>4

\* Type correctness: the table stays a table of rows, and every process local
\* state stays within its program counter, through any interleaving and crash.
THEOREM TypeCorrect == Spec => []TypeOK
<1>1. Init => TypeOK
  BY InitTypeOK
<1>2. TypeOK /\ [Next]_vars => TypeOK'
  BY DispatchTypeOK, StartTypeOK, OtherTypeOK DEF Next
<1> QED
  BY <1>1, <1>2, PTL DEF Spec

(***************************************************************************)
(* Exclusive claims.  ClaimExclusive is inductive relative to TypeOK: a    *)
(* claim takes a row that says 'scheduled', which nobody holds, and only   *)
(* the holder of a row changes it.                                         *)
(***************************************************************************)
\* A step of d, with what it does to the local states and to the table.
OthersKept(d) == \A e \in Dispatchers \ {d} : disp'[e] = disp[e]

LEMMA DispatchLocal ==
  ASSUME TypeOK, NEW d \in Dispatchers, DispatchStep(d) \/ DispatchCrash(d)
  PROVE  OthersKept(d)
BY DEF TypeOK, OthersKept, DispatchStep, DispatchCrash, DispatchBegin,
  DispatchOutsideWindow, DispatchPeek, DispatchConnected, DispatchDisconnected,
  DispatchGap, DispatchClaim, DispatchNothingLeft, DispatchCooldown, DispatchSkip,
  DispatchSend, DispatchRecord, GoDispatch, ReturnDispatch, vars

\* The steps that write the table write one row: a due one (the claim), or the
\* one the dispatcher holds (the skip and the record).
LEMMA TableStep ==
  ASSUME TypeOK, ClaimExclusive, NEW d \in Dispatchers, DispatchStep(d)
  PROVE  /\ DOMAIN msgs' = DOMAIN msgs
         /\ \A i \in DOMAIN msgs :
              \/ msgs'[i] = msgs[i]
              \/ /\ DispatchClaim(d) /\ disp'[d].id = i
                 /\ msgs[i].status = "scheduled"
                 /\ msgs'[i] = [msgs[i] EXCEPT !.status = "sending"]
              \/ /\ DispatchSkip(d) \/ DispatchRecord(d)
                 /\ Holds(d) /\ disp[d].id = i
<1>1. CASE DispatchClaim(d)
  <2>1. PICK id \in EarliestDue(disp[d].tick) :
          /\ msgs' = [msgs EXCEPT ![id].status = "sending"]
          /\ disp' = [disp EXCEPT ![d].pc = "cooldown", ![d].id = id,
                                  ![d].attempts = msgs[id].attempts,
                                  ![d].loops = @ + 1]
    BY <1>1 DEF DispatchClaim
  <2>2. id \in DOMAIN msgs /\ msgs[id].status = "scheduled"
    BY <2>1 DEF EarliestDue, Ids, Due
  <2>3. disp'[d].id = id
    BY <2>1 DEF TypeOK, DispatchState
  <2> QED
    BY <1>1, <2>1, <2>2, <2>3 DEF TypeOK
<1>2. CASE DispatchSkip(d)
  BY <1>2 DEF TypeOK, DispatchSkip, Holds, Holding
<1>3. CASE DispatchRecord(d)
  BY <1>3 DEF TypeOK, DispatchRecord, Holds, Holding
<1>4. CASE UNCHANGED msgs
  BY <1>4
<1> QED
  BY <1>1, <1>2, <1>3, <1>4 DEF DispatchStep, DispatchBegin,
  DispatchOutsideWindow, DispatchPeek, DispatchConnected, DispatchDisconnected,
  DispatchGap, DispatchNothingLeft, DispatchCooldown, DispatchSend, vars

\* What the step's own dispatcher holds afterwards.
LEMMA HeldAfter ==
  ASSUME TypeOK, ClaimExclusive, NEW d \in Dispatchers, DispatchStep(d), Holds(d)'
  PROVE  /\ disp'[d].id \in DOMAIN msgs'
         /\ msgs'[disp'[d].id].status = "sending"
         /\ \/ Holds(d) /\ disp'[d].id = disp[d].id
            \/ DispatchClaim(d) /\ msgs[disp'[d].id].status = "scheduled"
<1> USE DEF TypeOK, Holds, Holding
<1>1. CASE DispatchClaim(d)
  <2>1. PICK id \in EarliestDue(disp[d].tick) :
          /\ msgs' = [msgs EXCEPT ![id].status = "sending"]
          /\ disp' = [disp EXCEPT ![d].pc = "cooldown", ![d].id = id,
                                  ![d].attempts = msgs[id].attempts,
                                  ![d].loops = @ + 1]
    BY <1>1 DEF DispatchClaim
  <2>2. id \in DOMAIN msgs /\ msgs[id].status = "scheduled" /\ msgs[id] \in Row
    BY <2>1 DEF EarliestDue, Ids, Due
  <2>3. disp'[d].id = id
    BY <2>1 DEF DispatchState
  <2> QED
    BY <1>1, <2>1, <2>2, <2>3 DEF Row
<1>2. CASE DispatchCooldown(d)
  <2>1. disp'[d].id = disp[d].id /\ Holds(d)
    BY <1>2 DEF DispatchCooldown, GoDispatch, DispatchState
  <2> QED
    BY <1>2, <2>1 DEF DispatchCooldown, ClaimExclusive, Ids
<1>3. CASE DispatchSend(d)
  <2>1. disp'[d].id = disp[d].id /\ Holds(d)
    BY <1>3 DEF DispatchSend, DispatchState
  <2> QED
    BY <1>3, <2>1 DEF DispatchSend, ClaimExclusive, Ids
<1>4. CASE DispatchOutsideWindow(d)
  BY <1>4 DEF DispatchOutsideWindow, vars
<1>5. CASE \/ DispatchBegin(d) \/ DispatchPeek(d) \/ DispatchConnected(d)
           \/ DispatchDisconnected(d) \/ DispatchGap(d) \/ DispatchNothingLeft(d)
           \/ DispatchSkip(d) \/ DispatchRecord(d)
  <2>1. ReturnDispatch(d) => disp'[d].pc = "idle"
    BY DEF ReturnDispatch, IdleDispatch
  <2>2. \A pc : GoDispatch(d, pc) => disp'[d].pc = pc
    BY DEF GoDispatch, DispatchState
  <2>3. DispatchBegin(d) => disp'[d].pc = "peek"
    BY DEF DispatchBegin, IdleDispatch
  <2> QED
    BY <1>5, <2>1, <2>2, <2>3 DEF DispatchPeek, DispatchConnected,
    DispatchDisconnected, DispatchGap, DispatchNothingLeft, DispatchSkip,
    DispatchRecord
<1> QED
  BY <1>1, <1>2, <1>3, <1>4, <1>5 DEF DispatchStep

LEMMA ClaimExclusiveStep ==
  ASSUME TypeOK, ClaimExclusive, [Next]_vars
  PROVE  ClaimExclusive'
<1>1. ASSUME NEW d \in Dispatchers, DispatchStep(d)
      PROVE  ClaimExclusive'
  <2>1. ASSUME NEW e \in Dispatchers \ {d}, Holds(e)'
        PROVE  /\ Holds(e) /\ disp'[e].id = disp[e].id
               /\ disp[e].id \in DOMAIN msgs'
               /\ msgs'[disp[e].id].status = "sending"
    <3>1. Holds(e) /\ disp'[e].id = disp[e].id
      BY <1>1, <2>1, DispatchLocal DEF OthersKept, Holds
    <3>2. disp[e].id \in DOMAIN msgs /\ msgs[disp[e].id].status = "sending"
      BY <3>1 DEF ClaimExclusive, Ids
    <3>3. Holds(d) => disp[d].id # disp[e].id
      BY <3>1 DEF ClaimExclusive
    <3> QED
      BY <1>1, <3>1, <3>2, <3>3, TableStep
  <2>2. ASSUME NEW e \in Dispatchers \ {d}, Holds(e)', Holds(d)'
        PROVE  disp'[e].id # disp'[d].id
    <3>1. Holds(e) /\ disp'[e].id = disp[e].id /\ msgs[disp[e].id].status = "sending"
      BY <2>1, <2>2 DEF ClaimExclusive
    <3>2. \/ Holds(d) /\ disp'[d].id = disp[d].id
          \/ msgs[disp'[d].id].status = "scheduled"
      BY <1>1, <2>2, HeldAfter
    <3> QED
      BY <3>1, <3>2 DEF ClaimExclusive
  <2>3. \A e \in Dispatchers : Holds(e)' =>
          disp'[e].id \in DOMAIN msgs' /\ msgs'[disp'[e].id].status = "sending"
    BY <1>1, <2>1, HeldAfter
  <2>4. \A e, f \in Dispatchers :
          Holds(e)' /\ Holds(f)' /\ disp'[e].id = disp'[f].id => e = f
    <3> SUFFICES ASSUME NEW e \in Dispatchers, NEW f \in Dispatchers,
                        Holds(e)', Holds(f)', disp'[e].id = disp'[f].id, e # f
                 PROVE  FALSE
      OBVIOUS
    <3>1. CASE e = d \/ f = d
      BY <2>2, <3>1
    <3>2. CASE e # d /\ f # d
      BY <2>1, <3>2 DEF ClaimExclusive
    <3> QED
      BY <3>1, <3>2
  <2> QED
    BY <2>3, <2>4 DEF ClaimExclusive, Ids, Holds
<1>2. ASSUME NEW d \in Dispatchers, DispatchCrash(d)
      PROVE  ClaimExclusive'
  <2>1. ~ Holds(d)'
    BY <1>2 DEF DispatchCrash, ReturnDispatch, IdleDispatch, Holds, Holding, TypeOK
  <2>2. OthersKept(d) /\ UNCHANGED msgs
    BY <1>2, DispatchLocal DEF DispatchCrash
  <2> QED
    BY <2>1, <2>2 DEF ClaimExclusive, OthersKept, Holds, Ids
<1>3. ASSUME NEW s \in Starters, StartInsert(s)
      PROVE  ClaimExclusive'
  <2>1. /\ UNCHANGED disp
        /\ \A i \in DOMAIN msgs : i \in DOMAIN msgs' /\ msgs'[i] = msgs[i]
    BY <1>3 DEF StartInsert, TypeOK
  <2> QED
    BY <2>1 DEF ClaimExclusive, Holds, Ids
<1>4. CASE UNCHANGED <<disp, msgs>>
  BY <1>4 DEF ClaimExclusive, Holds, Ids
<1> QED
  BY <1>1, <1>2, <1>3, <1>4 DEF Next, StartStep, StartBegin, StartTail,
  StartCheck, StartUpsert, StartEnd, StartCrash, ClockTick, vars

\* No two dispatch runs ever work on the same message, however many overlap and
\* whichever of them die, and a message being worked on is marked 'sending'.
THEOREM ClaimsAreExclusive == Spec => []ClaimExclusive
<1>1. Init => ClaimExclusive
  BY DEF Init, ClaimExclusive, Holds, Holding, IdleDispatch
<1>2. TypeOK /\ ClaimExclusive /\ [Next]_vars => ClaimExclusive'
  BY ClaimExclusiveStep
<1> QED
  BY <1>1, <1>2, TypeCorrect, PTL DEF Spec

\* A message that was sent, failed or skipped is never written again.
THEOREM TerminalRowsAreFinal == Spec => TerminalIsFinal
<1>1. ASSUME TypeOK, ClaimExclusive, [Next]_vars
      PROVE  [\A id \in Ids : /\ id \in DOMAIN msgs'
                              /\ msgs[id].status \in Terminal => msgs'[id] = msgs[id]]_vars
  <2>1. ASSUME NEW d \in Dispatchers, DispatchStep(d), NEW id \in DOMAIN msgs
        PROVE  id \in DOMAIN msgs' /\ (msgs[id].status \in Terminal => msgs'[id] = msgs[id])
    <3>1. Holds(d) => msgs[disp[d].id].status = "sending"
      BY <1>1 DEF ClaimExclusive
    <3> QED
      BY <1>1, <2>1, <3>1, TableStep DEF Terminal
  <2>2. ASSUME NEW s \in Starters, StartInsert(s)
        PROVE  \A i \in DOMAIN msgs : i \in DOMAIN msgs' /\ msgs'[i] = msgs[i]
    BY <1>1, <2>2 DEF StartInsert, TypeOK
  <2> QED
    BY <1>1, <2>1, <2>2 DEF Ids, Next, StartStep, StartBegin, StartTail,
    StartCheck, StartUpsert, StartEnd, StartCrash, DispatchCrash, ClockTick, vars
<1> QED
  BY <1>1, TypeCorrect, ClaimsAreExclusive, PTL DEF Spec, TerminalIsFinal

(***************************************************************************)
(* No duplicates.  NoDuplicatePending is not inductive alone: between      *)
(* blockReason and the INSERT the starter must still be right that its     *)
(* number has nothing waiting.  That holds because dispatchers only take   *)
(* rows out of the queue, and because no other `start` runs meanwhile.     *)
(***************************************************************************)
NothingWaitingFor(p) == \A id \in Ids : Pending(id) => msgs[id].phone # p

CheckStillTrue ==
  \A s \in Starters : starter[s].pc \in {"upsert", "insert"} =>
    NothingWaitingFor(Head(starter[s].todo))

DupInv == NoDuplicatePending /\ CheckStillTrue

\* Dispatchers create no pending row and never change a number.
LEMMA DispatchAddsNothing ==
  ASSUME TypeOK, ClaimExclusive, NEW d \in Dispatchers, DispatchStep(d),
         NEW id \in DOMAIN msgs'
  PROVE  /\ id \in DOMAIN msgs
         /\ msgs'[id].phone = msgs[id].phone
         /\ msgs'[id].createdAt = msgs[id].createdAt
         /\ Pending(id)' => Pending(id)
<1>1. id \in DOMAIN msgs /\ msgs[id] \in Row
  BY TableStep DEF TypeOK
<1>2. CASE msgs'[id] = msgs[id]
  BY <1>1, <1>2 DEF Pending
<1>3. CASE /\ msgs[id].status = "scheduled"
           /\ msgs'[id] = [msgs[id] EXCEPT !.status = "sending"]
  BY <1>1, <1>3 DEF Pending, Row
<1>4. CASE (DispatchSkip(d) \/ DispatchRecord(d)) /\ Holds(d) /\ disp[d].id = id
  <2>1. Pending(id)
    BY <1>4 DEF ClaimExclusive, Pending
  <2>2. CASE DispatchSkip(d)
    BY <1>1, <1>4, <2>1, <2>2 DEF DispatchSkip, TypeOK, Row
  <2>3. CASE DispatchRecord(d)
    <3>1. PICK delay \in Delays :
            msgs'[id] = Settled(msgs[id], disp[d].ok, disp[d].attempts + 1,
                                disp[d].tick + delay)
      BY <1>1, <1>4, <2>3 DEF DispatchRecord, TypeOK
    <3> QED
      BY <1>1, <2>1, <3>1 DEF Settled, Row
  <2> QED
    BY <1>4, <2>2, <2>3
<1> QED
  BY <1>1, <1>2, <1>3, <1>4, TableStep

LEMMA DupInvStep ==
  ASSUME TypeOK, ClaimExclusive, DupInv, [Next]_vars,
         \A s, t \in Starters : s = t
  PROVE  DupInv'
<1> USE DEF DupInv
<1>1. ASSUME NEW d \in Dispatchers, DispatchStep(d)
      PROVE  DupInv'
  <2>1. UNCHANGED starter
    BY <1>1 DEF DispatchStep, DispatchBegin, DispatchOutsideWindow, DispatchPeek,
    DispatchConnected, DispatchDisconnected, DispatchGap, DispatchClaim,
    DispatchNothingLeft, DispatchCooldown, DispatchSkip, DispatchSend,
    DispatchRecord, vars
  <2>2. \A id \in DOMAIN msgs' : /\ id \in DOMAIN msgs
                                 /\ msgs'[id].phone = msgs[id].phone
                                 /\ Pending(id)' => Pending(id)
    BY <1>1, DispatchAddsNothing
  <2>3. NoDuplicatePending'
    BY <2>2 DEF NoDuplicatePending, Ids, Pending
  <2>4. CheckStillTrue'
    BY <2>1, <2>2 DEF CheckStillTrue, NothingWaitingFor, Ids, Pending
  <2> QED
    BY <2>3, <2>4
<1>2. ASSUME NEW s \in Starters, StartCheck(s)
      PROVE  DupInv'
  <2>1. UNCHANGED msgs
    BY <1>2 DEF StartCheck
  <2>2. ASSUME starter'[s].pc \in {"upsert", "insert"}
        PROVE  NothingWaitingFor(Head(starter[s].todo)) /\ starter'[s].todo = starter[s].todo
    <3>1. PICK delay \in Delays :
            LET at == starter[s].base + delay
            IN IF Refused(s, at)
                 THEN starter' = [starter EXCEPT ![s].todo = Tail(@)]
                 ELSE starter' = [starter EXCEPT ![s].pc = "upsert", ![s].at = at]
      BY <1>2 DEF StartCheck
    <3>2. starter[s].pc = "check"
      BY <1>2 DEF StartCheck
    <3>3. ~ Refused(s, starter[s].base + delay)
      BY <2>2, <3>1, <3>2 DEF TypeOK, StartState
    <3>4. BlockReason(Head(starter[s].todo), starter[s].now) = "none"
      BY <3>3 DEF Refused
    <3>5. ~ \E id \in RowsOf(Head(starter[s].todo)) : Pending(id)
      BY <3>4 DEF BlockReason
    <3>6. NothingWaitingFor(Head(starter[s].todo))
      BY <3>5 DEF NothingWaitingFor, RowsOf
    <3>7. starter' = [starter EXCEPT ![s].pc = "upsert", ![s].at = starter[s].base + delay]
      BY <3>1, <3>3
    <3>8. starter'[s].todo = starter[s].todo
      BY <3>7 DEF TypeOK, StartState
    <3> QED
      BY <3>6, <3>8
  <2>3. NoDuplicatePending'
    BY <2>1 DEF NoDuplicatePending, Ids, Pending
  <2>4. CheckStillTrue'
    BY <2>1, <2>2 DEF CheckStillTrue, NothingWaitingFor, Ids, Pending
  <2> QED
    BY <2>3, <2>4
<1>3. ASSUME NEW s \in Starters, StartUpsert(s)
      PROVE  DupInv'
  <2>1. UNCHANGED msgs /\ starter[s].pc = "upsert" /\ starter'[s].todo = starter[s].todo
    BY <1>3 DEF StartUpsert, TypeOK, StartState
  <2>2. NoDuplicatePending'
    BY <2>1 DEF NoDuplicatePending, Ids, Pending
  <2>3. CheckStillTrue'
    BY <2>1 DEF CheckStillTrue, NothingWaitingFor, Ids, Pending
  <2> QED
    BY <2>2, <2>3
<1>4. ASSUME NEW s \in Starters, StartInsert(s)
      PROVE  DupInv'
  <2> DEFINE n == Len(msgs) + 1
             p == Head(starter[s].todo)
  <2>1. /\ DOMAIN msgs' = DOMAIN msgs \cup {n} /\ n \notin DOMAIN msgs
        /\ \A id \in DOMAIN msgs : msgs'[id] = msgs[id]
        /\ msgs'[n].phone = p
    BY <1>4 DEF StartInsert, TypeOK
  <2>2. NothingWaitingFor(p)
    BY <1>4 DEF CheckStillTrue, StartInsert
  <2>3. NoDuplicatePending'
    BY <2>1, <2>2 DEF NoDuplicatePending, NothingWaitingFor, Ids, Pending
  <2>4. \A t \in Starters : starter'[t].pc = "check"
    BY <1>4 DEF StartInsert, TypeOK, StartState
  <2> QED
    BY <2>3, <2>4 DEF CheckStillTrue
<1>5. ASSUME NEW s \in Starters,
             StartBegin(s) \/ StartTail(s) \/ StartEnd(s) \/ StartCrash(s)
      PROVE  DupInv'
  <2>1. starter'[s].pc \in {"tail", "check", "idle"}
    <3>1. StartBegin(s) => starter'[s].pc = "tail"
      BY DEF StartBegin, TypeOK, IdleStart
    <3>2. StartTail(s) => starter'[s].pc = "check"
      BY DEF StartTail, TypeOK, StartState
    <3>3. StartEnd(s) \/ StartCrash(s) => starter'[s].pc = "idle"
      BY DEF StartEnd, StartCrash, TypeOK, IdleStart
    <3> QED
      BY <1>5, <3>1, <3>2, <3>3
  <2>2. UNCHANGED msgs
    BY <1>5 DEF StartBegin, StartTail, StartEnd, StartCrash
  <2> QED
    BY <2>1, <2>2 DEF NoDuplicatePending, CheckStillTrue, Ids, Pending
<1>6. CASE UNCHANGED <<msgs, starter>>
  BY <1>6 DEF NoDuplicatePending, CheckStillTrue, NothingWaitingFor, Ids, Pending
<1> QED
  BY <1>1, <1>2, <1>3, <1>4, <1>5, <1>6 DEF Next, StartStep, DispatchCrash,
  ClockTick, vars

\* As long as one `start` runs at a time, a number never has two messages
\* waiting, however many dispatchers overlap and whichever processes die.
THEOREM NoDuplicateStaging ==
  ASSUME \A s, t \in Starters : s = t
  PROVE  Spec => []NoDuplicatePending
<1>1. Init => DupInv
  BY DEF Init, DupInv, NoDuplicatePending, CheckStillTrue, Ids, IdleStart
<1>2. TypeOK /\ ClaimExclusive /\ DupInv /\ [Next]_vars => DupInv'
  BY DupInvStep
<1>3. DupInv => NoDuplicatePending
  BY DEF DupInv
<1> QED
  BY <1>1, <1>2, <1>3, TypeCorrect, ClaimsAreExclusive, PTL DEF Spec

(***************************************************************************)
(* Staging.  StagedApart is not inductive alone.  What `start` read at its *)
(* beginning must still hold at the INSERT, many steps later: the base it  *)
(* counts from is the time of the last fresh row, that row ends within the *)
(* day's window, and the number it is about to stage has nothing waiting   *)
(* and was not sent to within a cooldown.  Dispatchers only make rows      *)
(* older: they never make a row fresh, nor reopen a finished one.          *)
(***************************************************************************)
\* A row that no dispatcher has touched, in a value m of the table.
Fresh(m, id) == m[id].status = "scheduled" /\ m[id].attempts = 0

FreshUpTo(m, b) == \A id \in DOMAIN m : Fresh(m, id) => m[id].scheduledAt <= b

NoneOpen(m, p) == \A id \in DOMAIN m : m[id].phone = p => m[id].status \in Terminal

CooledFor(m, p, t) ==
  \A id \in DOMAIN m :
    m[id].phone = p /\ m[id].status = "sent" => t - m[id].createdAt >= Cooldown

\* A batch b of `start` that knows the truth about the table m at instant t.
BatchOK(m, b, t) ==
  /\ b.pc # "idle" => b.now <= t /\ FreshUpTo(m, EndOf(b.now))
  /\ b.pc \in {"check", "upsert", "insert"} => FreshUpTo(m, b.base)
  /\ b.pc \in {"upsert", "insert"} =>
       /\ b.at - b.base >= DelayMin
       /\ b.at <= EndOf(b.now)
       /\ NoneOpen(m, Head(b.todo))
       /\ CooledFor(m, Head(b.todo), b.now)

Spaced(m) ==
  \A i, j \in DOMAIN m :
    Fresh(m, i) /\ Fresh(m, j) /\ i < j => m[j].scheduledAt - m[i].scheduledAt >= DelayMin

\* Of the rows of a number only the last may still be open.
LastOpen(m) ==
  \A i, j \in DOMAIN m : i < j /\ m[i].phone = m[j].phone => m[i].status \in Terminal

Cooled(m) ==
  \A i, j \in DOMAIN m :
    i < j /\ m[i].phone = m[j].phone /\ m[i].status = "sent"
    => m[j].createdAt - m[i].createdAt >= Cooldown

TableOK(m) == Spaced(m) /\ LastOpen(m) /\ Cooled(m)

ApartInv ==
  /\ TableOK(msgs)
  /\ FreshUpTo(msgs, EndOf(now))
  /\ \A s \in Starters : BatchOK(msgs, starter[s], now)

\* A later instant belongs to no earlier day.
LEMMA DayBounds ==
  ASSUME NEW t \in Nat
  PROVE  /\ t \div DayLength \in Int
         /\ t % DayLength \in 0 .. DayLength - 1
         /\ t = DayLength * (t \div DayLength) + (t % DayLength)
BY WindowAssumption

LEMMA DayApart ==
  ASSUME NEW a \in Int, NEW b \in Int, a < b
  PROVE  DayLength * a + DayLength <= DayLength * b
<1>1. DayLength * (b - a - 1) >= 0
  BY WindowAssumption
<1> QED
  BY <1>1, WindowAssumption

LEMMA EndOfMonotone ==
  ASSUME NEW t \in Nat, NEW u \in Nat, t <= u
  PROVE  EndOf(t) <= EndOf(u)
<1> DEFINE q == t \div DayLength
           r == u \div DayLength
<1>1. /\ q \in Int /\ t % DayLength \in 0 .. DayLength - 1
      /\ t = DayLength * q + (t % DayLength)
  BY DayBounds
<1>2. /\ r \in Int /\ u % DayLength \in 0 .. DayLength - 1
      /\ u = DayLength * r + (u % DayLength)
  BY DayBounds
<1> HIDE DEF q, r
<1>3. q <= r
  <2>1. ASSUME r < q PROVE FALSE
    <3>1. DayLength * r + DayLength <= DayLength * q
      BY <1>1, <1>2, <2>1, DayApart
    <3> QED
      BY <1>1, <1>2, <3>1, WindowAssumption
  <2> QED
    BY <1>1, <1>2, <2>1
<1>4. q = r \/ DayLength * q + DayLength <= DayLength * r
  BY <1>1, <1>2, <1>3, DayApart
<1>5. t - (t % DayLength) <= u - (u % DayLength)
  BY <1>1, <1>2, <1>4, WindowAssumption
<1> QED
  BY <1>1, <1>2, <1>5, WindowAssumption DEF EndOf, DayStart

\* What a dispatcher's step makes of the table: the same rows, none of them
\* made fresh, none opened, and a finished one left alone.
Ages(m, n) ==
  /\ DOMAIN n = DOMAIN m
  /\ \A id \in DOMAIN m :
       /\ n[id].phone = m[id].phone
       /\ n[id].createdAt = m[id].createdAt
       /\ Fresh(n, id) => Fresh(m, id) /\ n[id].scheduledAt = m[id].scheduledAt
       /\ m[id].status \in Terminal => n[id] = m[id]

LEMMA DispatchAges ==
  ASSUME TypeOK, ClaimExclusive, NEW d \in Dispatchers, DispatchStep(d)
  PROVE  Ages(msgs, msgs')
<1> SUFFICES ASSUME NEW id \in DOMAIN msgs
             PROVE  /\ msgs'[id].phone = msgs[id].phone
                    /\ msgs'[id].createdAt = msgs[id].createdAt
                    /\ Fresh(msgs', id) =>
                         Fresh(msgs, id) /\ msgs'[id].scheduledAt = msgs[id].scheduledAt
                    /\ msgs[id].status \in Terminal => msgs'[id] = msgs[id]
  BY TableStep DEF Ages
<1>1. msgs[id] \in Row /\ DOMAIN msgs' = DOMAIN msgs
  BY TableStep DEF TypeOK
<1>2. CASE msgs'[id] = msgs[id]
  BY <1>2 DEF Fresh
<1>3. CASE /\ msgs[id].status = "scheduled"
           /\ msgs'[id] = [msgs[id] EXCEPT !.status = "sending"]
  BY <1>1, <1>3 DEF Fresh, Row, Terminal
<1>4. CASE (DispatchSkip(d) \/ DispatchRecord(d)) /\ Holds(d) /\ disp[d].id = id
  <2>1. msgs[id].status = "sending"
    BY <1>4 DEF ClaimExclusive
  <2>2. CASE DispatchSkip(d)
    <3>1. msgs'[id] = [msgs[id] EXCEPT !.status = "skipped_cooldown"]
      BY <1>1, <1>4, <2>2 DEF DispatchSkip, TypeOK
    <3> QED
      BY <1>1, <2>1, <3>1 DEF Row, Fresh, Terminal
  <2>3. CASE DispatchRecord(d)
    <3>1. PICK delay \in Delays :
            msgs'[id] = Settled(msgs[id], disp[d].ok, disp[d].attempts + 1,
                                disp[d].tick + delay)
      BY <1>1, <1>4, <2>3 DEF DispatchRecord, TypeOK
    <3>2. disp[d].attempts + 1 # 0
      BY DEF TypeOK, DispatchState
    <3>3. /\ msgs'[id].phone = msgs[id].phone
          /\ msgs'[id].createdAt = msgs[id].createdAt
          /\ msgs'[id].attempts = disp[d].attempts + 1
      BY <1>1, <3>1 DEF Settled, Row
    <3> QED
      BY <2>1, <3>2, <3>3 DEF Fresh, Terminal
  <2> QED
    BY <1>4, <2>2, <2>3
<1> QED
  BY <1>2, <1>3, <1>4, TableStep

\* Ageing breaks nothing a batch or the table knows.
LEMMA AgesKeeps ==
  ASSUME NEW m, NEW n, Ages(m, n)
  PROVE  /\ \A b : FreshUpTo(m, b) => FreshUpTo(n, b)
         /\ \A p : NoneOpen(m, p) => NoneOpen(n, p)
         /\ \A p, t : NoneOpen(m, p) /\ CooledFor(m, p, t) => CooledFor(n, p, t)
         /\ TableOK(m) => TableOK(n)
<1>1. \A b : FreshUpTo(m, b) => FreshUpTo(n, b)
  BY DEF Ages, FreshUpTo
<1>2. \A p : NoneOpen(m, p) => NoneOpen(n, p)
  BY DEF Ages, NoneOpen
<1>3. \A p, t : NoneOpen(m, p) /\ CooledFor(m, p, t) => CooledFor(n, p, t)
  BY DEF Ages, NoneOpen, CooledFor
<1>4. ASSUME TableOK(m) PROVE TableOK(n)
  <2>1. Spaced(n)
    BY <1>4 DEF TableOK, Spaced, Ages
  <2>2. LastOpen(n)
    BY <1>4 DEF TableOK, LastOpen, Ages
  <2>3. Cooled(n)
    <3> SUFFICES ASSUME NEW i \in DOMAIN n, NEW j \in DOMAIN n, i < j,
                        n[i].phone = n[j].phone, n[i].status = "sent"
                 PROVE  n[j].createdAt - n[i].createdAt >= Cooldown
      BY DEF Cooled
    <3>1. m[i].phone = m[j].phone /\ m[j].createdAt = n[j].createdAt
      BY DEF Ages
    <3>2. n[i] = m[i]
      BY <1>4, <3>1 DEF Ages, TableOK, LastOpen
    <3> QED
      BY <1>4, <3>1, <3>2 DEF Ages, TableOK, Cooled
  <2> QED
    BY <2>1, <2>2, <2>3 DEF TableOK
<1> QED
  BY <1>1, <1>2, <1>3, <1>4

LEMMA BatchAges ==
  ASSUME NEW m, NEW n, NEW b, NEW t, Ages(m, n), BatchOK(m, b, t)
  PROVE  BatchOK(n, b, t)
BY AgesKeeps DEF BatchOK

LEMMA RowFields ==
  ASSUME TypeOK, NEW id \in DOMAIN msgs
  PROVE  /\ msgs[id].scheduledAt \in Int /\ msgs[id].createdAt \in Nat
         /\ msgs[id].status \in Statuses
<1>1. msgs[id] \in Row
  BY DEF TypeOK
<1> QED
  BY <1>1 DEF Row

\* Before a batch counts from it, the tail of the queue is behind the base: a
\* fresh row outside today's window is a row of an earlier day.
LEMMA TailBehind ==
  ASSUME TypeOK, NEW t \in Nat, FreshUpTo(msgs, EndOf(t)), NEW b \in Int,
         StartOf(t) <= b,
         \A j \in TailRows(t) : msgs[j].scheduledAt <= b
  PROVE  FreshUpTo(msgs, b)
<1> SUFFICES ASSUME NEW id \in DOMAIN msgs, Fresh(msgs, id)
             PROVE  msgs[id].scheduledAt <= b
  BY DEF FreshUpTo
<1>1. msgs[id].scheduledAt \in Int /\ Pending(id)
  BY RowFields DEF Fresh, Pending
<1>2. msgs[id].scheduledAt <= EndOf(t)
  BY DEF FreshUpTo
<1>3. StartOf(t) \in Int
  BY WindowType
<1> QED
  BY <1>1, <1>2, <1>3 DEF TailRows, Ids

\* The steps of a batch that leave the table alone.
LEMMA BatchStep ==
  ASSUME TypeOK, ApartInv, NEW s \in Starters,
         \/ StartBegin(s) \/ StartTail(s) \/ StartCheck(s)
         \/ StartUpsert(s) \/ StartEnd(s) \/ StartCrash(s)
  PROVE  BatchOK(msgs, starter'[s], now)
<1>0. /\ starter \in [Starters -> StartState] /\ starter[s] \in StartState
      /\ starter[s].now \in Nat /\ starter[s].base \in Int /\ starter[s].at \in Int
      /\ BatchOK(msgs, starter[s], now)
  BY DEF TypeOK, StartState, ApartInv
<1>1. CASE StartBegin(s)
  <2>1. starter'[s].pc = "tail" /\ starter'[s].now = now
    BY <1>0, <1>1 DEF StartBegin, IdleStart
  <2>2. now <= now
    BY DEF TypeOK
  <2> QED
    BY <2>1, <2>2 DEF BatchOK, ApartInv
<1>2. CASE StartTail(s)
  <2> DEFINE t == starter[s].now
             floor == Later(t, StartOf(t))
  <2>1. FreshUpTo(msgs, EndOf(t)) /\ t <= now
    BY <1>0, <1>2 DEF BatchOK, StartTail
  <2>2. StartOf(t) \in Int /\ floor \in Int /\ StartOf(t) <= floor
    BY <1>0, WindowType DEF Later
  <2>3. ASSUME TailRows(t) = {},
               starter' = [starter EXCEPT ![s].pc = "check", ![s].base = floor]
        PROVE  BatchOK(msgs, starter'[s], now)
    <3>1. /\ starter'[s].pc = "check" /\ starter'[s].base = floor
          /\ starter'[s].now = t
      BY <1>0, <2>3 DEF StartState
    <3>2. FreshUpTo(msgs, floor)
      BY <1>0, <2>1, <2>2, <2>3, TailBehind
    <3> QED
      BY <2>1, <3>1, <3>2 DEF BatchOK
  <2>4. ASSUME NEW id \in TailRows(t),
               \A j \in TailRows(t) : msgs[j].scheduledAt <= msgs[id].scheduledAt,
               starter' = [starter EXCEPT ![s].pc = "check",
                             ![s].base = Later(floor, msgs[id].scheduledAt)]
        PROVE  BatchOK(msgs, starter'[s], now)
    <3> DEFINE b == Later(floor, msgs[id].scheduledAt)
    <3>1. /\ starter'[s].pc = "check" /\ starter'[s].base = b
          /\ starter'[s].now = t
      BY <1>0, <2>4 DEF StartState
    <3>2. \A j \in TailRows(t) : msgs[j].scheduledAt \in Int
      BY RowFields DEF TailRows, Ids
    <3>3. b \in Int /\ floor <= b /\ msgs[id].scheduledAt <= b
      BY <2>2, <3>2 DEF Later
    <3>4. \A j \in TailRows(t) : msgs[j].scheduledAt <= b
      BY <2>4, <3>2, <3>3
    <3> HIDE DEF b
    <3>5. StartOf(t) <= b
      BY <2>2, <3>3
    <3>6. FreshUpTo(msgs, b)
      BY <1>0, <2>1, <3>3, <3>4, <3>5, TailBehind
    <3> QED
      BY <2>1, <3>1, <3>6 DEF BatchOK
  <2> QED
    BY <1>2, <2>3, <2>4 DEF StartTail
<1>3. CASE StartCheck(s)
  <2> DEFINE p == Head(starter[s].todo)
             t == starter[s].now
  <2>1. PICK delay \in Delays :
          LET at == starter[s].base + delay
          IN IF Refused(s, at)
               THEN starter' = [starter EXCEPT ![s].todo = Tail(@)]
               ELSE starter' = [starter EXCEPT ![s].pc = "upsert", ![s].at = at]
    BY <1>3 DEF StartCheck
  <2> DEFINE at == starter[s].base + delay
  <2>2. /\ starter[s].pc = "check" /\ t <= now
        /\ FreshUpTo(msgs, EndOf(t)) /\ FreshUpTo(msgs, starter[s].base)
    BY <1>0, <1>3 DEF StartCheck, BatchOK
  <2>3. CASE Refused(s, at)
    <3>1. /\ starter'[s].pc = "check" /\ starter'[s].now = t
          /\ starter'[s].base = starter[s].base
      BY <1>0, <2>1, <2>2, <2>3 DEF StartState
    <3> QED
      BY <2>2, <3>1 DEF BatchOK
  <2>4. CASE ~ Refused(s, at)
    <3>1. /\ starter'[s].pc = "upsert" /\ starter'[s].now = t
          /\ starter'[s].base = starter[s].base /\ starter'[s].at = at
          /\ starter'[s].todo = starter[s].todo
      BY <1>0, <2>1, <2>4 DEF StartState
    <3>2. BlockReason(p, t) = "none" /\ ~ (at > EndOf(t))
      BY <2>4 DEF Refused
    <3>3. /\ ~ \E id \in RowsOf(p) : Pending(id)
          /\ ~ SentWithin(RowsOf(p), t, Cooldown)
      BY <3>2 DEF BlockReason
    <3>4. NoneOpen(msgs, p)
      BY <3>3, RowFields DEF NoneOpen, RowsOf, Ids, Pending, Statuses, Terminal
    <3>5. CooledFor(msgs, p, t)
      <4> SUFFICES ASSUME NEW id \in DOMAIN msgs, msgs[id].phone = p,
                          msgs[id].status = "sent"
                   PROVE  t - msgs[id].createdAt >= Cooldown
        BY DEF CooledFor
      <4>1. ~ (t - msgs[id].createdAt < Cooldown)
        BY <3>3 DEF SentWithin, RowsOf, Ids
      <4>2. msgs[id].createdAt \in Nat
        BY RowFields
      <4> QED
        BY <1>0, <4>1, <4>2, DelayAssumption
    <3>6. at - starter[s].base >= DelayMin /\ at <= EndOf(t)
      BY <1>0, <3>2, WindowType, DelayAssumption DEF Delays
    <3> QED
      BY <2>2, <3>1, <3>4, <3>5, <3>6 DEF BatchOK
  <2> QED
    BY <2>3, <2>4
<1>4. CASE StartUpsert(s)
  <2>1. /\ starter[s].pc = "upsert" /\ starter'[s].pc = "insert"
        /\ starter'[s].now = starter[s].now /\ starter'[s].base = starter[s].base
        /\ starter'[s].at = starter[s].at /\ starter'[s].todo = starter[s].todo
    BY <1>0, <1>4 DEF StartUpsert, StartState
  <2> QED
    BY <1>0, <2>1 DEF BatchOK
<1>5. CASE StartEnd(s) \/ StartCrash(s)
  <2>1. starter'[s].pc = "idle"
    BY <1>0, <1>5 DEF StartEnd, StartCrash, IdleStart
  <2> QED
    BY <2>1 DEF BatchOK
<1> QED
  BY <1>1, <1>2, <1>3, <1>4, <1>5

\* The INSERT: what the batch found out is still so, and the new row keeps it so.
LEMMA StageStep ==
  ASSUME TypeOK, ApartInv, NEW s \in Starters, StartInsert(s)
  PROVE  /\ TableOK(msgs')
         /\ FreshUpTo(msgs', EndOf(now))
         /\ BatchOK(msgs', starter'[s], now)
<1> DEFINE n == Len(msgs) + 1
           b == starter[s]
           p == Head(b.todo)
<1>1. /\ b \in StartState /\ b.now \in Nat /\ b.base \in Int /\ b.at \in Int
      /\ b.pc = "insert" /\ BatchOK(msgs, b, now)
      /\ now \in Nat
  BY DEF TypeOK, StartState, ApartInv, StartInsert
<1>2. /\ b.now <= now
      /\ FreshUpTo(msgs, EndOf(b.now)) /\ FreshUpTo(msgs, b.base)
      /\ b.at - b.base >= DelayMin /\ b.at <= EndOf(b.now)
      /\ NoneOpen(msgs, p) /\ CooledFor(msgs, p, b.now)
  BY <1>1 DEF BatchOK
<1>3. /\ DOMAIN msgs' = DOMAIN msgs \cup {n} /\ n \notin DOMAIN msgs
      /\ \A id \in DOMAIN msgs : msgs'[id] = msgs[id] /\ id < n /\ id \in Nat
      /\ n \in Nat
      /\ msgs'[n] = [phone |-> p, status |-> "scheduled", scheduledAt |-> b.at,
                     attempts |-> 0, createdAt |-> now]
  BY DEF StartInsert, TypeOK
<1>4. \A id \in DOMAIN msgs : msgs[id].scheduledAt \in Int /\ msgs[id].createdAt \in Nat
  BY RowFields
<1>5. /\ starter'[s].pc = "check" /\ starter'[s].now = b.now
      /\ starter'[s].base = b.at
  BY <1>1 DEF StartInsert, StartState, TypeOK
<1>6. EndOf(b.now) \in Int /\ EndOf(now) \in Int /\ EndOf(b.now) <= EndOf(now)
  BY <1>1, <1>2, WindowType, EndOfMonotone
<1>7. \A id \in DOMAIN msgs' : Fresh(msgs', id) =>
        \/ id \in DOMAIN msgs /\ Fresh(msgs, id)
        \/ id = n /\ msgs'[id].scheduledAt = b.at
  BY <1>3 DEF Fresh
<1> HIDE DEF n, b, p
<1>8. \A id \in DOMAIN msgs : Fresh(msgs, id) =>
        /\ b.at - msgs[id].scheduledAt >= DelayMin
        /\ msgs[id].scheduledAt <= b.at
  BY <1>1, <1>2, <1>4, DelayAssumption DEF FreshUpTo
<1>9. \A c \in Int : FreshUpTo(msgs, c) /\ b.at <= c => FreshUpTo(msgs', c)
  BY <1>3, <1>7 DEF FreshUpTo
<1>10. FreshUpTo(msgs', b.at)
  BY <1>1, <1>3, <1>7, <1>8 DEF FreshUpTo
<1>11. FreshUpTo(msgs', EndOf(b.now))
  BY <1>2, <1>6, <1>9
<1>12. FreshUpTo(msgs', EndOf(now))
  <2>1. b.at <= EndOf(now)
    BY <1>1, <1>2, <1>6
  <2> QED
    BY <1>6, <1>9, <2>1 DEF ApartInv
<1>13. Spaced(msgs')
  <2> SUFFICES ASSUME NEW i \in DOMAIN msgs', NEW j \in DOMAIN msgs', i < j,
                      Fresh(msgs', i), Fresh(msgs', j)
               PROVE  msgs'[j].scheduledAt - msgs'[i].scheduledAt >= DelayMin
    BY DEF Spaced
  <2>1. i \in DOMAIN msgs /\ Fresh(msgs, i) /\ msgs'[i] = msgs[i]
    BY <1>3, <1>7
  <2>2. CASE j = n
    BY <1>3, <1>8, <2>1, <2>2
  <2>3. CASE j \in DOMAIN msgs
    BY <1>3, <1>7, <2>1, <2>3 DEF ApartInv, TableOK, Spaced
  <2> QED
    BY <1>3, <2>2, <2>3
<1>14. ASSUME NEW i \in DOMAIN msgs', NEW j \in DOMAIN msgs', i < j,
              msgs'[i].phone = msgs'[j].phone
       PROVE  /\ msgs'[i].status \in Terminal
              /\ msgs'[i].status = "sent" => msgs'[j].createdAt - msgs'[i].createdAt >= Cooldown
  <2>1. i \in DOMAIN msgs /\ msgs'[i] = msgs[i]
    BY <1>3, <1>14
  <2>2. CASE j = n
    <3>1. msgs[i].phone = p /\ msgs'[j].createdAt = now
      BY <1>3, <1>14, <2>1, <2>2
    <3>2. msgs[i].status \in Terminal
      BY <1>2, <2>1, <3>1 DEF NoneOpen
    <3>3. msgs[i].status = "sent" => b.now - msgs[i].createdAt >= Cooldown
      BY <1>2, <2>1, <3>1 DEF CooledFor
    <3>4. msgs[i].status = "sent" => now - msgs[i].createdAt >= Cooldown
      BY <1>1, <1>2, <1>4, <2>1, <3>3, DelayAssumption
    <3> QED
      BY <2>1, <3>1, <3>2, <3>4
  <2>3. CASE j \in DOMAIN msgs
    BY <1>3, <1>14, <2>1, <2>3 DEF ApartInv, TableOK, LastOpen, Cooled
  <2> QED
    BY <1>3, <2>2, <2>3
<1> QED
  BY <1>2, <1>5, <1>10, <1>11, <1>12, <1>13, <1>14
  DEF TableOK, LastOpen, Cooled, BatchOK

LEMMA ApartInvStep ==
  ASSUME TypeOK, ClaimExclusive, ApartInv, [Next]_vars,
         \A s, t \in Starters : s = t
  PROVE  ApartInv'
<1>1. ASSUME NEW d \in Dispatchers, DispatchStep(d)
      PROVE  ApartInv'
  <2>1. Ages(msgs, msgs')
    BY <1>1, DispatchAges
  <2>2. UNCHANGED <<starter, now>>
    BY <1>1 DEF DispatchStep, DispatchBegin, DispatchOutsideWindow, DispatchPeek,
    DispatchConnected, DispatchDisconnected, DispatchGap, DispatchClaim,
    DispatchNothingLeft, DispatchCooldown, DispatchSkip, DispatchSend,
    DispatchRecord, vars
  <2>3. TableOK(msgs') /\ FreshUpTo(msgs', EndOf(now))
    BY <2>1, AgesKeeps DEF ApartInv
  <2>4. \A s \in Starters : BatchOK(msgs', starter[s], now)
    BY <2>1, BatchAges DEF ApartInv
  <2> QED
    BY <2>2, <2>3, <2>4 DEF ApartInv
<1>2. ASSUME NEW s \in Starters,
             \/ StartBegin(s) \/ StartTail(s) \/ StartCheck(s)
             \/ StartUpsert(s) \/ StartEnd(s) \/ StartCrash(s)
      PROVE  ApartInv'
  <2>1. UNCHANGED <<msgs, now>>
    BY <1>2 DEF StartBegin, StartTail, StartCheck, StartUpsert, StartEnd, StartCrash
  <2>2. \A t \in Starters : BatchOK(msgs, starter'[t], now)
    BY <1>2, BatchStep
  <2> QED
    BY <2>1, <2>2 DEF ApartInv
<1>3. ASSUME NEW s \in Starters, StartInsert(s)
      PROVE  ApartInv'
  <2>1. UNCHANGED now
    BY <1>3 DEF StartInsert
  <2>2. \A t \in Starters : BatchOK(msgs', starter'[t], now)
    BY <1>3, StageStep
  <2> QED
    BY <1>3, <2>1, <2>2, StageStep DEF ApartInv
<1>4. CASE ClockTick
  <2>1. now \in Nat /\ now' = now + 1 /\ UNCHANGED <<msgs, starter>>
    BY <1>4 DEF ClockTick, TypeOK
  <2>2. EndOf(now) \in Int /\ EndOf(now + 1) \in Int /\ EndOf(now) <= EndOf(now + 1)
    BY <2>1, WindowType, EndOfMonotone
  <2>3. \A id \in DOMAIN msgs : msgs[id].scheduledAt \in Int
    BY RowFields
  <2>4. FreshUpTo(msgs, EndOf(now + 1))
    BY <2>2, <2>3 DEF FreshUpTo, ApartInv
  <2>5. \A s \in Starters : BatchOK(msgs, starter[s], now + 1)
    <3> SUFFICES ASSUME NEW s \in Starters PROVE BatchOK(msgs, starter[s], now + 1)
      OBVIOUS
    <3>1. BatchOK(msgs, starter[s], now) /\ starter[s].now \in Nat
      BY DEF ApartInv, TypeOK, StartState
    <3>2. starter[s].now <= now => starter[s].now <= now + 1
      BY <2>1, <3>1
    <3> QED
      BY <3>1, <3>2 DEF BatchOK
  <2> QED
    BY <2>1, <2>4, <2>5 DEF ApartInv
<1>5. CASE UNCHANGED <<msgs, starter, now>>
  BY <1>5 DEF ApartInv
<1> QED
  BY <1>1, <1>2, <1>3, <1>4, <1>5 DEF Next, StartStep, DispatchCrash, vars

\* As long as one `start` runs at a time, what it staged stays apart, whatever
\* the dispatchers send, retry or drop meanwhile and whichever processes die:
\* fresh messages keep the minimum delay, across batches, and a number that was
\* sent to is staged again only a cooldown later.
THEOREM StagedStaysApart ==
  ASSUME \A s, t \in Starters : s = t
  PROVE  Spec => []StagedApart
<1>1. Init => ApartInv
  <2> SUFFICES ASSUME Init PROVE ApartInv
    OBVIOUS
  <2>1. DOMAIN msgs = {}
    BY DEF Init
  <2>2. TableOK(msgs) /\ FreshUpTo(msgs, EndOf(now))
    BY <2>1 DEF TableOK, Spaced, LastOpen, Cooled, FreshUpTo
  <2>3. \A s \in Starters : starter[s].pc = "idle"
    BY DEF Init, IdleStart
  <2> QED
    BY <2>2, <2>3 DEF ApartInv, BatchOK
<1>2. TypeOK /\ ClaimExclusive /\ ApartInv /\ [Next]_vars => ApartInv'
  BY ApartInvStep
<1>3. ApartInv => StagedApart
  BY DEF ApartInv, TableOK, Spaced, Cooled, StagedApart, StagedSpacing,
  StagedCooldown, FirstAttempt, Fresh, Ids
<1> QED
  BY <1>1, <1>2, <1>3, TypeCorrect, ClaimsAreExclusive, PTL DEF Spec

(***************************************************************************)
(* What the calls of waSend have to do with the table, for every number of *)
(* processes, rows and attempts: the attempts column counts them, retries  *)
(* are put off, and each row goes through the life of MessageLifecycle.    *)
(***************************************************************************)
Calls == [id: Nat, n: Nat, at: Nat, tick: Nat, delivered: BOOLEAN]

\* the numbers of the calls made for a row
Made(id) == {s.n : s \in {x \in sends : x.id = id}}

(***************************************************************************)
(* The inductive invariant: whoever holds a row knows its attempts, and    *)
(* has made one call more once it has called.                              *)
(***************************************************************************)
CallsHaveRows == \A x \in sends : x.id \in Ids
CallsUnique == \A x, y \in sends : x.id = y.id /\ x.n = y.n => x = y
WithinBudget ==
  \A id \in Ids : /\ msgs[id].attempts <= MaxAttempts
                  /\ Pending(id) => msgs[id].attempts < MaxAttempts
CallsCounted ==
  \A id \in Ids : \/ Made(id) = 1 .. msgs[id].attempts
                  \/ msgs[id].status = "sending" /\ Made(id) = 1 .. (msgs[id].attempts + 1)
HolderKnows ==
  \A d \in Dispatchers : Holds(d) =>
    /\ disp[d].attempts = msgs[disp[d].id].attempts
    /\ disp[d].pc # "record" => Made(disp[d].id) = 1 .. msgs[disp[d].id].attempts
    /\ disp[d].pc = "record" => Made(disp[d].id) = 1 .. (msgs[disp[d].id].attempts + 1)

CountInv == CallsHaveRows /\ CallsUnique /\ WithinBudget /\ CallsCounted /\ HolderKnows

LEMMA CountImplies ==
  ASSUME TypeOK, CountInv
  PROVE  AttemptsCountSends
<1> SUFFICES ASSUME NEW id \in Ids
             PROVE  /\ msgs[id].attempts <= MaxAttempts
                    /\ msgs[id].status = "scheduled" => msgs[id].attempts < MaxAttempts
                    /\ \/ Made(id) = 1 .. msgs[id].attempts
                       \/ /\ msgs[id].status = "sending"
                          /\ msgs[id].attempts < MaxAttempts
                          /\ Made(id) = 1 .. (msgs[id].attempts + 1)
                    /\ \A x, y \in sends : x.id = id /\ y.id = id /\ x.n = y.n => x = y
  BY Zenon DEF AttemptsCountSends, Made
<1>1. \A x, y \in sends : x.id = id /\ y.id = id /\ x.n = y.n => x = y
  BY DEF CountInv, CallsUnique
<1> QED
  BY <1>1, Zenon DEF CountInv, WithinBudget, CallsCounted, Pending

(***************************************************************************)
(* The steps that touch neither table nor calls.                           *)
(***************************************************************************)
Quiet(d) ==
  \/ DispatchBegin(d) \/ DispatchOutsideWindow(d) \/ DispatchPeek(d)
  \/ DispatchConnected(d) \/ DispatchDisconnected(d) \/ DispatchGap(d)
  \/ DispatchNothingLeft(d) \/ DispatchCooldown(d) \/ DispatchCrash(d)

LEMMA QuietStep ==
  ASSUME TypeOK, NEW d \in Dispatchers, Quiet(d)
  PROVE  /\ UNCHANGED <<msgs, sends, now>>
         /\ \/ UNCHANGED disp
            \/ ~Holds(d)'
            \/ /\ disp[d].pc = "cooldown" /\ disp'[d].pc \in {"skip", "send"}
               /\ disp'[d].id = disp[d].id /\ disp'[d].attempts = disp[d].attempts
               /\ disp'[d].tick = disp[d].tick
         /\ \/ disp'[d].pc = "idle"
            \/ InSendWindow(now) /\ disp'[d].tick = now
            \/ disp[d].pc # "idle" /\ disp'[d].tick = disp[d].tick
            \/ UNCHANGED disp
<1>1. UNCHANGED <<msgs, sends, now>>
  BY DEF Quiet, DispatchBegin, DispatchOutsideWindow, DispatchPeek, DispatchConnected,
     DispatchDisconnected, DispatchGap, DispatchNothingLeft, DispatchCooldown, DispatchCrash, vars
<1>2. ReturnDispatch(d) => disp'[d].pc = "idle"
  BY DEF ReturnDispatch, TypeOK, IdleDispatch
<1>3. \A pc : GoDispatch(d, pc) =>
        /\ disp'[d].pc = pc /\ disp'[d].id = disp[d].id
        /\ disp'[d].attempts = disp[d].attempts /\ disp'[d].tick = disp[d].tick
  BY DEF GoDispatch, TypeOK, DispatchState
<1>4. DispatchBegin(d) => disp'[d].pc = "peek" /\ disp'[d].tick = now /\ InSendWindow(now)
  BY DEF DispatchBegin, TypeOK, IdleDispatch
<1>5. DispatchOutsideWindow(d) => UNCHANGED disp
  BY DEF DispatchOutsideWindow, vars
<1>6. CASE DispatchBegin(d) \/ DispatchOutsideWindow(d)
  BY <1>1, <1>4, <1>5, <1>6 DEF Holds, Holding
<1>7. CASE DispatchCooldown(d)
  BY <1>1, <1>3, <1>7 DEF DispatchCooldown
<1>8. CASE \/ DispatchPeek(d) \/ DispatchConnected(d) \/ DispatchDisconnected(d)
           \/ DispatchGap(d) \/ DispatchNothingLeft(d) \/ DispatchCrash(d)
  BY <1>1, <1>2, <1>3, <1>8 DEF DispatchPeek, DispatchConnected, DispatchDisconnected,
     DispatchGap, DispatchNothingLeft, DispatchCrash, Holds, Holding
<1> QED
  BY <1>6, <1>7, <1>8 DEF Quiet

\* What the claim does.
LEMMA ClaimStep ==
  ASSUME TypeOK, ClaimExclusive, NEW d \in Dispatchers, DispatchClaim(d)
  PROVE  \E id \in Ids :
           /\ UNCHANGED <<sends, now>> /\ ~Holds(d) /\ disp[d].pc # "idle"
           /\ Due(id, disp[d].tick)
           /\ DOMAIN msgs' = DOMAIN msgs
           /\ msgs'[id] = [msgs[id] EXCEPT !.status = "sending"]
           /\ \A i \in Ids \ {id} : msgs'[i] = msgs[i]
           /\ disp'[d].pc = "cooldown" /\ disp'[d].id = id
           /\ disp'[d].attempts = msgs[id].attempts /\ disp'[d].tick = disp[d].tick
           /\ \A e \in Dispatchers : Holds(e) => disp[e].id # id
<1>1. PICK id \in EarliestDue(disp[d].tick) :
        /\ msgs' = [msgs EXCEPT ![id].status = "sending"]
        /\ disp' = [disp EXCEPT ![d].pc = "cooldown", ![d].id = id,
                                ![d].attempts = msgs[id].attempts,
                                ![d].loops = @ + 1]
  BY DEF DispatchClaim
<1>2. id \in Ids /\ Due(id, disp[d].tick)
  BY <1>1 DEF EarliestDue
<1>3. \A e \in Dispatchers : Holds(e) => disp[e].id # id
  BY <1>2 DEF ClaimExclusive, Due
<1>4. UNCHANGED <<sends, now>> /\ disp[d].pc = "claim"
  BY DEF DispatchClaim
<1>5. /\ DOMAIN msgs' = DOMAIN msgs /\ msgs'[id] = [msgs[id] EXCEPT !.status = "sending"]
      /\ \A i \in Ids \ {id} : msgs'[i] = msgs[i]
  BY <1>1, <1>2 DEF Ids, TypeOK
<1>6. /\ disp'[d].pc = "cooldown" /\ disp'[d].id = id
      /\ disp'[d].attempts = msgs[id].attempts /\ disp'[d].tick = disp[d].tick
  BY <1>1 DEF TypeOK, DispatchState
<1> QED
  BY <1>2, <1>3, <1>4, <1>5, <1>6 DEF Holds, Holding

\* What the call does.
LEMMA SendStep ==
  ASSUME TypeOK, NEW d \in Dispatchers, DispatchSend(d)
  PROVE  \E c \in Calls :
           /\ UNCHANGED <<msgs, now>> /\ disp[d].pc = "send"
           /\ sends' = sends \cup {c}
           /\ c.id = disp[d].id /\ c.n = disp[d].attempts + 1
           /\ c.at = now /\ c.tick = disp[d].tick
           /\ disp'[d].pc = "record" /\ disp'[d].id = disp[d].id
           /\ disp'[d].attempts = disp[d].attempts /\ disp'[d].tick = disp[d].tick
<1>1. PICK o \in SendOutcomes :
        /\ sends' = sends \cup {[id |-> disp[d].id, n |-> disp[d].attempts + 1,
                                 at |-> now, tick |-> disp[d].tick,
                                 delivered |-> o.delivered]}
        /\ disp' = [disp EXCEPT ![d].pc = "record", ![d].ok = o.ok]
  BY DEF DispatchSend
<1> DEFINE c == [id |-> disp[d].id, n |-> disp[d].attempts + 1, at |-> now,
                 tick |-> disp[d].tick, delivered |-> o.delivered]
<1>2. o.delivered \in BOOLEAN
  <2>1. SendOutcomes \subseteq [ok: BOOLEAN, delivered: BOOLEAN]
    BY DEF SendOutcomes
  <2>2. o \in [ok: BOOLEAN, delivered: BOOLEAN]
    BY <1>1, <2>1
  <2> QED
    BY <2>2
<1>3. c \in Calls
  BY <1>2 DEF TypeOK, DispatchState, Calls
<1>4. /\ disp'[d].pc = "record" /\ disp'[d].id = disp[d].id
      /\ disp'[d].attempts = disp[d].attempts /\ disp'[d].tick = disp[d].tick
  BY <1>1 DEF TypeOK, DispatchState
<1>5. UNCHANGED <<msgs, now>> /\ disp[d].pc = "send"
  BY DEF DispatchSend
<1>6. /\ c.id = disp[d].id /\ c.n = disp[d].attempts + 1 /\ c.at = now /\ c.tick = disp[d].tick
      /\ sends' = sends \cup {c}
  BY <1>1
<1> QED
  BY <1>3, <1>4, <1>5, <1>6

\* What the skip and the record do.
LEMMA SettleStep ==
  ASSUME TypeOK, ClaimExclusive, NEW d \in Dispatchers, DispatchSkip(d) \/ DispatchRecord(d)
  PROVE  \E id \in Ids, row \in Row :
           /\ UNCHANGED <<sends, now>> /\ Holds(d) /\ disp[d].id = id
           /\ ~Holds(d)' /\ (disp'[d].pc = "idle" \/ disp'[d].tick = disp[d].tick)
           /\ DOMAIN msgs' = DOMAIN msgs
           /\ msgs'[id] = row /\ row.phone = msgs[id].phone
           /\ \A i \in Ids \ {id} : msgs'[i] = msgs[i]
           /\ \/ /\ disp[d].pc = "skip"
                 /\ row = [msgs[id] EXCEPT !.status = "skipped_cooldown"]
              \/ /\ disp[d].pc = "record"
                 /\ row.attempts = disp[d].attempts + 1
                 /\ \/ row.status = "sent"
                    \/ /\ row.status = "scheduled" /\ row.attempts < MaxAttempts
                       /\ row.scheduledAt - disp[d].tick >= DelayMin
                    \/ row.status = "failed" /\ row.attempts >= MaxAttempts
<1> DEFINE id == disp[d].id
<1>1. Holds(d) /\ UNCHANGED <<sends, now>> /\ id \in Ids /\ msgs[id] \in Row
  <2>1. Holds(d) /\ UNCHANGED <<sends, now>>
    BY DEF DispatchSkip, DispatchRecord, Holds, Holding
  <2>2. id \in Ids
    BY <2>1 DEF ClaimExclusive
  <2> QED
    BY <2>1, <2>2 DEF TypeOK, Ids
<1>2. CASE DispatchSkip(d)
  <2>1. msgs' = [msgs EXCEPT ![id].status = "skipped_cooldown"] /\ disp[d].pc = "skip"
    BY <1>2 DEF DispatchSkip
  <2>2. [msgs[id] EXCEPT !.status = "skipped_cooldown"] \in Row
    BY <1>1 DEF Row, Statuses
  <2>3. disp'[d].pc = "claim" /\ disp'[d].tick = disp[d].tick
    BY <1>2 DEF DispatchSkip, GoDispatch, TypeOK, DispatchState
  <2>4. /\ DOMAIN msgs' = DOMAIN msgs
        /\ msgs'[id] = [msgs[id] EXCEPT !.status = "skipped_cooldown"]
        /\ \A i \in Ids \ {id} : msgs'[i] = msgs[i]
    BY <1>1, <2>1 DEF TypeOK, Ids
  <2>5. [msgs[id] EXCEPT !.status = "skipped_cooldown"].phone = msgs[id].phone
    BY <1>1 DEF Row
  <2> QED
    BY <1>1, <2>1, <2>2, <2>3, <2>4, <2>5 DEF Holds, Holding
<1>3. CASE DispatchRecord(d)
  <2>1. PICK delay \in Delays :
          msgs' = [msgs EXCEPT ![id] =
                     Settled(@, disp[d].ok, disp[d].attempts + 1, disp[d].tick + delay)]
    BY <1>3 DEF DispatchRecord
  <2> DEFINE row == Settled(msgs[id], disp[d].ok, disp[d].attempts + 1, disp[d].tick + delay)
  <2>2. /\ disp[d].ok \in BOOLEAN /\ disp[d].attempts + 1 \in Nat /\ disp[d].tick \in Nat
        /\ delay \in Int /\ delay >= DelayMin
    BY DelayAssumption DEF TypeOK, DispatchState, Delays
  <2>3. row \in Row
    BY <1>1, <2>2, SettledType
  <2>4. disp'[d].pc = "idle" /\ disp[d].pc = "record"
    BY <1>3 DEF DispatchRecord, ReturnDispatch, TypeOK, IdleDispatch
  <2>5. DOMAIN msgs' = DOMAIN msgs /\ msgs'[id] = row /\ \A i \in Ids \ {id} : msgs'[i] = msgs[i]
    BY <1>1, <2>1 DEF TypeOK, Ids
  <2>6. /\ row.phone = msgs[id].phone /\ row.attempts = disp[d].attempts + 1
        /\ \/ row.status = "sent"
           \/ /\ row.status = "scheduled" /\ row.attempts < MaxAttempts
              /\ row.scheduledAt = disp[d].tick + delay
           \/ row.status = "failed" /\ row.attempts >= MaxAttempts
    BY <1>1, <2>2, LimitAssumption DEF Settled, Row
  <2>7. row.scheduledAt = disp[d].tick + delay => row.scheduledAt - disp[d].tick >= DelayMin
    BY <2>2, DelayAssumption
  <2> HIDE DEF row
  <2> QED
    BY <1>1, <2>3, <2>4, <2>5, <2>6, <2>7 DEF Holds, Holding
<1> QED
  BY <1>2, <1>3

\* The other dispatchers keep their place, and their rows.
LEMMA OthersHold ==
  ASSUME TypeOK, NEW d \in Dispatchers, OthersKept(d), NEW e \in Dispatchers \ {d}
  PROVE  disp'[e] = disp[e] /\ Holds(e)' = Holds(e)
BY DEF OthersKept, Holds

\* The starters add rows that nobody holds or has called for.
LEMMA InsertStep ==
  ASSUME TypeOK, NEW s \in Starters, StartInsert(s)
  PROVE  \E id \in Nat, row \in Row :
           /\ UNCHANGED <<sends, now, disp>>
           /\ id \notin Ids /\ id \in 1 .. MaxRows /\ DOMAIN msgs' = DOMAIN msgs \cup {id}
           /\ msgs'[id] = row /\ row.status = "scheduled" /\ row.attempts = 0
           /\ \A i \in Ids : msgs'[i] = msgs[i]
<1> DEFINE row == [phone |-> Head(starter[s].todo), status |-> "scheduled",
                   scheduledAt |-> starter[s].at, attempts |-> 0, createdAt |-> now]
           id == Len(msgs) + 1
<1>1. row \in Row
  <2>1. starter[s].todo \in Seq(Phones) /\ starter[s].todo # <<>> /\ starter[s].at \in Int
    BY DEF TypeOK, StartState, StartInsert
  <2> QED
    BY <2>1 DEF Row, Statuses, TypeOK
<1>2. msgs' = Append(msgs, row) /\ UNCHANGED <<sends, now, disp>> /\ Len(msgs) < MaxRows
  BY DEF StartInsert
<1>3. id \in Nat /\ id \notin Ids /\ id \in 1 .. MaxRows
  BY <1>2, LimitAssumption DEF TypeOK, Ids
<1>4. row.status = "scheduled" /\ row.attempts = 0
  OBVIOUS
<1> HIDE DEF row
<1>5. /\ DOMAIN msgs' = DOMAIN msgs \cup {id} /\ msgs'[id] = row
      /\ \A i \in Ids : msgs'[i] = msgs[i]
  BY <1>1, <1>2 DEF TypeOK, Ids
<1> QED
  BY <1>1, <1>2, <1>3, <1>4, <1>5

\* Everything else leaves table, calls and dispatchers alone.
LEMMA NextCases ==
  ASSUME TypeOK, [Next]_vars
  PROVE  \/ \E d \in Dispatchers : \/ Quiet(d) \/ DispatchClaim(d) \/ DispatchSend(d)
                                   \/ DispatchSkip(d) \/ DispatchRecord(d)
         \/ \E s \in Starters : StartInsert(s)
         \/ UNCHANGED <<msgs, sends, disp>> /\ now' \in {now, now + 1}
BY DEF Next, DispatchStep, StartStep, Quiet, StartBegin, StartTail, StartCheck, StartUpsert,
   StartEnd, StartCrash, ClockTick, vars

(***************************************************************************)
(* The attempts column counts the calls.                                   *)
(***************************************************************************)
LEMMA MadeKept ==
  ASSUME UNCHANGED sends, NEW id
  PROVE  Made(id)' = Made(id)
BY DEF Made

LEMMA MadeMore ==
  ASSUME NEW c, sends' = sends \cup {c}, NEW id
  PROVE  /\ c.id = id => Made(id)' = Made(id) \cup {c.n}
         /\ c.id # id => Made(id)' = Made(id)
BY DEF Made

\* A dispatcher that took no part keeps what it knows, if its row is kept.
LEMMA OthersKnow ==
  ASSUME TypeOK, HolderKnows, NEW d \in Dispatchers, OthersKept(d),
         NEW e \in Dispatchers \ {d}, Holds(e)',
         msgs'[disp[e].id] = msgs[disp[e].id],
         Made(disp[e].id)' = Made(disp[e].id)
  PROVE  /\ disp'[e].attempts = msgs'[disp'[e].id].attempts
         /\ disp'[e].pc # "record" => Made(disp[e].id)' = 1 .. msgs'[disp[e].id].attempts
         /\ disp'[e].pc = "record" => Made(disp[e].id)' = 1 .. (msgs'[disp[e].id].attempts + 1)
<1>1. disp'[e] = disp[e] /\ Holds(e)
  BY OthersHold
<1> QED
  BY <1>1 DEF HolderKnows

LEMMA QuietCount ==
  ASSUME TypeOK, CountInv, NEW d \in Dispatchers, Quiet(d), OthersKept(d)
  PROVE  CountInv'
<1>1. /\ UNCHANGED <<msgs, sends>>
      /\ \/ UNCHANGED disp
         \/ ~Holds(d)'
         \/ /\ disp[d].pc = "cooldown" /\ disp'[d].pc \in {"skip", "send"}
            /\ disp'[d].id = disp[d].id /\ disp'[d].attempts = disp[d].attempts
  BY QuietStep
<1>2. \A id : Made(id)' = Made(id)
  BY <1>1, MadeKept
<1>3. CallsHaveRows' /\ CallsUnique' /\ WithinBudget' /\ CallsCounted'
  BY <1>1, <1>2 DEF CountInv, CallsHaveRows, CallsUnique, WithinBudget, CallsCounted, Ids, Pending
<1>4. HolderKnows'
  BY <1>1, <1>2 DEF CountInv, HolderKnows, OthersKept, Holds, Holding
<1> QED
  BY <1>3, <1>4 DEF CountInv

LEMMA ClaimCount ==
  ASSUME TypeOK, ClaimExclusive, CountInv, NEW d \in Dispatchers, DispatchClaim(d), OthersKept(d)
  PROVE  CountInv'
<1>1. PICK id \in Ids :
        /\ UNCHANGED sends /\ Due(id, disp[d].tick)
        /\ DOMAIN msgs' = DOMAIN msgs
        /\ msgs'[id] = [msgs[id] EXCEPT !.status = "sending"]
        /\ \A i \in Ids \ {id} : msgs'[i] = msgs[i]
        /\ disp'[d].pc = "cooldown" /\ disp'[d].id = id
        /\ disp'[d].attempts = msgs[id].attempts
        /\ \A e \in Dispatchers : Holds(e) => disp[e].id # id
  BY ClaimStep
<1>2. \A i : Made(i)' = Made(i)
  BY <1>1, MadeKept
<1>3. msgs[id].status = "scheduled" /\ msgs[id] \in Row
  BY <1>1 DEF Due, TypeOK, Ids
<1>4. msgs'[id].status = "sending" /\ msgs'[id].attempts = msgs[id].attempts
  BY <1>1, <1>3 DEF Row
<1>5. Made(id) = 1 .. msgs[id].attempts
  BY <1>3 DEF CountInv, CallsCounted
<1>6. CallsHaveRows' /\ CallsUnique'
  BY <1>1 DEF CountInv, CallsHaveRows, CallsUnique, Ids
<1>7. WithinBudget'
  <2>1. msgs[id].attempts <= MaxAttempts /\ msgs[id].attempts < MaxAttempts
    BY <1>3 DEF CountInv, WithinBudget, Pending
  <2>2. ASSUME NEW i \in Ids \ {id}
        PROVE  /\ msgs'[i].attempts <= MaxAttempts
               /\ msgs'[i].status \in {"scheduled", "sending"} => msgs'[i].attempts < MaxAttempts
    BY <1>1 DEF CountInv, WithinBudget, Pending
  <2> QED
    BY <1>1, <1>4, <2>1, <2>2 DEF WithinBudget, Ids, Pending
<1>8. CallsCounted'
  <2>1. ASSUME NEW i \in Ids \ {id}
        PROVE  \/ Made(i)' = 1 .. msgs'[i].attempts
               \/ msgs'[i].status = "sending" /\ Made(i)' = 1 .. (msgs'[i].attempts + 1)
    BY <1>1, <1>2 DEF CountInv, CallsCounted
  <2>2. Made(id)' = 1 .. msgs'[id].attempts
    BY <1>2, <1>4, <1>5
  <2>3. Ids' = Ids
    BY <1>1 DEF Ids
  <2> QED
    BY <2>1, <2>2, <2>3 DEF CallsCounted
<1>9. HolderKnows'
  <2>1. ASSUME NEW e \in Dispatchers \ {d}, Holds(e)'
        PROVE  msgs'[disp[e].id] = msgs[disp[e].id] /\ disp'[e] = disp[e]
    <3>1. disp'[e] = disp[e] /\ Holds(e)
      BY <2>1, OthersHold
    <3>2. disp[e].id \in Ids
      BY <3>1 DEF ClaimExclusive
    <3> QED
      BY <1>1, <3>1, <3>2
  <2>2. ASSUME NEW e \in Dispatchers \ {d}, Holds(e)'
        PROVE  /\ disp'[e].attempts = msgs'[disp'[e].id].attempts
               /\ disp'[e].pc # "record" => Made(disp[e].id)' = 1 .. msgs'[disp[e].id].attempts
               /\ disp'[e].pc = "record" => Made(disp[e].id)' = 1 .. (msgs'[disp[e].id].attempts + 1)
    BY <1>2, <2>1, <2>2, OthersKnow DEF CountInv
  <2>3. /\ disp'[d].attempts = msgs'[disp'[d].id].attempts /\ disp'[d].pc # "record"
        /\ Made(disp[d].id)' = 1 .. msgs'[disp'[d].id].attempts
    BY <1>1, <1>2, <1>4, <1>5
  <2> QED
    BY <2>1, <2>2, <2>3 DEF HolderKnows, Holds
<1> QED
  BY <1>6, <1>7, <1>8, <1>9 DEF CountInv

LEMMA SendCount ==
  ASSUME TypeOK, ClaimExclusive, CountInv, NEW d \in Dispatchers, DispatchSend(d), OthersKept(d)
  PROVE  CountInv'
<1>1. PICK c \in Calls :
        /\ UNCHANGED msgs /\ disp[d].pc = "send"
        /\ sends' = sends \cup {c}
        /\ c.id = disp[d].id /\ c.n = disp[d].attempts + 1
        /\ disp'[d].pc = "record" /\ disp'[d].id = disp[d].id
        /\ disp'[d].attempts = disp[d].attempts
  BY SendStep
<1> DEFINE id == disp[d].id
           k == msgs[id].attempts
<1>2. /\ Holds(d) /\ id \in Ids /\ msgs[id].status = "sending" /\ msgs[id] \in Row
      /\ disp[d].attempts = k /\ Made(id) = 1 .. k
  <2>1. Holds(d)
    BY <1>1 DEF Holds, Holding
  <2>2. id \in Ids /\ msgs[id].status = "sending"
    BY <2>1 DEF ClaimExclusive
  <2>3. disp[d].attempts = k /\ Made(id) = 1 .. k
    BY <1>1, <2>1 DEF CountInv, HolderKnows
  <2> QED
    BY <2>1, <2>2, <2>3 DEF TypeOK, Ids
<1>3. k \in Nat
  BY <1>2 DEF Row
<1>4. \A i : /\ c.id = i => Made(i)' = Made(i) \cup {c.n}
             /\ c.id # i => Made(i)' = Made(i)
  BY <1>1, MadeMore
<1>5. Made(c.id)' = 1 .. (k + 1)
  <2>1. Made(c.id)' = (1 .. k) \cup {k + 1}
    BY <1>1, <1>2, <1>4
  <2> QED
    BY <1>3, <2>1
<1>6. Ids' = Ids
  BY <1>1 DEF Ids
<1>7. CallsHaveRows'
  BY <1>1, <1>2, <1>6 DEF CountInv, CallsHaveRows
<1>8. CallsUnique'
  <2>1. ASSUME NEW x \in sends, x.id = c.id
        PROVE  x.n # c.n
    <3>1. x.n \in Made(c.id)
      BY <2>1 DEF Made
    <3> QED
      BY <1>1, <1>2, <1>3, <3>1
  <2> QED
    BY <1>1, <2>1 DEF CountInv, CallsUnique
<1>9. WithinBudget'
  BY <1>1, <1>6 DEF CountInv, WithinBudget, Pending
<1>10. CallsCounted'
  <2>1. ASSUME NEW i \in Ids \ {id}
        PROVE  \/ Made(i)' = 1 .. msgs'[i].attempts
               \/ msgs'[i].status = "sending" /\ Made(i)' = 1 .. (msgs'[i].attempts + 1)
    BY <1>1, <1>4 DEF CountInv, CallsCounted
  <2>2. msgs'[id].status = "sending" /\ Made(id)' = 1 .. (msgs'[id].attempts + 1)
    BY <1>1, <1>2, <1>5
  <2> QED
    BY <1>1, <1>6, <2>1, <2>2 DEF CallsCounted
<1>11. HolderKnows'
  <2>1. ASSUME NEW e \in Dispatchers \ {d}, Holds(e)'
        PROVE  disp'[e] = disp[e] /\ disp[e].id # c.id
    BY <1>1, <1>2, <2>1, OthersHold DEF ClaimExclusive
  <2>2. ASSUME NEW e \in Dispatchers \ {d}, Holds(e)'
        PROVE  /\ disp'[e].attempts = msgs'[disp'[e].id].attempts
               /\ disp'[e].pc # "record" => Made(disp[e].id)' = 1 .. msgs'[disp[e].id].attempts
               /\ disp'[e].pc = "record" => Made(disp[e].id)' = 1 .. (msgs'[disp[e].id].attempts + 1)
    <3>1. Made(disp[e].id)' = Made(disp[e].id)
      BY <1>4, <2>1, <2>2
    <3> QED
      BY <1>1, <2>2, <3>1, OthersKnow DEF CountInv
  <2>3. /\ disp'[d].attempts = msgs'[disp'[d].id].attempts
        /\ Made(disp[d].id)' = 1 .. (msgs'[disp'[d].id].attempts + 1)
    BY <1>1, <1>2, <1>5
  <2> QED
    BY <1>1, <2>1, <2>2, <2>3 DEF HolderKnows, Holds
<1> QED
  BY <1>7, <1>8, <1>9, <1>10, <1>11 DEF CountInv

LEMMA SettleCount ==
  ASSUME TypeOK, ClaimExclusive, CountInv, NEW d \in Dispatchers,
         DispatchSkip(d) \/ DispatchRecord(d), OthersKept(d)
  PROVE  CountInv'
<1>1. PICK id \in Ids, row \in Row :
        /\ UNCHANGED sends /\ Holds(d) /\ disp[d].id = id
        /\ ~Holds(d)'
        /\ DOMAIN msgs' = DOMAIN msgs
        /\ msgs'[id] = row
        /\ \A i \in Ids \ {id} : msgs'[i] = msgs[i]
        /\ \/ /\ disp[d].pc = "skip"
              /\ row = [msgs[id] EXCEPT !.status = "skipped_cooldown"]
           \/ /\ disp[d].pc = "record"
              /\ row.attempts = disp[d].attempts + 1
              /\ \/ row.status = "sent"
                 \/ row.status = "scheduled" /\ row.attempts < MaxAttempts
                 \/ row.status = "failed" /\ row.attempts >= MaxAttempts
  <2> HIDE DEF Ids
  <2> QED
    BY SettleStep
<1> DEFINE k == msgs[id].attempts
<1>2. msgs[id] \in Row /\ k \in Nat /\ k < MaxAttempts /\ disp[d].attempts = k
  <2>1. msgs[id] \in Row /\ msgs[id].status = "sending"
    BY <1>1 DEF ClaimExclusive, TypeOK, Ids
  <2>2. k < MaxAttempts
    BY <1>1, <2>1 DEF CountInv, WithinBudget, Pending
  <2>3. disp[d].attempts = k
    BY <1>1 DEF CountInv, HolderKnows
  <2> QED
    BY <2>1, <2>2, <2>3 DEF Row
<1>3. \A i : Made(i)' = Made(i)
  BY <1>1, MadeKept
<1>4. Made(id) = 1 .. row.attempts /\ row.attempts <= MaxAttempts /\ row.attempts \in Nat
  <2>1. CASE disp[d].pc = "skip"
    <3>1. row.attempts = k
      BY <1>1, <1>2, <2>1 DEF Row
    <3> QED
      BY <1>1, <1>2, <2>1, <3>1, LimitAssumption DEF CountInv, HolderKnows
  <2>2. CASE disp[d].pc = "record"
    <3>1. row.attempts = k + 1
      BY <1>1, <1>2, <2>2
    <3> QED
      BY <1>1, <1>2, <2>2, <3>1, LimitAssumption DEF CountInv, HolderKnows
  <2> QED
    BY <1>1, <2>1, <2>2
<1>5. row.status \in {"scheduled", "sending"} => row.attempts < MaxAttempts
  BY <1>1, <1>2 DEF Row
<1>6. Ids' = Ids
  BY <1>1 DEF Ids
<1>7. CallsHaveRows' /\ CallsUnique'
  BY <1>1, <1>6 DEF CountInv, CallsHaveRows, CallsUnique
<1>8. WithinBudget'
  <2>1. ASSUME NEW i \in Ids \ {id}
        PROVE  /\ msgs'[i].attempts <= MaxAttempts
               /\ msgs'[i].status \in {"scheduled", "sending"} => msgs'[i].attempts < MaxAttempts
    BY <1>1 DEF CountInv, WithinBudget, Pending
  <2> QED
    BY <1>1, <1>4, <1>5, <1>6, <2>1 DEF WithinBudget, Pending
<1>9. CallsCounted'
  <2>1. ASSUME NEW i \in Ids \ {id}
        PROVE  \/ Made(i)' = 1 .. msgs'[i].attempts
               \/ msgs'[i].status = "sending" /\ Made(i)' = 1 .. (msgs'[i].attempts + 1)
    BY <1>1, <1>3 DEF CountInv, CallsCounted
  <2>2. Made(id)' = 1 .. msgs'[id].attempts
    BY <1>1, <1>3, <1>4
  <2> QED
    BY <1>6, <2>1, <2>2 DEF CallsCounted
<1>10. HolderKnows'
  <2>1. ASSUME NEW e \in Dispatchers \ {d}, Holds(e)'
        PROVE  disp'[e] = disp[e] /\ msgs'[disp[e].id] = msgs[disp[e].id]
    <3>1. disp'[e] = disp[e] /\ Holds(e)
      BY <1>1, <2>1, OthersHold
    <3>2. disp[e].id \in Ids \ {id}
      BY <1>1, <3>1 DEF ClaimExclusive
    <3> QED
      BY <1>1, <3>1, <3>2
  <2>2. ASSUME NEW e \in Dispatchers \ {d}, Holds(e)'
        PROVE  /\ disp'[e].attempts = msgs'[disp'[e].id].attempts
               /\ disp'[e].pc # "record" => Made(disp[e].id)' = 1 .. msgs'[disp[e].id].attempts
               /\ disp'[e].pc = "record" => Made(disp[e].id)' = 1 .. (msgs'[disp[e].id].attempts + 1)
    BY <1>1, <1>3, <2>1, <2>2, OthersKnow DEF CountInv
  <2> QED
    BY <1>1, <2>1, <2>2 DEF HolderKnows, Holds
<1> QED
  BY <1>7, <1>8, <1>9, <1>10 DEF CountInv

LEMMA InsertCount ==
  ASSUME TypeOK, ClaimExclusive, CountInv, NEW s \in Starters, StartInsert(s)
  PROVE  CountInv'
<1>1. PICK id \in Nat, row \in Row :
        /\ UNCHANGED <<sends, disp>>
        /\ id \notin Ids /\ DOMAIN msgs' = DOMAIN msgs \cup {id}
        /\ msgs'[id] = row /\ row.status = "scheduled" /\ row.attempts = 0
        /\ \A i \in Ids : msgs'[i] = msgs[i]
  BY InsertStep
<1>2. \A i : Made(i)' = Made(i)
  BY <1>1, MadeKept
<1>3. Ids' = Ids \cup {id}
  BY <1>1 DEF Ids
<1>4. Made(id) = 1 .. 0
  <2>1. Made(id) = {}
    BY <1>1 DEF CountInv, CallsHaveRows, Made
  <2> QED
    BY <2>1
<1>5. CallsHaveRows' /\ CallsUnique'
  BY <1>1, <1>3 DEF CountInv, CallsHaveRows, CallsUnique
<1>6. WithinBudget'
  <2>1. ASSUME NEW i \in Ids
        PROVE  /\ msgs'[i].attempts <= MaxAttempts
               /\ msgs'[i].status \in {"scheduled", "sending"} => msgs'[i].attempts < MaxAttempts
    BY <1>1 DEF CountInv, WithinBudget, Pending
  <2>2. 0 < MaxAttempts
    BY LimitAssumption
  <2> QED
    BY <1>1, <1>3, <2>1, <2>2, LimitAssumption DEF WithinBudget, Pending
<1>7. CallsCounted'
  <2>1. ASSUME NEW i \in Ids
        PROVE  \/ Made(i)' = 1 .. msgs'[i].attempts
               \/ msgs'[i].status = "sending" /\ Made(i)' = 1 .. (msgs'[i].attempts + 1)
    BY <1>1, <1>2 DEF CountInv, CallsCounted
  <2>2. Made(id)' = 1 .. msgs'[id].attempts
    BY <1>1, <1>2, <1>4
  <2> QED
    BY <1>3, <2>1, <2>2 DEF CallsCounted
<1>8. HolderKnows'
  <2>1. \A d \in Dispatchers : Holds(d) => msgs'[disp[d].id] = msgs[disp[d].id]
    BY <1>1 DEF ClaimExclusive
  <2> QED
    BY <1>1, <1>2, <2>1 DEF CountInv, HolderKnows, Holds
<1> QED
  BY <1>5, <1>6, <1>7, <1>8 DEF CountInv

LEMMA CountInvStep ==
  ASSUME TypeOK, ClaimExclusive, CountInv, [Next]_vars
  PROVE  CountInv'
<1>1. ASSUME NEW d \in Dispatchers,
             \/ Quiet(d) \/ DispatchClaim(d) \/ DispatchSend(d)
             \/ DispatchSkip(d) \/ DispatchRecord(d)
      PROVE  CountInv'
  <2>1. OthersKept(d)
    BY <1>1, DispatchLocal DEF DispatchStep, Quiet
  <2> QED
    BY <1>1, <2>1, QuietCount, ClaimCount, SendCount, SettleCount
<1>2. CASE UNCHANGED <<msgs, sends, disp>>
  <2>1. \A i : Made(i)' = Made(i)
    BY <1>2, MadeKept
  <2> QED
    BY <1>2, <2>1 DEF CountInv, CallsHaveRows, CallsUnique, WithinBudget, CallsCounted,
       HolderKnows, Ids, Pending, Holds
<1> QED
  BY <1>1, <1>2, InsertCount, NextCases

\* The attempts column counts the calls of waSend made for the row, each of them once and
\* never more than MAX_ATTEMPTS, however many runs overlap and whichever of them die.
THEOREM AttemptsCount == Spec => []AttemptsCountSends
<1>1. Init => CountInv
  BY DEF Init, CountInv, CallsHaveRows, CallsUnique, WithinBudget, CallsCounted, HolderKnows,
     Ids, Holds, Holding, IdleDispatch
<1>2. TypeOK /\ ClaimExclusive /\ CountInv /\ [Next]_vars => CountInv'
  BY CountInvStep
<1>3. TypeOK /\ CountInv => AttemptsCountSends
  BY CountImplies
<1> QED
  BY <1>1, <1>2, <1>3, TypeCorrect, ClaimsAreExclusive, PTL DEF Spec

(***************************************************************************)
(* Retries are put off.  A row that waits is due only the minimum delay    *)
(* after the run of its last call began, so the run that claims it is that *)
(* much later than every call made for it.                                 *)
(***************************************************************************)
RunsInWindow ==
  \A d \in Dispatchers : disp[d].pc # "idle" =>
    InSendWindow(disp[d].tick) /\ disp[d].tick <= now
CallsInWindow == \A x \in sends : InSendWindow(x.tick) /\ x.tick <= x.at
WaitingPutOff ==
  \A x \in sends : msgs[x.id].status = "scheduled" =>
    msgs[x.id].scheduledAt - x.tick >= DelayMin
HolderPutOff ==
  \A d \in Dispatchers, x \in sends : Holds(d) /\ x.id = disp[d].id =>
    /\ disp[d].pc # "record" => disp[d].tick - x.tick >= DelayMin
    /\ disp[d].pc = "record" => x.tick <= disp[d].tick
CallsApart == \A x, y \in sends : x.id = y.id /\ x.n < y.n => y.tick - x.tick >= DelayMin

PaceInv == RunsInWindow /\ CallsInWindow /\ WaitingPutOff /\ HolderPutOff /\ CallsApart

LEMMA PaceTypes ==
  ASSUME TypeOK
  PROVE  /\ now \in Nat /\ DelayMin \in Nat
         /\ \A d \in Dispatchers : disp[d].tick \in Nat
         /\ \A x \in sends : x.id \in Nat /\ x.n \in Nat /\ x.at \in Nat /\ x.tick \in Nat
         /\ \A i \in Ids : msgs[i].scheduledAt \in Int
<1>1. \A x \in sends : x \in Calls
  BY DEF TypeOK, Calls
<1>2. \A i \in Ids : msgs[i] \in Row
  BY DEF TypeOK, Ids
<1>3. \A d \in Dispatchers : disp[d] \in DispatchState
  BY DEF TypeOK
<1> QED
  BY <1>1, <1>2, <1>3, DelayAssumption DEF Calls, Row, DispatchState, TypeOK

LEMMA QuietPace ==
  ASSUME TypeOK, PaceInv, NEW d \in Dispatchers, Quiet(d), OthersKept(d)
  PROVE  PaceInv'
<1>1. /\ UNCHANGED <<msgs, sends, now>>
      /\ \/ UNCHANGED disp
         \/ ~Holds(d)'
         \/ /\ disp[d].pc = "cooldown" /\ disp'[d].pc \in {"skip", "send"}
            /\ disp'[d].id = disp[d].id /\ disp'[d].tick = disp[d].tick
      /\ \/ disp'[d].pc = "idle"
         \/ InSendWindow(now) /\ disp'[d].tick = now
         \/ disp[d].pc # "idle" /\ disp'[d].tick = disp[d].tick
         \/ UNCHANGED disp
  BY QuietStep
<1>2. CallsInWindow' /\ WaitingPutOff' /\ CallsApart'
  BY <1>1 DEF PaceInv, CallsInWindow, WaitingPutOff, CallsApart
<1>3. RunsInWindow'
  BY <1>1, PaceTypes DEF PaceInv, RunsInWindow, OthersKept
<1>4. HolderPutOff'
  BY <1>1 DEF PaceInv, HolderPutOff, OthersKept, Holds, Holding
<1> QED
  BY <1>2, <1>3, <1>4 DEF PaceInv

LEMMA ClaimPace ==
  ASSUME TypeOK, ClaimExclusive, CallsHaveRows, PaceInv,
         NEW d \in Dispatchers, DispatchClaim(d), OthersKept(d)
  PROVE  PaceInv'
<1>1. PICK id \in Ids :
        /\ UNCHANGED <<sends, now>> /\ disp[d].pc # "idle"
        /\ Due(id, disp[d].tick)
        /\ msgs'[id] = [msgs[id] EXCEPT !.status = "sending"]
        /\ \A i \in Ids \ {id} : msgs'[i] = msgs[i]
        /\ disp'[d].pc = "cooldown" /\ disp'[d].id = id /\ disp'[d].tick = disp[d].tick
  BY ClaimStep
<1>2. msgs'[id].status = "sending"
  <2>1. msgs[id] \in Row
    BY DEF TypeOK, Ids
  <2> QED
    BY <1>1, <2>1 DEF Row
<1>3. CallsInWindow' /\ CallsApart'
  BY <1>1 DEF PaceInv, CallsInWindow, CallsApart
<1>4. RunsInWindow'
  BY <1>1 DEF PaceInv, RunsInWindow, OthersKept
<1>5. WaitingPutOff'
  <2> SUFFICES ASSUME NEW x \in sends, msgs'[x.id].status = "scheduled"
               PROVE  msgs'[x.id].scheduledAt - x.tick >= DelayMin
    BY <1>1 DEF WaitingPutOff
  <2>1. x.id \in Ids \ {id}
    BY <1>2 DEF CallsHaveRows
  <2> QED
    BY <1>1, <2>1 DEF PaceInv, WaitingPutOff
<1>6. HolderPutOff'
  <2>1. ASSUME NEW x \in sends, x.id = id
        PROVE  disp[d].tick - x.tick >= DelayMin
    <3>1. msgs[id].scheduledAt - x.tick >= DelayMin /\ msgs[id].scheduledAt <= disp[d].tick
      BY <1>1, <2>1 DEF PaceInv, WaitingPutOff, Due
    <3> QED
      BY <2>1, <3>1, PaceTypes
  <2>2. ASSUME NEW e \in Dispatchers \ {d}, Holds(e)'
        PROVE  disp'[e] = disp[e] /\ Holds(e)
    BY <2>2, OthersHold
  <2> QED
    BY <1>1, <2>1, <2>2 DEF PaceInv, HolderPutOff, Holds
<1> QED
  BY <1>3, <1>4, <1>5, <1>6 DEF PaceInv

LEMMA SendPace ==
  ASSUME TypeOK, ClaimExclusive, CountInv, PaceInv,
         NEW d \in Dispatchers, DispatchSend(d), OthersKept(d)
  PROVE  PaceInv'
<1>1. PICK c \in Calls :
        /\ UNCHANGED <<msgs, now>> /\ disp[d].pc = "send"
        /\ sends' = sends \cup {c}
        /\ c.id = disp[d].id /\ c.n = disp[d].attempts + 1
        /\ c.at = now /\ c.tick = disp[d].tick
        /\ disp'[d].pc = "record" /\ disp'[d].id = disp[d].id /\ disp'[d].tick = disp[d].tick
  BY SendStep
<1>2. Holds(d) /\ msgs[c.id].status = "sending" /\ disp[d].attempts \in Nat
      /\ Made(c.id) = 1 .. disp[d].attempts
  BY <1>1 DEF Holds, Holding, ClaimExclusive, CountInv, HolderKnows, TypeOK, DispatchState
<1>3. \A x \in sends : x.id = c.id => x.n < c.n /\ c.tick - x.tick >= DelayMin
  <2> SUFFICES ASSUME NEW x \in sends, x.id = c.id
               PROVE  x.n < c.n /\ c.tick - x.tick >= DelayMin
    OBVIOUS
  <2>1. x.n \in Made(c.id)
    BY DEF Made
  <2>2. x.n < c.n
    BY <1>1, <1>2, <2>1
  <2>3. c.tick - x.tick >= DelayMin
    BY <1>1, <1>2 DEF PaceInv, HolderPutOff
  <2> QED
    BY <2>2, <2>3
<1>4. CallsInWindow'
  BY <1>1 DEF PaceInv, CallsInWindow, RunsInWindow
<1>5. RunsInWindow'
  BY <1>1 DEF PaceInv, RunsInWindow, OthersKept
<1>6. WaitingPutOff'
  BY <1>1, <1>2 DEF PaceInv, WaitingPutOff
<1>7. CallsApart'
  <2>1. c.n \in Nat /\ \A x \in sends : x.n \in Nat
    BY PaceTypes DEF Calls
  <2> SUFFICES ASSUME NEW x \in sends', NEW y \in sends', x.id = y.id, x.n < y.n
               PROVE  y.tick - x.tick >= DelayMin
    BY DEF CallsApart
  <2>2. CASE x = c
    BY <1>1, <1>3, <2>1, <2>2
  <2>3. CASE x # c /\ y = c
    BY <1>1, <1>3, <2>3
  <2>4. CASE x # c /\ y # c
    BY <1>1, <2>4 DEF PaceInv, CallsApart
  <2> QED
    BY <2>2, <2>3, <2>4
<1>8. HolderPutOff'
  <2>1. ASSUME NEW e \in Dispatchers \ {d}, Holds(e)'
        PROVE  disp'[e] = disp[e] /\ Holds(e) /\ disp[e].id # c.id
    BY <1>1, <1>2, <2>1, OthersHold DEF ClaimExclusive
  <2>2. ASSUME NEW x \in sends', x.id = disp[d].id
        PROVE  x.tick <= disp[d].tick
    <3>1. CASE x = c
      BY <1>1, <3>1, PaceTypes
    <3>2. CASE x \in sends
      BY <1>1, <1>3, <2>2, <3>2, PaceTypes
    <3> QED
      BY <1>1, <3>1, <3>2
  <2> QED
    BY <1>1, <2>1, <2>2 DEF PaceInv, HolderPutOff, Holds
<1> QED
  BY <1>4, <1>5, <1>6, <1>7, <1>8 DEF PaceInv

LEMMA SettlePace ==
  ASSUME TypeOK, ClaimExclusive, CallsHaveRows, PaceInv, NEW d \in Dispatchers,
         DispatchSkip(d) \/ DispatchRecord(d), OthersKept(d)
  PROVE  PaceInv'
<1>1. PICK id \in Ids, row \in Row :
        /\ UNCHANGED <<sends, now>> /\ Holds(d) /\ disp[d].id = id
        /\ ~Holds(d)' /\ (disp'[d].pc = "idle" \/ disp'[d].tick = disp[d].tick)
        /\ msgs'[id] = row
        /\ \A i \in Ids \ {id} : msgs'[i] = msgs[i]
        /\ \/ /\ disp[d].pc = "skip"
              /\ row = [msgs[id] EXCEPT !.status = "skipped_cooldown"]
           \/ /\ disp[d].pc = "record"
              /\ \/ row.status = "sent"
                 \/ row.status = "scheduled" /\ row.scheduledAt - disp[d].tick >= DelayMin
                 \/ row.status = "failed"
  <2> HIDE DEF Ids
  <2> QED
    BY SettleStep
<1>2. CallsInWindow' /\ CallsApart'
  BY <1>1 DEF PaceInv, CallsInWindow, CallsApart
<1>3. RunsInWindow'
  BY <1>1 DEF PaceInv, RunsInWindow, OthersKept, Holds, Holding
<1>4. HolderPutOff'
  BY <1>1, OthersHold DEF PaceInv, HolderPutOff, Holds, OthersKept
<1>5. WaitingPutOff'
  <2> SUFFICES ASSUME NEW x \in sends, msgs'[x.id].status = "scheduled"
               PROVE  msgs'[x.id].scheduledAt - x.tick >= DelayMin
    BY <1>1 DEF WaitingPutOff
  <2>1. CASE x.id = id
    <3>1. row.status = "scheduled" /\ row.scheduledAt \in Int
      BY <1>1, <2>1 DEF Row
    <3>2. disp[d].pc = "record" /\ row.scheduledAt - disp[d].tick >= DelayMin
      <4>1. msgs[id] \in Row
        BY DEF TypeOK, Ids
      <4> QED
        BY <1>1, <3>1, <4>1 DEF Row
    <3>3. x.tick <= disp[d].tick
      BY <1>1, <2>1, <3>2 DEF PaceInv, HolderPutOff
    <3> QED
      BY <1>1, <2>1, <3>1, <3>2, <3>3, PaceTypes
  <2>2. CASE x.id # id
    BY <1>1, <2>2 DEF PaceInv, WaitingPutOff, CallsHaveRows
  <2> QED
    BY <2>1, <2>2
<1> QED
  BY <1>2, <1>3, <1>4, <1>5 DEF PaceInv

LEMMA InsertPace ==
  ASSUME TypeOK, ClaimExclusive, CallsHaveRows, PaceInv, NEW s \in Starters, StartInsert(s)
  PROVE  PaceInv'
<1>1. /\ UNCHANGED <<sends, now, disp>>
      /\ \A i \in Ids : msgs'[i] = msgs[i]
  BY InsertStep
<1> QED
  BY <1>1 DEF PaceInv, RunsInWindow, CallsInWindow, WaitingPutOff, HolderPutOff, CallsApart,
     Holds, CallsHaveRows

LEMMA PaceInvStep ==
  ASSUME TypeOK, ClaimExclusive, CountInv, PaceInv, [Next]_vars
  PROVE  PaceInv'
<1>1. CallsHaveRows
  BY DEF CountInv
<1>2. ASSUME NEW d \in Dispatchers,
             \/ Quiet(d) \/ DispatchClaim(d) \/ DispatchSend(d)
             \/ DispatchSkip(d) \/ DispatchRecord(d)
      PROVE  PaceInv'
  <2>1. OthersKept(d)
    BY <1>2, DispatchLocal DEF DispatchStep, Quiet
  <2> QED
    BY <1>1, <1>2, <2>1, QuietPace, ClaimPace, SendPace, SettlePace
<1>3. CASE UNCHANGED <<msgs, sends, disp>> /\ now' \in {now, now + 1}
  <2>1. RunsInWindow'
    BY <1>3, PaceTypes DEF PaceInv, RunsInWindow
  <2> QED
    BY <1>3, <2>1 DEF PaceInv, CallsInWindow, WaitingPutOff, HolderPutOff, CallsApart, Holds
<1> QED
  BY <1>1, <1>2, <1>3, InsertPace, NextCases

\* Successive calls for a row belong to runs that began at least the minimum delay apart,
\* each in the sending window.
THEOREM RetriesArePaced == Spec => []RetriesPaced
<1>1. Init => CountInv /\ PaceInv
  BY DEF Init, CountInv, CallsHaveRows, CallsUnique, WithinBudget, CallsCounted, HolderKnows,
     PaceInv, RunsInWindow, CallsInWindow, WaitingPutOff, HolderPutOff, CallsApart,
     Ids, Holds, Holding, IdleDispatch
<1>2. TypeOK /\ ClaimExclusive /\ CountInv /\ PaceInv /\ [Next]_vars => CountInv' /\ PaceInv'
  BY CountInvStep, PaceInvStep
<1>3. PaceInv => RetriesPaced
  BY DEF PaceInv, CallsInWindow, CallsApart, RetriesPaced
<1> QED
  BY <1>1, <1>2, <1>3, TypeCorrect, ClaimsAreExclusive, PTL DEF Spec

(***************************************************************************)
(* Refinement.  A step of the dispatchers or starters moves at most one    *)
(* row, along one of the steps of MessageLifecycle.                        *)
(***************************************************************************)
RowsFit == Ids \subseteq RowIds
stages == [id \in RowIds |-> StageOf(id)]
callsMade == [id \in RowIds |-> CallsOf(id)]

LEMMA CalledIsMade ==
  ASSUME NEW id
  PROVE  Called(id) <=> msgs[id].attempts + 1 \in Made(id)
BY DEF Called, Made

\* What the abstract state of a row is.
LEMMA StageOfRow ==
  ASSUME TypeOK, NEW id \in Ids
  PROVE  /\ msgs[id].status = "scheduled" => StageOf(id) = "queued"
         /\ msgs[id].status = "sending" /\ Made(id) = 1 .. msgs[id].attempts =>
              StageOf(id) = "claimed" /\ CallsOf(id) = msgs[id].attempts
         /\ msgs[id].status = "sending" /\ Made(id) = 1 .. (msgs[id].attempts + 1) =>
              StageOf(id) = "called" /\ CallsOf(id) = msgs[id].attempts + 1
         /\ msgs[id].status = "skipped_cooldown" => StageOf(id) = "skipped"
         /\ msgs[id].status = "sent" => StageOf(id) = "sent"
         /\ msgs[id].status = "failed" => StageOf(id) = "failed"
         /\ msgs[id].status # "sending" => CallsOf(id) = msgs[id].attempts
<1>0. msgs[id] \in Row
  BY DEF TypeOK, Ids
<1>1. msgs[id].attempts \in Nat
  BY <1>0 DEF Row
<1>2. Made(id) = 1 .. msgs[id].attempts => ~Called(id)
  BY <1>1, CalledIsMade
<1>3. Made(id) = 1 .. (msgs[id].attempts + 1) => Called(id)
  BY <1>1, CalledIsMade
<1>4. msgs[id].status \in Statuses
  BY <1>0 DEF Row
<1>5. /\ msgs[id].status = "scheduled" => StageOf(id) = "queued"
      /\ msgs[id].status = "sending" /\ ~Called(id) => StageOf(id) = "claimed"
      /\ msgs[id].status = "sending" /\ Called(id) => StageOf(id) = "called"
      /\ msgs[id].status = "skipped_cooldown" => StageOf(id) = "skipped"
      /\ msgs[id].status = "sent" => StageOf(id) = "sent"
      /\ msgs[id].status = "failed" => StageOf(id) = "failed"
  BY <1>4 DEF StageOf, Statuses
<1>6. CallsOf(id) = IF StageOf(id) = "called" THEN msgs[id].attempts + 1 ELSE msgs[id].attempts
  BY DEF CallsOf
<1> QED
  BY <1>2, <1>3, <1>4, <1>5, <1>6 DEF Statuses

\* A row that a step leaves alone keeps its abstract state.
LEMMA SameStage ==
  ASSUME NEW id, (id \in DOMAIN msgs') <=> (id \in DOMAIN msgs),
         msgs'[id] = msgs[id], Made(id)' = Made(id)
  PROVE  StageOf(id)' = StageOf(id) /\ CallsOf(id)' = CallsOf(id)
<1>1. Called(id) <=> msgs[id].attempts + 1 \in Made(id)
  BY CalledIsMade
<1>2. Called(id)' <=> msgs'[id].attempts + 1 \in Made(id)'
  BY DEF Called, Made
<1>3. Called(id)' <=> Called(id)
  BY <1>1, <1>2
<1>4. StageOf(id)' = StageOf(id)
  BY <1>3 DEF StageOf, Ids
<1> QED
  BY <1>4 DEF CallsOf, Ids

LEMMA AbsentStage ==
  ASSUME NEW id, id \notin Ids
  PROVE  StageOf(id) = "absent" /\ CallsOf(id) = 0
BY DEF StageOf, CallsOf

\* One row moves, and the others keep their place.
LEMMA OneMoves ==
  ASSUME NEW m \in RowIds, NEW to, StageOf(m)' = to,
         \A i \in RowIds \ {m} : StageOf(i)' = StageOf(i) /\ CallsOf(i)' = CallsOf(i)
  PROVE  /\ stages' = [stages EXCEPT ![m] = to] /\ stages[m] = StageOf(m)
         /\ CallsOf(m)' = CallsOf(m) => callsMade' = callsMade
         /\ CallsOf(m)' = CallsOf(m) + 1 => callsMade' = [callsMade EXCEPT ![m] = @ + 1]
         /\ callsMade[m] = CallsOf(m)
BY DEF stages, callsMade

LEMMA NobodyMoves ==
  ASSUME \A i \in RowIds : StageOf(i)' = StageOf(i) /\ CallsOf(i)' = CallsOf(i)
  PROVE  UNCHANGED <<stages, callsMade>>
BY DEF stages, callsMade

(***************************************************************************)
(* The steps, as steps of the life cycle.                                  *)
(***************************************************************************)
AbstractNext == [Lifecycle!LNext]_<<stages, callsMade>>

LEMMA ClaimRefines ==
  ASSUME TypeOK, ClaimExclusive, CountInv, RowsFit, NEW d \in Dispatchers, DispatchClaim(d)
  PROVE  AbstractNext
<1>1. PICK id \in Ids :
        /\ UNCHANGED sends /\ Due(id, disp[d].tick)
        /\ DOMAIN msgs' = DOMAIN msgs
        /\ msgs'[id] = [msgs[id] EXCEPT !.status = "sending"]
        /\ \A i \in Ids \ {id} : msgs'[i] = msgs[i]
  BY ClaimStep
<1>2. \A i : Made(i)' = Made(i)
  BY <1>1, MadeKept
<1>3. msgs[id].status = "scheduled" /\ msgs[id] \in Row /\ Made(id) = 1 .. msgs[id].attempts
  BY <1>1 DEF Due, TypeOK, Ids, CountInv, CallsCounted
<1>4. msgs'[id].status = "sending" /\ msgs'[id].attempts = msgs[id].attempts
  BY <1>1, <1>3 DEF Row
<1>5. StageOf(id) = "queued" /\ CallsOf(id) = msgs[id].attempts
  BY <1>3, StageOfRow
<1>6. StageOf(id)' = "claimed" /\ CallsOf(id)' = msgs[id].attempts
  <2>1. (Ids' = Ids) /\ Made(id)' = 1 .. msgs'[id].attempts
    BY <1>1, <1>2, <1>3, <1>4 DEF Ids
  <2>2. ~Called(id)'
    <3>1. Called(id)' <=> msgs'[id].attempts + 1 \in Made(id)'
      BY DEF Called, Made
    <3>2. msgs'[id].attempts \in Nat
      BY <1>3, <1>4 DEF Row
    <3> QED
      BY <2>1, <3>1, <3>2
  <2>3. StageOf(id)' = "claimed"
    BY <1>4, <2>1, <2>2 DEF StageOf
  <2> QED
    BY <1>4, <2>1, <2>3 DEF CallsOf
<1>7. \A i \in RowIds \ {id} : StageOf(i)' = StageOf(i) /\ CallsOf(i)' = CallsOf(i)
  <2> SUFFICES ASSUME NEW i \in RowIds \ {id}
               PROVE  StageOf(i)' = StageOf(i) /\ CallsOf(i)' = CallsOf(i)
    OBVIOUS
  <2>1. CASE i \in Ids
    BY <1>1, <1>2, <2>1, SameStage DEF Ids
  <2>2. CASE i \notin Ids
    BY <1>1, <2>2 DEF StageOf, CallsOf, Ids
  <2> QED
    BY <2>1, <2>2
<1> QED
  BY <1>5, <1>6, <1>7, OneMoves
     DEF AbstractNext, RowsFit, Lifecycle!LNext, Lifecycle!Claim, Lifecycle!Move, stages, callsMade

\* The same of the next state.
LEMMA StageOfRowNext ==
  ASSUME NEW id \in DOMAIN msgs', msgs'[id] \in Row
  PROVE  /\ msgs'[id].status = "sending" /\ Made(id)' = 1 .. (msgs'[id].attempts + 1) =>
              StageOf(id)' = "called" /\ CallsOf(id)' = msgs'[id].attempts + 1
         /\ msgs'[id].status = "scheduled" => StageOf(id)' = "queued"
         /\ msgs'[id].status = "skipped_cooldown" => StageOf(id)' = "skipped"
         /\ msgs'[id].status = "sent" => StageOf(id)' = "sent"
         /\ msgs'[id].status = "failed" => StageOf(id)' = "failed"
         /\ msgs'[id].status # "sending" => CallsOf(id)' = msgs'[id].attempts
<1>1. msgs'[id].attempts \in Nat /\ msgs'[id].status \in Statuses
  BY DEF Row
<1>2. Called(id)' <=> msgs'[id].attempts + 1 \in Made(id)'
  BY DEF Called, Made
<1>3. Made(id)' = 1 .. (msgs'[id].attempts + 1) => Called(id)'
  BY <1>1, <1>2
<1>4. /\ msgs'[id].status = "sending" /\ Called(id)' => StageOf(id)' = "called"
      /\ msgs'[id].status = "scheduled" => StageOf(id)' = "queued"
      /\ msgs'[id].status = "skipped_cooldown" => StageOf(id)' = "skipped"
      /\ msgs'[id].status = "sent" => StageOf(id)' = "sent"
      /\ msgs'[id].status = "failed" => StageOf(id)' = "failed"
  BY <1>1 DEF StageOf, Ids, Statuses
<1>5. CallsOf(id)' = IF StageOf(id)' = "called" THEN msgs'[id].attempts + 1
                     ELSE msgs'[id].attempts
  BY DEF CallsOf, Ids
<1> QED
  BY <1>1, <1>3, <1>4, <1>5 DEF Statuses

LEMMA SendRefines ==
  ASSUME TypeOK, ClaimExclusive, CountInv, RowsFit, NEW d \in Dispatchers, DispatchSend(d)
  PROVE  AbstractNext
<1>1. PICK c \in Calls :
        /\ UNCHANGED msgs /\ disp[d].pc = "send" /\ sends' = sends \cup {c}
        /\ c.id = disp[d].id /\ c.n = disp[d].attempts + 1
  BY SendStep
<1>2. PICK id : id = disp[d].id
  OBVIOUS
<1>3. id \in Ids /\ msgs[id].status = "sending" /\ Made(id) = 1 .. msgs[id].attempts
      /\ disp[d].attempts = msgs[id].attempts
  <2>1. Holds(d)
    BY <1>1 DEF Holds, Holding
  <2> QED
    BY <1>1, <1>2, <2>1 DEF ClaimExclusive, CountInv, HolderKnows
<1>4. msgs[id] \in Row /\ msgs[id].attempts \in Nat /\ msgs[id].attempts < MaxAttempts
  <2>1. msgs[id] \in Row
    BY <1>3 DEF TypeOK, Ids
  <2> QED
    BY <1>3, <2>1 DEF Row, CountInv, WithinBudget, Pending
<1>5. StageOf(id) = "claimed" /\ CallsOf(id) = msgs[id].attempts
  BY <1>3, StageOfRow
<1>6. \A i : /\ c.id = i => Made(i)' = Made(i) \cup {c.n}
             /\ c.id # i => Made(i)' = Made(i)
  BY <1>1, MadeMore
<1>7. Made(id)' = 1 .. (msgs'[id].attempts + 1)
  <2>1. Made(id)' = (1 .. msgs[id].attempts) \cup {msgs[id].attempts + 1}
    BY <1>1, <1>2, <1>3, <1>6
  <2> QED
    BY <1>1, <1>4, <2>1
<1>8. StageOf(id)' = "called" /\ CallsOf(id)' = CallsOf(id) + 1
  <2>1. id \in DOMAIN msgs' /\ msgs'[id] \in Row /\ msgs'[id].status = "sending"
    BY <1>1, <1>3, <1>4 DEF Ids
  <2> QED
    BY <1>1, <1>5, <1>7, <2>1, StageOfRowNext
<1>9. \A i \in RowIds \ {id} : StageOf(i)' = StageOf(i) /\ CallsOf(i)' = CallsOf(i)
  BY <1>1, <1>2, <1>6, SameStage
<1>10. id \in RowIds
  BY <1>3 DEF RowsFit
<1>11. /\ stages' = [stages EXCEPT ![id] = "called"] /\ stages[id] = "claimed"
       /\ callsMade' = [callsMade EXCEPT ![id] = @ + 1] /\ callsMade[id] < MaxAttempts
  BY <1>4, <1>5, <1>8, <1>9, <1>10, OneMoves
<1> QED
  BY <1>10, <1>11
     DEF AbstractNext, Lifecycle!LNext, Lifecycle!Call, Lifecycle!Move, stages, callsMade

LEMMA SettleRefines ==
  ASSUME TypeOK, ClaimExclusive, CountInv, RowsFit, NEW d \in Dispatchers,
         DispatchSkip(d) \/ DispatchRecord(d)
  PROVE  AbstractNext
<1>1. PICK id \in Ids, row \in Row :
        /\ UNCHANGED sends /\ Holds(d) /\ disp[d].id = id
        /\ DOMAIN msgs' = DOMAIN msgs /\ msgs'[id] = row
        /\ \A i \in Ids \ {id} : msgs'[i] = msgs[i]
        /\ \/ /\ disp[d].pc = "skip"
              /\ row = [msgs[id] EXCEPT !.status = "skipped_cooldown"]
           \/ /\ disp[d].pc = "record"
              /\ row.attempts = disp[d].attempts + 1
              /\ \/ row.status = "sent"
                 \/ row.status = "scheduled" /\ row.attempts < MaxAttempts
                 \/ row.status = "failed" /\ row.attempts >= MaxAttempts
  <2> HIDE DEF Ids
  <2> QED
    BY SettleStep
<1>2. \A i : Made(i)' = Made(i)
  BY <1>1, MadeKept
<1>3. msgs[id] \in Row /\ msgs[id].status = "sending" /\ disp[d].attempts = msgs[id].attempts
      /\ msgs[id].attempts < MaxAttempts
  BY <1>1 DEF TypeOK, Ids, ClaimExclusive, CountInv, HolderKnows, WithinBudget, Pending
<1>4. \A i \in RowIds \ {id} : StageOf(i)' = StageOf(i) /\ CallsOf(i)' = CallsOf(i)
  <2> SUFFICES ASSUME NEW i \in RowIds \ {id}
               PROVE  StageOf(i)' = StageOf(i) /\ CallsOf(i)' = CallsOf(i)
    OBVIOUS
  <2>1. CASE i \in Ids
    BY <1>1, <1>2, <2>1, SameStage DEF Ids
  <2>2. CASE i \notin Ids
    BY <1>1, <2>2 DEF StageOf, CallsOf, Ids
  <2> QED
    BY <2>1, <2>2
<1>5. id \in DOMAIN msgs' /\ id \in RowIds
  BY <1>1 DEF Ids, RowsFit
<1>6. CASE disp[d].pc = "skip"
  <2>1. row.status = "skipped_cooldown" /\ row.attempts = msgs[id].attempts
    BY <1>1, <1>3, <1>6 DEF Row
  <2>2. Made(id) = 1 .. msgs[id].attempts
    BY <1>1, <1>6 DEF CountInv, HolderKnows
  <2>3. StageOf(id) = "claimed" /\ CallsOf(id) = msgs[id].attempts
    BY <1>3, <2>2, StageOfRow
  <2>4. StageOf(id)' = "skipped" /\ CallsOf(id)' = CallsOf(id)
    BY <1>1, <1>5, <2>1, <2>3, StageOfRowNext
  <2> QED
    BY <1>4, <1>5, <2>3, <2>4, OneMoves
       DEF AbstractNext, Lifecycle!LNext, Lifecycle!Skip, Lifecycle!Move
<1>7. CASE disp[d].pc = "record"
  <2>1. row.attempts = msgs[id].attempts + 1 /\ msgs[id].attempts \in Nat
    BY <1>1, <1>3, <1>7 DEF Row
  <2>2. Made(id) = 1 .. (msgs[id].attempts + 1)
    BY <1>1, <1>7 DEF CountInv, HolderKnows
  <2>3. StageOf(id) = "called" /\ CallsOf(id) = row.attempts
    BY <1>3, <2>1, <2>2, StageOfRow
  <2>4. row.status \in {"sent", "scheduled", "failed"} => CallsOf(id)' = CallsOf(id)
    BY <1>1, <1>5, <2>3, StageOfRowNext
  <2>5. stages[id] = "called" /\ callsMade[id] = row.attempts
    BY <1>5, <2>3 DEF stages, callsMade
  <2>6. CASE row.status = "sent"
    <3>1. StageOf(id)' = "sent"
      BY <1>1, <1>5, <2>6, StageOfRowNext
    <3>2. stages' = [stages EXCEPT ![id] = "sent"] /\ UNCHANGED callsMade
      BY <1>4, <1>5, <2>4, <2>6, <3>1, OneMoves
    <3> QED
      BY <1>5, <2>5, <3>2 DEF AbstractNext, Lifecycle!LNext, Lifecycle!Succeed, Lifecycle!Move, stages, callsMade
  <2>7. CASE row.status = "scheduled" /\ row.attempts < MaxAttempts
    <3>1. StageOf(id)' = "queued"
      BY <1>1, <1>5, <2>7, StageOfRowNext
    <3>2. stages' = [stages EXCEPT ![id] = "queued"] /\ UNCHANGED callsMade
      BY <1>4, <1>5, <2>4, <2>7, <3>1, OneMoves
    <3> QED
      BY <1>5, <2>5, <2>7, <3>2
         DEF AbstractNext, Lifecycle!LNext, Lifecycle!Retry, Lifecycle!Move, stages, callsMade
  <2>8. CASE row.status = "failed" /\ row.attempts >= MaxAttempts
    <3>1. StageOf(id)' = "failed"
      BY <1>1, <1>5, <2>8, StageOfRowNext
    <3>2. stages' = [stages EXCEPT ![id] = "failed"] /\ UNCHANGED callsMade
      BY <1>4, <1>5, <2>4, <2>8, <3>1, OneMoves
    <3>3. row.attempts = MaxAttempts
      BY <1>3, <2>1, <2>8, LimitAssumption
    <3> QED
      BY <1>5, <2>5, <3>2, <3>3
         DEF AbstractNext, Lifecycle!LNext, Lifecycle!GiveUp, Lifecycle!Move, stages, callsMade
  <2> QED
    BY <1>1, <1>7, <2>6, <2>7, <2>8
<1> QED
  BY <1>1, <1>6, <1>7

LEMMA InsertRefines ==
  ASSUME TypeOK, CountInv, NEW s \in Starters, StartInsert(s)
  PROVE  AbstractNext
<1>1. PICK id \in Nat, row \in Row :
        /\ UNCHANGED sends
        /\ id \notin Ids /\ id \in RowIds /\ DOMAIN msgs' = DOMAIN msgs \cup {id}
        /\ msgs'[id] = row /\ row.status = "scheduled" /\ row.attempts = 0
        /\ \A i \in Ids : msgs'[i] = msgs[i]
  <2> HIDE DEF Ids
  <2> QED
    BY InsertStep DEF RowIds
<1>2. \A i : Made(i)' = Made(i)
  BY <1>1, MadeKept
<1>3. \A i \in RowIds \ {id} : StageOf(i)' = StageOf(i) /\ CallsOf(i)' = CallsOf(i)
  <2> SUFFICES ASSUME NEW i \in RowIds \ {id}
               PROVE  StageOf(i)' = StageOf(i) /\ CallsOf(i)' = CallsOf(i)
    OBVIOUS
  <2>1. CASE i \in Ids
    BY <1>1, <1>2, <2>1, SameStage DEF Ids
  <2>2. CASE i \notin Ids
    BY <1>1, <2>2 DEF StageOf, CallsOf, Ids
  <2> QED
    BY <2>1, <2>2
<1>4. StageOf(id) = "absent" /\ CallsOf(id) = 0
  BY <1>1, AbsentStage
<1>5. StageOf(id)' = "queued" /\ CallsOf(id)' = CallsOf(id)
  BY <1>1, <1>4, StageOfRowNext
<1>6. /\ stages' = [stages EXCEPT ![id] = "queued"] /\ stages[id] = "absent"
      /\ UNCHANGED callsMade
  BY <1>1, <1>3, <1>4, <1>5, OneMoves
<1> QED
  BY <1>1, <1>6
     DEF AbstractNext, Lifecycle!LNext, Lifecycle!Stage, Lifecycle!Move, stages, callsMade

LEMMA StepRefines ==
  ASSUME TypeOK, ClaimExclusive, CountInv, RowsFit, [Next]_vars
  PROVE  AbstractNext /\ RowsFit'
<1>1. ASSUME UNCHANGED <<msgs, sends>>
      PROVE  AbstractNext /\ RowsFit'
  <2>1. \A i : Made(i)' = Made(i)
    BY <1>1, MadeKept
  <2>2. \A i \in RowIds : StageOf(i)' = StageOf(i) /\ CallsOf(i)' = CallsOf(i)
    BY <1>1, <2>1, SameStage
  <2>3. UNCHANGED <<stages, callsMade>>
    BY <2>2, NobodyMoves
  <2> QED
    BY <1>1, <2>3 DEF AbstractNext, RowsFit, Ids
<1>2. ASSUME NEW d \in Dispatchers, Quiet(d)
      PROVE  AbstractNext /\ RowsFit'
  BY <1>1, <1>2, QuietStep
<1>3. ASSUME NEW d \in Dispatchers, DispatchClaim(d)
      PROVE  AbstractNext /\ RowsFit'
  <2>1. DOMAIN msgs' = DOMAIN msgs
    BY <1>3, ClaimStep
  <2> QED
    BY <1>3, <2>1, ClaimRefines DEF RowsFit, Ids
<1>4. ASSUME NEW d \in Dispatchers, DispatchSend(d)
      PROVE  AbstractNext /\ RowsFit'
  <2>1. UNCHANGED msgs
    BY <1>4, SendStep
  <2> QED
    BY <1>4, <2>1, SendRefines DEF RowsFit, Ids
<1>5. ASSUME NEW d \in Dispatchers, DispatchSkip(d) \/ DispatchRecord(d)
      PROVE  AbstractNext /\ RowsFit'
  <2>1. DOMAIN msgs' = DOMAIN msgs
    BY <1>5, SettleStep
  <2> QED
    BY <1>5, <2>1, SettleRefines DEF RowsFit, Ids
<1>6. ASSUME NEW s \in Starters, StartInsert(s)
      PROVE  AbstractNext /\ RowsFit'
  <2>1. \E id \in RowIds : DOMAIN msgs' = DOMAIN msgs \cup {id}
    BY <1>6, InsertStep DEF RowIds
  <2> QED
    BY <1>6, <2>1, InsertRefines DEF RowsFit, Ids
<1> QED
  BY <1>1, <1>2, <1>3, <1>4, <1>5, <1>6, NextCases

\* The dispatchers take every message through the abstract life cycle.
THEOREM LifecycleImplemented == Spec => ImplementsLifecycle
<1>1. Init => CountInv /\ RowsFit
  BY DEF Init, CountInv, CallsHaveRows, CallsUnique, WithinBudget, CallsCounted, HolderKnows,
     RowsFit, Ids, Holds, Holding, IdleDispatch
<1>2. Init => Lifecycle!LInit
  BY DEF Init, Lifecycle!LInit, StageOf, CallsOf, Ids
<1>3. TypeOK /\ ClaimExclusive /\ CountInv /\ [Next]_vars => CountInv'
  BY CountInvStep
<1>4. TypeOK /\ ClaimExclusive /\ CountInv /\ RowsFit /\ [Next]_vars
        => [Lifecycle!LNext]_Lifecycle!lvars /\ RowsFit'
  BY StepRefines DEF AbstractNext, stages, callsMade, Lifecycle!lvars
<1> QED
  BY <1>1, <1>2, <1>3, <1>4, TypeCorrect, ClaimsAreExclusive, PTL
     DEF Spec, ImplementsLifecycle, Lifecycle!LSpec
===============================================================================
