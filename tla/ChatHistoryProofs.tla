--------------------------- MODULE ChatHistoryProofs ---------------------------
(***************************************************************************)
(* Proofs about ChatHistory: its types, that the conversations of an       *)
(* account stay with it, that what was cleared stays away, and that what   *)
(* is shown is saved.                                                      *)
(***************************************************************************)
EXTENDS ChatHistory, TLAPS

(***************************************************************************)
(* Types.                                                                  *)
(***************************************************************************)
USE BoundAssumption, NobodyAssumption DEF Accounts, Builds

LEMMA InitTypeOK == Init => TypeOK
<1> SUFFICES ASSUME Init PROVE TypeOK
  OBVIOUS
<1>1. asked \in [Builds -> Accounts] /\ pc \in [Builds -> {"idle", "delete", "keys", "load", "done"}]
  BY DEF Init
<1>2. pointer \in [Accounts -> 0 .. ids] /\ session \in 0 .. ids /\ user \in Accounts
  BY DEF Init
<1>3. store \in Seq(Seq(Message)) /\ Len(store) = ids /\ transactions \in Seq(Transaction) /\ DOMAIN transactions = {}
  BY DEF Init
<1>4. ids \in Nat /\ sent \in Nat /\ reloads \in Nat /\ hurried \in BOOLEAN /\ crossed \in BOOLEAN
  BY DEF Init
<1>5. agent = NoAgent /\ cleared = {}
  BY DEF Init
<1> QED
  BY <1>1, <1>2, <1>3, <1>4, <1>5 DEF TypeOK

\* What is said is a message, and saving the messages of an agent keeps the types.
LEMMA SaidType ==
  ASSUME TypeOK, SignedIn, NEW role \in {"user", "assistant"}
  PROVE  Said(role) \in Message
  BY DEF TypeOK, SignedIn, Said, Message

LEMMA SaveType ==
  ASSUME TypeOK, SignedIn, NEW messages \in Seq(Message), OnMessageEnd(messages)
  PROVE  /\ ids' \in Nat
         /\ session' \in 0 .. ids'
         /\ pointer' \in [Accounts -> 0 .. ids']
         /\ store' \in Seq(Seq(Message)) /\ Len(store') = ids'
         /\ transactions' \in Seq(Transaction)
         /\ \A i \in DOMAIN transactions' : transactions'[i].id \in 1 .. ids'
<1>1. CASE ~ShouldSaveSession(messages)
  BY <1>1 DEF OnMessageEnd, TypeOK
<1>2. CASE ShouldSaveSession(messages)
  <2> DEFINE id == IF session = 0 THEN ids + 1 ELSE session
  <2>1. /\ ids' = IF session = 0 THEN ids + 1 ELSE ids
        /\ store' = IF session = 0 THEN Append(store, <<>>) ELSE store
        /\ session' = id
        /\ pointer' = [pointer EXCEPT ![user] = id]
        /\ transactions' = Append(transactions, Save(id, messages))
    BY <1>2 DEF OnMessageEnd, SessionPtrKey
  <2>2. /\ ids \in Nat /\ session \in 0 .. ids /\ user \in Accounts
        /\ pointer \in [Accounts -> 0 .. ids]
        /\ store \in Seq(Seq(Message)) /\ Len(store) = ids
        /\ transactions \in Seq(Transaction)
        /\ \A i \in DOMAIN transactions : transactions[i].id \in 1 .. ids
    BY DEF TypeOK
  <2>3. ids' \in Nat /\ ids' >= ids /\ id \in 1 .. ids'
    BY <2>1, <2>2
  <2>4. store' \in Seq(Seq(Message)) /\ Len(store') = ids'
    <3>1. <<>> \in Seq(Message)
      OBVIOUS
    <3> QED
      BY <2>1, <2>2, <3>1
  <2>5. Save(id, messages) \in Transaction /\ Save(id, messages).id = id
    BY <2>3 DEF Save, Transaction
  <2>6. /\ transactions' \in Seq(Transaction)
        /\ \A i \in DOMAIN transactions' : transactions'[i].id \in 1 .. ids'
    <3> HIDE DEF id
    <3> QED
      BY <2>1, <2>2, <2>3, <2>5
  <2>7. pointer' \in [Accounts -> 0 .. ids']
    <3>1. \A u \in Accounts : pointer'[u] = IF u = user THEN id ELSE pointer[u]
      BY <2>1, <2>2
    <3> HIDE DEF id
    <3> QED
      BY <2>1, <2>2, <2>3, <3>1
  <2> QED
    BY <2>1, <2>3, <2>4, <2>6, <2>7
<1> QED
  BY <1>1, <1>2

\* A request for something that exists joins the transactions.
LEMMA RequestType ==
  ASSUME TypeOK, NEW t \in Transaction, t.id \in 1 .. ids, transactions' = Append(transactions, t)
  PROVE  /\ transactions' \in Seq(Transaction)
         /\ \A i \in DOMAIN transactions' : transactions'[i].id \in 1 .. ids
  BY DEF TypeOK

LEMMA RequestJoins ==
  ASSUME TypeOK, NEW t, transactions' = Append(transactions, t)
  PROVE  \A j \in DOMAIN transactions' :
           \/ j \in DOMAIN transactions /\ transactions'[j] = transactions[j]
           \/ transactions'[j] = t
<1>1. transactions \in Seq(Transaction)
  BY DEF TypeOK
<1> QED
  BY <1>1

LEMMA ClearType ==
  ASSUME TypeOK, NEW b \in Builds, ClearChat(b)
  PROVE  /\ pointer' \in [Accounts -> 0 .. ids] /\ session' \in 0 .. ids
         /\ pc' \in [Builds -> {"idle", "delete", "keys", "load", "done"}]
         /\ cleared' \subseteq [message: Message, idle: BOOLEAN]
<1>1. Shown \subseteq Message
  BY DEF TypeOK, Shown, ToSet, Agents
<1>2. cleared' \subseteq [message: Message, idle: BOOLEAN]
  <2>1. ASSUME NEW m \in Shown
        PROVE  [message |-> m, idle |-> ~agent.isStreaming] \in [message: Message, idle: BOOLEAN]
    BY <1>1, <2>1
  <2>2. cleared' = cleared \cup {[message |-> m, idle |-> ~agent.isStreaming] : m \in Shown}
    BY DEF ClearChat
  <2>3. cleared \subseteq [message: Message, idle: BOOLEAN]
    BY DEF TypeOK
  <2> QED
    BY <2>1, <2>2, <2>3
<1>4. pointer' \in [Accounts -> 0 .. ids]
  BY DEF TypeOK, ClearChat, SessionPtrKey
<1> QED
  BY <1>2, <1>4 DEF TypeOK, ClearChat

LEMMA NextTypeOK == TypeOK /\ [Next]_vars => TypeOK'
<1> SUFFICES ASSUME TypeOK, [Next]_vars PROVE TypeOK'
  OBVIOUS
<1>1. CASE Send \/ \E more \in BOOLEAN : Reply(more)
  <2>1. PICK role \in {"user", "assistant"}, streaming \in BOOLEAN :
          LET messages == Append(agent.messages, Said(role)) IN
          /\ SignedIn /\ agent # NoAgent
          /\ sent' = sent + 1
          /\ agent' = [messages |-> messages, isStreaming |-> streaming]
          /\ OnMessageEnd(messages)
          /\ cleared' \subseteq cleared
          /\ UNCHANGED <<user, pc, asked, hurried, crossed, reloads>>
    BY <1>1 DEF Send, Reply, haste
  <2> DEFINE messages == Append(agent.messages, Said(role))
  <2>2. Said(role) \in Message /\ agent.messages \in Seq(Message)
    BY <2>1, SaidType DEF TypeOK, Agents
  <2>3. messages \in Seq(Message)
    BY <2>2
  <2>4. agent' \in Agents
    BY <2>1, <2>3 DEF Agents
  <2> HIDE DEF messages
  <2>5. OnMessageEnd(messages) /\ SignedIn
    BY <2>1 DEF messages
  <2>6. sent' = sent + 1 /\ cleared' \subseteq cleared /\ UNCHANGED <<user, pc, asked, hurried, crossed, reloads>>
    BY <2>1
  <2>7. /\ ids' \in Nat
        /\ session' \in 0 .. ids'
        /\ pointer' \in [Accounts -> 0 .. ids']
        /\ store' \in Seq(Seq(Message)) /\ Len(store') = ids'
        /\ transactions' \in Seq(Transaction)
        /\ \A i \in DOMAIN transactions' : transactions'[i].id \in 1 .. ids'
    BY <2>3, <2>5, SaveType
  <2> QED
    BY <2>4, <2>6, <2>7 DEF TypeOK
<1>2. ASSUME NEW b \in Builds, KeysSet(b) PROVE TypeOK'
  <2> DEFINE t == [kind |-> "load", id |-> pointer[user], for |-> b]
  <2>1. pointer[user] \in 0 .. ids
    BY DEF TypeOK
  <2>2. CASE pointer[user] = 0
    <3>1. agent' = [messages |-> <<>>, isStreaming |-> FALSE]
      BY <1>2, <2>2 DEF KeysSet, SessionPtrKey, NewAgent
    <3>2. <<>> \in Seq(Message)
      OBVIOUS
    <3>3. agent' \in Agents
      BY <3>1, <3>2 DEF Agents
    <3> QED
      BY <1>2, <2>2, <3>3 DEF TypeOK, KeysSet, SessionPtrKey, history
  <2>3. CASE pointer[user] # 0
    <3>1. t \in Transaction /\ t.id \in 1 .. ids /\ transactions' = Append(transactions, t)
      BY <1>2, <2>1, <2>3 DEF KeysSet, SessionPtrKey, Transaction, TypeOK
    <3> HIDE DEF t
    <3>2. /\ transactions' \in Seq(Transaction)
          /\ \A i \in DOMAIN transactions' : transactions'[i].id \in 1 .. ids
      BY <3>1, RequestType
    <3> QED
      BY <1>2, <2>3, <3>2 DEF TypeOK, KeysSet, SessionPtrKey, history
  <2> QED
    BY <2>2, <2>3
<1>3. ASSUME NEW b \in Builds, NewChat(b) PROVE TypeOK'
  <2> DEFINE id == IF session # 0 THEN session ELSE pointer[user]
             t == [kind |-> "delete", id |-> id, for |-> b]
  <2>1. id \in 0 .. ids
    BY DEF TypeOK
  <2>2. CASE id = 0
    <3>1. ClearChat(b) /\ UNCHANGED <<transactions, user, agent, store, ids, sent, asked, crossed, reloads>>
          /\ hurried' = (hurried \/ Building)
      BY <1>3, <2>2 DEF NewChat, SessionPtrKey, Hurry
    <3> QED
      BY <3>1, ClearType DEF TypeOK, Building
  <2>3. CASE id # 0
    <3>1. /\ transactions' = Append(transactions, t)
          /\ pc' = [pc EXCEPT ![b] = "delete"]
          /\ UNCHANGED <<session, pointer, cleared, user, agent, store, ids, sent, asked, crossed, reloads>>
          /\ hurried' = (hurried \/ Building)
      BY <1>3, <2>3 DEF NewChat, SessionPtrKey, Hurry
    <3>2. t \in Transaction /\ t.id \in 1 .. ids
      BY <2>1, <2>3 DEF Transaction, TypeOK
    <3> HIDE DEF t, id
    <3>3. /\ transactions' \in Seq(Transaction)
          /\ \A i \in DOMAIN transactions' : transactions'[i].id \in 1 .. ids
      BY <3>1, <3>2, RequestType
    <3> QED
      BY <3>1, <3>3 DEF TypeOK, Building
  <2> QED
    BY <2>2, <2>3
<1>4. ASSUME NEW b \in Builds, Reload(b) PROVE TypeOK'
  <2>1. PICK n \in 0 .. Len(transactions) : transactions' = SubSeq(transactions, 1, n)
    BY <1>4 DEF Reload
  <2>2. /\ transactions' \in Seq(Transaction)
        /\ \A i \in DOMAIN transactions' : transactions'[i] = transactions[i] /\ i \in DOMAIN transactions
    BY <2>1 DEF TypeOK
  <2>3. pc' \in [Builds -> {"idle", "delete", "keys", "load", "done"}]
    BY <1>4 DEF TypeOK, Reload, history
  <2> QED
    BY <1>4, <2>2, <2>3 DEF TypeOK, Reload, history, haste
<1>5. CASE Commit
  <2> DEFINE t == Head(transactions)
  <2>1. transactions # <<>> /\ transactions' = Tail(transactions)
        /\ UNCHANGED <<user, ids, sent, asked, hurried, reloads>>
    BY <1>5 DEF Commit
  <2>2. t \in Transaction /\ t.id \in 1 .. ids
    BY <2>1 DEF TypeOK
  <2>3. /\ transactions' \in Seq(Transaction)
        /\ \A i \in DOMAIN transactions' : transactions'[i].id \in 1 .. ids
    BY <2>1 DEF TypeOK
  <2>4. store[t.id] \in Seq(Message)
    BY <2>2 DEF TypeOK
  <2>5. Saved(t) \/ Deleted(t) \/ Loaded(t) \/ Orphaned(t)
    BY <1>5 DEF Commit
  <2>6. t.kind = "save" => t.messages \in Seq(Message)
    BY <2>2 DEF Transaction
  <2>7. t.kind # "save" => t.for \in Builds
    BY <2>2 DEF Transaction
  <2> HIDE DEF t
  <2>8. ASSUME NEW m \in Seq(Message)
        PROVE  /\ [store EXCEPT ![t.id] = m] \in Seq(Seq(Message))
               /\ Len([store EXCEPT ![t.id] = m]) = ids
    BY <2>2 DEF TypeOK
  <2>9. CASE Saved(t)
    BY <2>1, <2>3, <2>6, <2>8, <2>9 DEF TypeOK, Saved
  <2>10. CASE Deleted(t)
    <3>1. <<>> \in Seq(Message)
      OBVIOUS
    <3> QED
      BY <2>1, <2>3, <2>7, <2>8, <2>10, <3>1, ClearType DEF TypeOK, Deleted
  <2>11. CASE Loaded(t)
    <3>1. agent' \in Agents
      BY <2>4, <2>11 DEF Loaded, NewAgent, Agents
    <3>2. t.for \in Builds /\ pc' = [pc EXCEPT ![t.for] = "done"]
      BY <2>7, <2>11 DEF Loaded
    <3>3. pc' \in [Builds -> {"idle", "delete", "keys", "load", "done"}]
      BY <3>2 DEF TypeOK
    <3>4. session' \in 0 .. ids
      BY <2>2, <2>11 DEF TypeOK, Loaded
    <3>5. UNCHANGED <<pointer, store, cleared>>
      BY <2>11 DEF Loaded
    <3>6. crossed' \in BOOLEAN
      BY <2>11 DEF TypeOK, Loaded
    <3> QED
      BY <2>1, <2>3, <3>1, <3>3, <3>4, <3>5, <3>6 DEF TypeOK
  <2>12. CASE Orphaned(t)
    <3>1. <<>> \in Seq(Message)
      OBVIOUS
    <3> QED
      BY <2>1, <2>3, <2>8, <2>12, <3>1 DEF TypeOK, Orphaned
  <2> QED
    BY <2>5, <2>9, <2>10, <2>11, <2>12
<1>6. ASSUME NEW u \in Users, NEW b \in Builds, SignIn(u, b) PROVE TypeOK'
  BY <1>6 DEF TypeOK, SignIn, StartBuild, history, Hurry, Building
<1>7. ASSUME NEW u \in Users, RefreshInPlace(u) PROVE TypeOK'
  BY <1>7 DEF TypeOK, RefreshInPlace, history, haste
<1>8. CASE SignOut
  BY <1>8 DEF TypeOK, SignOut, history, Hurry, Building
<1>9. CASE UNCHANGED vars
  BY <1>9 DEF TypeOK, vars, history, haste
<1> QED
  BY <1>1, <1>2, <1>3, <1>4, <1>5, <1>6, <1>7, <1>8, <1>9 DEF Next

\* Every variable keeps its type: in particular no pointer, no request and no agent is
\* about a session that was never begun.
THEOREM TypeCorrect == Spec => []TypeOK
<1>1. TypeOK /\ [Next]_vars => TypeOK'
  BY NextTypeOK
<1> QED
  BY InitTypeOK, <1>1, PTL DEF Spec

(***************************************************************************)
(* What a turn and a commit do, for what follows.                          *)
(***************************************************************************)
Writes(t, id) == t.kind # "load" /\ t.id = id
Written(t) == IF t.kind = "save" THEN t.messages ELSE <<>>

\* A turn adds a new message of the account to the transcript and perhaps saves it.
LEMMA TurnFacts ==
  ASSUME TypeOK, Send \/ \E more \in BOOLEAN : Reply(more)
  PROVE  \E said \in Message, messages \in Seq(Message) :
           /\ SignedIn /\ user \in Users /\ agent # NoAgent /\ agent.messages \in Seq(Message)
           /\ said.n = sent + 1 /\ sent' = sent + 1
           /\ messages = Append(agent.messages, said)
           /\ agent' # NoAgent /\ agent'.messages = messages
           /\ \/ cleared' = {c \in cleared : c.message \notin ToSet(messages)}
              \/ agent.isStreaming /\ cleared' = cleared
           /\ OnMessageEnd(messages)
           /\ UNCHANGED <<user, pc>>
<1>1. PICK role \in {"user", "assistant"}, streaming \in BOOLEAN :
        LET messages == Append(agent.messages, Said(role)) IN
        /\ SignedIn /\ agent # NoAgent
        /\ sent' = sent + 1
        /\ agent' = [messages |-> messages, isStreaming |-> streaming]
        /\ OnMessageEnd(messages)
        /\ \/ cleared' = {c \in cleared : c.message \notin ToSet(messages)}
           \/ agent.isStreaming /\ cleared' = cleared
        /\ UNCHANGED <<user, pc>>
  BY DEF Send, Reply
<1> DEFINE said == Said(role)
           messages == Append(agent.messages, said)
<1>2. said \in Message /\ said.n = sent + 1 /\ agent.messages \in Seq(Message) /\ user \in Users
  BY <1>1, SaidType DEF TypeOK, Agents, Said, SignedIn
<1>3. messages \in Seq(Message)
  BY <1>2
<1> HIDE DEF said
<1>4. agent'.messages = messages /\ OnMessageEnd(messages)
  BY <1>1 DEF said
<1>5. agent' # NoAgent
  <2>1. DOMAIN agent' = {"messages", "isStreaming"} /\ DOMAIN NoAgent = {"isStreaming"}
    BY <1>1 DEF NoAgent
  <2> QED
    BY <2>1
<1>6. \/ cleared' = {c \in cleared : c.message \notin ToSet(messages)}
      \/ agent.isStreaming /\ cleared' = cleared
  BY <1>1 DEF said
<1> HIDE DEF messages
<1>7. messages = Append(agent.messages, said)
  BY DEF messages
<1> QED
  BY <1>1, <1>2, <1>3, <1>4, <1>5, <1>6, <1>7

\* Saving: either nothing happens, or the session is the pointer of its account and the
\* save stands behind everything else.
LEMMA SaveFacts ==
  ASSUME TypeOK, SignedIn, NEW messages \in Seq(Message), OnMessageEnd(messages)
  PROVE  \/ ~ShouldSaveSession(messages) /\ UNCHANGED <<session, pointer, store, transactions, ids>>
         \/ \E id \in Nat \ {0} :
              /\ session' = id /\ pointer'[user] = id
              /\ \A v \in Users : v # user => pointer'[v] = pointer[v]
              /\ session # 0 => id = session
              /\ session = 0 => id = ids + 1 /\ store'[id] = <<>>
              /\ ids' = IF session = 0 THEN ids + 1 ELSE ids
              /\ \A k \in 1 .. ids : store'[k] = store[k]
              /\ Len(transactions') = Len(transactions) + 1
              /\ \A j \in 1 .. Len(transactions) : transactions'[j] = transactions[j]
              /\ transactions'[Len(transactions) + 1] = Save(id, messages)
<1>1. CASE ~ShouldSaveSession(messages)
  BY <1>1 DEF OnMessageEnd
<1>2. CASE ShouldSaveSession(messages)
  <2>0. PICK id : id = IF session = 0 THEN ids + 1 ELSE session
    OBVIOUS
  <2> DEFINE t == Save(id, messages)
  <2>1. /\ store' = IF session = 0 THEN Append(store, <<>>) ELSE store
        /\ ids' = IF session = 0 THEN ids + 1 ELSE ids
        /\ session' = id
        /\ pointer' = [pointer EXCEPT ![user] = id]
        /\ transactions' = Append(transactions, t)
    BY <1>2, <2>0 DEF OnMessageEnd, SessionPtrKey
  <2>2. /\ ids \in Nat /\ session \in 0 .. ids /\ user \in Users
        /\ pointer \in [Accounts -> 0 .. ids]
        /\ store \in Seq(Seq(Message)) /\ Len(store) = ids
        /\ transactions \in Seq(Transaction)
    BY DEF TypeOK, SignedIn
  <2>3. id \in Nat \ {0} /\ (session = 0 => id = ids + 1) /\ (session # 0 => id = session)
    BY <2>0, <2>2
  <2>4. pointer'[user] = id /\ \A v \in Users : v # user => pointer'[v] = pointer[v]
    BY <2>1, <2>2
  <2>5. \A k \in 1 .. ids : store'[k] = store[k]
    BY <2>1, <2>2
  <2>6. session = 0 => store'[id] = <<>>
    BY <2>1, <2>2, <2>3
  <2> HIDE DEF t
  <2>7. /\ Len(transactions') = Len(transactions) + 1
        /\ \A j \in 1 .. Len(transactions) : transactions'[j] = transactions[j]
        /\ transactions'[Len(transactions) + 1] = t
    BY <2>1, <2>2
  <2> QED
    BY <2>1, <2>3, <2>4, <2>5, <2>6, <2>7 DEF t
<1> QED
  BY <1>1, <1>2

\* A commit takes the oldest transaction off and carries it out.
LEMMA CommitFacts ==
  ASSUME TypeOK, Commit
  PROVE  /\ 1 \in DOMAIN transactions /\ transactions[1] = Head(transactions)
         /\ transactions[1] \in Transaction /\ transactions[1].id \in 1 .. ids
         /\ Len(transactions) \in Nat \ {0} /\ Len(transactions') = Len(transactions) - 1
         /\ \A j \in 1 .. Len(transactions) - 1 : transactions'[j] = transactions[j + 1]
         /\ \A id \in 1 .. ids : store'[id] = IF Writes(transactions[1], id) THEN Written(transactions[1]) ELSE store[id]
         /\ LET t == transactions[1] IN Saved(t) \/ Deleted(t) \/ Loaded(t) \/ Orphaned(t)
         /\ UNCHANGED <<user, ids, sent, reloads>>
<1> DEFINE t == transactions[1]
<1>1. /\ transactions \in Seq(Transaction) /\ store \in Seq(Seq(Message)) /\ Len(store) = ids /\ ids \in Nat
      /\ \A i \in DOMAIN transactions : transactions[i].id \in 1 .. ids
  BY DEF TypeOK
<1>2. transactions # <<>> /\ transactions' = Tail(transactions) /\ UNCHANGED <<user, ids, sent, reloads>>
      /\ LET h == Head(transactions) IN Saved(h) \/ Deleted(h) \/ Loaded(h) \/ Orphaned(h)
  BY DEF Commit
<1>3. 1 \in DOMAIN transactions /\ t = Head(transactions) /\ t \in Transaction /\ t.id \in 1 .. ids
  BY <1>1, <1>2
<1>4. /\ Len(transactions) \in Nat \ {0} /\ Len(transactions') = Len(transactions) - 1
      /\ \A j \in 1 .. Len(transactions) - 1 : transactions'[j] = transactions[j + 1]
  BY <1>1, <1>2
<1>5. Saved(t) \/ Deleted(t) \/ Loaded(t) \/ Orphaned(t)
  BY <1>2, <1>3
<1>6. t.kind \in {"save", "delete", "load"}
  BY <1>3 DEF Transaction
<1> HIDE DEF t
<1>7. store' = IF t.kind = "save" THEN [store EXCEPT ![t.id] = t.messages]
               ELSE IF t.kind = "delete" THEN [store EXCEPT ![t.id] = <<>>] ELSE store
  BY <1>5 DEF Saved, Deleted, Loaded, Orphaned
<1>8. \A id \in 1 .. ids : store'[id] = IF Writes(t, id) THEN Written(t) ELSE store[id]
  <2>1. DOMAIN store = 1 .. ids
    BY <1>1
  <2>2. CASE t.kind = "save"
    BY <1>7, <2>1, <2>2 DEF Written, Writes
  <2>3. CASE t.kind = "delete"
    BY <1>7, <2>1, <2>3 DEF Written, Writes
  <2>4. CASE t.kind = "load"
    BY <1>7, <2>4 DEF Writes
  <2> QED
    BY <1>6, <2>2, <2>3, <2>4
<1> QED
  BY <1>2, <1>3, <1>4, <1>5, <1>8 DEF t

LEMMA KindOf ==
  ASSUME TypeOK, NEW i \in DOMAIN transactions
  PROVE  /\ transactions[i].kind \in {"save", "delete", "load"} /\ transactions[i].id \in 1 .. ids
         /\ transactions[i].kind = "save" => transactions[i].messages \in Seq(Message)
         /\ transactions[i].kind # "save" => transactions[i].for \in Builds
<1>1. transactions[i] \in Transaction /\ transactions[i].id \in 1 .. ids
  BY DEF TypeOK
<1> QED
  BY <1>1 DEF Transaction

(***************************************************************************)
(* Whose conversations.                                                    *)
(*                                                                         *)
(* PointerOwner is about stored messages only.  What is under way must     *)
(* belong to the right account too: saves, the conversation on the screen, *)
(* the one that is being loaded.  Two empty conversations look alike, so   *)
(* there is an owner of each of them.                                      *)
(***************************************************************************)
By(messages, u) == \A i \in DOMAIN messages : messages[i].by = u

Loading(i) ==
  transactions[i].kind = "load" /\ pc[transactions[i].for] = "load"

Owner(own) ==
  /\ \A id \in 1 .. ids : By(store[id], own[id])
  /\ \A i \in DOMAIN transactions :
       transactions[i].kind = "save" => By(transactions[i].messages, own[transactions[i].id])
  /\ \A v \in Accounts : pointer[v] # 0 => own[pointer[v]] = v
  /\ session # 0 => user \in Users /\ own[session] = user
  /\ agent # NoAgent => By(agent.messages, user)
  /\ \A i \in DOMAIN transactions :
       Loading(i) => own[transactions[i].id] = asked[transactions[i].for]

OwnerInv ==
  /\ TypeOK
  /\ \A i \in DOMAIN transactions :
       transactions[i].kind = "load" => pc[transactions[i].for] \in {"load", "done"}
  /\ \E own \in [Nat -> Accounts] : Owner(own)

LEMMA InitOwnerInv == Init => OwnerInv
<1> SUFFICES ASSUME Init PROVE OwnerInv
  OBVIOUS
<1> DEFINE own == [n \in Nat |-> Nobody]
<1>1. own \in [Nat -> Accounts]
  OBVIOUS
<1>2. Owner(own)
  BY DEF Init, Owner, Loading
<1> QED
  BY <1>1, <1>2, InitTypeOK DEF Init, OwnerInv

\* What is stored of a conversation, and what is to be saved of it, is its owner's.
Owned(id, u) ==
  /\ By(store[id], u)
  /\ \A i \in DOMAIN transactions :
       transactions[i].kind = "save" /\ transactions[i].id = id => By(transactions[i].messages, u)

LEMMA PointerOwned ==
  ASSUME OwnerInv, NEW u \in Users, pointer[u] # 0
  PROVE  Owned(pointer[u], u)
<1>1. PICK own \in [Nat -> Accounts] : Owner(own)
  BY DEF OwnerInv
<1>2. pointer[u] \in 1 .. ids /\ own[pointer[u]] = u
  BY <1>1 DEF OwnerInv, TypeOK, Owner
<1> QED
  BY <1>1, <1>2 DEF Owner, Owned

LEMMA OwnerInvImplies == OwnerInv => PointerOwner
<1> SUFFICES ASSUME OwnerInv, NEW u \in Users, pointer[u] # 0,
                    NEW m \in ToSet(store[pointer[u]])
             PROVE  m.by = u
  BY DEF PointerOwner
<1>1. By(store[pointer[u]], u)
  BY PointerOwned DEF Owned
<1>2. PICK i \in DOMAIN store[pointer[u]] : m = store[pointer[u]][i]
  BY DEF ToSet
<1> QED
  BY <1>1, <1>2 DEF By

\* Every step but a turn: no conversation begins, and nothing new is saved.
LEMMA OwnerStep ==
  ASSUME TypeOK, TypeOK', NEW own \in [Nat -> Accounts], Owner(own), UNCHANGED ids,
         \A id \in 1 .. ids : store'[id] \in {store[id], <<>>} \/ By(store'[id], own[id]),
         \A j \in DOMAIN transactions' :
           transactions'[j].kind = "save" => \E i \in DOMAIN transactions : transactions'[j] = transactions[i],
         \A v \in Accounts : pointer'[v] \in {0, pointer[v]},
         session' # 0 => user' \in Users /\ own[session'] = user',
         agent' # NoAgent => By(agent'.messages, user'),
         \A j \in DOMAIN transactions' :
           Loading(j)' => own[transactions'[j].id] = asked'[transactions'[j].for]
  PROVE  Owner(own)'
<1>1. ASSUME NEW id \in 1 .. ids PROVE By(store'[id], own[id])
  BY DEF Owner, By
<1>2. ASSUME NEW j \in DOMAIN transactions', transactions'[j].kind = "save"
      PROVE  By(transactions'[j].messages, own[transactions'[j].id])
  <2>1. PICK i \in DOMAIN transactions : transactions'[j] = transactions[i]
    BY <1>2
  <2> QED
    BY <1>2, <2>1 DEF Owner
<1>3. \A v \in Accounts : pointer'[v] # 0 => own[pointer'[v]] = v
  BY DEF Owner
<1> QED
  BY <1>1, <1>2, <1>3 DEF Owner, By

\* Nobody's messages are no messages.
LEMMA ByNobody ==
  ASSUME NEW messages \in Seq(Message), By(messages, Nobody)
  PROVE  messages = <<>>
<1>1. ASSUME NEW i \in DOMAIN messages PROVE FALSE
  <2>1. messages[i] \in Message
    OBVIOUS
  <2>2. messages[i].by \in Users
    BY <2>1 DEF Message
  <2> QED
    BY <2>2, NobodyAssumption DEF By
<1>2. 1 \notin DOMAIN messages
  BY <1>1
<1> QED
  BY <1>2

\* A turn: a conversation that begins belongs to the account that is signed in.
LEMMA OwnerTurn ==
  ASSUME OwnerInv, TypeOK', Send \/ \E more \in BOOLEAN : Reply(more)
  PROVE  OwnerInv'
<1> USE DEF OwnerInv
<1>1. PICK role \in {"user", "assistant"}, streaming \in BOOLEAN :
        /\ SignedIn /\ agent # NoAgent
        /\ agent' = [messages |-> Append(agent.messages, Said(role)), isStreaming |-> streaming]
        /\ OnMessageEnd(Append(agent.messages, Said(role)))
        /\ UNCHANGED <<user, pc, asked>>
  BY DEF Send, Reply, haste
<1>2. PICK messages : messages = Append(agent.messages, Said(role))
  OBVIOUS
<1>3. PICK own \in [Nat -> Accounts] : Owner(own)
  OBVIOUS
<1>4. agent.messages \in Seq(Message) /\ Said(role) \in Message /\ Said(role).by = user /\ user \in Users
  BY <1>1, SaidType DEF TypeOK, Agents, Said, SignedIn
<1>5. By(agent.messages, user)
  BY <1>1, <1>3 DEF Owner
<1>6. messages \in Seq(Message) /\ By(messages, user)
  BY <1>2, <1>4, <1>5 DEF By
<1>7. OnMessageEnd(messages) /\ agent'.messages = messages /\ By(agent'.messages, user')
  BY <1>1, <1>2, <1>6
<1>8. /\ ids \in Nat /\ session \in 0 .. ids /\ \A v \in Accounts : pointer[v] \in 0 .. ids
      /\ \A i \in DOMAIN transactions : transactions[i].id \in 1 .. ids
      /\ DOMAIN transactions = 1 .. Len(transactions) /\ DOMAIN transactions' = 1 .. Len(transactions')
      /\ Len(transactions) \in Nat
  BY DEF TypeOK
<1>9. CASE UNCHANGED <<session, pointer, store, transactions, ids>>
  <2>1. Owner(own)'
    BY <1>1, <1>3, <1>7, <1>9 DEF Owner, Loading, By
  <2> QED
    BY <1>1, <1>9, <2>1
<1>10. ASSUME NEW id \in Nat \ {0},
              /\ session' = id /\ pointer'[user] = id
              /\ \A v \in Users : v # user => pointer'[v] = pointer[v]
              /\ session # 0 => id = session
              /\ session = 0 => id = ids + 1 /\ store'[id] = <<>>
              /\ ids' = IF session = 0 THEN ids + 1 ELSE ids
              /\ \A k \in 1 .. ids : store'[k] = store[k]
              /\ Len(transactions') = Len(transactions) + 1
              /\ \A j \in 1 .. Len(transactions) : transactions'[j] = transactions[j]
              /\ transactions'[Len(transactions) + 1] = Save(id, messages),
              pointer'[Nobody] = pointer[Nobody]
       PROVE  OwnerInv'
  <2>1. PICK o \in [Nat -> Accounts] : o = [own EXCEPT ![id] = user]
    BY <1>4
  <2>2. o[id] = user /\ \A k \in 1 .. ids : o[k] = own[k]
    BY <1>3, <1>8, <1>10, <2>1 DEF Owner
  <2>3. ASSUME NEW k \in 1 .. ids' PROVE By(store'[k], o[k])
    <3>1. CASE k \in 1 .. ids
      BY <1>3, <1>10, <2>2, <3>1 DEF Owner
    <3>2. CASE k \notin 1 .. ids
      BY <1>8, <1>10, <3>2 DEF By
    <3> QED
      BY <3>1, <3>2
  <2>4. ASSUME NEW j \in DOMAIN transactions'
        PROVE  \/ j \in DOMAIN transactions /\ transactions'[j] = transactions[j]
               \/ transactions'[j] = Save(id, messages)
    BY <1>8, <1>10
  <2>5. ASSUME NEW j \in DOMAIN transactions', transactions'[j].kind = "save"
        PROVE  By(transactions'[j].messages, o[transactions'[j].id])
    <3>1. CASE transactions'[j] = Save(id, messages)
      BY <1>6, <2>2, <3>1 DEF Save
    <3>2. CASE j \in DOMAIN transactions /\ transactions'[j] = transactions[j]
      BY <1>3, <1>8, <2>2, <2>5, <3>2 DEF Owner
    <3> QED
      BY <2>4, <3>1, <3>2
  <2>6. ASSUME NEW v \in Accounts, pointer'[v] # 0 PROVE o[pointer'[v]] = v
    BY <1>3, <1>8, <1>10, <2>2, <2>6 DEF Owner
  <2>7. ASSUME NEW j \in DOMAIN transactions', transactions'[j].kind = "load"
        PROVE  j \in DOMAIN transactions /\ transactions'[j] = transactions[j]
    BY <2>4, <2>7 DEF Save
  <2>8. ASSUME NEW j \in DOMAIN transactions', Loading(j)'
        PROVE  o[transactions'[j].id] = asked'[transactions'[j].for]
    <3>1. j \in DOMAIN transactions /\ transactions'[j] = transactions[j] /\ Loading(j)
      BY <1>1, <2>7, <2>8 DEF Loading
    <3> QED
      BY <1>1, <1>3, <1>8, <2>2, <3>1 DEF Owner
  <2>9. Owner(o)'
    BY <1>1, <1>4, <1>7, <1>10, <2>2, <2>3, <2>5, <2>6, <2>8 DEF Owner, By
  <2> QED
    BY <1>1, <2>7, <2>9
<1>11. ShouldSaveSession(messages) => pointer'[Nobody] = pointer[Nobody]
  BY <1>4, <1>7 DEF OnMessageEnd, SessionPtrKey, TypeOK
<1>12. ~ShouldSaveSession(messages) => UNCHANGED <<session, pointer, store, transactions, ids>>
  BY <1>7 DEF OnMessageEnd
<1> QED
  BY <1>1, <1>6, <1>7, <1>9, <1>10, <1>11, <1>12, SaveFacts

\* The oldest transaction is carried out.  A conversation is shown to whoever is signed
\* in by then, which is its owner unless that has crossed.
LEMMA OwnerCommit ==
  ASSUME ~crossed', OwnerInv, TypeOK', Commit
  PROVE  OwnerInv'
<1> USE DEF OwnerInv
<1> DEFINE t == transactions[1]
<1>1. /\ 1 \in DOMAIN transactions /\ t \in Transaction /\ t.id \in 1 .. ids
      /\ Saved(t) \/ Deleted(t) \/ Loaded(t) \/ Orphaned(t)
      /\ UNCHANGED <<user, ids, asked>>
  BY CommitFacts DEF Commit
<1>2. PICK own \in [Nat -> Accounts] : Owner(own)
  OBVIOUS
<1>3. ASSUME NEW j \in DOMAIN transactions' PROVE \E i \in DOMAIN transactions : transactions'[j] = transactions[i]
  <2>1. transactions \in Seq(Transaction) /\ transactions' \in Seq(Transaction)
    BY DEF TypeOK
  <2>2. j + 1 \in DOMAIN transactions /\ transactions'[j] = transactions[j + 1]
    BY <2>1, CommitFacts
  <2> QED
    BY <2>2
<1>4. ASSUME NEW id \in 1 .. ids PROVE store'[id] \in {store[id], <<>>} \/ By(store'[id], own[id])
  <2>1. store'[id] = IF Writes(t, id) THEN Written(t) ELSE store[id]
    BY CommitFacts
  <2> QED
    BY <1>1, <1>2, <2>1 DEF Owner, Writes, Written
<1>5. /\ DOMAIN pc = Builds /\ DOMAIN pointer = Accounts
      /\ \A i \in DOMAIN transactions : transactions[i].kind # "save" => transactions[i].for \in Builds
  BY KindOf DEF TypeOK
<1>6. t.kind # "save" => t.for \in Builds
  BY <1>1, <1>5
<1> HIDE DEF t
\* only its own construction goes on
<1>7. /\ \A c \in Builds : pc[c] \in {"load", "done"} => pc'[c] \in {pc[c], "done"}
      /\ \A v \in Accounts : pointer'[v] \in {0, pointer[v]}
  <2>1. CASE UNCHANGED <<pc, pointer>>
    BY <2>1
  <2>2. CASE Deleted(t)
    BY <1>5, <2>2 DEF Deleted, ClearChat, SessionPtrKey
  <2>3. CASE Loaded(t)
    BY <1>5, <2>3 DEF Loaded
  <2> QED
    BY <1>1, <2>1, <2>2, <2>3 DEF Saved, Orphaned
<1>8. ASSUME NEW j \in DOMAIN transactions', transactions'[j].kind = "load"
      PROVE  /\ pc'[transactions'[j].for] \in {"load", "done"}
             /\ Loading(j)' => own[transactions'[j].id] = asked'[transactions'[j].for]
  <2>1. PICK i \in DOMAIN transactions : transactions'[j] = transactions[i]
    BY <1>3
  <2>2. transactions[i].for \in Builds /\ pc[transactions[i].for] \in {"load", "done"}
    BY <1>5, <1>8, <2>1
  <2>3. Loading(j)' => Loading(i)
    BY <1>7, <1>8, <2>1, <2>2 DEF Loading
  <2> QED
    BY <1>1, <1>2, <1>7, <2>1, <2>2, <2>3 DEF Owner
<1>9. \A j \in DOMAIN transactions' :
        Loading(j)' => own[transactions'[j].id] = asked'[transactions'[j].for]
  BY <1>8 DEF Loading
<1>10. /\ session' # 0 => user' \in Users /\ own[session'] = user'
       /\ agent' # NoAgent => By(agent'.messages, user')
  <2>1. CASE Saved(t) \/ Orphaned(t)
    BY <1>1, <1>2, <2>1 DEF Saved, Orphaned, Owner
  <2>2. CASE Deleted(t)
    BY <1>1, <1>2, <2>2 DEF Deleted, ClearChat, Owner
  <2>3. CASE Loaded(t)
    <3>1. /\ session' = IF store[t.id] = <<>> THEN session ELSE t.id
          /\ agent' = [messages |-> store[t.id], isStreaming |-> FALSE]
          /\ store[t.id] = <<>> \/ asked[t.for] = user
          /\ Loading(1)
      BY <2>3 DEF Loaded, NewAgent, Loading, t
    <3>2. CASE store[t.id] = <<>>
      BY <1>1, <1>2, <3>1, <3>2 DEF Owner, By
    <3>3. CASE store[t.id] # <<>>
      <4>1. own[t.id] = user /\ By(store[t.id], user)
        BY <1>1, <1>2, <3>1, <3>3 DEF Owner, t
      <4>2. store[t.id] \in Seq(Message)
        BY <1>1 DEF TypeOK
      <4>3. user \in Users
        BY <3>3, <4>1, <4>2, ByNobody DEF TypeOK
      <4> QED
        BY <1>1, <3>1, <3>3, <4>1, <4>3 DEF By
    <3> QED
      BY <3>2, <3>3
  <2> QED
    BY <1>1, <2>1, <2>2, <2>3
<1>11. Owner(own)'
  BY <1>1, <1>2, <1>3, <1>4, <1>7, <1>9, <1>10, OwnerStep
<1> QED
  BY <1>8, <1>11

\* As long as refreshes stay with their account and nothing has crossed.
LEMMA NextOwnerInv ==
  ASSUME OneAccount, ~crossed', OwnerInv, [Next]_vars
  PROVE  OwnerInv'
<1> USE DEF OwnerInv
<1>0. TypeOK'
  BY NextTypeOK
<1>a. PICK own \in [Nat -> Accounts] : Owner(own)
  OBVIOUS
<1>b. /\ DOMAIN pc = Builds /\ DOMAIN pointer = Accounts /\ DOMAIN asked = Builds /\ user \in Accounts
      /\ \A i \in DOMAIN transactions : transactions[i].kind # "save" => transactions[i].for \in Builds
  BY KindOf DEF TypeOK
\* no conversation is stored or shown, and nobody begins to load
<1>c. ASSUME UNCHANGED <<ids, store>>,
             \A v \in Accounts : pointer'[v] \in {0, pointer[v]},
             \A j \in DOMAIN transactions' :
               \/ \E i \in DOMAIN transactions : transactions'[j] = transactions[i]
               \/ transactions'[j].kind = "delete",
             \A c \in Builds : pc[c] \in {"load", "done"} => pc'[c] \in {pc[c], "done"},
             UNCHANGED asked,
             session' # 0 => user' \in Users /\ own[session'] = user',
             agent' # NoAgent => By(agent'.messages, user')
      PROVE  OwnerInv'
  <2>1. ASSUME NEW j \in DOMAIN transactions', transactions'[j].kind = "load"
        PROVE  /\ pc'[transactions'[j].for] \in {"load", "done"}
               /\ Loading(j)' => own[transactions'[j].id] = asked'[transactions'[j].for]
    <3>1. PICK i \in DOMAIN transactions : transactions'[j] = transactions[i]
      BY <1>c, <2>1
    <3>2. transactions[i].for \in Builds /\ pc[transactions[i].for] \in {"load", "done"}
      BY <1>b, <2>1, <3>1
    <3>3. Loading(j)' => Loading(i)
      BY <1>c, <2>1, <3>1, <3>2 DEF Loading
    <3> QED
      BY <1>a, <1>c, <3>1, <3>2, <3>3 DEF Owner
  <2>2. \A j \in DOMAIN transactions' :
          Loading(j)' => own[transactions'[j].id] = asked'[transactions'[j].for]
    BY <2>1 DEF Loading
  <2>3. \A j \in DOMAIN transactions' :
          transactions'[j].kind = "save" => \E i \in DOMAIN transactions : transactions'[j] = transactions[i]
    BY <1>c
  <2>4. \A id \in 1 .. ids : store'[id] \in {store[id], <<>>} \/ By(store'[id], own[id])
    BY <1>c
  <2>5. Owner(own)'
    BY <1>0, <1>a, <1>c, <2>2, <2>3, <2>4, OwnerStep
  <2> QED
    BY <1>0, <2>1, <2>5
<1>d. /\ session # 0 => user \in Users /\ own[session] = user
      /\ agent # NoAgent => By(agent.messages, user)
  BY <1>a DEF Owner
<1>1. CASE Send \/ \E more \in BOOLEAN : Reply(more)
  BY <1>0, <1>1, OwnerTurn
<1>2. ASSUME NEW b \in Builds, KeysSet(b) PROVE OwnerInv'
  <2>1. CASE pointer[user] = 0
    <3>1. /\ agent' = [messages |-> <<>>, isStreaming |-> FALSE] /\ pc' = [pc EXCEPT ![b] = "done"]
          /\ UNCHANGED <<user, session, pointer, store, transactions, ids, asked>>
      BY <1>2, <2>1 DEF KeysSet, SessionPtrKey, NewAgent
    <3>2. By(agent'.messages, user') /\ \A c \in Builds : pc'[c] \in {pc[c], "done"}
      BY <1>b, <3>1 DEF By
    <3> QED
      BY <1>c, <1>d, <3>1, <3>2
  <2>2. CASE pointer[user] # 0
    <3> DEFINE t == [kind |-> "load", id |-> pointer[user], for |-> b]
    <3>1. /\ pc[b] = "keys" /\ pc' = [pc EXCEPT ![b] = "load"] /\ asked' = [asked EXCEPT ![b] = user]
          /\ transactions' = Append(transactions, t)
          /\ UNCHANGED <<user, session, pointer, store, ids, agent>>
      BY <1>2, <2>2 DEF KeysSet, SessionPtrKey
    <3>2. t.kind = "load" /\ t.id = pointer[user] /\ t.for = b
      OBVIOUS
    <3> HIDE DEF t
    <3>3. \A j \in DOMAIN transactions' :
            \/ j \in DOMAIN transactions /\ transactions'[j] = transactions[j]
            \/ transactions'[j] = t
      BY <3>1, RequestJoins
    <3>4. ASSUME NEW j \in DOMAIN transactions', transactions'[j].kind = "load"
          PROVE  /\ pc'[transactions'[j].for] \in {"load", "done"}
                 /\ Loading(j)' => own[transactions'[j].id] = asked'[transactions'[j].for]
      <4>1. CASE transactions'[j] = t
        <5>1. pc'[b] = "load" /\ asked'[b] = user
          BY <1>b, <3>1
        <5>2. own[t.id] = user
          BY <1>a, <1>b, <2>2, <3>2 DEF Owner
        <5> QED
          BY <3>2, <4>1, <5>1, <5>2
      <4>2. CASE j \in DOMAIN transactions /\ transactions'[j] = transactions[j]
        <5>1. transactions[j].for \in Builds /\ pc[transactions[j].for] \in {"load", "done"}
          BY <1>b, <3>4, <4>2
        <5>2. transactions[j].for # b
          BY <3>1, <5>1
        <5>3. /\ pc'[transactions[j].for] = pc[transactions[j].for]
              /\ asked'[transactions[j].for] = asked[transactions[j].for]
          BY <1>b, <3>1, <5>1, <5>2
        <5>4. Loading(j)' => Loading(j)
          BY <4>2, <5>3 DEF Loading
        <5> QED
          BY <1>a, <4>2, <5>1, <5>3, <5>4 DEF Owner
      <4> QED
        BY <3>3, <4>1, <4>2
    <3>5. \A j \in DOMAIN transactions' :
            Loading(j)' => own[transactions'[j].id] = asked'[transactions'[j].for]
      BY <3>4 DEF Loading
    <3>6. \A j \in DOMAIN transactions' :
            transactions'[j].kind = "save" => \E i \in DOMAIN transactions : transactions'[j] = transactions[i]
      BY <3>2, <3>3
    <3>7. /\ \A id \in 1 .. ids : store'[id] \in {store[id], <<>>} \/ By(store'[id], own[id])
          /\ \A v \in Accounts : pointer'[v] \in {0, pointer[v]}
      BY <3>1
    <3>8. /\ session' # 0 => user' \in Users /\ own[session'] = user'
          /\ agent' # NoAgent => By(agent'.messages, user')
      BY <1>d, <3>1
    <3>9. UNCHANGED ids
      BY <3>1
    <3>10. Owner(own)'
      BY <1>0, <1>a, <3>5, <3>6, <3>7, <3>8, <3>9, OwnerStep
    <3> QED
      BY <1>0, <3>4, <3>10
  <2> QED
    BY <2>1, <2>2
<1>3. ASSUME NEW b \in Builds, NewChat(b) PROVE OwnerInv'
  <2> DEFINE id == IF session # 0 THEN session ELSE pointer[user]
             t == [kind |-> "delete", id |-> id, for |-> b]
  <2>1. /\ pc[b] = "idle" /\ UNCHANGED <<user, store, agent, ids, asked>>
        /\ \/ ClearChat(b) /\ transactions' = transactions
           \/ /\ transactions' = Append(transactions, t) /\ pc' = [pc EXCEPT ![b] = "delete"]
              /\ UNCHANGED <<session, pointer>>
    BY <1>3 DEF NewChat, SessionPtrKey, Hurry
  <2>2. t.kind = "delete"
    OBVIOUS
  <2> HIDE DEF t, id
  <2>3. \A j \in DOMAIN transactions' :
          \/ j \in DOMAIN transactions /\ transactions'[j] = transactions[j]
          \/ transactions'[j] = t
    BY <2>1, RequestJoins
  <2>4. /\ session' \in {0, session}
        /\ pointer' = [pointer EXCEPT ![user] = 0] \/ pointer' = pointer
        /\ pc' = [pc EXCEPT ![b] = "keys"] \/ pc' = [pc EXCEPT ![b] = "delete"]
    BY <2>1 DEF ClearChat, SessionPtrKey
  <2>5. \A v \in Accounts : pointer'[v] \in {0, pointer[v]}
    BY <1>b, <2>4
  <2>6. \A c \in Builds : pc[c] \in {"load", "done"} => pc'[c] \in {pc[c], "done"}
    BY <1>b, <2>1, <2>4
  <2> QED
    BY <1>c, <1>d, <2>1, <2>2, <2>3, <2>4, <2>5, <2>6
<1>4. CASE Commit
  BY <1>0, <1>4, OwnerCommit
<1>5. ASSUME NEW u \in Users, NEW b \in Builds, SignIn(u, b) PROVE OwnerInv'
  <2>1. /\ user = Nobody \/ (agent = NoAgent /\ u = user)
        /\ user' = u /\ pc[b] = "idle" /\ pc' = [pc EXCEPT ![b] = "keys"]
        /\ UNCHANGED <<agent, session, pointer, store, transactions, ids, asked>>
    BY <1>5 DEF SignIn, StartBuild, SignedIn, Hurry
  <2>2. session' # 0 => user' \in Users /\ own[session'] = user'
    BY <1>d, <2>1, NobodyAssumption
  <2>3. ASSUME agent' # NoAgent PROVE By(agent'.messages, user')
    <3>1. user = Nobody /\ By(agent.messages, Nobody) /\ agent.messages \in Seq(Message)
      BY <1>d, <2>1, <2>3 DEF TypeOK, Agents
    <3>2. agent.messages = <<>>
      BY <3>1, ByNobody
    <3> QED
      BY <2>1, <3>2 DEF By
  <2>4. \A c \in Builds : pc[c] \in {"load", "done"} => pc'[c] \in {pc[c], "done"}
    BY <1>b, <2>1
  <2> QED
    BY <1>c, <2>1, <2>2, <2>3, <2>4
<1>6. ASSUME NEW u \in Users, RefreshInPlace(u) PROVE OwnerInv'
  <2>1. UNCHANGED <<user, agent, session, pointer, store, transactions, pc, ids, asked>>
    BY <1>6 DEF RefreshInPlace, haste
  <2> QED
    BY <1>c, <1>d, <2>1
<1>7. CASE SignOut
  <2>1. /\ agent' = NoAgent /\ session' = 0
        /\ UNCHANGED <<pointer, store, transactions, pc, ids, asked>>
    BY <1>7 DEF SignOut, Hurry
  <2> QED
    BY <1>c, <2>1
<1>8. ASSUME NEW b \in Builds, Reload(b) PROVE OwnerInv'
  <2>1. PICK n \in 0 .. Len(transactions) : transactions' = SubSeq(transactions, 1, n)
    BY <1>8 DEF Reload
  <2>2. /\ agent' = NoAgent /\ session' = 0 /\ pc[b] = "idle"
        /\ pc' = [c \in Builds |-> IF c = b THEN IF user' = Nobody THEN "idle" ELSE "keys"
                                   ELSE IF pc[c] = "idle" THEN "idle" ELSE "done"]
        /\ UNCHANGED <<pointer, store, ids, asked>>
    BY <1>8 DEF Reload, haste
  <2>3. \A j \in DOMAIN transactions' : j \in DOMAIN transactions /\ transactions'[j] = transactions[j]
    BY <2>1 DEF TypeOK
  <2>4. \A c \in Builds : pc[c] \in {"load", "done"} => pc'[c] \in {pc[c], "done"}
    BY <2>2
  <2> QED
    BY <1>c, <2>2, <2>3, <2>4
<1>9. CASE UNCHANGED vars
  <2>1. UNCHANGED <<user, agent, session, pointer, store, transactions, pc, ids, asked>>
    BY <1>9 DEF vars, haste
  <2> QED
    BY <1>c, <1>d, <2>1
<1> QED
  BY <1>1, <1>2, <1>3, <1>4, <1>5, <1>6, <1>7, <1>8, <1>9 DEF Next

\* What has crossed, and who has hurried, stays on record.
LEMMA HistoryStays ==
  ASSUME TypeOK, [Next]_vars
  PROVE  (crossed => crossed') /\ (hurried => hurried')
<1> DEFINE Stays == (crossed => crossed') /\ (hurried => hurried')
<1>1. ASSUME UNCHANGED <<hurried, crossed>> PROVE Stays
  BY <1>1
<1>2. ASSUME Hurry PROVE Stays
  BY <1>2 DEF Hurry, TypeOK
<1>3. CASE Commit
  <2>1. PICK t : Saved(t) \/ Deleted(t) \/ Loaded(t) \/ Orphaned(t)
    BY <1>3 DEF Commit
  <2>2. UNCHANGED hurried
    BY <1>3 DEF Commit
  <2>3. CASE Loaded(t)
    <3>1. crossed' = (crossed \/ (store[t.id] # <<>> /\ asked[t.for] # user))
      BY <2>3 DEF Loaded
    <3> QED
      BY <2>2, <3>1 DEF TypeOK
  <2>4. CASE Saved(t) \/ Deleted(t) \/ Orphaned(t)
    BY <1>1, <2>2, <2>4 DEF Saved, Deleted, Orphaned
  <2> QED
    BY <2>1, <2>3, <2>4
<1>4. CASE Send \/ \E more \in BOOLEAN : Reply(more)
  BY <1>1, <1>4 DEF Send, Reply, haste
<1>5. ASSUME NEW b \in Builds, KeysSet(b) \/ Reload(b) PROVE Stays
  BY <1>1, <1>5 DEF KeysSet, Reload, haste
<1>6. ASSUME NEW b \in Builds, NewChat(b) PROVE Stays
  BY <1>2, <1>6 DEF NewChat
<1>7. ASSUME NEW u \in Users, NEW b \in Builds, SignIn(u, b) PROVE Stays
  BY <1>2, <1>7 DEF SignIn
<1>8. ASSUME NEW u \in Users, RefreshInPlace(u) PROVE Stays
  BY <1>1, <1>8 DEF RefreshInPlace, haste
<1>9. CASE SignOut
  BY <1>2, <1>9 DEF SignOut
<1>10. CASE UNCHANGED vars
  BY <1>1, <1>10 DEF vars, haste
<1> QED
  BY <1>3, <1>4, <1>5, <1>6, <1>7, <1>8, <1>9, <1>10 DEF Next

\* "different accounts don't see each other's history" (main.ts:280): as long as refreshes
\* stay with their account, a pointer leads to messages of another account only after a
\* conversation was restored that had been asked for by an account which was not signed in
\* any more (main.ts:343).  Nothing else mixes histories: no save, deletion, sign-out,
\* sign-in, new chat or reload, at whatever moment of a construction it comes.
THEOREM HistoryStaysWithAccount ==
  ASSUME OneAccount
  PROVE  Spec => []PointerOwner
<1> DEFINE Inv == TypeOK /\ (crossed \/ OwnerInv)
<1>1. Init => Inv
  BY InitOwnerInv DEF OwnerInv
<1>2. ASSUME Inv, [Next]_vars PROVE Inv'
  <2>1. TypeOK' /\ (crossed => crossed')
    BY <1>2, NextTypeOK, HistoryStays
  <2>2. CASE crossed'
    BY <2>1, <2>2
  <2>3. CASE ~crossed'
    BY <1>2, <2>1, <2>3, NextOwnerInv
  <2> QED
    BY <2>2, <2>3
<1>3. Inv => PointerOwner
  BY OwnerInvImplies DEF PointerOwner
<1> HIDE DEF Inv
<1> QED
  BY <1>1, <1>2, <1>3, PTL DEF Spec

(***************************************************************************)
(* Without haste: as long as nobody signs in or out, or asks for a new     *)
(* chat, while another construction is under way, whoever builds an agent  *)
(* or clears a chat is alone, builds for the account that is signed in,    *)
(* and nothing crosses.                                                    *)
(***************************************************************************)
AtWork(b) == pc[b] \in {"delete", "keys", "load"}
OneBuild == \A b, c \in Builds : AtWork(b) /\ AtWork(c) => b = c

CalmInv ==
  /\ OwnerInv
  /\ ~crossed
  /\ ~SignedIn => agent = NoAgent /\ ~Building
  /\ \A i \in DOMAIN transactions : Loading(i) => asked[transactions[i].for] = user

LEMMA InitCalmInv == Init => CalmInv
  BY InitOwnerInv DEF Init, CalmInv, SignedIn, Building

LEMMA NextCalmInv ==
  ASSUME OneAccount, ~hurried', CalmInv, [Next]_vars
  PROVE  CalmInv'
<1> USE DEF CalmInv
<1>0. TypeOK /\ TypeOK'
  BY NextTypeOK DEF OwnerInv
<1>b. /\ DOMAIN pc = Builds /\ DOMAIN asked = Builds /\ user \in Accounts
      /\ \A i \in DOMAIN transactions : transactions[i].kind # "save" => transactions[i].for \in Builds
  BY <1>0, KindOf DEF TypeOK
\* nobody begins to load, and who is signed in stays, or nobody loads
<1>a. ASSUME ~crossed', UNCHANGED asked, ~SignedIn' => agent' = NoAgent /\ ~Building',
             \/ \A c \in Builds : pc'[c] # "load"
             \/ /\ UNCHANGED user
                /\ \A c \in Builds : pc'[c] = "load" => pc[c] = "load"
                /\ \A j \in DOMAIN transactions' :
                     transactions'[j].kind = "load" => \E i \in DOMAIN transactions : transactions'[j] = transactions[i]
      PROVE  CalmInv'
  <2>1. OwnerInv'
    BY <1>a, NextOwnerInv
  <2>2. ASSUME NEW j \in DOMAIN transactions', Loading(j)' PROVE asked'[transactions'[j].for] = user'
    <3>1. transactions'[j] \in Transaction
      BY <1>0 DEF TypeOK
    <3>2. transactions'[j].kind = "load" /\ transactions'[j].for \in Builds /\ pc'[transactions'[j].for] = "load"
      BY <2>2, <3>1 DEF Loading, Transaction
    <3>3. PICK i \in DOMAIN transactions : transactions'[j] = transactions[i] /\ UNCHANGED user
      BY <1>a, <3>2
    <3>4. Loading(i)
      BY <1>a, <3>2, <3>3 DEF Loading
    <3> QED
      BY <1>a, <3>3, <3>4
  <2> QED
    BY <1>a, <2>1, <2>2
<1>1. CASE Send \/ \E more \in BOOLEAN : Reply(more)
  <2>1. PICK messages \in Seq(Message) :
          /\ SignedIn /\ agent' # NoAgent /\ OnMessageEnd(messages)
    BY <1>0, <1>1, TurnFacts
  <2>2. UNCHANGED <<user, pc, asked, crossed>>
    BY <1>1 DEF Send, Reply, haste
  <2>3. ASSUME NEW j \in DOMAIN transactions', transactions'[j].kind = "load"
        PROVE  \E i \in DOMAIN transactions : transactions'[j] = transactions[i]
    <3>1. \A id : Save(id, messages).kind = "save"
      BY DEF Save
    <3>2. CASE UNCHANGED transactions
      BY <2>3, <3>2
    <3>3. ASSUME NEW id, transactions' = Append(transactions, Save(id, messages))
          PROVE  \E i \in DOMAIN transactions : transactions'[j] = transactions[i]
      <4>1. PICK t : t = Save(id, messages)
        OBVIOUS
      <4> QED
        BY <1>0, <2>3, <3>1, <3>3, <4>1, RequestJoins
    <3> QED
      BY <2>1, <3>2, <3>3 DEF OnMessageEnd
  <2>4. SignedIn'
    BY <2>1, <2>2 DEF SignedIn
  <2> QED
    BY <1>a, <2>2, <2>3, <2>4
<1>2. ASSUME NEW b \in Builds, KeysSet(b) PROVE CalmInv'
  <2>1. SignedIn /\ UNCHANGED <<user, crossed>> /\ pc[b] = "keys"
    BY <1>2 DEF KeysSet, Building
  <2>2. SignedIn'
    BY <2>1 DEF SignedIn
  <2>3. CASE pointer[user] = 0
    <3>1. UNCHANGED <<transactions, asked>> /\ pc' = [pc EXCEPT ![b] = "done"]
      BY <1>2, <2>3 DEF KeysSet, SessionPtrKey
    <3>2. \A c \in Builds : pc'[c] = "load" => pc[c] = "load"
      BY <1>b, <3>1
    <3> QED
      BY <1>a, <2>1, <2>2, <3>1, <3>2
  <2>4. CASE pointer[user] # 0
    <3> DEFINE t == [kind |-> "load", id |-> pointer[user], for |-> b]
    <3>1. /\ transactions' = Append(transactions, t) /\ asked' = [asked EXCEPT ![b] = user]
          /\ pc' = [pc EXCEPT ![b] = "load"]
      BY <1>2, <2>4 DEF KeysSet, SessionPtrKey
    <3>2. t.for = b /\ asked'[b] = user
      BY <1>b, <3>1
    <3> HIDE DEF t
    <3>3. ASSUME NEW j \in DOMAIN transactions', Loading(j)' PROVE asked'[transactions'[j].for] = user'
      <4>1. CASE transactions'[j] = t
        BY <2>1, <3>2, <4>1
      <4>2. CASE j \in DOMAIN transactions /\ transactions'[j] = transactions[j]
        <5>1. transactions[j].kind = "load" /\ transactions[j].for \in Builds
          BY <1>b, <3>3, <4>2 DEF Loading
        <5>2. transactions[j].for # b
          BY <2>1, <4>2, <5>1 DEF OwnerInv
        <5>3. Loading(j)
          BY <1>b, <3>1, <3>3, <4>2, <5>1, <5>2 DEF Loading
        <5> QED
          BY <1>b, <2>1, <3>1, <4>2, <5>1, <5>2, <5>3
      <4> QED
        BY <1>0, <3>1, <4>1, <4>2, RequestJoins
    <3>4. OwnerInv'
      BY <2>1, NextOwnerInv
    <3> QED
      BY <2>1, <2>2, <3>3, <3>4
  <2> QED
    BY <2>3, <2>4
<1>3. ASSUME NEW b \in Builds, NewChat(b) PROVE CalmInv'
  <2>1. /\ SignedIn /\ ~Building /\ UNCHANGED <<user, asked, crossed>>
        /\ pc' = [pc EXCEPT ![b] = "keys"] \/ pc' = [pc EXCEPT ![b] = "delete"]
    BY <1>3 DEF NewChat, Hurry, ClearChat
  <2>2. \A c \in Builds : pc'[c] # "load"
    BY <1>b, <2>1 DEF Building
  <2>3. SignedIn'
    BY <2>1 DEF SignedIn
  <2> QED
    BY <1>a, <2>1, <2>2, <2>3
<1>4. CASE Commit
  <2> DEFINE t == transactions[1]
  <2>1. /\ 1 \in DOMAIN transactions /\ t \in Transaction
        /\ Saved(t) \/ Deleted(t) \/ Loaded(t) \/ Orphaned(t)
        /\ UNCHANGED <<user, asked>>
    BY <1>0, <1>4, CommitFacts DEF Commit
  <2>2. ASSUME NEW j \in DOMAIN transactions' PROVE \E i \in DOMAIN transactions : transactions'[j] = transactions[i]
    <3>1. transactions \in Seq(Transaction) /\ transactions' \in Seq(Transaction)
      BY <1>0 DEF TypeOK
    <3>2. j + 1 \in DOMAIN transactions /\ transactions'[j] = transactions[j + 1]
      BY <1>0, <1>4, <3>1, CommitFacts
    <3> QED
      BY <3>2
  <2>3. t.kind # "save" => t.for \in Builds
    BY <2>1 DEF Transaction
  <2>4. Loaded(t) => asked[t.for] = user
    BY <2>1 DEF Loaded, Loading
  <2> HIDE DEF t
  <2>5. CASE Saved(t) \/ Orphaned(t)
    <3>1. UNCHANGED <<agent, pc, crossed>>
      BY <2>5 DEF Saved, Orphaned
    <3>2. ~SignedIn' => agent' = NoAgent /\ ~Building'
      BY <2>1, <3>1 DEF SignedIn, Building
    <3> QED
      BY <1>a, <2>1, <2>2, <3>1, <3>2
  <2>6. CASE Deleted(t) \/ Loaded(t)
    <3>1. /\ pc' = [pc EXCEPT ![t.for] = "keys"] \/ pc' = [pc EXCEPT ![t.for] = "done"]
          /\ t.for \in Builds /\ pc[t.for] \in {"delete", "load"}
      BY <2>3, <2>6 DEF Deleted, Loaded, ClearChat
    <3>5. ~crossed'
      <4>1. Loaded(t) => crossed' = (crossed \/ (store[t.id] # <<>> /\ asked[t.for] # user))
        BY DEF Loaded
      <4>2. Deleted(t) => crossed' = crossed
        BY DEF Deleted
      <4> QED
        BY <2>4, <2>6, <4>1, <4>2
    <3>2. SignedIn
      BY <3>1 DEF Building
    <3>3. SignedIn'
      BY <2>1, <3>2 DEF SignedIn
    <3>4. \A c \in Builds : pc'[c] = "load" => pc[c] = "load"
      BY <1>b, <3>1
    <3> QED
      BY <1>a, <2>1, <2>2, <3>3, <3>4, <3>5
  <2> QED
    BY <2>1, <2>5, <2>6
<1>5. ASSUME NEW u \in Users, NEW b \in Builds, SignIn(u, b) PROVE CalmInv'
  <2>1. ~Building /\ user' = u /\ pc' = [pc EXCEPT ![b] = "keys"] /\ UNCHANGED <<asked, crossed>>
    BY <1>5 DEF SignIn, StartBuild, Hurry
  <2>2. SignedIn' /\ \A c \in Builds : pc'[c] # "load"
    BY <1>b, <2>1, NobodyAssumption DEF SignedIn, Building
  <2> QED
    BY <1>a, <2>1, <2>2
<1>6. ASSUME UNCHANGED <<user, agent, pc, transactions, asked, crossed>> PROVE CalmInv'
  <2>1. ~SignedIn' => agent' = NoAgent /\ ~Building'
    BY <1>6 DEF SignedIn, Building
  <2> QED
    BY <1>a, <1>6, <2>1
<1>7. ASSUME NEW u \in Users, RefreshInPlace(u) PROVE CalmInv'
  BY <1>6, <1>7 DEF RefreshInPlace, haste
<1>8. CASE SignOut
  <2>1. ~Building /\ agent' = NoAgent /\ UNCHANGED <<pc, asked, crossed>>
    BY <1>8 DEF SignOut, Hurry
  <2>2. ~Building' /\ \A c \in Builds : pc'[c] # "load"
    BY <2>1 DEF Building
  <2> QED
    BY <1>a, <2>1, <2>2
<1>9. ASSUME NEW b \in Builds, Reload(b) PROVE CalmInv'
  <2>1. /\ agent' = NoAgent /\ UNCHANGED <<asked, crossed>>
        /\ pc' = [c \in Builds |-> IF c = b THEN IF user' = Nobody THEN "idle" ELSE "keys"
                                   ELSE IF pc[c] = "idle" THEN "idle" ELSE "done"]
    BY <1>9 DEF Reload, haste
  <2>2. (\A c \in Builds : pc'[c] # "load") /\ (~SignedIn' => ~Building')
    BY <2>1 DEF SignedIn, Building
  <2> QED
    BY <1>a, <2>1, <2>2
<1>10. CASE UNCHANGED vars
  BY <1>6, <1>10 DEF vars, haste
<1> QED
  BY <1>1, <1>2, <1>3, <1>4, <1>5, <1>7, <1>8, <1>9, <1>10 DEF Next

LEMMA NextOneBuild ==
  ASSUME ~hurried', CalmInv, OneBuild, [Next]_vars
  PROVE  OneBuild'
<1> USE DEF CalmInv, OwnerInv
<1>1. pc \in [Builds -> {"idle", "delete", "keys", "load", "done"}]
  BY DEF TypeOK
<1>2. CASE Send \/ \E more \in BOOLEAN : Reply(more)
  BY <1>2 DEF Send, Reply, OneBuild, AtWork
<1>3. ASSUME NEW b \in Builds, KeysSet(b) PROVE OneBuild'
  <2>1. pc[b] = "keys" /\ (pc' = [pc EXCEPT ![b] = "done"] \/ pc' = [pc EXCEPT ![b] = "load"])
    BY <1>3 DEF KeysSet
  <2>2. \A c \in Builds : AtWork(c)' => AtWork(c)
    BY <1>1, <2>1 DEF AtWork
  <2> QED
    BY <2>2 DEF OneBuild
\* where a build begins
<1>4. ASSUME NEW b \in Builds, ~Building, \A c \in Builds : c = b \/ pc'[c] = pc[c] PROVE OneBuild'
  BY <1>4 DEF OneBuild, AtWork, Building
<1>5. ASSUME NEW b \in Builds, NewChat(b) PROVE OneBuild'
  <2>1. ~Building /\ (pc' = [pc EXCEPT ![b] = "keys"] \/ pc' = [pc EXCEPT ![b] = "delete"])
    BY <1>5 DEF NewChat, Hurry, ClearChat
  <2> QED
    BY <1>1, <1>4, <2>1
<1>6. ASSUME NEW b \in Builds, Reload(b) PROVE OneBuild'
  <2>1. pc' = [c \in Builds |-> IF c = b THEN IF user' = Nobody THEN "idle" ELSE "keys"
                                ELSE IF pc[c] = "idle" THEN "idle" ELSE "done"]
    BY <1>6 DEF Reload
  <2> QED
    BY <2>1 DEF OneBuild, AtWork
<1>7. CASE Commit
  <2> DEFINE t == transactions[1]
  <2>1. t \in Transaction /\ (Saved(t) \/ Deleted(t) \/ Loaded(t) \/ Orphaned(t))
    BY <1>7, CommitFacts
  <2>2. t.kind # "save" => t.for \in Builds
    BY <2>1 DEF Transaction
  <2> HIDE DEF t
  <2>3. CASE Saved(t) \/ Orphaned(t)
    BY <2>3 DEF Saved, Orphaned, OneBuild, AtWork
  <2>4. CASE Deleted(t) \/ Loaded(t)
    <3>1. /\ t.for \in Builds /\ AtWork(t.for)
          /\ pc' = [pc EXCEPT ![t.for] = "keys"] \/ pc' = [pc EXCEPT ![t.for] = "done"]
      BY <2>2, <2>4 DEF Deleted, Loaded, ClearChat, AtWork
    <3>2. \A c \in Builds : AtWork(c)' => AtWork(c)
      BY <1>1, <3>1 DEF AtWork
    <3> QED
      BY <3>2 DEF OneBuild
  <2> QED
    BY <2>1, <2>3, <2>4
<1>8. ASSUME NEW u \in Users, NEW b \in Builds, SignIn(u, b) PROVE OneBuild'
  BY <1>1, <1>4, <1>8 DEF SignIn, Hurry, StartBuild
<1>9. ASSUME NEW u \in Users, RefreshInPlace(u) PROVE OneBuild'
  BY <1>9 DEF RefreshInPlace, OneBuild, AtWork
<1>10. CASE SignOut \/ UNCHANGED vars
  BY <1>10 DEF SignOut, Hurry, vars, OneBuild, AtWork
<1> QED
  BY <1>2, <1>3, <1>5, <1>6, <1>7, <1>8, <1>9, <1>10 DEF Next

\* While somebody is at work in another way, nobody loads.
LEMMA NobodyLoads ==
  ASSUME TypeOK, \A b \in Builds : pc[b] # "load", NEW i \in DOMAIN transactions
  PROVE  ~Loading(i)
<1> SUFFICES ASSUME Loading(i) PROVE FALSE
  OBVIOUS
<1>1. transactions[i].for \in Builds /\ pc[transactions[i].for] = "load"
  BY KindOf DEF Loading
<1> QED
  BY <1>1

(***************************************************************************)
(* What was cleared.                                                       *)
(*                                                                         *)
(* ClearedIsGone is about the page and the store at rest.  Before, nothing *)
(* that was cleared may be stored, about to be saved or being loaded for   *)
(* any pointer, nor for the session on the screen; the agent may still     *)
(* hold it, but only until the chat that was asked for is there.           *)
(***************************************************************************)
Gone == {c.message : c \in {d \in cleared : d.idle}}
Unsaid == {m \in Message : m.n > sent}

Free(messages, S) == \A i \in DOMAIN messages : messages[i] \notin S

Without(id, S) ==
  /\ Free(store[id], S)
  /\ \A i \in DOMAIN transactions :
       transactions[i].kind = "save" /\ transactions[i].id = id => Free(transactions[i].messages, S)

Leaving ==
  ~agent.isStreaming /\ session = 0 /\ pointer[user] = 0 /\ \E b \in Builds : pc[b] = "keys"

ClearInv ==
  /\ \A id \in 1 .. ids : Without(id, Unsaid)
  /\ agent # NoAgent => Free(agent.messages, Unsaid)
  /\ Gone \cap Unsaid = {}
  /\ session # 0 => Without(session, Gone)
  /\ \A u \in Users : pointer[u] # 0 => Without(pointer[u], Gone)
  /\ \A i \in DOMAIN transactions : Loading(i) => Without(transactions[i].id, Gone)
  /\ agent # NoAgent => Free(agent.messages, Gone) \/ Leaving

LEMMA InitClearInv == Init => ClearInv
  BY DEF Init, ClearInv, Gone

LEMMA FreeOfLess ==
  ASSUME NEW messages, NEW S, NEW T, Free(messages, S), T \subseteq S
  PROVE  Free(messages, T)
  BY DEF Free

LEMMA WithoutLess ==
  ASSUME NEW id, NEW S, NEW T, Without(id, S), T \subseteq S
  PROVE  Without(id, T)
  BY FreeOfLess DEF Without

\* A conversation stays without S while what is stored of it and to be saved of it is
\* from before, or without S too.
LEMMA WithoutKept ==
  ASSUME NEW id, NEW S, Without(id, S), Free(store'[id], S),
         \A j \in DOMAIN transactions' :
           \/ \E i \in DOMAIN transactions : transactions'[j] = transactions[i]
           \/ transactions'[j].kind # "save"
           \/ transactions'[j].id # id
           \/ Free(transactions'[j].messages, S)
  PROVE  Without(id, S)'
  BY DEF Without, Free

\* Every step but a turn: nothing new is said or saved.
LEMMA ClearStep ==
  ASSUME ClearInv, TypeOK, TypeOK', UNCHANGED <<sent, ids>>,
         \A id \in 1 .. ids : \A S : Without(id, S) => Without(id, S)',
         Gone' \cap Unsaid = {},
         session' # 0 => Without(session', Gone'),
         \A u \in Users : pointer'[u] # 0 => Without(pointer'[u], Gone'),
         \A j \in DOMAIN transactions' : Loading(j)' => Without(transactions'[j].id, Gone'),
         agent' # NoAgent => agent' = agent \/ Free(agent'.messages, Unsaid),
         agent' # NoAgent => Free(agent'.messages, Gone') \/ Leaving'
  PROVE  ClearInv'
<1>1. Unsaid' = Unsaid
  BY DEF Unsaid
<1>2. PICK G, U : G = Gone' /\ U = Unsaid
  OBVIOUS
<1>3. \A id \in 1 .. ids : Without(id, U) /\ Without(id, U)'
  BY <1>2 DEF ClearInv
<1>4. \A id \in 1 .. ids' : Without(id, Unsaid)'
  BY <1>1, <1>2, <1>3 DEF Without
<1>5. /\ ids \in Nat /\ session' \in 0 .. ids /\ \A u \in Users : pointer'[u] \in 0 .. ids
      /\ \A j \in DOMAIN transactions' : transactions'[j].id \in 1 .. ids
  BY DEF TypeOK
<1>6. session' # 0 => Without(session, Gone)'
  <2>1. ASSUME NEW id \in 1 .. ids, id = session' PROVE Without(session, Gone)'
    <3>1. Without(id, G)'
      BY <1>2, <2>1
    <3> QED
      BY <1>2, <2>1, <3>1 DEF Without
  <2> QED
    BY <1>5, <2>1
<1>7. ASSUME NEW u \in Users, pointer'[u] # 0 PROVE Without(pointer[u], Gone)'
  <2>1. PICK id \in 1 .. ids : id = pointer'[u]
    BY <1>5, <1>7
  <2>2. Without(id, G)'
    BY <1>2, <1>7, <2>1
  <2> QED
    BY <1>2, <2>1, <2>2 DEF Without
<1>8. ASSUME NEW j \in DOMAIN transactions', Loading(j)' PROVE Without(transactions[j].id, Gone)'
  <2>1. PICK id \in 1 .. ids : id = transactions'[j].id
    BY <1>5
  <2>2. Without(id, G)'
    BY <1>2, <1>8, <2>1
  <2> QED
    BY <1>2, <2>1, <2>2 DEF Without
<1>9. agent' # NoAgent => Free(agent.messages, Unsaid)'
  BY <1>1 DEF ClearInv, Free
<1>10. (Gone \cap Unsaid)' = {}
  BY <1>1
<1>11. agent' # NoAgent => Free(agent.messages, Gone)' \/ Leaving'
  BY DEF Free
<1> QED
  BY <1>4, <1>6, <1>7, <1>8, <1>9, <1>10, <1>11 DEF ClearInv

\* A turn: the user goes on with what he sees, so that nothing of it counts as cleared,
\* or a reply streams, and then nothing of it was.
LEMMA ClearTurn ==
  ASSUME ClearInv, TypeOK, TypeOK', Send \/ \E more \in BOOLEAN : Reply(more)
  PROVE  ClearInv'
<1>1. PICK said \in Message, messages \in Seq(Message) :
           /\ SignedIn /\ user \in Users /\ agent # NoAgent /\ agent.messages \in Seq(Message)
           /\ said.n = sent + 1 /\ sent' = sent + 1
           /\ messages = Append(agent.messages, said)
           /\ agent' # NoAgent /\ agent'.messages = messages
           /\ \/ cleared' = {c \in cleared : c.message \notin ToSet(messages)}
              \/ agent.isStreaming /\ cleared' = cleared
           /\ OnMessageEnd(messages)
           /\ UNCHANGED <<user, pc>>
  BY TurnFacts
<1>2. PICK G, U : G = Gone' /\ U = Unsaid'
  OBVIOUS
<1>3. G \subseteq Gone /\ U \subseteq Unsaid /\ said \in Unsaid /\ said \notin U /\ sent \in Nat
  <2>1. G \subseteq Gone
    BY <1>1, <1>2 DEF Gone
  <2>2. sent \in Nat /\ \A m \in Message : m.n \in Nat
    BY DEF TypeOK, Message
  <2> QED
    BY <1>1, <1>2, <2>1, <2>2 DEF Unsaid
<1>4. G \cap U = {}
  BY <1>3 DEF ClearInv
<1>5. Free(messages, U)
  <2>1. Free(agent.messages, U)
    BY <1>1, <1>3, FreeOfLess DEF ClearInv
  <2> QED
    BY <1>1, <1>3, <2>1 DEF Free
<1>6. Free(messages, G)
  <2>1. CASE cleared' = {c \in cleared : c.message \notin ToSet(messages)}
    <3>1. \A m \in G : m \notin ToSet(messages)
      BY <1>2, <2>1 DEF Gone
    <3> QED
      BY <3>1 DEF Free, ToSet
  <2>2. CASE agent.isStreaming
    <3>1. Free(agent.messages, Gone)
      BY <1>1, <2>2 DEF ClearInv, Leaving
    <3>2. said \notin Gone
      BY <1>3 DEF ClearInv
    <3>3. Free(messages, Gone)
      BY <1>1, <3>1, <3>2 DEF Free
    <3> QED
      BY <1>3, <3>3, FreeOfLess
  <2> QED
    BY <1>1, <2>1, <2>2
<1>7. /\ \A id \in 1 .. ids : Without(id, U)
      /\ session # 0 => Without(session, G)
      /\ \A u \in Users : pointer[u] # 0 => Without(pointer[u], G)
      /\ \A i \in DOMAIN transactions : Loading(i) => Without(transactions[i].id, G)
  BY <1>3, WithoutLess DEF ClearInv
<1>8. /\ ids \in Nat /\ session \in 0 .. ids /\ \A u \in Users : pointer[u] \in 0 .. ids
      /\ \A j \in DOMAIN transactions : transactions[j].id \in 1 .. ids
      /\ transactions \in Seq(Transaction) /\ transactions' \in Seq(Transaction)
  BY DEF TypeOK
<1>9. /\ agent' # NoAgent => Free(agent.messages, Unsaid)' /\ Free(agent.messages, Gone)'
      /\ (Gone \cap Unsaid)' = {}
  BY <1>1, <1>2, <1>4, <1>5, <1>6 DEF Free
<1>10. CASE UNCHANGED <<session, pointer, store, transactions, ids>>
  BY <1>1, <1>2, <1>7, <1>9, <1>10 DEF ClearInv, Without, Loading
<1>11. ASSUME NEW id \in Nat \ {0},
              /\ session' = id /\ pointer'[user] = id
              /\ \A v \in Users : v # user => pointer'[v] = pointer[v]
              /\ session # 0 => id = session
              /\ session = 0 => id = ids + 1 /\ store'[id] = <<>>
              /\ ids' = IF session = 0 THEN ids + 1 ELSE ids
              /\ \A k \in 1 .. ids : store'[k] = store[k]
              /\ Len(transactions') = Len(transactions) + 1
              /\ \A j \in 1 .. Len(transactions) : transactions'[j] = transactions[j]
              /\ transactions'[Len(transactions) + 1] = Save(id, messages)
       PROVE  ClearInv'
  <2>1. DOMAIN transactions' = 1 .. Len(transactions) + 1 /\ DOMAIN transactions = 1 .. Len(transactions)
        /\ Len(transactions) \in Nat
    BY <1>8, <1>11
  <2>2. /\ Save(id, messages).kind = "save" /\ Save(id, messages).id = id
        /\ Save(id, messages).messages = messages
    BY DEF Save
  <2>3. \A j \in DOMAIN transactions' :
          \/ j \in DOMAIN transactions /\ transactions'[j] = transactions[j]
          \/ transactions'[j] = Save(id, messages)
    BY <1>11, <2>1
  <2>4. ASSUME NEW S, Free(messages, S), NEW k \in 1 .. ids, Without(k, S) PROVE Without(k, S)'
    <3>1. Free(store'[k], S)
      BY <1>11, <2>4 DEF Without
    <3> QED
      BY <2>2, <2>3, <2>4, <3>1, WithoutKept
  <2>5. ASSUME NEW S, Free(messages, S), session # 0 => Without(session, S) PROVE Without(id, S)'
    <3>1. CASE session # 0
      BY <1>8, <1>11, <2>4, <2>5, <3>1
    <3>2. CASE session = 0
      <4>1. Free(store'[id], S)
        BY <1>11, <3>2 DEF Free
      <4>2. ASSUME NEW j \in DOMAIN transactions', transactions'[j].id = id PROVE transactions'[j].messages = messages
        BY <1>8, <1>11, <2>2, <2>3, <3>2, <4>2
      <4> QED
        BY <2>5, <4>1, <4>2 DEF Without
    <3> QED
      BY <3>1, <3>2
  <2>6. \A k \in 1 .. ids' : Without(k, Unsaid)'
    <3>1. ASSUME NEW k \in 1 .. ids' PROVE Without(k, U)'
      <4>1. CASE k \in 1 .. ids
        BY <1>5, <1>7, <2>4, <4>1
      <4>2. CASE k \notin 1 .. ids
        <5>1. k = id
          BY <1>8, <1>11, <4>2
        <5>2. Without(id, U)'
          BY <1>5, <1>7, <1>8, <2>5
        <5> QED
          BY <5>1, <5>2
      <4> QED
        BY <4>1, <4>2
    <3> QED
      BY <1>2, <3>1 DEF Without
  <2>7. session' # 0 => Without(session, Gone)'
    <3>1. Without(id, G)'
      BY <1>6, <1>7, <2>5
    <3> QED
      BY <1>2, <1>11, <3>1 DEF Without
  <2>8. ASSUME NEW u \in Users, pointer'[u] # 0 PROVE Without(pointer[u], Gone)'
    <3>1. CASE u = user
      BY <1>11, <2>7, <2>8, <3>1 DEF Without
    <3>2. CASE u # user
      <4>0. pointer'[u] = pointer[u]
        BY <1>11, <3>2
      <4>a. pointer[u] \in 1 .. ids
        <5>1. pointer[u] # 0
          BY <2>8, <4>0
        <5>2. ids \in Nat /\ pointer[u] \in 0 .. ids
          BY <1>8
        <5> QED
          BY <5>1, <5>2
      <4>1. PICK k \in 1 .. ids : k = pointer[u]
        BY <4>a
      <4>2. Without(k, G)'
        BY <1>6, <1>7, <2>4, <4>1
      <4> QED
        BY <1>2, <4>0, <4>1, <4>2 DEF Without
    <3> QED
      BY <3>1, <3>2
  <2>9. ASSUME NEW j \in DOMAIN transactions', Loading(j)' PROVE Without(transactions[j].id, Gone)'
    <3>1. j \in DOMAIN transactions /\ transactions'[j] = transactions[j] /\ Loading(j)
      BY <1>1, <2>2, <2>3, <2>9 DEF Loading
    <3>2. PICK k \in 1 .. ids : k = transactions[j].id
      BY <1>8, <3>1
    <3>3. Without(k, G)'
      BY <1>6, <1>7, <2>4, <3>1, <3>2
    <3> QED
      BY <1>2, <3>1, <3>2, <3>3 DEF Without
  <2> QED
    BY <1>9, <2>6, <2>7, <2>8, <2>9 DEF ClearInv
<1> QED
  BY <1>1, <1>10, <1>11, SaveFacts


LEMMA ClearChatStep ==
  ASSUME CalmInv, TypeOK', ClearInv, SignedIn, agent # NoAgent, NEW b \in Builds, ClearChat(b),
         UNCHANGED <<user, agent, ids, sent>>,
         \A id \in 1 .. ids : \A S : Without(id, S) => Without(id, S)',
         \A i \in DOMAIN transactions : ~Loading(i),
         \A j \in DOMAIN transactions' :
           \E i \in DOMAIN transactions : transactions'[j] = transactions[i]
  PROVE  ClearInv'
<1> USE DEF CalmInv, OwnerInv
<1>1. /\ pointer' = [pointer EXCEPT ![user] = 0] /\ session' = 0 /\ pc' = [pc EXCEPT ![b] = "keys"]
      /\ cleared' = cleared \cup {[message |-> m, idle |-> ~agent.isStreaming] : m \in Shown}
      /\ user \in Users /\ DOMAIN pc = Builds /\ DOMAIN pointer = Accounts
  BY DEF ClearChat, SessionPtrKey, SignedIn, TypeOK
<1>2. /\ pointer'[user] = 0 /\ pc'[b] = "keys"
      /\ \A v \in Users : v # user => pointer'[v] = pointer[v]
      /\ \A c \in Builds : pc'[c] = pc[c] \/ pc'[c] = "keys"
  BY <1>1
<1>3. Gone' \subseteq Gone \cup Shown /\ (agent.isStreaming => Gone' \subseteq Gone)
  <2>1. ASSUME NEW m \in Gone' PROVE m \in Gone \/ (m \in Shown /\ ~agent.isStreaming)
    <3>1. PICK c \in cleared' : c.idle /\ m = c.message
      BY DEF Gone
    <3>2. CASE c \in cleared
      BY <3>1, <3>2 DEF Gone
    <3>3. ASSUME NEW n \in Shown, c = [message |-> n, idle |-> ~agent.isStreaming]
          PROVE  m \in Shown /\ ~agent.isStreaming
      BY <3>1, <3>3
    <3> QED
      BY <1>1, <3>1, <3>2, <3>3
  <2> QED
    BY <2>1
<1>4. /\ agent.messages \in Seq(Message) /\ Shown = ToSet(agent.messages)
      /\ \A m \in Shown : m.by = user /\ m \notin Unsaid
  <2>1. agent.messages \in Seq(Message)
    BY DEF TypeOK, Agents
  <2>2. By(agent.messages, user)
    BY DEF Owner
  <2> QED
    BY <2>1, <2>2 DEF Shown, ToSet, By, ClearInv, Free
<1>5. Gone' \cap Unsaid = {}
  BY <1>3, <1>4 DEF ClearInv
\* what another account's pointer leads to was said by that account
<1>6. ASSUME NEW u \in Users, pointer'[u] # 0 PROVE Without(pointer'[u], Gone')
  <2>1. u # user /\ pointer'[u] = pointer[u]
    BY <1>2, <1>6
  <2>2. Owned(pointer[u], u) /\ Without(pointer[u], Gone)
    BY <1>6, <2>1, PointerOwned DEF ClearInv
  <2>3. ASSUME NEW messages, By(messages, u), Free(messages, Gone) PROVE Free(messages, Gone')
    BY <1>3, <1>4, <2>1, <2>3 DEF By, Free
  <2>4. Without(pointer[u], Gone')
    BY <2>2, <2>3 DEF Without, Owned
  <2> QED
    BY <2>1, <2>4
<1>7. ASSUME NEW j \in DOMAIN transactions', Loading(j)' PROVE FALSE
  <2>1. PICK i \in DOMAIN transactions : transactions'[j] = transactions[i]
    OBVIOUS
  <2>2. transactions[i].kind = "load" /\ transactions[i].for \in Builds
    BY <1>7, <2>1, KindOf DEF Loading
  <2>3. Loading(i)
    BY <1>2, <1>7, <2>1, <2>2 DEF Loading
  <2> QED
    BY <2>3
<1>8. Free(agent'.messages, Gone') \/ Leaving'
  BY <1>1, <1>2, <1>3 DEF ClearInv, Leaving, Free
<1> QED
  BY <1>1, <1>2, <1>5, <1>6, <1>7, <1>8, ClearStep

LEMMA NextClearInv ==
  ASSUME OneAccount, ~hurried', CalmInv, OneBuild, ClearInv, [Next]_vars
  PROVE  ClearInv'
<1> USE DEF CalmInv, OwnerInv
<1>0. TypeOK'
  BY NextTypeOK
<1>a. /\ \A id \in 1 .. ids : \A S : \A v : v = store[id] => (Without(id, S) => Free(v, S))
      /\ ids \in Nat /\ session \in 0 .. ids /\ \A u \in Users : pointer[u] \in 0 .. ids
      /\ DOMAIN pc = Builds /\ DOMAIN pointer = Accounts
  BY DEF Without, TypeOK
\* what asks for nothing to be saved and stores nothing leaves all as it was
<1>b. ASSUME UNCHANGED store,
             \A j \in DOMAIN transactions' :
               \/ \E i \in DOMAIN transactions : transactions'[j] = transactions[i]
               \/ transactions'[j].kind # "save"
      PROVE  \A id \in 1 .. ids : \A S : Without(id, S) => Without(id, S)'
  <2> SUFFICES ASSUME NEW id \in 1 .. ids, NEW S, Without(id, S) PROVE Without(id, S)'
    OBVIOUS
  <2>1. Free(store'[id], S)
    BY <1>b DEF Without
  <2> QED
    BY <1>b, <2>1, WithoutKept
<1>c. UNCHANGED cleared => Gone' = Gone /\ Gone \cap Unsaid = {}
  BY DEF Gone, ClearInv
<1>d. ASSUME NEW j \in DOMAIN transactions', Loading(j)' PROVE \E c \in Builds : pc'[c] = "load"
  <2>1. transactions'[j] \in Transaction
    BY <1>0 DEF TypeOK
  <2> QED
    BY <1>d, <2>1 DEF Loading, Transaction
<1>1. CASE Send \/ \E more \in BOOLEAN : Reply(more)
  BY <1>0, <1>1, ClearTurn
<1>2. ASSUME NEW b \in Builds, KeysSet(b) PROVE ClearInv'
  <2> DEFINE t == [kind |-> "load", id |-> pointer[user], for |-> b]
  <2>1. /\ SignedIn /\ user \in Users /\ pc[b] = "keys"
        /\ UNCHANGED <<user, session, pointer, store, ids, sent, cleared>>
    BY <1>2 DEF KeysSet, Building, SignedIn, TypeOK, history
  <2>2. \/ /\ pointer[user] = 0 /\ transactions' = transactions
           /\ agent' = [messages |-> <<>>, isStreaming |-> FALSE]
        \/ pointer[user] # 0 /\ transactions' = Append(transactions, t) /\ agent' = agent
    BY <1>2 DEF KeysSet, SessionPtrKey, NewAgent
  <2>3. t.kind = "load" /\ t.id = pointer[user]
    OBVIOUS
  <2>3a. \A c \in Builds : pc'[c] = "load" => c = b
    <3>1. \A c \in Builds : pc[c] = "load" => c = b
      BY <2>1 DEF OneBuild, AtWork
    <3>2. \A c \in Builds : c # b => pc'[c] = pc[c]
      BY <1>2, <1>a DEF KeysSet
    <3> QED
      BY <3>1, <3>2
  <2> HIDE DEF t
  <2>4. \A j \in DOMAIN transactions' :
          \/ j \in DOMAIN transactions /\ transactions'[j] = transactions[j]
          \/ transactions'[j] = t /\ pointer[user] # 0
    BY <2>2, RequestJoins
  <2>5. ASSUME NEW j \in DOMAIN transactions', Loading(j)' PROVE Without(transactions'[j].id, Gone)
    <3>1. CASE transactions'[j] = t /\ pointer[user] # 0
      BY <2>1, <2>3, <3>1 DEF ClearInv
    <3>2. CASE j \in DOMAIN transactions /\ transactions'[j] = transactions[j]
      <4>1. transactions[j].kind = "load" /\ transactions[j].for \in Builds /\ pc'[transactions[j].for] = "load"
        BY <2>5, <3>2, KindOf DEF Loading
      <4>2. transactions[j].for = b
        BY <2>3a, <4>1
      <4>3. pc[b] \in {"load", "done"}
        BY <3>2, <4>1, <4>2
      <4> QED
        BY <2>1, <4>3
    <3> QED
      BY <2>4, <3>1, <3>2
  <2>6. \A id \in 1 .. ids : \A S : Without(id, S) => Without(id, S)'
    BY <1>b, <2>1, <2>3, <2>4
  <2>7. agent' # NoAgent => /\ agent' = agent \/ Free(agent'.messages, Unsaid)
                            /\ Free(agent'.messages, Gone)
    <3>1. CASE pointer[user] = 0
      BY <2>2, <3>1 DEF Free
    <3>2. CASE pointer[user] # 0
      BY <2>2, <3>2 DEF ClearInv, Leaving
    <3> QED
      BY <3>1, <3>2
  <2>8. /\ session' # 0 => Without(session', Gone)
        /\ \A u \in Users : pointer'[u] # 0 => Without(pointer'[u], Gone)
    BY <2>1 DEF ClearInv
  <2>9. UNCHANGED <<sent, ids>>
    BY <2>1
  <2> QED
    BY <1>0, <1>c, <2>1, <2>5, <2>6, <2>7, <2>8, <2>9, ClearStep
<1>3. ASSUME NEW b \in Builds, NewChat(b) PROVE ClearInv'
  <2> DEFINE id == IF session # 0 THEN session ELSE pointer[user]
             t == [kind |-> "delete", id |-> id, for |-> b]
  <2>1. /\ SignedIn /\ agent # NoAgent /\ ~Building /\ UNCHANGED <<user, store, agent, ids, sent>>
        /\ \/ ClearChat(b) /\ transactions' = transactions
           \/ /\ transactions' = Append(transactions, t) /\ pc' = [pc EXCEPT ![b] = "delete"]
              /\ UNCHANGED <<session, pointer, cleared>>
    BY <1>3 DEF NewChat, Hurry, SessionPtrKey
  <2>2. t.kind = "delete"
    OBVIOUS
  <2> HIDE DEF t, id
  <2>3. \A i \in DOMAIN transactions : ~Loading(i)
    BY <2>1, NobodyLoads DEF Building
  <2>4. CASE ClearChat(b) /\ transactions' = transactions
    <3>1. \A k \in 1 .. ids : \A S : Without(k, S) => Without(k, S)'
      BY <1>b, <2>1, <2>4
    <3> QED
      BY <1>0, <2>1, <2>3, <2>4, <3>1, ClearChatStep
  <2>5. CASE /\ transactions' = Append(transactions, t) /\ pc' = [pc EXCEPT ![b] = "delete"]
             /\ UNCHANGED <<session, pointer, cleared>>
    <3>1. \A j \in DOMAIN transactions' :
            \/ j \in DOMAIN transactions /\ transactions'[j] = transactions[j]
            \/ transactions'[j] = t
      BY <2>5, RequestJoins
    <3>2. \A k \in 1 .. ids : \A S : Without(k, S) => Without(k, S)'
      BY <1>b, <2>1, <2>2, <3>1
    <3>3. \A j \in DOMAIN transactions' : ~Loading(j)'
      <4>1. \A c \in Builds : pc'[c] # "load"
        BY <1>a, <2>1, <2>5 DEF Building
      <4> QED
        BY <1>d, <4>1
    <3>4. Free(agent.messages, Gone)
      BY <2>1 DEF ClearInv, Leaving, Building
    <3>5. /\ session' # 0 => Without(session', Gone)
          /\ \A u \in Users : pointer'[u] # 0 => Without(pointer'[u], Gone)
      BY <2>5 DEF ClearInv
    <3>6. UNCHANGED <<sent, ids, agent, cleared>>
      BY <2>1, <2>5
    <3> QED
      BY <1>0, <1>c, <3>2, <3>3, <3>4, <3>5, <3>6, ClearStep
  <2> QED
    BY <2>1, <2>4, <2>5
<1>4. CASE Commit
  <2> DEFINE t == transactions[1]
  <2>1. /\ 1 \in DOMAIN transactions /\ t \in Transaction /\ t.id \in 1 .. ids
        /\ Saved(t) \/ Deleted(t) \/ Loaded(t) \/ Orphaned(t)
        /\ UNCHANGED <<user, ids, sent>>
    BY <1>4, CommitFacts
  <2>2. \A j \in DOMAIN transactions' :
          \E i \in DOMAIN transactions : transactions'[j] = transactions[i]
    <3>1. transactions \in Seq(Transaction) /\ transactions' \in Seq(Transaction)
      BY <1>0 DEF TypeOK
    <3>2. \A j \in DOMAIN transactions' :
            j + 1 \in DOMAIN transactions /\ transactions'[j] = transactions[j + 1]
      BY <1>4, <3>1, CommitFacts
    <3> QED
      BY <3>2
  \* what is stored now was to be saved before
  <2>3. ASSUME NEW id \in 1 .. ids, NEW S, Without(id, S) PROVE Without(id, S)'
    <3>1. store'[id] = store[id] \/ store'[id] = <<>>
          \/ (t.kind = "save" /\ t.id = id /\ store'[id] = t.messages)
      BY <1>4, CommitFacts DEF Writes, Written
    <3>2. Free(store'[id], S)
      BY <2>1, <2>3, <3>1 DEF Without, Free
    <3> QED
      BY <2>2, <2>3, <3>2, WithoutKept
  <2> HIDE DEF t
  <2>4. ASSUME NEW j \in DOMAIN transactions', Loading(j)', UNCHANGED pc \/ pc' = [pc EXCEPT ![t.for] = "done"]
        PROVE  Without(transactions'[j].id, Gone)
    <3>1. PICK i \in DOMAIN transactions : transactions'[j] = transactions[i]
      BY <2>2
    <3>2. transactions[i].kind = "load" /\ transactions[i].for \in Builds /\ pc'[transactions[i].for] = "load"
      BY <2>4, <3>1, KindOf DEF Loading
    <3>3. pc[transactions[i].for] = "load"
      BY <1>a, <2>4, <3>2
    <3> QED
      BY <3>1, <3>2, <3>3 DEF Loading, ClearInv
  <2>5. \A u \in Users : pointer[u] # 0 => Without(pointer[u], Gone)
    BY DEF ClearInv
  <2>6. CASE Saved(t) \/ Orphaned(t)
    <3>1. UNCHANGED <<agent, session, pointer, pc, cleared, user, ids, sent>>
      BY <2>1, <2>6 DEF Saved, Orphaned
    <3>2. /\ session' # 0 => Without(session', Gone)
          /\ agent' # NoAgent => Free(agent'.messages, Gone) \/ Leaving'
      BY <3>1 DEF ClearInv, Leaving
    <3> QED
      BY <1>0, <1>c, <2>3, <2>4, <2>5, <3>1, <3>2, ClearStep
  <2>7. CASE Loaded(t)
    <3>1. /\ UNCHANGED <<pointer, store, cleared, user, ids, sent>>
          /\ session' \in {session, t.id} /\ pc' = [pc EXCEPT ![t.for] = "done"]
          /\ agent' = [messages |-> store[t.id], isStreaming |-> FALSE]
      BY <2>1, <2>7 DEF Loaded, NewAgent
    <3>2. Without(t.id, Gone) /\ Without(t.id, Unsaid)
      BY <2>1, <2>7 DEF Loaded, Loading, ClearInv, t
    <3>3. session' # 0 => Without(session', Gone)
      BY <3>1, <3>2 DEF ClearInv
    <3>4. Free(agent'.messages, Gone) /\ Free(agent'.messages, Unsaid)
      BY <3>1, <3>2 DEF Without
    <3> QED
      BY <1>0, <1>c, <2>3, <2>4, <2>5, <3>1, <3>3, <3>4, ClearStep
  <2>8. CASE Deleted(t)
    <3>1. t.for \in Builds /\ pc[t.for] = "delete" /\ ClearChat(t.for) /\ UNCHANGED agent
      BY <2>1, <2>8 DEF Deleted, Transaction
    <3>2. SignedIn
      BY <3>1 DEF Building
    <3>3. \A i \in DOMAIN transactions : ~Loading(i)
      <4>1. \A b \in Builds : pc[b] # "load"
        BY <3>1 DEF OneBuild, AtWork
      <4> QED
        BY <4>1, NobodyLoads
    <3>4. CASE agent # NoAgent
      BY <1>0, <2>1, <2>2, <2>3, <3>1, <3>2, <3>3, <3>4, ClearChatStep
    <3>5. CASE agent = NoAgent
      <4>1. /\ session' = 0 /\ pointer' = [pointer EXCEPT ![user] = 0] /\ pc' = [pc EXCEPT ![t.for] = "keys"]
            /\ cleared' = cleared /\ user \in Users
        BY <3>1, <3>2, <3>5 DEF ClearChat, Shown, SessionPtrKey, SignedIn, TypeOK
      <4>2. \A u \in Users : pointer'[u] \in {0, pointer[u]}
        BY <1>a, <4>1
      <4>3. \A j \in DOMAIN transactions' : ~Loading(j)'
        <5>1. \A c \in Builds : pc'[c] # "load"
          BY <1>a, <3>1, <4>1 DEF OneBuild, AtWork
        <5> QED
          BY <1>d, <5>1
      <4>4. agent' = NoAgent /\ UNCHANGED <<sent, ids>>
        BY <2>1, <3>1, <3>5
      <4> QED
        BY <1>0, <1>c, <2>3, <2>5, <4>1, <4>2, <4>3, <4>4, ClearStep
    <3> QED
      BY <3>4, <3>5
  <2> QED
    BY <2>1, <2>6, <2>7, <2>8
\* signing in and out, and the page: the agent stays, or goes with the session
<1>5. ASSUME UNCHANGED <<pointer, store, cleared, sent, ids>>,
             \A j \in DOMAIN transactions' : \E i \in DOMAIN transactions : transactions'[j] = transactions[i],
             \A j \in DOMAIN transactions' : ~Loading(j)',
             agent' = NoAgent /\ session' \in {0, session}
      PROVE  ClearInv'
  <2>1. \A id \in 1 .. ids : \A S : Without(id, S) => Without(id, S)'
    BY <1>b, <1>5
  <2>2. \A u \in Users : pointer[u] # 0 => Without(pointer[u], Gone)
    BY DEF ClearInv
  <2>3. session' # 0 => Without(session', Gone)
    BY <1>5 DEF ClearInv
  <2> QED
    BY <1>0, <1>c, <1>5, <2>1, <2>2, <2>3, ClearStep
<1>6. ASSUME NEW u \in Users, NEW b \in Builds, SignIn(u, b) PROVE ClearInv'
  <2>1. /\ agent = NoAgent /\ ~Building /\ pc' = [pc EXCEPT ![b] = "keys"]
        /\ UNCHANGED <<agent, session, pointer, store, transactions, ids, sent, cleared>>
    BY <1>6 DEF SignIn, Hurry, StartBuild, history
  <2>2. \A c \in Builds : pc'[c] # "load"
    BY <1>a, <2>1 DEF Building
  <2>3. \A j \in DOMAIN transactions' : ~Loading(j)'
    BY <1>d, <2>2
  <2> QED
    BY <1>5, <2>1, <2>3
<1>7. ASSUME NEW u \in Users, RefreshInPlace(u) PROVE ClearInv'
  BY <1>7 DEF RefreshInPlace, history, ClearInv, Gone, Unsaid, Without, Free, Loading, Leaving
<1>8. CASE SignOut
  <2>1. /\ agent' = NoAgent /\ session' = 0 /\ ~Building
        /\ UNCHANGED <<pc, pointer, store, transactions, ids, sent, cleared>>
    BY <1>8 DEF SignOut, Hurry, history
  <2>2. \A j \in DOMAIN transactions' : ~Loading(j)'
    BY <1>d, <2>1 DEF Building
  <2> QED
    BY <1>5, <2>1, <2>2
<1>9. ASSUME NEW b \in Builds, Reload(b) PROVE ClearInv'
  <2>1. PICK n \in 0 .. Len(transactions) : transactions' = SubSeq(transactions, 1, n)
    BY <1>9 DEF Reload
  <2>2. /\ agent' = NoAgent /\ session' = 0 /\ UNCHANGED <<pointer, store, cleared, sent, ids>>
        /\ pc' = [c \in Builds |-> IF c = b THEN IF user' = Nobody THEN "idle" ELSE "keys"
                                   ELSE IF pc[c] = "idle" THEN "idle" ELSE "done"]
    BY <1>9 DEF Reload, history
  <2>3. \A j \in DOMAIN transactions' : j \in DOMAIN transactions /\ transactions'[j] = transactions[j]
    BY <2>1 DEF TypeOK
  <2>4. \A c \in Builds : pc'[c] # "load"
    BY <2>2
  <2>5. \A j \in DOMAIN transactions' : ~Loading(j)'
    BY <1>d, <2>4
  <2> QED
    BY <1>5, <2>2, <2>3, <2>5
<1>10. CASE UNCHANGED vars
  BY <1>10 DEF vars, history, ClearInv, Gone, Unsaid, Without, Free, Loading, Leaving
<1> QED
  BY <1>1, <1>2, <1>3, <1>4, <1>6, <1>7, <1>8, <1>9, <1>10 DEF Next

\* Without haste a conversation that was cleared while its agent was idle stays away,
\* whatever save or load was under way when it was cleared and wherever the page is
\* reloaded.
THEOREM ClearedStaysAway ==
  ASSUME OneAccount
  PROVE  Spec => []ClearedIsGone
<1>1. Init => TypeOK /\ (hurried \/ (CalmInv /\ OneBuild /\ ClearInv))
  <2>1. Init => OneBuild
    BY DEF Init, OneBuild, AtWork
  <2> QED
    BY <2>1, InitTypeOK, InitCalmInv, InitClearInv
<1>2. ASSUME TypeOK, hurried \/ (CalmInv /\ OneBuild /\ ClearInv), [Next]_vars
      PROVE  TypeOK' /\ (hurried \/ (CalmInv /\ OneBuild /\ ClearInv))'
  <2>1. CASE hurried'
    BY <1>2, <2>1, NextTypeOK
  <2>2. CASE ~hurried'
    <3>1. CalmInv /\ OneBuild /\ ClearInv
      BY <1>2, <2>2, HistoryStays
    <3> QED
      BY <1>2, <2>2, <3>1, NextTypeOK, NextCalmInv, NextOneBuild, NextClearInv
  <2> QED
    BY <2>1, <2>2
<1>3. hurried \/ (CalmInv /\ OneBuild /\ ClearInv) => ClearedIsGone
  <2> SUFFICES ASSUME CalmInv, ClearInv, AtRest, NEW c \in cleared, c.idle
               PROVE  /\ c.message \notin Shown
                      /\ \A u \in Users : pointer[u] # 0 => c.message \notin ToSet(store[pointer[u]])
    BY DEF ClearedIsGone
  <2>1. c.message \in Gone
    BY DEF Gone
  <2>2. c.message \notin Shown
    <3>1. agent # NoAgent => Free(agent.messages, Gone)
      BY DEF ClearInv, Leaving, AtRest, Building
    <3> QED
      BY <2>1, <3>1 DEF Shown, Free, ToSet
  <2>3. ASSUME NEW u \in Users, pointer[u] # 0 PROVE c.message \notin ToSet(store[pointer[u]])
    BY <2>1, <2>3 DEF ClearInv, Without, Free, ToSet
  <2> QED
    BY <2>2, <2>3
<1> QED
  BY <1>1, <1>2, <1>3, PTL DEF Spec

(***************************************************************************)
(* What is shown and what is stored.                                       *)
(*                                                                         *)
(* ShownIsSaved is about a store at rest.  Before, what counts is what     *)
(* becomes of the store when the transactions under way are carried out.   *)
(* While an agent that was left still talks, the store may be behind it;   *)
(* what is then loaded for the next agent may be behind what is stored,    *)
(* never besides it.                                                       *)
(***************************************************************************)
\* what db has of a conversation when the first n of the transactions ts are carried out
Becomes(db, ts, n, id, messages) ==
  \/ \E i \in DOMAIN ts :
       /\ i <= n /\ Writes(ts[i], id) /\ messages = Written(ts[i])
       /\ \A j \in DOMAIN ts : i < j /\ j <= n => ~Writes(ts[j], id)
  \/ /\ \A i \in DOMAIN ts : i <= n => ~Writes(ts[i], id)
     /\ messages = db[id]

Begins(s, t) == Len(s) <= Len(t) /\ \A i \in 1 .. Len(s) : s[i] = t[i]

\* The messages go on from what is stored of the conversation after n transactions.
GoesOn(db, ts, n, id, messages) ==
  \A v \in Seq(Message) : Becomes(db, ts, n, id, v) => Begins(v, messages)

\* What is loaded stays the beginning of what is shown and of what will be saved.
LoadsWell(i, id) ==
  /\ pointer[user] = id
  /\ agent # NoAgent => session = id /\ GoesOn(store, transactions, i, id, agent.messages)
  /\ \A j \in DOMAIN transactions : j > i /\ Writes(transactions[j], id) =>
       /\ agent # NoAgent /\ transactions[j].kind = "save"
       /\ GoesOn(store, transactions, i, id, transactions[j].messages)

LoadInv == \A i \in DOMAIN transactions : Loading(i) => LoadsWell(i, transactions[i].id)

LeftInv ==
  agent # NoAgent /\ (\E b \in Builds : pc[b] = "keys") =>
    /\ pointer[user] = session
    /\ session # 0 => GoesOn(store, transactions, Len(transactions), session, agent.messages)

SavedInv ==
  agent # NoAgent /\ ~Building /\ ShouldSaveSession(agent.messages) =>
    /\ session # 0 /\ pointer[user] = session
    /\ \A v \in Seq(Message) :
         Becomes(store, transactions, Len(transactions), session, v) => Begins(agent.messages, v)

ShownInv == LoadInv /\ LeftInv /\ SavedInv

LEMMA InitShownInv == Init => ShownInv
  BY DEF Init, ShownInv, LoadInv, LeftInv, SavedInv

LEMMA BeginsSame == ASSUME NEW s \in Seq(Message) PROVE Begins(s, s)
  BY DEF Begins

LEMMA BeginsAppend ==
  ASSUME NEW s \in Seq(Message), NEW t \in Seq(Message), NEW m \in Message, Begins(s, t)
  PROVE  Begins(s, Append(t, m))
<1>1. /\ Len(Append(t, m)) = Len(t) + 1 /\ Len(s) \in Nat /\ Len(t) \in Nat
      /\ \A i \in 1 .. Len(t) : Append(t, m)[i] = t[i]
  OBVIOUS
<1>2. \A i \in 1 .. Len(s) : i \in 1 .. Len(t)
  BY <1>1 DEF Begins
<1> QED
  BY <1>1, <1>2 DEF Begins

LEMMA BeginsIsPrefix ==
  ASSUME NEW s \in Seq(Message), NEW t \in Seq(Message), Begins(s, t)
  PROVE  IsPrefix(s, t)
<1>1. Len(s) \in 0 .. Len(t) /\ Len(s) \in Nat /\ Len(t) \in Nat
  BY DEF Begins
<1>2. \A i \in 1 .. Len(s) : SubSeq(t, 1, Len(s))[i] = t[i] /\ SubSeq(s, 1, Len(s))[i] = s[i]
  BY <1>1
<1>3. SubSeq(t, 1, Len(s)) \in Seq(Message) /\ Len(SubSeq(t, 1, Len(s))) = Len(s)
      /\ SubSeq(s, 1, Len(s)) \in Seq(Message) /\ Len(SubSeq(s, 1, Len(s))) = Len(s)
  BY <1>1
<1>4. SubSeq(s, 1, Len(s)) = SubSeq(t, 1, Len(s))
  BY <1>1, <1>2, <1>3 DEF Begins
<1> QED
  BY <1>1, <1>4 DEF IsPrefix

\* Transactions that join behind the first n change nothing about these.
LEMMA BecomesBefore ==
  ASSUME NEW db, NEW db2, NEW ts \in Seq(Transaction), NEW us \in Seq(Transaction),
         NEW id, NEW n \in 0 .. Len(ts), NEW messages,
         db2[id] = db[id], Len(us) >= Len(ts),
         \A j \in 1 .. Len(ts) : us[j] = ts[j],
         Becomes(db2, us, n, id, messages)
  PROVE  Becomes(db, ts, n, id, messages)
<1>1. /\ DOMAIN ts = 1 .. Len(ts) /\ Len(ts) \in Nat
      /\ DOMAIN us = 1 .. Len(us) /\ Len(us) \in Nat
  OBVIOUS
<1>2. \A j \in DOMAIN us : j <= n => j \in DOMAIN ts /\ us[j] = ts[j]
  BY <1>1
<1>3. \A j \in DOMAIN ts : j \in DOMAIN us /\ us[j] = ts[j]
  BY <1>1
<1> QED
  BY <1>2, <1>3 DEF Becomes

\* The one that was carried out has become part of the store.
LEMMA BecomesCommit ==
  ASSUME NEW db, NEW db2, NEW ts \in Seq(Transaction), NEW us \in Seq(Transaction),
         NEW id, NEW n \in Nat \ {0}, NEW messages,
         ts # <<>>, Len(us) = Len(ts) - 1, \A j \in 1 .. Len(ts) - 1 : us[j] = ts[j + 1],
         db2[id] = IF Writes(ts[1], id) THEN Written(ts[1]) ELSE db[id],
         Becomes(db2, us, n - 1, id, messages)
  PROVE  Becomes(db, ts, n, id, messages)
<1>1. /\ DOMAIN ts = 1 .. Len(ts) /\ Len(ts) \in Nat \ {0} /\ 1 \in DOMAIN ts
      /\ DOMAIN us = 1 .. Len(ts) - 1
  OBVIOUS
<1>2. \A j \in DOMAIN us : j + 1 \in DOMAIN ts /\ us[j] = ts[j + 1]
  BY <1>1
<1>3. \A j \in DOMAIN ts : j # 1 => j - 1 \in DOMAIN us /\ us[j - 1] = ts[j]
  BY <1>1
<1>4. ASSUME NEW i \in DOMAIN us,
             /\ i <= n - 1 /\ Writes(us[i], id) /\ messages = Written(us[i])
             /\ \A j \in DOMAIN us : i < j /\ j <= n - 1 => ~Writes(us[j], id)
      PROVE  Becomes(db, ts, n, id, messages)
  <2>1. i + 1 \in DOMAIN ts /\ i + 1 <= n /\ Writes(ts[i + 1], id) /\ messages = Written(ts[i + 1])
    BY <1>1, <1>2, <1>4
  <2>2. ASSUME NEW j \in DOMAIN ts, i + 1 < j, j <= n PROVE ~Writes(ts[j], id)
    <3>1. j # 1 /\ i < j - 1 /\ j - 1 <= n - 1
      BY <1>1, <2>2
    <3> QED
      BY <1>3, <1>4, <3>1
  <2> QED
    BY <2>1, <2>2 DEF Becomes
<1>5. ASSUME \A i \in DOMAIN us : i <= n - 1 => ~Writes(us[i], id), messages = db2[id]
      PROVE  Becomes(db, ts, n, id, messages)
  <2>1. ASSUME NEW j \in DOMAIN ts, j # 1, j <= n PROVE ~Writes(ts[j], id)
    <3>1. j - 1 <= n - 1
      BY <1>1, <2>1
    <3> QED
      BY <1>3, <1>5, <2>1, <3>1
  <2>2. CASE Writes(ts[1], id)
    <3>1. 1 <= n /\ messages = Written(ts[1])
      BY <1>5, <2>2
    <3>2. \A j \in DOMAIN ts : 1 < j /\ j <= n => ~Writes(ts[j], id)
      BY <2>1
    <3> QED
      BY <1>1, <2>2, <3>1, <3>2 DEF Becomes
  <2>3. CASE ~Writes(ts[1], id)
    <3>1. messages = db[id]
      BY <1>5, <2>3
    <3> QED
      BY <2>1, <2>3, <3>1 DEF Becomes
  <2> QED
    BY <2>2, <2>3
<1> QED
  BY <1>4, <1>5 DEF Becomes

LEMMA GoesOnBefore ==
  ASSUME NEW db, NEW db2, NEW ts \in Seq(Transaction), NEW us \in Seq(Transaction),
         NEW id, NEW n \in 0 .. Len(ts), NEW messages,
         db2[id] = db[id], Len(us) >= Len(ts), \A j \in 1 .. Len(ts) : us[j] = ts[j],
         GoesOn(db, ts, n, id, messages)
  PROVE  GoesOn(db2, us, n, id, messages)
  BY BecomesBefore DEF GoesOn

LEMMA GoesOnAppend ==
  ASSUME NEW db, NEW ts, NEW n, NEW id, NEW messages \in Seq(Message), NEW m \in Message,
         GoesOn(db, ts, n, id, messages)
  PROVE  GoesOn(db, ts, n, id, Append(messages, m))
  BY BeginsAppend DEF GoesOn

\* Whoever saves last decides.
LEMMA BecomesSaved ==
  ASSUME NEW db, NEW ts \in Seq(Transaction), ts # <<>>, NEW id, NEW messages, NEW v,
         Writes(ts[Len(ts)], id), Written(ts[Len(ts)]) = messages,
         Becomes(db, ts, Len(ts), id, v)
  PROVE  v = messages
<1>1. DOMAIN ts = 1 .. Len(ts) /\ Len(ts) \in DOMAIN ts /\ Len(ts) \in Nat
  OBVIOUS
<1>2. ASSUME NEW i \in DOMAIN ts, v = Written(ts[i]),
             \A j \in DOMAIN ts : i < j /\ j <= Len(ts) => ~Writes(ts[j], id)
      PROVE  v = messages
  <2>1. i = Len(ts)
    BY <1>1, <1>2
  <2> QED
    BY <1>2, <2>1
<1> QED
  BY <1>1, <1>2 DEF Becomes

\* A turn while somebody is loading or about to goes on from what he will find; any other
\* turn saves all of the conversation, or there is not enough of it to save.
LEMMA ShownTurn ==
  ASSUME CalmInv, TypeOK', ShownInv, Send \/ \E more \in BOOLEAN : Reply(more)
  PROVE  ShownInv'
<1> USE DEF CalmInv, OwnerInv, ShownInv
<1>1. PICK said \in Message, messages \in Seq(Message) :
           /\ SignedIn /\ user \in Users /\ agent # NoAgent /\ agent.messages \in Seq(Message)
           /\ messages = Append(agent.messages, said)
           /\ agent' # NoAgent /\ agent'.messages = messages
           /\ OnMessageEnd(messages)
           /\ UNCHANGED <<user, pc>>
  BY TurnFacts
<1>2. /\ ids \in Nat /\ session \in 0 .. ids /\ \A u \in Users : pointer[u] \in 0 .. ids
      /\ transactions \in Seq(Transaction) /\ transactions' \in Seq(Transaction)
      /\ \A j \in DOMAIN transactions : transactions[j].id \in 1 .. ids
  BY DEF TypeOK
<1>3. \A n, id : GoesOn(store, transactions, n, id, agent.messages) =>
                   GoesOn(store, transactions, n, id, messages)
  BY <1>1, GoesOnAppend
<1>4. CASE /\ ~ShouldSaveSession(messages)
           /\ UNCHANGED <<session, pointer, store, transactions, ids>>
  <2>1. ASSUME NEW i \in DOMAIN transactions, LoadsWell(i, transactions[i].id)
        PROVE  LoadsWell(i, transactions[i].id)'
    BY <1>1, <1>3, <1>4, <2>1 DEF LoadsWell
  <2>2. LoadInv'
    BY <1>1, <1>4, <2>1 DEF LoadInv, Loading
  <2>3. LeftInv'
    BY <1>1, <1>3, <1>4 DEF LeftInv
  <2>4. SavedInv'
    BY <1>1, <1>4 DEF SavedInv, ShouldSaveSession
  <2> QED
    BY <2>2, <2>3, <2>4
<1>5. ASSUME NEW id \in Nat \ {0},
              /\ session' = id /\ pointer'[user] = id
              /\ session # 0 => id = session
              /\ session = 0 => id = ids + 1 /\ store'[id] = <<>>
              /\ \A k \in 1 .. ids : store'[k] = store[k]
              /\ Len(transactions') = Len(transactions) + 1
              /\ \A j \in 1 .. Len(transactions) : transactions'[j] = transactions[j]
              /\ transactions'[Len(transactions) + 1] = Save(id, messages)
       PROVE  ShownInv'
  <2>1. /\ Save(id, messages).kind = "save" /\ Save(id, messages).id = id
        /\ Save(id, messages).messages = messages
    BY DEF Save
  <2>2. /\ DOMAIN transactions = 1 .. Len(transactions) /\ Len(transactions) \in Nat
        /\ DOMAIN transactions' = 1 .. Len(transactions) + 1
    BY <1>2, <1>5
  <2>3. \A j \in DOMAIN transactions' :
          \/ j \in DOMAIN transactions /\ transactions'[j] = transactions[j]
          \/ transactions'[j] = Save(id, messages)
    BY <1>5, <2>2
  \* what becomes of the session is what is shown
  <2>4. ASSUME NEW v, Becomes(store', transactions', Len(transactions'), id, v) PROVE v = messages
    <3>1. /\ transactions' # <<>> /\ Writes(transactions'[Len(transactions')], id)
          /\ Written(transactions'[Len(transactions')]) = messages
      BY <1>5, <2>1, <2>2 DEF Writes, Written
    <3> QED
      BY <1>2, <2>4, <3>1, BecomesSaved
  <2>5. ASSUME NEW i \in DOMAIN transactions', Loading(i)' PROVE LoadsWell(i, transactions[i].id)'
    <3>1. i \in DOMAIN transactions /\ transactions'[i] = transactions[i] /\ Loading(i)
      BY <1>1, <2>1, <2>3, <2>5 DEF Loading
    <3>2. PICK k \in 1 .. ids : k = transactions[i].id
      BY <1>2, <3>1
    <3>3. LoadsWell(i, k)
      BY <3>1, <3>2 DEF LoadInv
    <3>4. session = k /\ k = id /\ store'[id] = store[id]
      BY <1>1, <1>5, <3>2, <3>3 DEF LoadsWell
    <3>5. GoesOn(store, transactions, i, id, messages)
      BY <1>1, <1>3, <3>3, <3>4 DEF LoadsWell
    <3>6. \A ms : GoesOn(store, transactions, i, id, ms) => GoesOn(store', transactions', i, id, ms)
      <4>1. i \in 0 .. Len(transactions) /\ Len(transactions') >= Len(transactions)
        BY <1>5, <2>2, <3>1
      <4>2. \A j \in 1 .. Len(transactions) : transactions'[j] = transactions[j]
        BY <1>5
      <4> QED
        BY <1>2, <3>4, <4>1, <4>2, GoesOnBefore
    <3>7. ASSUME NEW j \in DOMAIN transactions', j > i, Writes(transactions'[j], id)
          PROVE  /\ transactions'[j].kind = "save"
                 /\ GoesOn(store', transactions', i, id, transactions'[j].messages)
      <4>1. CASE transactions'[j] = Save(id, messages)
        BY <2>1, <3>5, <3>6, <4>1
      <4>2. CASE j \in DOMAIN transactions /\ transactions'[j] = transactions[j]
        BY <3>3, <3>4, <3>6, <3>7, <4>2 DEF LoadsWell
      <4> QED
        BY <2>3, <4>1, <4>2
    <3>8. transactions'[i].id = id /\ pointer'[user'] = id /\ session' = id
      BY <1>1, <1>5, <3>1, <3>2, <3>4
    <3> QED
      BY <1>1, <3>5, <3>6, <3>7, <3>8 DEF LoadsWell
  <2>6. ASSUME NEW v \in Seq(Message), Becomes(store', transactions', Len(transactions'), session', v)
        PROVE  Begins(v, agent'.messages) /\ Begins(agent'.messages, v)
    <3>1. v = messages
      BY <1>5, <2>4, <2>6
    <3> QED
      BY <1>1, <3>1, BeginsSame
  <2>7. LeftInv' /\ SavedInv'
    BY <1>1, <1>5, <2>6 DEF LeftInv, SavedInv, GoesOn
  <2> QED
    BY <2>5, <2>7 DEF LoadInv
<1> QED
  BY <1>1, <1>4, <1>5, SaveFacts

LEMMA ShownCommit ==
  ASSUME CalmInv, TypeOK', OneBuild, ShownInv, Commit
  PROVE  ShownInv'
<1> USE DEF CalmInv, OwnerInv
<1> DEFINE t == transactions[1]
<1>1. /\ 1 \in DOMAIN transactions /\ t \in Transaction /\ t.id \in 1 .. ids
      /\ Saved(t) \/ Deleted(t) \/ Loaded(t) \/ Orphaned(t)
      /\ UNCHANGED <<user, ids>>
  BY CommitFacts
<1>2. /\ transactions \in Seq(Transaction) /\ transactions' \in Seq(Transaction)
      /\ transactions # <<>> /\ Len(transactions') = Len(transactions) - 1
      /\ DOMAIN transactions = 1 .. Len(transactions) /\ Len(transactions) \in Nat \ {0}
      /\ DOMAIN transactions' = 1 .. Len(transactions) - 1
      /\ \A j \in 1 .. Len(transactions) - 1 : transactions'[j] = transactions[j + 1]
  <2>1. transactions \in Seq(Transaction) /\ transactions' \in Seq(Transaction)
    BY DEF TypeOK
  <2> QED
    BY <2>1, CommitFacts
<1>3. \A j \in DOMAIN transactions' : j + 1 \in DOMAIN transactions /\ transactions'[j] = transactions[j + 1]
  BY <1>2
<1>4. /\ ids \in Nat /\ session \in 0 .. ids /\ DOMAIN pc = Builds /\ DOMAIN pointer = Accounts
      /\ \A j \in DOMAIN transactions : transactions[j].id \in 1 .. ids
  BY DEF TypeOK
<1>5. ASSUME NEW id \in 1 .. ids, NEW n \in Nat \ {0}, NEW v, Becomes(store', transactions', n - 1, id, v)
      PROVE  Becomes(store, transactions, n, id, v)
  <2>1. store'[id] = IF Writes(transactions[1], id) THEN Written(transactions[1]) ELSE store[id]
    BY CommitFacts
  <2>2. \A j \in 1 .. Len(transactions) - 1 : transactions'[j] = transactions[j + 1]
    BY <1>2
  <2> QED
    BY <1>2, <1>5, <2>1, <2>2, BecomesCommit
<1>6. ASSUME NEW id \in 1 .. ids, NEW n \in Nat \ {0}, NEW ms, GoesOn(store, transactions, n, id, ms)
      PROVE  GoesOn(store', transactions', n - 1, id, ms)
  BY <1>5, <1>6 DEF GoesOn
<1> HIDE DEF t
<1>7. CASE Saved(t) \/ Orphaned(t)
  <2>1. UNCHANGED <<agent, session, pointer, pc, user>>
    BY <1>1, <1>7 DEF Saved, Orphaned
  <2>2. ASSUME NEW i \in DOMAIN transactions', Loading(i)' PROVE LoadsWell(i, transactions[i].id)'
    <3>1. i + 1 \in DOMAIN transactions /\ transactions'[i] = transactions[i + 1] /\ Loading(i + 1)
      BY <1>3, <2>1, <2>2 DEF Loading
    <3>2. PICK id \in 1 .. ids : id = transactions[i + 1].id
      BY <1>4, <3>1
    <3>3. LoadsWell(i + 1, id)
      BY <3>1, <3>2 DEF ShownInv, LoadInv
    <3>4. \A ms : GoesOn(store, transactions, i + 1, id, ms) => GoesOn(store', transactions', i, id, ms)
      <4>1. i + 1 \in Nat \ {0} /\ (i + 1) - 1 = i
        BY <1>2
      <4> QED
        BY <1>6, <4>1
    <3>5. ASSUME NEW j \in DOMAIN transactions', j > i, Writes(transactions'[j], id)
          PROVE  /\ agent # NoAgent /\ transactions'[j].kind = "save"
                 /\ GoesOn(store', transactions', i, id, transactions'[j].messages)
      <4>1. j + 1 \in DOMAIN transactions /\ j + 1 > i + 1 /\ transactions'[j] = transactions[j + 1]
        BY <1>2, <1>3, <3>5
      <4> QED
        BY <3>3, <3>4, <3>5, <4>1 DEF LoadsWell
    <3>6. /\ pointer[user] = id
          /\ agent # NoAgent => session = id /\ GoesOn(store', transactions', i, id, agent.messages)
      BY <3>3, <3>4 DEF LoadsWell
    <3> QED
      BY <2>1, <3>1, <3>2, <3>5, <3>6 DEF LoadsWell
  <2>3. session # 0 => session \in 1 .. ids
    BY <1>4
  <2>4. \A v : session # 0 /\ Becomes(store', transactions', Len(transactions'), session, v) =>
                 Becomes(store, transactions, Len(transactions), session, v)
    BY <1>2, <1>5, <2>3
  <2>5. LeftInv'
    BY <2>1, <2>4 DEF ShownInv, LeftInv, GoesOn
  <2>6. SavedInv'
    BY <2>1, <2>4 DEF ShownInv, SavedInv, Building
  <2> QED
    BY <2>2, <2>5, <2>6 DEF ShownInv, LoadInv
<1>8. ASSUME \A b \in Builds : pc'[b] # "load", NEW i \in DOMAIN transactions' PROVE ~Loading(i)'
  <2>1. transactions'[i] \in Transaction
    BY <1>2
  <2> QED
    BY <1>8, <2>1 DEF Loading, Transaction
<1>9. CASE Deleted(t)
  <2>1. /\ t.for \in Builds /\ pc[t.for] = "delete" /\ pc' = [pc EXCEPT ![t.for] = "keys"]
        /\ session' = 0 /\ pointer' = [pointer EXCEPT ![user] = 0] /\ user \in Accounts
    BY <1>1, <1>9 DEF Deleted, ClearChat, SessionPtrKey, Transaction, TypeOK
  <2>2. pc'[t.for] = "keys" /\ \A b \in Builds : pc'[b] # "load"
    BY <1>4, <2>1 DEF OneBuild, AtWork
  <2>3. pointer'[user'] = 0
    BY <1>1, <1>4, <2>1
  <2>4. Building'
    BY <2>1, <2>2 DEF Building
  <2>5. LoadInv'
    BY <1>8, <2>2 DEF LoadInv
  <2>6. LeftInv' /\ SavedInv'
    BY <2>1, <2>3, <2>4 DEF LeftInv, SavedInv
  <2> QED
    BY <2>5, <2>6 DEF ShownInv
\* what was loaded is shown, and whatever is saved of it now goes on from it
<1>10. CASE Loaded(t)
  <2>1. /\ t.for \in Builds /\ pc[t.for] = "load" /\ t.kind = "load" /\ pc' = [pc EXCEPT ![t.for] = "done"]
        /\ session' = IF store[t.id] = <<>> THEN session ELSE t.id
        /\ agent' = [messages |-> store[t.id], isStreaming |-> FALSE]
        /\ UNCHANGED <<pointer, store, user>>
    BY <1>1, <1>10 DEF Loaded, NewAgent, Transaction
  <2>2. \A b \in Builds : pc'[b] \notin {"delete", "keys", "load"}
    BY <1>4, <2>1 DEF OneBuild, AtWork
  <2>3. LoadsWell(1, t.id)
    BY <1>1, <2>1 DEF ShownInv, LoadInv, Loading, t
  <2>4. store[t.id] \in Seq(Message)
    BY <1>1 DEF TypeOK
  <2>5. Becomes(store, transactions, 1, t.id, store[t.id])
    BY <1>2, <2>1 DEF Becomes, Writes, t
  <2>6. ASSUME NEW v \in Seq(Message), Becomes(store', transactions', Len(transactions'), t.id, v)
        PROVE  Begins(store[t.id], v)
    <3>1. CASE v = store'[t.id]
      BY <2>1, <2>4, <3>1, BeginsSame
    <3>2. ASSUME NEW i \in DOMAIN transactions', Writes(transactions'[i], t.id), v = Written(transactions'[i])
          PROVE  Begins(store[t.id], v)
      <4>1. i + 1 \in DOMAIN transactions /\ i + 1 > 1 /\ transactions'[i] = transactions[i + 1]
        BY <1>2, <1>3
      <4>2. /\ transactions[i + 1].kind = "save"
            /\ GoesOn(store, transactions, 1, t.id, transactions[i + 1].messages)
        BY <2>3, <3>2, <4>1 DEF LoadsWell
      <4>3. v = transactions[i + 1].messages
        BY <3>2, <4>1, <4>2 DEF Written
      <4> QED
        BY <2>4, <2>5, <4>2, <4>3 DEF GoesOn
    <3> QED
      BY <2>6, <3>1, <3>2 DEF Becomes
  <2>7. ShouldSaveSession(agent'.messages) => session' = t.id /\ t.id # 0
    <3>1. ShouldSaveSession(store[t.id]) => store[t.id] # <<>>
      BY DEF ShouldSaveSession
    <3> QED
      BY <1>1, <1>4, <2>1, <3>1
  <2>8. SavedInv'
    <3>1. ASSUME ShouldSaveSession(agent'.messages)
          PROVE  /\ session' # 0 /\ pointer'[user'] = session'
                 /\ \A v \in Seq(Message) :
                      Becomes(store', transactions', Len(transactions'), session', v) => Begins(agent'.messages, v)
      BY <2>1, <2>3, <2>6, <2>7, <3>1 DEF LoadsWell
    <3> QED
      BY <3>1 DEF SavedInv, ShouldSaveSession
  <2>9. LoadInv' /\ LeftInv'
    BY <1>8, <2>2 DEF LoadInv, LeftInv
  <2> QED
    BY <2>8, <2>9 DEF ShownInv
<1> QED
  BY <1>1, <1>7, <1>9, <1>10

LEMMA NextShownInv ==
  ASSUME OneAccount, ~hurried', CalmInv, OneBuild, ShownInv, [Next]_vars
  PROVE  ShownInv'
<1> USE DEF CalmInv, OwnerInv
<1>0. TypeOK'
  BY NextTypeOK
<1>a. /\ DOMAIN pc = Builds /\ DOMAIN pointer = Accounts
      /\ transactions \in Seq(Transaction) /\ transactions' \in Seq(Transaction)
      /\ \A j \in DOMAIN transactions : transactions[j].id \in 1 .. ids
  BY <1>0 DEF TypeOK
<1>b. ASSUME NEW j \in DOMAIN transactions', Loading(j)'
      PROVE  transactions'[j].for \in Builds /\ pc'[transactions'[j].for] = "load"
  <2>1. transactions'[j] \in Transaction
    BY <1>a
  <2> QED
    BY <1>b, <2>1 DEF Loading, Transaction
\* nobody loads, and there is no agent, or one that is about to be left with an empty session
<1>c. ASSUME \A c \in Builds : pc'[c] # "load",
             \/ agent' = NoAgent
             \/ Building' /\ \/ \A c \in Builds : pc'[c] # "keys"
                             \/ session' = 0 /\ pointer'[user'] = 0
             \/ agent'.messages = <<>> /\ \A c \in Builds : pc'[c] # "keys"
      PROVE  ShownInv'
  <2>1. LoadInv'
    BY <1>b, <1>c DEF LoadInv
  <2>2. LeftInv'
    BY <1>c DEF LeftInv, Building
  <2>3. SavedInv'
    <3>1. CASE agent' = NoAgent \/ Building'
      BY <3>1 DEF SavedInv
    <3>2. CASE agent'.messages = <<>>
      BY <3>2 DEF SavedInv, ShouldSaveSession
    <3> QED
      BY <1>c, <3>1, <3>2
  <2> QED
    BY <2>1, <2>2, <2>3 DEF ShownInv
<1>1. CASE Send \/ \E more \in BOOLEAN : Reply(more)
  BY <1>0, <1>1, ShownTurn
<1>2. ASSUME NEW b \in Builds, KeysSet(b) PROVE ShownInv'
  <2> DEFINE t == [kind |-> "load", id |-> pointer[user], for |-> b]
  <2>1. /\ pc[b] = "keys" /\ UNCHANGED <<user, session, pointer, store, ids>>
        /\ \A c \in Builds : c # b => pc[c] \notin {"delete", "keys", "load"} /\ pc'[c] = pc[c]
    BY <1>2, <1>a DEF KeysSet, OneBuild, AtWork
  <2>2. CASE pointer[user] = 0
    <3>1. agent' = [messages |-> <<>>, isStreaming |-> FALSE] /\ pc' = [pc EXCEPT ![b] = "done"]
      BY <1>2, <2>2 DEF KeysSet, SessionPtrKey, NewAgent
    <3>2. \A c \in Builds : pc'[c] \notin {"keys", "load"}
      BY <1>a, <2>1, <3>1
    <3> QED
      BY <1>c, <3>1, <3>2
  <2>3. CASE pointer[user] # 0
    <3>1. agent' = agent /\ pc' = [pc EXCEPT ![b] = "load"] /\ transactions' = Append(transactions, t)
      BY <1>2, <2>3 DEF KeysSet, SessionPtrKey
    <3>2. pc'[b] = "load" /\ t.kind = "load" /\ t.id = pointer[user]
      BY <1>a, <3>1
    <3>3. \A c \in Builds : pc'[c] # "keys"
      BY <2>1, <3>2
    <3>4. Building'
      BY <3>2 DEF Building
    <3> HIDE DEF t
    <3>5. /\ DOMAIN transactions' = 1 .. Len(transactions) + 1 /\ DOMAIN transactions = 1 .. Len(transactions)
          /\ Len(transactions) \in Nat /\ Len(transactions') = Len(transactions) + 1
          /\ transactions'[Len(transactions) + 1] = t
          /\ \A j \in 1 .. Len(transactions) : transactions'[j] = transactions[j]
      BY <1>a, <3>1
    <3>6. ASSUME NEW i \in DOMAIN transactions', Loading(i)' PROVE i = Len(transactions) + 1
      <4>1. CASE i \in DOMAIN transactions
        <5>1. transactions'[i] = transactions[i] /\ transactions[i].kind = "load"
          BY <3>5, <3>6, <4>1 DEF Loading
        <5>2. transactions[i].for = b
          BY <1>b, <2>1, <3>6, <5>1
        <5>3. pc[b] \in {"load", "done"}
          BY <4>1, <5>1, <5>2
        <5> QED
          BY <2>1, <5>3
      <4> QED
        BY <3>5, <4>1
    <3>7. ASSUME agent # NoAgent
          PROVE  /\ session = pointer[user]
                 /\ GoesOn(store', transactions', Len(transactions) + 1, session, agent.messages)
      <4>1. session = pointer[user] /\ GoesOn(store, transactions, Len(transactions), session, agent.messages)
        BY <2>1, <2>3, <3>7 DEF ShownInv, LeftInv
      <4>2. ASSUME NEW v, Becomes(store', transactions', Len(transactions) + 1, session, v)
            PROVE  Becomes(store, transactions, Len(transactions), session, v)
        <5>1. ~Writes(transactions'[Len(transactions) + 1], session)
          BY <3>2, <3>5 DEF Writes
        <5>2. Becomes(store', transactions', Len(transactions), session, v)
          BY <3>5, <4>2, <5>1 DEF Becomes
        <5>3. Len(transactions') >= Len(transactions) /\ Len(transactions) \in 0 .. Len(transactions)
          BY <3>5
        <5>4. \A j \in 1 .. Len(transactions) : transactions'[j] = transactions[j]
          BY <3>5
        <5> QED
          BY <1>a, <2>1, <5>2, <5>3, <5>4, BecomesBefore
      <4> QED
        BY <4>1, <4>2 DEF GoesOn
    <3>8. ASSUME NEW i \in DOMAIN transactions', Loading(i)' PROVE LoadsWell(i, transactions[i].id)'
      <4>1. i = Len(transactions) + 1 /\ transactions'[i].id = pointer[user]
        BY <3>2, <3>5, <3>6, <3>8
      <4>2. \A j \in DOMAIN transactions' : ~(j > i)
        BY <3>5, <4>1
      <4> QED
        BY <2>1, <3>1, <3>7, <4>1, <4>2 DEF LoadsWell
    <3>9. LeftInv' /\ SavedInv'
      BY <3>3, <3>4 DEF LeftInv, SavedInv
    <3> QED
      BY <3>8, <3>9 DEF ShownInv, LoadInv
  <2> QED
    BY <2>2, <2>3
<1>3. ASSUME NEW b \in Builds, NewChat(b) PROVE ShownInv'
  <2>1. /\ ~Building /\ user \in Accounts /\ UNCHANGED user
        /\ \/ /\ pc' = [pc EXCEPT ![b] = "keys"]
              /\ session' = 0 /\ pointer' = [pointer EXCEPT ![user] = 0]
           \/ pc' = [pc EXCEPT ![b] = "delete"]
    BY <1>3 DEF NewChat, Hurry, ClearChat, SessionPtrKey, TypeOK
  <2>2. \A c \in Builds : pc'[c] # "load" /\ pc[c] \notin {"keys", "load"}
    BY <1>a, <2>1 DEF Building
  <2>3. CASE /\ pc' = [pc EXCEPT ![b] = "keys"]
             /\ session' = 0 /\ pointer' = [pointer EXCEPT ![user] = 0]
    <3>1. pc'[b] = "keys" /\ pointer'[user'] = 0
      BY <1>a, <2>1, <2>3
    <3>2. Building'
      BY <3>1 DEF Building
    <3> QED
      BY <1>c, <2>2, <2>3, <3>1, <3>2
  <2>4. CASE pc' = [pc EXCEPT ![b] = "delete"]
    <3>1. pc'[b] = "delete" /\ \A c \in Builds : pc'[c] # "keys"
      BY <1>a, <2>2, <2>4
    <3>2. Building'
      BY <3>1 DEF Building
    <3> QED
      BY <1>c, <2>2, <3>1, <3>2
  <2> QED
    BY <2>1, <2>3, <2>4
<1>4. CASE Commit
  BY <1>0, <1>4, ShownCommit
<1>5. ASSUME NEW u \in Users, NEW b \in Builds, SignIn(u, b) PROVE ShownInv'
  <2>1. agent' = NoAgent /\ ~Building /\ pc' = [pc EXCEPT ![b] = "keys"]
    BY <1>5 DEF SignIn, Hurry, StartBuild
  <2>2. \A c \in Builds : pc'[c] # "load"
    BY <1>a, <2>1 DEF Building
  <2> QED
    BY <1>c, <2>1, <2>2
<1>6. ASSUME UNCHANGED <<user, agent, session, pointer, store, transactions, pc>> PROVE ShownInv'
  BY <1>6 DEF ShownInv, LoadInv, Loading, LoadsWell, LeftInv, SavedInv, Building, ShouldSaveSession
<1>7. ASSUME NEW u \in Users, RefreshInPlace(u) PROVE ShownInv'
  BY <1>6, <1>7 DEF RefreshInPlace
<1>8. CASE SignOut
  <2>1. agent' = NoAgent /\ \A c \in Builds : pc'[c] # "load"
    BY <1>8 DEF SignOut, Hurry, Building
  <2> QED
    BY <1>c, <2>1
<1>9. ASSUME NEW b \in Builds, Reload(b) PROVE ShownInv'
  <2>1. agent' = NoAgent
        /\ pc' = [c \in Builds |-> IF c = b THEN IF user' = Nobody THEN "idle" ELSE "keys"
                                   ELSE IF pc[c] = "idle" THEN "idle" ELSE "done"]
    BY <1>9 DEF Reload
  <2>2. \A c \in Builds : pc'[c] # "load"
    BY <2>1
  <2> QED
    BY <1>c, <2>1, <2>2
<1>10. CASE UNCHANGED vars
  BY <1>6, <1>10 DEF vars
<1> QED
  BY <1>1, <1>2, <1>3, <1>4, <1>5, <1>7, <1>8, <1>9, <1>10 DEF Next

\* Without haste a reload with page and store at rest would restore all of the
\* conversation on the screen, wherever the saves, the deletions and the loads of earlier
\* agents and pages fell.
THEOREM ShownStaysSaved ==
  ASSUME OneAccount
  PROVE  Spec => []ShownIsSaved
<1>1. Init => TypeOK /\ (hurried \/ (CalmInv /\ OneBuild /\ ShownInv))
  <2>1. Init => OneBuild
    BY DEF Init, OneBuild, AtWork
  <2> QED
    BY <2>1, InitTypeOK, InitCalmInv, InitShownInv
<1>2. ASSUME TypeOK, hurried \/ (CalmInv /\ OneBuild /\ ShownInv), [Next]_vars
      PROVE  TypeOK' /\ (hurried \/ (CalmInv /\ OneBuild /\ ShownInv))'
  <2>1. CASE hurried'
    BY <1>2, <2>1, NextTypeOK
  <2>2. CASE ~hurried'
    <3>1. CalmInv /\ OneBuild /\ ShownInv
      BY <1>2, <2>2, HistoryStays
    <3> QED
      BY <1>2, <2>2, <3>1, NextTypeOK, NextCalmInv, NextOneBuild, NextShownInv
  <2> QED
    BY <2>1, <2>2
<1>3. hurried \/ (CalmInv /\ OneBuild /\ ShownInv) => ShownIsSaved
  <2> SUFFICES ASSUME CalmInv, ShownInv, AtRest, SignedIn, agent # NoAgent,
                      ShouldSaveSession(agent.messages)
               PROVE  pointer[user] # 0 /\ IsPrefix(agent.messages, store[pointer[user]])
    BY DEF ShownIsSaved
  <2>1. /\ session # 0 /\ pointer[user] = session
        /\ \A v \in Seq(Message) :
             Becomes(store, transactions, Len(transactions), session, v) => Begins(agent.messages, v)
    BY DEF ShownInv, SavedInv, AtRest
  <2>2. agent.messages \in Seq(Message) /\ store[session] \in Seq(Message)
    BY <2>1 DEF CalmInv, OwnerInv, TypeOK, Agents
  <2>3. Becomes(store, transactions, Len(transactions), session, store[session])
    BY DEF AtRest, Becomes
  <2>4. Begins(agent.messages, store[session])
    BY <2>1, <2>2, <2>3
  <2> QED
    BY <2>1, <2>2, <2>4, BeginsIsPrefix
<1> QED
  BY <1>1, <1>2, <1>3, PTL DEF Spec
===============================================================================
