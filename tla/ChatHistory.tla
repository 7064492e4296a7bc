------------------------------ MODULE ChatHistory ------------------------------
(***************************************************************************)
(* How the chat application keeps conversations:                           *)
(*   src/frontend/packages/web-ui/example/src/main.ts, and the session     *)
(*   store below src/frontend/packages/web-ui/src/storage                  *)
(*                                                                         *)
(* The agent on the screen saves its messages in IndexedDB after each of   *)
(* them; localStorage points from the account to its conversation.  Saves, *)
(* deletions and loads are transactions that IndexedDB carries out one     *)
(* after the other while the page goes on.                                 *)
(*                                                                         *)
(* An agent that was replaced or left has no subscription and no panel any *)
(* more; only the current one is kept here.  currentSessionId is session.  *)
(* ChatLogin has the details of who is signed in when.                     *)
(***************************************************************************)
EXTENDS Naturals, Sequences, SequencesExt

CONSTANTS
  Users,
  OneAccount       \* a silent refresh answers for the account that is signed in

CONSTANTS          \* bounds of the model, not of the code
  MaxMessages,
  MaxBuilds,       \* calls of createAgentAndPanel and newChat
  MaxReloads

ASSUME SwitchAssumption == OneAccount \in BOOLEAN
ASSUME BoundAssumption == MaxMessages \in Nat /\ MaxBuilds \in Nat /\ MaxReloads \in Nat

Nobody == "anon"       \* also the key of the pointer when nobody is signed in
ASSUME NobodyAssumption == Nobody \notin Users
NoAgent == [isStreaming |-> FALSE]     \* undefined

VARIABLES
  user, agent, session,
  pointer,             \* localStorage: ms_session_<account>
  store,               \* IndexedDB: the messages of each session; <<>> for none
  transactions,        \* requested of IndexedDB and not carried out yet
  pc,                  \* of each call of newChat and createAgentAndPanel
  ids, sent,           \* sessions and messages so far
  cleared,             \* history: messages that newChat has cleared
  asked,               \* history: the account whose pointer a construction has looked at
  hurried,             \* history: a sign-in, a sign-out or a new chat came while one was under way
  crossed,             \* history: a conversation was restored after its account had left
  reloads

history == <<sent, cleared>>
haste == <<asked, hurried, crossed>>
vars == <<user, agent, session, pointer, store, transactions, pc, ids, history, haste, reloads>>

Accounts == Users \cup {Nobody}
Builds == 1 .. MaxBuilds
Message == [by: Users, role: {"user", "assistant"}, n: Nat]
Agents == [messages: Seq(Message), isStreaming: BOOLEAN]
Transaction ==
  [kind: {"save"}, id: Nat, messages: Seq(Message)]
    \cup [kind: {"delete", "load"}, id: Nat, for: Builds]

TypeOK ==
  /\ user \in Accounts
  /\ agent = NoAgent \/ agent \in Agents
  /\ session \in 0 .. ids
  /\ pointer \in [Accounts -> 0 .. ids]
  /\ store \in Seq(Seq(Message)) /\ Len(store) = ids
  /\ transactions \in Seq(Transaction)
  /\ \A i \in DOMAIN transactions : transactions[i].id \in 1 .. ids
  /\ pc \in [Builds -> {"idle", "delete", "keys", "load", "done"}]
  /\ ids \in Nat
  /\ sent \in Nat
  /\ cleared \subseteq [message: Message, idle: BOOLEAN]
  /\ asked \in [Builds -> Accounts]
  /\ hurried \in BOOLEAN
  /\ crossed \in BOOLEAN
  /\ reloads \in Nat

SignedIn == user # Nobody
SessionPtrKey == user
Building == \E b \in Builds : pc[b] \in {"delete", "keys", "load"}

Init ==
  /\ user = Nobody
  /\ agent = NoAgent
  /\ session = 0
  /\ pointer = [u \in Accounts |-> 0]
  /\ store = <<>>
  /\ transactions = <<>>
  /\ pc = [b \in Builds |-> "idle"]
  /\ ids = 0
  /\ sent = 0
  /\ cleared = {}
  /\ asked = [b \in Builds |-> Nobody]
  /\ hurried = FALSE
  /\ crossed = FALSE
  /\ reloads = 0

\* a sign-in, a sign-out or a new chat begins
Hurry == hurried' = (hurried \/ Building) /\ UNCHANGED <<asked, crossed>>

(***************************************************************************)
(* A turn of the conversation.                                             *)
(***************************************************************************)
ShouldSaveSession(messages) ==
  \A role \in {"user", "assistant"} : \E i \in DOMAIN messages : messages[i].role = role

Save(id, messages) == [kind |-> "save", id |-> id, messages |-> messages]

\* (mutant) saved before the message is in the transcript
OnMessageEndEarly(messages) ==
  IF ~ShouldSaveSession(messages)
  THEN UNCHANGED <<session, pointer, store, transactions, ids>>
  ELSE LET id == IF session = 0 THEN ids + 1 ELSE session IN
       /\ ids' = IF session = 0 THEN ids + 1 ELSE ids
       /\ store' = IF session = 0 THEN Append(store, <<>>) ELSE store
       /\ session' = id
       /\ pointer' = [pointer EXCEPT ![SessionPtrKey] = id]
       /\ transactions' = Append(transactions, Save(id, Front(messages)))

\* the subscription: message_end, agent_end
OnMessageEnd(messages) ==
  IF ~ShouldSaveSession(messages)
  THEN UNCHANGED <<session, pointer, store, transactions, ids>>
  ELSE LET id == IF session = 0 THEN ids + 1 ELSE session IN
       /\ ids' = IF session = 0 THEN ids + 1 ELSE ids
       /\ store' = IF session = 0 THEN Append(store, <<>>) ELSE store
       /\ session' = id
       /\ pointer' = [pointer EXCEPT ![SessionPtrKey] = id]
       /\ transactions' = Append(transactions, Save(id, messages))

Said(role) == [by |-> user, role |-> role, n |-> sent + 1]

\* The user goes on with this conversation, so nothing of it counts as cleared.
Send ==
  LET messages == Append(agent.messages, Said("user")) IN
  /\ SignedIn /\ agent # NoAgent /\ ~agent.isStreaming
  /\ sent < MaxMessages /\ sent' = sent + 1
  /\ agent' = [messages |-> messages, isStreaming |-> TRUE]
  /\ OnMessageEnd(messages)
  /\ cleared' = {c \in cleared : c.message \notin ToSet(messages)}
  /\ UNCHANGED <<user, pc, haste, reloads>>

Reply(more) ==
  LET messages == Append(agent.messages, Said("assistant")) IN
  /\ SignedIn /\ agent # NoAgent /\ agent.isStreaming
  /\ sent < MaxMessages /\ sent' = sent + 1
  /\ agent' = [messages |-> messages, isStreaming |-> more]
  /\ OnMessageEnd(messages)
  /\ UNCHANGED <<user, pc, cleared, haste, reloads>>

(***************************************************************************)
(* createAgentAndPanel, from its call to the agent on the screen.          *)
(***************************************************************************)
StartBuild(b) ==
  /\ \A c \in Builds : c < b => pc[c] # "idle"
  /\ pc[b] = "idle"
  /\ pc' = [pc EXCEPT ![b] = "keys"]

NewAgent(messages) == agent' = [messages |-> messages, isStreaming |-> FALSE]

\* providerKeys.set returns, and loadRestoredMessages looks at the pointer
KeysSet(b) ==
  LET id == pointer[SessionPtrKey] IN
  /\ pc[b] = "keys"
  /\ IF id = 0
     THEN /\ pc' = [pc EXCEPT ![b] = "done"]
          /\ NewAgent(<<>>)
          /\ UNCHANGED <<transactions, asked>>
     ELSE /\ pc' = [pc EXCEPT ![b] = "load"]
          /\ transactions' = Append(transactions, [kind |-> "load", id |-> id, for |-> b])
          /\ asked' = [asked EXCEPT ![b] = user]
          /\ UNCHANGED agent
  /\ UNCHANGED <<user, session, pointer, store, ids, history, hurried, crossed, reloads>>

\* (mutant) no agent for a conversation that is gone
LoadedIfAny(t) ==
  /\ t.kind = "load" /\ pc[t.for] = "load"
  /\ pc' = [pc EXCEPT ![t.for] = "done"]
  /\ IF store[t.id] = <<>>
     THEN UNCHANGED <<session, agent>>
     ELSE session' = t.id /\ NewAgent(store[t.id])
  /\ crossed' = (crossed \/ (store[t.id] # <<>> /\ asked[t.for] # user))
  /\ UNCHANGED <<pointer, store, cleared>>

Loaded(t) ==
  /\ t.kind = "load" /\ pc[t.for] = "load"
  /\ pc' = [pc EXCEPT ![t.for] = "done"]
  /\ session' = IF store[t.id] = <<>> THEN session ELSE t.id
  /\ NewAgent(store[t.id])
  /\ crossed' = (crossed \/ (store[t.id] # <<>> /\ asked[t.for] # user))
  /\ UNCHANGED <<pointer, store, cleared>>

(***************************************************************************)
(* newChat.                                                                *)
(***************************************************************************)
Shown == IF agent = NoAgent THEN {} ELSE ToSet(agent.messages)

\* (mutant) the pointer to the deleted session is kept
ClearSessionOnly(b) ==
  /\ session' = 0
  /\ pc' = [pc EXCEPT ![b] = "keys"]
  /\ cleared' = cleared \cup {[message |-> m, idle |-> ~agent.isStreaming] : m \in Shown}
  /\ UNCHANGED pointer

\* after the deletion, for the account that is then signed in
ClearChat(b) ==
  /\ pointer' = [pointer EXCEPT ![SessionPtrKey] = 0]
  /\ session' = 0
  /\ pc' = [pc EXCEPT ![b] = "keys"]
  /\ cleared' = cleared \cup {[message |-> m, idle |-> ~agent.isStreaming] : m \in Shown}

NewChat(b) ==
  LET id == IF session # 0 THEN session ELSE pointer[SessionPtrKey] IN
  /\ SignedIn /\ agent # NoAgent
  /\ Hurry
  /\ \A c \in Builds : c < b => pc[c] # "idle"
  /\ pc[b] = "idle"
  /\ IF id = 0
     THEN ClearChat(b) /\ UNCHANGED transactions
     ELSE /\ pc' = [pc EXCEPT ![b] = "delete"]
          /\ transactions' = Append(transactions, [kind |-> "delete", id |-> id, for |-> b])
          /\ UNCHANGED <<session, pointer, cleared>>
  /\ UNCHANGED <<user, agent, store, ids, sent, reloads>>

(***************************************************************************)
(* IndexedDB.                                                              *)
(***************************************************************************)
Saved(t) ==
  /\ t.kind = "save"
  /\ store' = [store EXCEPT ![t.id] = t.messages]
  /\ UNCHANGED <<agent, session, pointer, pc, cleared, crossed>>

Deleted(t) ==
  /\ t.kind = "delete" /\ pc[t.for] = "delete"
  /\ store' = [store EXCEPT ![t.id] = <<>>]
  /\ ClearChat(t.for)
  /\ UNCHANGED <<agent, crossed>>

\* asked for by a page that is gone
Orphaned(t) ==
  /\ t.kind # "save" /\ pc[t.for] = "done"
  /\ store' = IF t.kind = "delete" THEN [store EXCEPT ![t.id] = <<>>] ELSE store
  /\ UNCHANGED <<agent, session, pointer, pc, cleared, crossed>>

Commit ==
  LET t == Head(transactions) IN
  /\ transactions # <<>>
  /\ transactions' = Tail(transactions)
  /\ Saved(t) \/ Deleted(t) \/ Loaded(t) \/ Orphaned(t)
  /\ UNCHANGED <<user, ids, sent, asked, hurried, reloads>>

(***************************************************************************)
(* Signing in and out, and the page.                                       *)
(***************************************************************************)
\* a credential while nobody is signed in, or while the agent is still being built
SignIn(u, b) ==
  /\ ~SignedIn \/ (agent = NoAgent /\ (OneAccount => u = user))
  /\ Hurry
  /\ user' = u
  /\ StartBuild(b)
  /\ UNCHANGED <<agent, session, pointer, store, transactions, ids, history, reloads>>

\* a credential for a session that has its agent: the agent stays
RefreshInPlace(u) ==
  /\ SignedIn /\ agent # NoAgent
  /\ OneAccount => u = user
  /\ user' = u
  /\ UNCHANGED <<agent, session, pointer, store, transactions, pc, ids, history, haste, reloads>>

\* (mutant) the conversation's id survives its session
SignOutKeepsId ==
  /\ SignedIn
  /\ Hurry
  /\ user' = Nobody
  /\ agent' = NoAgent
  /\ UNCHANGED <<session, pointer, store, transactions, pc, ids, history, reloads>>

\* signOut and routeToLogin
SignOut ==
  /\ SignedIn
  /\ Hurry
  /\ user' = Nobody
  /\ agent' = NoAgent
  /\ session' = 0
  /\ UNCHANGED <<pointer, store, transactions, pc, ids, history, reloads>>

\* The page goes with whatever it had not handed to IndexedDB; IndexedDB carries out
\* the first of its transactions only.  init builds an agent for a credential that has
\* not expired.
Reload(b) ==
  /\ reloads < MaxReloads /\ reloads' = reloads + 1
  /\ \E n \in 0 .. Len(transactions) : transactions' = SubSeq(transactions, 1, n)
  /\ agent' = NoAgent
  /\ session' = 0
  /\ pc[b] = "idle" /\ \A c \in Builds : c < b => pc[c] # "idle"
  /\ user' \in {user, Nobody}
  /\ pc' = [c \in Builds |-> IF c = b THEN IF user' = Nobody THEN "idle" ELSE "keys"
                             ELSE IF pc[c] = "idle" THEN "idle" ELSE "done"]
  /\ UNCHANGED <<pointer, store, ids, history, haste>>

Next ==
  \/ Send
  \/ \E more \in BOOLEAN : Reply(more)
  \/ \E b \in Builds : KeysSet(b) \/ NewChat(b) \/ Reload(b)
  \/ Commit
  \/ \E u \in Users : (\E b \in Builds : SignIn(u, b)) \/ RefreshInPlace(u)
  \/ SignOut

Spec == Init /\ [][Next]_vars

\* IndexedDB carries out what it is asked to.
FairSpec ==
  /\ Spec
  /\ WF_vars(Commit)
  /\ \A b \in Builds : WF_vars(KeysSet(b))

(***************************************************************************)
(* Properties.                                                             *)
(***************************************************************************)
AtRest == transactions = <<>> /\ ~Building

\* "different accounts don't see each other's history" (main.ts:280): the pointer of
\* an account leads to a conversation of that account only.
PointerOwner ==
  ~crossed => \A u \in Users : pointer[u] # 0 => \A m \in ToSet(store[pointer[u]]) : m.by = u

\* When the page and IndexedDB are at rest, a reload would restore all of the
\* conversation that is on the screen.
ShownIsSaved ==
  AtRest /\ ~hurried /\ SignedIn /\ agent # NoAgent /\ ShouldSaveSession(agent.messages) =>
    pointer[user] # 0 /\ IsPrefix(agent.messages, store[pointer[user]])

\* A conversation that was cleared while its agent was idle is gone for good: no
\* save or load that was under way brings it back to the screen or to a pointer.
ClearedIsGone ==
  AtRest /\ ~hurried => \A c \in cleared : c.idle =>
    /\ c.message \notin Shown
    /\ \A u \in Users : pointer[u] # 0 => c.message \notin ToSet(store[pointer[u]])

\* Whoever signs in gets an agent, or leaves.
SignedInIsShown == SignedIn ~> (agent # NoAgent \/ ~SignedIn)
===============================================================================
