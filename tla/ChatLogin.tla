------------------------------- MODULE ChatLogin -------------------------------
(***************************************************************************)
(* Sign-in and the life of the Google credential in the chat application:  *)
(*   src/frontend/packages/web-ui/example/src/main.ts                      *)
(*                                                                         *)
(* A credential ages and is renewed by a silent refresh that every caller  *)
(* shares: the refresh timer, and each API call that finds the credential  *)
(* expired or is answered 401.  Google may answer late, twice or never.    *)
(*                                                                         *)
(* JavaScript runs one callback at a time, and the callers that await a    *)
(* refresh go on before the next callback: hence the guard Quiet.          *)
(* user, idToken, tokenExp and their copy in localStorage are set and      *)
(* cleared together; they are the one variable session.                    *)
(***************************************************************************)
EXTENDS Naturals, Sequences

CONSTANTS
  Users,           \* accounts of the allowed domains
  Requests         \* calls of the API, each made once

CONSTANTS          \* bounds of the model, not of the code
  MaxCredentials,  \* credentials Google issues
  MaxReloads       \* reloads of the page

ASSUME BoundAssumption == MaxCredentials \in Nat /\ MaxReloads \in Nat

None == [user |-> "none"]
Timer == "refreshTimer"
ASSUME TimerAssumption == Timer \notin Requests
Waiters == Requests \cup {Timer}      \* those that may await silentRefresh

VARIABLES
  loaded,             \* Google's script has been loaded
  session,            \* user, idToken, tokenExp
  timer,              \* refreshTimer is armed
  agent, building,    \* agent is defined; calls of createAgentAndPanel at work
  broken,             \* the last of these calls was rejected (read by the properties only)
  refreshInProgress,  \* the promise, or 0
  refreshResolve,     \* the promise whose `done` it is, or 0
  outcome,            \* of every promise of this page
  nets,               \* promises whose safety net of 8 s has not gone off
  offers, moments,    \* prompts that may still give a credential, or be dismissed
  pc, wait,           \* of each request; what each waiter awaits, or 0
  credentials, reloads

refresh == <<refreshInProgress, refreshResolve, outcome, nets, offers, moments>>
bounds == <<credentials, reloads>>
vars == <<loaded, session, timer, agent, building, broken, refresh, pc, wait, bounds>>

\* fresh; within the 5 minutes before the expiry; within its last 30 seconds or past it
Ages == {"fresh", "due", "expired"}
Session == [user: Users, age: Ages] \cup {None}
Outcomes == {"pending", "ok", "failed"}
Promises == DOMAIN outcome

TypeOK ==
  /\ loaded \in BOOLEAN
  /\ session \in Session
  /\ timer \in BOOLEAN
  /\ agent \in BOOLEAN
  /\ building \in Nat
  /\ broken \in BOOLEAN
  /\ outcome \in Seq(Outcomes)
  /\ refreshInProgress \in Promises \cup {0}
  /\ refreshResolve \in Promises \cup {0}
  /\ nets \subseteq Promises
  /\ offers \subseteq Promises
  /\ moments \subseteq Promises
  /\ pc \in [Requests -> {"idle", "gate", "sent", "renew", "resent", "done"}]
  /\ wait \in [Waiters -> Promises \cup {0}]
  /\ credentials \in Nat
  /\ reloads \in Nat

SignedIn == session # None
IsTokenExpired == SignedIn => session.age = "expired"
Awaits(w) == wait[w] # 0
Settled(w) == Awaits(w) /\ outcome[wait[w]] # "pending"
Quiet == \A w \in Waiters : ~Settled(w)

Init ==
  /\ loaded = FALSE
  /\ \E u \in Users : session \in {None, [user |-> u, age |-> "fresh"], [user |-> u, age |-> "due"]}
  /\ timer = SignedIn
  /\ agent = FALSE
  /\ building = IF SignedIn THEN 1 ELSE 0
  /\ broken = FALSE
  /\ refreshInProgress = 0
  /\ refreshResolve = 0
  /\ outcome = <<>>
  /\ nets = {}
  /\ offers = {}
  /\ moments = {}
  /\ pc = [r \in Requests |-> "idle"]
  /\ wait = [w \in Waiters |-> 0]
  /\ credentials = 0
  /\ reloads = 0

(***************************************************************************)
(* The silent refresh.                                                     *)
(***************************************************************************)
\* (mutant) a promise that was settled may be settled again
DoneAgain(p, result) ==
  /\ p # 0
  /\ outcome' = IF outcome[p] = "pending" THEN [outcome EXCEPT ![p] = result] ELSE outcome
  /\ refreshInProgress' = 0
  /\ refreshResolve' = 0

Done(p, result) ==
  IF p # 0 /\ outcome[p] = "pending"
  THEN /\ outcome' = [outcome EXCEPT ![p] = result]
       /\ refreshInProgress' = 0
       /\ refreshResolve' = 0
  ELSE UNCHANGED <<outcome, refreshInProgress, refreshResolve>>

Join(w) ==
  /\ refreshInProgress # 0
  /\ wait' = [wait EXCEPT ![w] = refreshInProgress]
  /\ UNCHANGED refresh

\* The script is not there, or prompt() throws and the safety net is set all the same.
\* `done` runs inside the executor, before refreshInProgress is assigned: the promise
\* that has failed stays there.
CannotAsk(w) ==
  LET p == Len(outcome) + 1 IN
  /\ refreshInProgress = 0
  /\ outcome' = Append(outcome, "failed")
  /\ refreshInProgress' = p
  /\ refreshResolve' = 0
  /\ nets' = IF loaded THEN nets \cup {p} ELSE nets
  /\ wait' = [wait EXCEPT ![w] = p]
  /\ UNCHANGED <<offers, moments>>

\* (mutant) nothing answers when Google does not
AskWithoutNet(w) ==
  LET p == Len(outcome) + 1 IN
  /\ refreshInProgress = 0 /\ loaded
  /\ outcome' = Append(outcome, "pending")
  /\ refreshInProgress' = p
  /\ refreshResolve' = p
  /\ offers' = offers \cup {p}
  /\ moments' = moments \cup {p}
  /\ wait' = [wait EXCEPT ![w] = p]
  /\ UNCHANGED nets

Ask(w) ==
  LET p == Len(outcome) + 1 IN
  /\ refreshInProgress = 0 /\ loaded
  /\ outcome' = Append(outcome, "pending")
  /\ refreshInProgress' = p
  /\ refreshResolve' = p
  /\ nets' = nets \cup {p}
  /\ offers' = offers \cup {p}
  /\ moments' = moments \cup {p}
  /\ wait' = [wait EXCEPT ![w] = p]

SilentRefresh(w) == Join(w) \/ CannotAsk(w) \/ Ask(w)

SafetyNet(p) ==
  /\ Quiet
  /\ p \in nets
  /\ nets' = nets \ {p}
  /\ Done(p, "failed")
  /\ UNCHANGED <<loaded, session, timer, agent, building, broken, offers, moments, pc, wait, bounds>>

\* Google reports that the prompt was not shown, was skipped or was dismissed.  It
\* also reports the dismissal of a prompt that gives a credential.
Moment(p) ==
  /\ Quiet
  /\ p \in moments
  /\ moments' = moments \ {p}
  /\ Done(p, "failed")
  /\ UNCHANGED <<loaded, session, timer, agent, building, broken, nets, offers, pc, wait, bounds>>

(***************************************************************************)
(* Credentials: the answer to a prompt, or to the button of the login page.*)
(***************************************************************************)
Answers ==
  \/ \E p \in offers : offers' = offers \ {p}
  \/ loaded /\ ~SignedIn /\ UNCHANGED offers

Issued == credentials < MaxCredentials /\ credentials' = credentials + 1

\* (mutant) the timer is only armed for the first credential
OnCredentialOnce(u) ==
  /\ Quiet
  /\ Issued /\ Answers
  /\ session' = [user |-> u, age |-> "fresh"]
  /\ timer' = (timer \/ ~SignedIn)
  /\ Done(refreshResolve, "ok")
  /\ IF SignedIn /\ agent
     THEN UNCHANGED <<building, broken>>
     ELSE building' = building + 1 /\ broken' = FALSE
  /\ UNCHANGED <<loaded, agent, nets, moments, pc, wait, reloads>>

\* (mutant) a credential always means a refresh in place
OnCredentialInPlace(u) ==
  /\ Quiet
  /\ Issued /\ Answers
  /\ session' = [user |-> u, age |-> "fresh"]
  /\ timer' = TRUE
  /\ Done(refreshResolve, "ok")
  /\ UNCHANGED <<loaded, agent, building, broken, nets, moments, pc, wait, reloads>>

OnCredential(u) ==
  /\ Quiet
  /\ Issued /\ Answers
  /\ session' = [user |-> u, age |-> "fresh"]
  /\ timer' = TRUE
  /\ Done(refreshResolve, "ok")
  /\ IF SignedIn /\ agent
     THEN UNCHANGED <<building, broken>>
     ELSE building' = building + 1 /\ broken' = FALSE
  /\ UNCHANGED <<loaded, agent, nets, moments, pc, wait, reloads>>

\* a credential that cannot be decoded, or of another domain
RefuseCredential ==
  /\ Quiet
  /\ Issued /\ Answers
  /\ Done(refreshResolve, "failed")
  /\ UNCHANGED <<loaded, session, timer, agent, building, broken, nets, moments, pc, wait, reloads>>

\* createAgentAndPanel, begun by onCredential or init, ends (whoever is signed in now)
AgentBuilt ==
  /\ Quiet
  /\ building > 0
  /\ building' = building - 1
  /\ agent' = TRUE
  /\ UNCHANGED <<loaded, session, timer, broken, refresh, pc, wait, bounds>>

\* providerKeys.set is rejected, and with it createAgentAndPanel: nobody catches it
BuildFails ==
  /\ Quiet
  /\ building > 0
  /\ building' = building - 1
  /\ broken' = (SignedIn /\ ~agent /\ building = 1)
  /\ UNCHANGED <<loaded, session, timer, agent, refresh, pc, wait, bounds>>

LeaveSession ==
  /\ session' = None
  /\ timer' = FALSE
  /\ agent' = FALSE
  /\ broken' = FALSE

SignOut ==
  /\ Quiet
  /\ SignedIn
  /\ LeaveSession
  /\ UNCHANGED <<loaded, building, refresh, pc, wait, bounds>>

(***************************************************************************)
(* The refresh timer.                                                      *)
(***************************************************************************)
TimerFires ==
  /\ Quiet
  /\ timer /\ SignedIn /\ session.age # "fresh"
  /\ timer' = FALSE
  /\ SilentRefresh(Timer)
  /\ UNCHANGED <<loaded, session, agent, building, broken, pc, bounds>>

TimerResumes ==
  /\ Settled(Timer)
  /\ wait' = [wait EXCEPT ![Timer] = 0]
  /\ IF outcome[wait[Timer]] = "ok" THEN UNCHANGED <<session, timer, agent, broken>> ELSE LeaveSession
  /\ UNCHANGED <<loaded, building, refresh, pc, bounds>>

(***************************************************************************)
(* The hook around fetch.                                                  *)
(***************************************************************************)
Fetch(r) ==
  /\ Quiet
  /\ pc[r] = "idle"
  /\ IF IsTokenExpired
     THEN pc' = [pc EXCEPT ![r] = "gate"] /\ SilentRefresh(r)
     ELSE pc' = [pc EXCEPT ![r] = "sent"] /\ UNCHANGED <<refresh, wait>>
  /\ UNCHANGED <<loaded, session, timer, agent, building, broken, bounds>>

\* anything but 401, or no answer at all
Answered(r) ==
  /\ Quiet
  /\ pc[r] \in {"sent", "resent"}
  /\ pc' = [pc EXCEPT ![r] = "done"]
  /\ UNCHANGED <<loaded, session, timer, agent, building, broken, refresh, wait, bounds>>

Unauthorized(r) ==
  /\ Quiet
  /\ pc[r] = "sent"
  /\ pc' = [pc EXCEPT ![r] = "renew"]
  /\ SilentRefresh(r)
  /\ UNCHANGED <<loaded, session, timer, agent, building, broken, bounds>>

StillUnauthorized(r) ==
  /\ Quiet
  /\ pc[r] = "resent"
  /\ pc' = [pc EXCEPT ![r] = "done"]
  /\ LeaveSession
  /\ UNCHANGED <<loaded, building, refresh, wait, bounds>>

\* (mutant) the call goes out whatever became of the refresh
ResumeAnyway(r) ==
  /\ Settled(r)
  /\ wait' = [wait EXCEPT ![r] = 0]
  /\ pc' = [pc EXCEPT ![r] = IF @ = "gate" THEN "sent" ELSE "resent"]
  /\ UNCHANGED <<loaded, session, timer, agent, building, broken, refresh, bounds>>

Resume(r) ==
  /\ Settled(r)
  /\ wait' = [wait EXCEPT ![r] = 0]
  /\ IF outcome[wait[r]] = "ok"
     THEN /\ pc' = [pc EXCEPT ![r] = IF @ = "gate" THEN "sent" ELSE "resent"]
          /\ UNCHANGED <<session, timer, agent, broken>>
     ELSE /\ pc' = [pc EXCEPT ![r] = "done"]
          /\ LeaveSession
  /\ UNCHANGED <<loaded, building, refresh, bounds>>

(***************************************************************************)
(* The rest of the world.                                                  *)
(***************************************************************************)
ScriptLoads ==
  /\ Quiet
  /\ ~loaded /\ loaded' = TRUE
  /\ UNCHANGED <<session, timer, agent, building, broken, refresh, pc, wait, bounds>>

Ageing ==
  /\ Quiet
  /\ SignedIn /\ session.age # "expired"
  /\ session' = [session EXCEPT !.age = IF @ = "fresh" THEN "due" ELSE "expired"]
  /\ UNCHANGED <<loaded, timer, agent, building, broken, refresh, pc, wait, bounds>>

\* loadSavedUser takes the stored credential unless it has expired
Reload ==
  /\ Quiet
  /\ reloads < MaxReloads /\ reloads' = reloads + 1
  /\ loaded' = FALSE
  /\ session' = IF IsTokenExpired THEN None ELSE session
  /\ timer' = ~IsTokenExpired
  /\ agent' = FALSE
  /\ building' = IF IsTokenExpired THEN 0 ELSE 1
  /\ broken' = FALSE
  /\ refreshInProgress' = 0
  /\ refreshResolve' = 0
  /\ outcome' = <<>>
  /\ nets' = {}
  /\ offers' = {}
  /\ moments' = {}
  /\ pc' = [r \in Requests |-> IF pc[r] = "idle" THEN "idle" ELSE "done"]
  /\ wait' = [w \in Waiters |-> 0]
  /\ UNCHANGED credentials

Next ==
  \/ \E p \in nets : SafetyNet(p)
  \/ \E p \in moments : Moment(p)
  \/ \E u \in Users : OnCredential(u)
  \/ RefuseCredential
  \/ AgentBuilt \/ BuildFails
  \/ SignOut
  \/ TimerFires \/ TimerResumes
  \/ \E r \in Requests : Fetch(r) \/ Answered(r) \/ Unauthorized(r) \/ StillUnauthorized(r) \/ Resume(r)
  \/ ScriptLoads
  \/ Ageing
  \/ Reload

Spec == Init /\ [][Next]_vars

\* The browser runs its timers and continuations, and each call of fetch ends.
FairSpec ==
  /\ Spec
  /\ WF_vars(\E p \in nets : SafetyNet(p))
  /\ WF_vars(TimerFires)
  /\ WF_vars(TimerResumes)
  /\ \A r \in Requests : WF_vars(Answered(r) \/ Resume(r))

(***************************************************************************)
(* Properties.                                                             *)
(***************************************************************************)
\* A refresh that is not settled is the one that further callers join, that the next
\* credential answers and that its own safety net ends: a late answer to an earlier
\* refresh never leaves it behind.
SharedRefresh ==
  \A p \in Promises :
    outcome[p] = "pending" => refreshInProgress = p /\ refreshResolve = p /\ p \in nets

\* A signed-in session is always watched: its refresh timer is armed, or the timer's
\* callback awaits the refresh that will renew the session or end it.
SessionWatched == SignedIn => timer \/ Awaits(Timer)

\* Whoever is signed in has an agent, or one on the way; no order of credentials,
\* sign-outs and agents that are finished late shows the chat without one, unless the
\* last construction was rejected and no credential has begun another since.
SignedInHasAgent == SignedIn => agent \/ building > 0 \/ broken

\* A call of the API never goes out signed out or with a credential known to have
\* expired, be it the first time or the retry after a 401.
NoStaleSend ==
  [][\A r \in Requests :
       pc[r] \notin {"sent", "resent"} /\ pc'[r] \in {"sent", "resent"} => ~IsTokenExpired]_vars

\* Every call of the API ends, whatever Google does with the refreshes it awaits.
RequestEnds == \A r \in Requests : pc[r] # "idle" ~> pc[r] = "done"

===============================================================================
