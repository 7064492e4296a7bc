---------------------------- MODULE ChatLoginProofs ----------------------------
(***************************************************************************)
(* Proofs about ChatLogin, for any number of accounts, requests and        *)
(* refreshes.                                                              *)
(*                                                                         *)
(* At most one refresh is pending, and whoever awaits one goes on before   *)
(* anything else happens: those that may go on all await the same promise, *)
(* and if it was fulfilled the session is as new as when it was.           *)
(***************************************************************************)
EXTENDS ChatLogin, TLAPS

\* Who calls the API awaits a refresh exactly where the code says `await`.
RequestsWait == \A r \in Requests : pc[r] \in {"gate", "renew"} <=> Awaits(r)

\* The promise that callers join was not fulfilled: that would have taken it away.
Joinable == refreshInProgress # 0 => outcome[refreshInProgress] # "ok"

SettledTogether == \A v, w \in Waiters : Settled(v) /\ Settled(w) => wait[v] = wait[w]

Renewed ==
  \A w \in Waiters : Settled(w) /\ outcome[wait[w]] = "ok" => SignedIn /\ ~IsTokenExpired /\ timer

WaitInv == SettledTogether /\ Renewed /\ SessionWatched

IInv ==
  /\ TypeOK
  /\ RequestsWait
  /\ SharedRefresh /\ Joinable
  /\ WaitInv
  /\ SignedInHasAgent

Refreshable ==
  /\ outcome \in Seq(Outcomes)
  /\ {refreshInProgress, refreshResolve} \subseteq Promises \cup {0}
  /\ nets \cup offers \cup moments \subseteq Promises
  /\ SharedRefresh /\ Joinable

(***************************************************************************)
(* What settling a promise, and asking for one, do.                        *)
(***************************************************************************)
LEMMA DoneSettles ==
  ASSUME TypeOK, SharedRefresh, Joinable,
         NEW p \in Promises \cup {0}, NEW result \in {"ok", "failed"}, Done(p, result)
  PROVE  /\ outcome' \in Seq(Outcomes) /\ Promises' = Promises
         /\ {refreshInProgress', refreshResolve'} \subseteq Promises \cup {0}
         /\ \A q \in Promises \ {p} : outcome'[q] = outcome[q]
         /\ p # 0 => outcome'[p] \in {outcome[p], result} \ {"pending"}
         /\ \A q \in Promises :
              outcome'[q] = "pending" => refreshInProgress' = q /\ refreshResolve' = q
         /\ Joinable'
<1> USE DEF Promises
<1>1. CASE p # 0 /\ outcome[p] = "pending"
  <2>1. /\ outcome' = [outcome EXCEPT ![p] = result]
        /\ refreshInProgress' = 0 /\ refreshResolve' = 0
    BY <1>1 DEF Done
  <2>2. outcome' \in Seq(Outcomes) /\ Promises' = Promises
    BY <1>1, <2>1 DEF TypeOK, Outcomes
  <2>3. \A q \in Promises : outcome[q] = "pending" => q = p
    BY <1>1 DEF SharedRefresh
  <2> QED
    BY <1>1, <2>1, <2>2, <2>3 DEF Joinable
<1>2. CASE ~(p # 0 /\ outcome[p] = "pending")
  <2>1. UNCHANGED <<outcome, refreshInProgress, refreshResolve>>
    BY <1>2 DEF Done
  <2> QED
    BY <1>2, <2>1 DEF TypeOK, SharedRefresh, Joinable
<1> QED
  BY <1>1, <1>2

LEMMA SilentRefreshAwaits ==
  ASSUME TypeOK, SharedRefresh, Joinable, NEW w \in Waiters, SilentRefresh(w)
  PROVE  /\ Refreshable'
         /\ Promises \subseteq Promises'
         /\ \A q \in Promises : outcome'[q] = outcome[q]
         /\ \E p \in Promises' : outcome'[p] # "ok" /\ wait' = [wait EXCEPT ![w] = p] /\ p # 0
<1> USE DEF TypeOK, Promises
<1>0. 0 \notin Promises
  OBVIOUS
<1>1. CASE Join(w)
  BY <1>0, <1>1 DEF Join, refresh, Refreshable, SharedRefresh, Joinable
<1>2. ASSUME CannotAsk(w) \/ Ask(w)
      PROVE  \E answer \in {"pending", "failed"} :
               /\ outcome' = Append(outcome, answer)
               /\ refreshInProgress = 0 /\ refreshInProgress' = Len(outcome) + 1
               /\ wait' = [wait EXCEPT ![w] = Len(outcome) + 1]
               /\ refreshResolve' \in {0, Len(outcome) + 1}
               /\ nets' \cup offers' \cup moments' \subseteq Promises \cup {Len(outcome) + 1}
               /\ answer = "pending" =>
                    refreshResolve' = Len(outcome) + 1 /\ Len(outcome) + 1 \in nets'
  BY <1>2 DEF CannotAsk, Ask
<1>3. ASSUME CannotAsk(w) \/ Ask(w)
      PROVE  /\ Promises' = Promises \cup {Len(outcome) + 1}
             /\ outcome' \in Seq(Outcomes)
             /\ \A q \in Promises : outcome'[q] = outcome[q] /\ outcome[q] # "pending"
             /\ outcome'[Len(outcome) + 1] \in {"pending", "failed"}
  <2>1. \A q \in Promises : outcome[q] # "pending"
    BY <1>0, <1>2, <1>3 DEF SharedRefresh
  <2>2. PICK answer \in {"pending", "failed"} : outcome' = Append(outcome, answer)
    BY <1>2, <1>3
  <2>3. outcome \in Seq(Outcomes) /\ answer \in Outcomes
    BY DEF Outcomes
  <2>4. /\ DOMAIN outcome' = DOMAIN outcome \cup {Len(outcome) + 1}
        /\ outcome' \in Seq(Outcomes)
        /\ \A q \in DOMAIN outcome : outcome'[q] = outcome[q]
        /\ outcome'[Len(outcome) + 1] = answer
    BY <2>2, <2>3
  <2> QED
    BY <2>1, <2>4
<1>4. CASE CannotAsk(w) \/ Ask(w)
  <2>1. Len(outcome) + 1 # 0 /\ outcome' \in Seq(Outcomes)
    BY <1>3, <1>4
  <2>2. /\ refreshInProgress' = Len(outcome) + 1 /\ refreshResolve' \in {0, Len(outcome) + 1}
        /\ wait' = [wait EXCEPT ![w] = Len(outcome) + 1]
        /\ nets' \cup offers' \cup moments' \subseteq Promises'
    BY <1>2, <1>3, <1>4
  <2>3. SharedRefresh'
    <3>1. outcome'[Len(outcome) + 1] = "pending" =>
            refreshResolve' = Len(outcome) + 1 /\ Len(outcome) + 1 \in nets'
      BY <1>2, <1>4
    <3> QED
      BY <1>3, <1>4, <2>2, <3>1 DEF SharedRefresh
  <2>4. Joinable' /\ outcome'[Len(outcome) + 1] # "ok" /\ Len(outcome) + 1 \in Promises'
    BY <1>3, <1>4, <2>2 DEF Joinable
  <2> HIDE DEF Promises, TypeOK
  <2> QED
    BY <1>3, <1>4, <2>1, <2>2, <2>3, <2>4 DEF Refreshable
<1> QED
  BY <1>1, <1>4 DEF SilentRefresh

(***************************************************************************)
(* Types.                                                                  *)
(***************************************************************************)
LEMMA InitType == Init => TypeOK
<1> SUFFICES ASSUME Init PROVE TypeOK
  OBVIOUS
<1>1. session \in Session
  BY DEF Init, Session, Ages
<1>2. outcome \in Seq(Outcomes) /\ Promises = {}
  BY DEF Init, Promises
<1>3. building \in Nat /\ timer \in BOOLEAN /\ broken \in BOOLEAN
  BY DEF Init, SignedIn
<1> QED
  BY <1>1, <1>2, <1>3 DEF Init, TypeOK

LEMMA StepType == TypeOK /\ SharedRefresh /\ Joinable /\ [Next]_vars => TypeOK'
<1> SUFFICES ASSUME TypeOK, SharedRefresh, Joinable, [Next]_vars PROVE TypeOK'
  OBVIOUS
<1> USE BoundAssumption DEF TypeOK
<1>1. session \in Session /\ (SignedIn => session.age \in Ages /\ session.user \in Users)
  BY DEF Session, SignedIn
<1>2. None \in Session /\ \A u \in Users, a \in Ages : [user |-> u, age |-> a] \in Session
  BY DEF Session
<1>3. ASSUME NEW p \in Promises \cup {0}, NEW result \in {"ok", "failed"}, Done(p, result)
      PROVE  /\ outcome' \in Seq(Outcomes) /\ Promises' = Promises
             /\ {refreshInProgress', refreshResolve'} \subseteq Promises \cup {0}
  BY <1>3, DoneSettles
<1>4. ASSUME NEW w \in Waiters, SilentRefresh(w)
      PROVE  /\ outcome' \in Seq(Outcomes)
             /\ {refreshInProgress', refreshResolve'} \subseteq Promises' \cup {0}
             /\ nets' \cup offers' \cup moments' \subseteq Promises'
             /\ wait' \in [Waiters -> Promises' \cup {0}]
  <2>1. PICK p \in Promises' : wait' = [wait EXCEPT ![w] = p]
    BY <1>4, SilentRefreshAwaits
  <2>2. Promises \subseteq Promises' /\ Refreshable'
    BY <1>4, SilentRefreshAwaits
  <2> QED
    BY <2>1, <2>2 DEF Refreshable
<1>5. ASSUME UNCHANGED refresh, UNCHANGED wait \/ \E w \in Waiters : wait' = [wait EXCEPT ![w] = 0]
      PROVE  /\ outcome' \in Seq(Outcomes)
             /\ {refreshInProgress', refreshResolve'} \subseteq Promises' \cup {0}
             /\ nets' \cup offers' \cup moments' \subseteq Promises'
             /\ wait' \in [Waiters -> Promises' \cup {0}]
  BY <1>5 DEF refresh, Promises
<1>6. ASSUME NEW p \in nets, SafetyNet(p) PROVE TypeOK'
  BY <1>3, <1>6 DEF SafetyNet, bounds
<1>7. ASSUME NEW p \in moments, Moment(p) PROVE TypeOK'
  BY <1>3, <1>7 DEF Moment, bounds
<1>8. ASSUME NEW u \in Users, OnCredential(u) PROVE TypeOK'
  <2>1. session' \in Session
    BY <1>2, <1>8 DEF OnCredential, Ages
  <2>2. credentials' \in Nat /\ offers' \subseteq offers
    BY <1>8 DEF OnCredential, Issued, Answers
  <2>2a. (building' = building /\ broken' = broken) \/ (building' = building + 1 /\ broken' = FALSE)
    BY <1>8, Zenon DEF OnCredential
  <2>2b. building' \in Nat
    BY <2>2a
  <2>2c. broken' \in BOOLEAN
    BY <2>2a
  <2>3. Done(refreshResolve, "ok")
    BY <1>8 DEF OnCredential
  <2> QED
    BY <1>3, <1>8, <2>1, <2>2, <2>2b, <2>2c, <2>3 DEF OnCredential
<1>9. CASE RefuseCredential
  <2>1. Done(refreshResolve, "failed") /\ credentials' \in Nat /\ offers' \subseteq offers
    BY <1>9 DEF RefuseCredential, Issued, Answers
  <2> QED
    BY <1>3, <1>9, <2>1 DEF RefuseCredential
<1>10. CASE AgentBuilt
  BY <1>5, <1>10 DEF AgentBuilt, bounds
<1>10c. CASE BuildFails
  <2>1. broken' \in BOOLEAN
    BY <1>10c DEF BuildFails
  <2> QED
    BY <1>5, <1>10c, <2>1 DEF BuildFails, bounds
<1>10a. CASE SignOut
  BY <1>2, <1>5, <1>10a DEF SignOut, LeaveSession, bounds
<1>10b. CASE ScriptLoads
  BY <1>5, <1>10b DEF ScriptLoads, bounds
<1>11. CASE TimerFires
  BY <1>4, <1>11 DEF TimerFires, Waiters, bounds
<1>12. CASE TimerResumes
  BY <1>2, <1>5, <1>12 DEF TimerResumes, LeaveSession, Waiters, bounds
<1>13. ASSUME NEW r \in Requests, Fetch(r) PROVE TypeOK'
  <2>1. pc' \in [Requests -> {"idle", "gate", "sent", "renew", "resent", "done"}]
    BY <1>13 DEF Fetch
  <2>2. SilentRefresh(r) \/ UNCHANGED <<refresh, wait>>
    BY <1>13 DEF Fetch
  <2> QED
    BY <1>4, <1>5, <1>13, <2>1, <2>2 DEF Fetch, Waiters, bounds
<1>14. ASSUME NEW r \in Requests, Answered(r) \/ StillUnauthorized(r) \/ Resume(r) PROVE TypeOK'
  <2>1. pc' \in [Requests -> {"idle", "gate", "sent", "renew", "resent", "done"}]
    BY <1>14 DEF Answered, StillUnauthorized, Resume
  <2>2. session' \in Session /\ {timer', agent', broken'} \subseteq BOOLEAN
    BY <1>2, <1>14 DEF Answered, StillUnauthorized, Resume, LeaveSession
  <2>3. UNCHANGED refresh /\ (UNCHANGED wait \/ wait' = [wait EXCEPT ![r] = 0])
    BY <1>14 DEF Answered, StillUnauthorized, Resume
  <2> QED
    BY <1>5, <1>14, <2>1, <2>2, <2>3 DEF Answered, StillUnauthorized, Resume, Waiters, bounds
<1>15. ASSUME NEW r \in Requests, Unauthorized(r) PROVE TypeOK'
  BY <1>4, <1>15 DEF Unauthorized, Waiters, bounds
<1>16. CASE Ageing
  <2>1. session' \in Session
    BY <1>1, <1>16 DEF Ageing, Session, Ages, SignedIn
  <2> QED
    BY <1>5, <1>16, <2>1 DEF Ageing, bounds
<1>17. CASE Reload
  <2>1. session' \in Session /\ building' \in Nat
    BY <1>2, <1>17 DEF Reload
  <2>2. outcome' \in Seq(Outcomes) /\ Promises' = {}
    BY <1>17 DEF Reload, Promises
  <2>3. pc' \in [Requests -> {"idle", "gate", "sent", "renew", "resent", "done"}]
    BY <1>17 DEF Reload
  <2>4. timer' \in BOOLEAN /\ reloads' \in Nat /\ credentials' \in Nat
    BY <1>17 DEF Reload, IsTokenExpired
  <2> QED
    BY <1>17, <2>1, <2>2, <2>3, <2>4 DEF Reload
<1>18. CASE UNCHANGED vars
  BY <1>5, <1>18 DEF vars, bounds
<1> QED
  BY <1>6, <1>7, <1>8, <1>9, <1>10, <1>10a, <1>10b, <1>10c, <1>11, <1>12, <1>13, <1>14,
     <1>15, <1>16, <1>17, <1>18 DEF Next

(***************************************************************************)
(* The promises, and those who await them.                                 *)
(***************************************************************************)
LEMMA StepRefresh ==
  TypeOK /\ SharedRefresh /\ Joinable /\ [Next]_vars => SharedRefresh' /\ Joinable'
<1> SUFFICES ASSUME TypeOK, SharedRefresh, Joinable, [Next]_vars
             PROVE  SharedRefresh' /\ Joinable'
  OBVIOUS
<1>1. ASSUME NEW p \in Promises \cup {0}, NEW result \in {"ok", "failed"}, Done(p, result),
             nets' \in {nets, nets \ {p}}
      PROVE  SharedRefresh' /\ Joinable'
  <2>1. /\ Joinable' /\ Promises' = Promises
        /\ \A q \in Promises \ {p} : outcome'[q] = outcome[q]
        /\ p # 0 => outcome'[p] # "pending"
        /\ \A q \in Promises :
             outcome'[q] = "pending" => refreshInProgress' = q /\ refreshResolve' = q
    BY <1>1, DoneSettles
  <2>2. 0 \notin Promises
    BY DEF Promises, TypeOK
  <2> QED
    BY <1>1, <2>1, <2>2 DEF SharedRefresh
<1>2. ASSUME NEW w \in Waiters, SilentRefresh(w) PROVE SharedRefresh' /\ Joinable'
  BY <1>2, SilentRefreshAwaits DEF Refreshable
<1>3. ASSUME UNCHANGED refresh PROVE SharedRefresh' /\ Joinable'
  BY <1>3 DEF refresh, SharedRefresh, Joinable, Promises
<1>4. ASSUME NEW p \in nets, SafetyNet(p) PROVE SharedRefresh' /\ Joinable'
  BY <1>1, <1>4 DEF SafetyNet, TypeOK
<1>5. ASSUME NEW p \in moments, Moment(p) PROVE SharedRefresh' /\ Joinable'
  BY <1>1, <1>5 DEF Moment, TypeOK
<1>6. ASSUME RefuseCredential \/ \E u \in Users : OnCredential(u)
      PROVE  SharedRefresh' /\ Joinable'
  <2>1. refreshResolve \in Promises \cup {0}
    BY DEF TypeOK
  <2>2. nets' = nets /\ (Done(refreshResolve, "ok") \/ Done(refreshResolve, "failed"))
    BY <1>6 DEF RefuseCredential, OnCredential
  <2> QED
    BY <1>1, <2>1, <2>2
<1>7. CASE TimerFires \/ \E r \in Requests : Unauthorized(r)
  <2>1. PICK w \in Waiters : SilentRefresh(w)
    BY <1>7 DEF TimerFires, Unauthorized, Waiters
  <2> QED
    BY <1>2, <2>1
<1>8. ASSUME NEW r \in Requests, Fetch(r) PROVE SharedRefresh' /\ Joinable'
  BY <1>2, <1>3, <1>8 DEF Fetch, Waiters
<1>9. CASE AgentBuilt \/ BuildFails \/ SignOut \/ TimerResumes \/ ScriptLoads \/ Ageing
  BY <1>3, <1>9 DEF AgentBuilt, BuildFails, SignOut, TimerResumes, ScriptLoads, Ageing
<1>10. ASSUME NEW r \in Requests, Answered(r) \/ StillUnauthorized(r) \/ Resume(r)
       PROVE  SharedRefresh' /\ Joinable'
  BY <1>3, <1>10 DEF Answered, StillUnauthorized, Resume
<1>11. CASE Reload
  BY <1>11 DEF Reload, SharedRefresh, Joinable, Promises
<1>12. CASE UNCHANGED vars
  BY <1>3, <1>12 DEF vars
<1> QED
  BY <1>4, <1>5, <1>6, <1>7, <1>8, <1>9, <1>10, <1>11, <1>12 DEF Next

LEMMA StepRequests == IInv /\ [Next]_vars => RequestsWait'
<1> SUFFICES ASSUME IInv, [Next]_vars PROVE RequestsWait'
  OBVIOUS
<1> USE TimerAssumption DEF IInv, RequestsWait, Awaits
<1>1. /\ pc \in [Requests -> {"idle", "gate", "sent", "renew", "resent", "done"}]
      /\ \E S : wait \in [Waiters -> S]
      /\ Requests \subseteq Waiters /\ Timer \in Waiters
  BY DEF TypeOK, Waiters
<1>2. ASSUME NEW w \in Waiters, SilentRefresh(w)
      PROVE  \E p : p # 0 /\ wait' = [wait EXCEPT ![w] = p]
  BY <1>2, SilentRefreshAwaits
<1>3. ASSUME NEW r \in Requests, Fetch(r) PROVE RequestsWait'
  <2>1. CASE IsTokenExpired
    BY <1>1, <1>2, <1>3, <2>1 DEF Fetch
  <2>2. CASE ~IsTokenExpired
    BY <1>1, <1>3, <2>2 DEF Fetch
  <2> QED
    BY <2>1, <2>2
<1>4. ASSUME NEW r \in Requests, Unauthorized(r) PROVE RequestsWait'
  BY <1>1, <1>2, <1>4 DEF Unauthorized
<1>5. ASSUME NEW r \in Requests, Answered(r) \/ StillUnauthorized(r) \/ Resume(r) PROVE RequestsWait'
  BY <1>1, <1>5 DEF Answered, StillUnauthorized, Resume, Settled
<1>6. CASE TimerFires
  BY <1>1, <1>2, <1>6 DEF TimerFires
<1>7. CASE TimerResumes
  BY <1>1, <1>7 DEF TimerResumes
<1>8. CASE Reload
  BY <1>1, <1>8 DEF Reload
<1>9. ASSUME UNCHANGED <<pc, wait>> PROVE RequestsWait'
  BY <1>9
<1>10. CASE \/ \E p \in nets : SafetyNet(p)
            \/ \E p \in moments : Moment(p)
            \/ \E u \in Users : OnCredential(u)
            \/ RefuseCredential \/ AgentBuilt \/ BuildFails \/ SignOut
            \/ ScriptLoads \/ Ageing \/ UNCHANGED vars
  <2>1. UNCHANGED <<pc, wait>>
    BY <1>10 DEF SafetyNet, Moment, OnCredential, RefuseCredential, AgentBuilt, BuildFails, SignOut,
                 ScriptLoads, Ageing, vars
  <2> QED
    BY <1>9, <2>1
<1> QED
  BY <1>3, <1>4, <1>5, <1>6, <1>7, <1>8, <1>10 DEF Next

LEMMA AwaitedPromises == TypeOK => \A w \in Waiters : Awaits(w) => wait[w] \in Promises
  BY DEF TypeOK, Awaits

LEMMA SessionsDiffer == \A u \in Users, a \in Ages : [user |-> u, age |-> a] # None
  BY DEF None

LEMMA StepWait == IInv /\ [Next]_vars => WaitInv'
<1> SUFFICES ASSUME IInv, [Next]_vars PROVE WaitInv'
  OBVIOUS
<1> USE AwaitedPromises DEF IInv, WaitInv
<1>1. /\ wait \in [Waiters -> Promises \cup {0}]
      /\ Requests \subseteq Waiters /\ Timer \in Waiters /\ Timer \notin Requests
  BY TimerAssumption DEF TypeOK, Waiters
\* Somebody settles a promise while nobody may go on.
<1>2. ASSUME Quiet, UNCHANGED wait,
             NEW p \in Promises \cup {0}, NEW result \in {"ok", "failed"}, Done(p, result)
      PROVE  \A w \in Waiters : Settled(w)' => wait'[w] = p /\ outcome'[p] = result
  <2>1. ASSUME NEW w \in Waiters, Settled(w)' PROVE wait[w] = p /\ outcome'[p] = result
    <3>1. Awaits(w) /\ wait[w] \in Promises /\ outcome[wait[w]] = "pending"
      BY <1>2, <2>1 DEF Settled, Quiet, Awaits
    <3>2. wait[w] = p
      BY <1>2, <2>1, <3>1, DoneSettles DEF Settled
    <3>3. outcome'[p] \in {outcome[p], result} \ {"pending"}
      BY <1>2, <3>1, <3>2, DoneSettles DEF Awaits
    <3> QED
      BY <3>1, <3>2, <3>3
  <2> QED
    BY <1>2, <2>1
\* Somebody awaits a refresh while nobody may go on.
<1>3. ASSUME Quiet, NEW w \in Waiters, SilentRefresh(w)
      PROVE  /\ SettledTogether' /\ Renewed'
             /\ Awaits(w)' /\ \A v \in Waiters \ {w} : Awaits(v)' <=> Awaits(v)
  <2>1. PICK p \in Promises' : outcome'[p] # "ok" /\ wait' = [wait EXCEPT ![w] = p] /\ p # 0
    BY <1>3, SilentRefreshAwaits
  <2>2. \A q \in Promises : outcome'[q] = outcome[q]
    BY <1>3, SilentRefreshAwaits
  <2>3. wait'[w] = p /\ \A v \in Waiters \ {w} : wait'[v] = wait[v]
    BY <1>1, <2>1
  <2>4. ASSUME NEW v \in Waiters, Settled(v)' PROVE v = w
    BY <1>3, <2>2, <2>3, <2>4 DEF Settled, Quiet, Awaits
  <2> QED
    BY <2>1, <2>3, <2>4 DEF SettledTogether, Renewed, Awaits
<1>4. ASSUME Quiet, UNCHANGED <<refresh, wait>> PROVE SettledTogether' /\ Renewed'
  <2>1. \A w \in Waiters : ~Settled(w)'
    BY <1>4 DEF Quiet, Settled, Awaits, refresh
  <2> QED
    BY <2>1 DEF SettledTogether, Renewed
\* Who awaited a promise goes on: as the others will, since they await the same.
<1>5. ASSUME NEW w \in Waiters, Settled(w), wait' = [wait EXCEPT ![w] = 0], UNCHANGED refresh,
             outcome[wait[w]] = "ok" => UNCHANGED <<session, timer>>
      PROVE  SettledTogether' /\ Renewed'
  <2>1. \A v \in Waiters : Settled(v)' => Settled(v) /\ wait'[v] = wait[v]
    BY <1>1, <1>5 DEF Settled, Awaits, refresh
  <2>2. outcome' = outcome
    BY <1>5 DEF refresh
  <2>3. SettledTogether'
    BY <2>1 DEF SettledTogether
  <2>4. Renewed'
    BY <1>5, <2>1, <2>2 DEF SettledTogether, Renewed, SignedIn, IsTokenExpired
  <2> QED
    BY <2>3, <2>4
<1>6. LeaveSession => ~SignedIn'
  BY DEF LeaveSession, SignedIn
<1>7. ASSUME NEW p \in nets \cup moments, SafetyNet(p) \/ Moment(p) PROVE WaitInv'
  <2>1. /\ Quiet /\ p \in Promises \cup {0} /\ Done(p, "failed")
        /\ UNCHANGED <<session, timer, wait>>
    BY <1>7 DEF SafetyNet, Moment, TypeOK
  <2> QED
    BY <1>2, <2>1 DEF SettledTogether, Renewed, SessionWatched, SignedIn, Awaits
<1>8. ASSUME NEW u \in Users, OnCredential(u) PROVE WaitInv'
  <2>1. /\ Quiet /\ refreshResolve \in Promises \cup {0} /\ Done(refreshResolve, "ok")
        /\ session' = [user |-> u, age |-> "fresh"] /\ timer' = TRUE /\ UNCHANGED wait
    BY <1>8 DEF OnCredential, TypeOK
  <2>2. SignedIn' /\ ~IsTokenExpired'
    BY <2>1, SessionsDiffer DEF SignedIn, IsTokenExpired, Ages
  <2> QED
    BY <1>2, <2>1, <2>2 DEF SettledTogether, Renewed, SessionWatched
<1>9. CASE RefuseCredential
  <2>1. /\ Quiet /\ refreshResolve \in Promises \cup {0} /\ Done(refreshResolve, "failed")
        /\ UNCHANGED <<session, timer, wait>>
    BY <1>9 DEF RefuseCredential, TypeOK
  <2> QED
    BY <1>2, <2>1 DEF SettledTogether, Renewed, SessionWatched, SignedIn, Awaits
<1>10. CASE AgentBuilt \/ BuildFails \/ SignOut \/ ScriptLoads \/ Ageing
  <2>1. /\ Quiet /\ UNCHANGED <<refresh, wait>>
        /\ \/ UNCHANGED timer /\ SignedIn
           \/ LeaveSession
           \/ UNCHANGED <<session, timer>>
    BY <1>10 DEF AgentBuilt, BuildFails, SignOut, ScriptLoads, Ageing
  <2> QED
    BY <1>4, <1>6, <2>1 DEF SessionWatched, SignedIn, Awaits
<1>11. CASE TimerFires
  BY <1>1, <1>3, <1>11 DEF TimerFires, SessionWatched
<1>12. CASE TimerResumes
  <2>1. SettledTogether' /\ Renewed'
    BY <1>1, <1>5, <1>12 DEF TimerResumes
  <2>2. SessionWatched'
    BY <1>1, <1>6, <1>12 DEF TimerResumes, SessionWatched, Renewed, SignedIn
  <2> QED
    BY <2>1, <2>2
<1>13. ASSUME NEW r \in Requests, Fetch(r) PROVE WaitInv'
  <2>1. Quiet /\ UNCHANGED <<session, timer>> /\ (SilentRefresh(r) \/ UNCHANGED <<refresh, wait>>)
    BY <1>13 DEF Fetch
  <2> QED
    BY <1>1, <1>3, <1>4, <2>1 DEF SessionWatched, SignedIn, Awaits
<1>14. ASSUME NEW r \in Requests, Unauthorized(r) PROVE WaitInv'
  BY <1>1, <1>3, <1>14 DEF Unauthorized, SessionWatched, SignedIn, Awaits
<1>15. ASSUME NEW r \in Requests, Answered(r) \/ StillUnauthorized(r) PROVE WaitInv'
  <2>1. Quiet /\ UNCHANGED <<refresh, wait>> /\ (LeaveSession \/ UNCHANGED <<session, timer>>)
    BY <1>15 DEF Answered, StillUnauthorized
  <2> QED
    BY <1>4, <1>6, <2>1 DEF SessionWatched, SignedIn, Awaits
<1>16. ASSUME NEW r \in Requests, Resume(r) PROVE WaitInv'
  <2>1. SettledTogether' /\ Renewed'
    BY <1>1, <1>5, <1>16 DEF Resume
  <2>2. wait'[Timer] = wait[Timer] /\ (LeaveSession \/ UNCHANGED <<session, timer>>)
    BY <1>1, <1>16 DEF Resume
  <2> QED
    BY <1>6, <2>1, <2>2 DEF SessionWatched, SignedIn, Awaits
<1>17. CASE Reload
  <2>1. /\ \A w \in Waiters : ~Settled(w)'
        /\ timer' = ~IsTokenExpired /\ session' = (IF IsTokenExpired THEN None ELSE session)
    BY <1>17 DEF Reload, Settled, Awaits
  <2> QED
    BY <2>1 DEF SettledTogether, Renewed, SessionWatched, SignedIn
<1>18. CASE UNCHANGED vars
  <2>1. UNCHANGED <<session, timer, outcome, wait>>
    BY <1>18 DEF vars, refresh
  <2>2. \A w \in Waiters : (Settled(w)' <=> Settled(w)) /\ (Awaits(w)' <=> Awaits(w))
    BY <2>1 DEF Settled, Awaits
  <2>3. (SignedIn' <=> SignedIn) /\ (IsTokenExpired' <=> IsTokenExpired)
    BY <2>1 DEF SignedIn, IsTokenExpired
  <2> QED
    BY <1>1, <2>1, <2>2, <2>3 DEF SettledTogether, Renewed, SessionWatched
<1> HIDE DEF IInv, WaitInv
<1> QED
  BY <1>7, <1>8, <1>9, <1>10, <1>11, <1>12, <1>13, <1>14, <1>15, <1>16, <1>17, <1>18 DEF Next

LEMMA StepAgent == TypeOK /\ SignedInHasAgent /\ [Next]_vars => SignedInHasAgent'
<1> SUFFICES ASSUME TypeOK, SignedInHasAgent, [Next]_vars PROVE SignedInHasAgent'
  OBVIOUS
<1> USE DEF SignedInHasAgent, SignedIn
<1>1. building \in Nat
  BY DEF TypeOK
<1>2. CASE AgentBuilt
  BY <1>2 DEF AgentBuilt
<1>2a. CASE BuildFails
  <2>1. /\ building' = building - 1 /\ UNCHANGED <<session, agent>>
        /\ broken' <=> (session # None /\ ~agent /\ building = 1)
    BY <1>2a DEF BuildFails
  <2>2. CASE building = 1 \/ agent
    BY <2>1, <2>2
  <2>3. CASE building # 1 /\ ~agent
    <3>1. building' > 0
      BY <1>1, <1>2a, <2>1, <2>3 DEF BuildFails
    <3> QED
      BY <3>1
  <2> QED
    BY <2>2, <2>3
<1>2b. CASE Reload
  BY <1>2b DEF Reload, IsTokenExpired
<1>2c. ASSUME NEW u \in Users, OnCredential(u) PROVE SignedInHasAgent'
  <2>1. CASE SignedIn /\ agent
    BY <1>2c, <2>1 DEF OnCredential
  <2>2. CASE ~(SignedIn /\ agent)
    BY <1>1, <1>2c, <2>2 DEF OnCredential
  <2> QED
    BY <2>1, <2>2
<1>3. ASSUME LeaveSession \/ (UNCHANGED <<agent, building, broken>> /\ (SignedIn' => SignedIn))
      PROVE  SignedInHasAgent'
  BY <1>3 DEF LeaveSession
<1>4. CASE \/ \E p \in nets : SafetyNet(p)
           \/ \E p \in moments : Moment(p)
           \/ RefuseCredential \/ SignOut \/ TimerFires \/ TimerResumes \/ ScriptLoads \/ Ageing
           \/ UNCHANGED vars
  <2>1. LeaveSession \/ (UNCHANGED <<agent, building, broken>> /\ (SignedIn' => SignedIn))
    BY <1>4 DEF SafetyNet, Moment, RefuseCredential, SignOut, TimerFires, TimerResumes, ScriptLoads,
                Ageing, vars
  <2> QED
    BY <1>3, <2>1
<1>5. ASSUME NEW r \in Requests,
             Fetch(r) \/ Answered(r) \/ Unauthorized(r) \/ StillUnauthorized(r) \/ Resume(r)
      PROVE  SignedInHasAgent'
  <2>1. LeaveSession \/ (UNCHANGED <<agent, building, broken>> /\ (SignedIn' => SignedIn))
    BY <1>5 DEF Fetch, Answered, Unauthorized, StillUnauthorized, Resume
  <2> QED
    BY <1>3, <2>1
<1> QED
  BY <1>2, <1>2a, <1>2b, <1>2c, <1>4, <1>5 DEF Next

(***************************************************************************)
(* The theorems.                                                           *)
(***************************************************************************)
LEMMA InitInv == Init => IInv
<1> SUFFICES ASSUME Init PROVE IInv
  OBVIOUS
<1>1. TypeOK
  BY InitType
<1>2. \A w \in Waiters : ~Awaits(w) /\ ~Settled(w)
  BY DEF Init, Awaits, Settled
<1>3. RequestsWait /\ SettledTogether /\ Renewed
  BY <1>2 DEF Init, RequestsWait, SettledTogether, Renewed, Waiters
<1>4. SharedRefresh /\ Joinable /\ SessionWatched /\ SignedInHasAgent
  BY DEF Init, SharedRefresh, Joinable, Promises, SessionWatched, SignedInHasAgent
<1> QED
  BY <1>1, <1>3, <1>4 DEF IInv, WaitInv

LEMMA StepInv == IInv /\ [Next]_vars => IInv'
  BY StepType, StepRefresh, StepRequests, StepWait, StepAgent DEF IInv

\* The variables of the page keep their types.
THEOREM TypeCorrect == Spec => []TypeOK
<1>1. IInv => TypeOK
  BY DEF IInv
<1> QED
  BY InitInv, StepInv, <1>1, PTL DEF Spec

\* No late answer of Google's, no safety net and no second caller leaves a refresh
\* pending that nobody can join, answer or end.
THEOREM RefreshIsShared == Spec => []SharedRefresh
<1>1. IInv => SharedRefresh
  BY DEF IInv
<1> QED
  BY InitInv, StepInv, <1>1, PTL DEF Spec

\* A signed-in session never loses its refresh timer, whichever callback renews or
\* ends it.
THEOREM SessionIsWatched == Spec => []SessionWatched
<1>1. IInv => SessionWatched
  BY DEF IInv, WaitInv
<1> QED
  BY InitInv, StepInv, <1>1, PTL DEF Spec

\* Whoever is signed in has an agent, or one is being built, or the last construction
\* was rejected and no credential has begun another.
THEOREM AgentIsThere == Spec => []SignedInHasAgent
<1>1. IInv => SignedInHasAgent
  BY DEF IInv
<1> QED
  BY InitInv, StepInv, <1>1, PTL DEF Spec

\* No call of the API goes out signed out or with a credential known to have expired:
\* a call that awaited a refresh goes on while the session is as new as the refresh
\* made it.
THEOREM NeverStale == Spec => NoStaleSend
<1>1. IInv /\ [Next]_vars =>
        \A r \in Requests :
          pc[r] \notin {"sent", "resent"} /\ pc'[r] \in {"sent", "resent"} => ~IsTokenExpired
  <2> SUFFICES ASSUME IInv, [Next]_vars, NEW r \in Requests,
                      pc[r] \notin {"sent", "resent"}, pc'[r] \in {"sent", "resent"}
               PROVE  ~IsTokenExpired
    OBVIOUS
  <2>1. pc \in [Requests -> {"idle", "gate", "sent", "renew", "resent", "done"}] /\ r \in Waiters
    BY DEF IInv, TypeOK, Waiters
  <2>2. CASE Fetch(r)
    BY <2>1, <2>2 DEF Fetch
  <2>3. CASE Resume(r)
    BY <2>1, <2>3 DEF Resume, IInv, WaitInv, Renewed
  <2>4. ASSUME NEW q \in Requests, Fetch(q) \/ Resume(q), q # r PROVE FALSE
    BY <2>1, <2>4 DEF Fetch, Resume
  <2>5. ASSUME NEW q \in Requests, Answered(q) \/ Unauthorized(q) \/ StillUnauthorized(q) PROVE FALSE
    BY <2>1, <2>5 DEF Answered, Unauthorized, StillUnauthorized
  <2>6. ASSUME \/ \E p \in nets : SafetyNet(p)
               \/ \E p \in moments : Moment(p)
               \/ \E u \in Users : OnCredential(u)
               \/ RefuseCredential \/ AgentBuilt \/ BuildFails \/ SignOut \/ TimerFires \/ TimerResumes
               \/ ScriptLoads \/ Ageing \/ Reload \/ UNCHANGED vars
        PROVE  FALSE
    BY <2>1, <2>6 DEF SafetyNet, Moment, OnCredential, RefuseCredential, AgentBuilt, BuildFails, SignOut,
                      TimerFires, TimerResumes, ScriptLoads, Ageing, Reload, vars
  <2> QED
    BY <2>2, <2>3, <2>4, <2>5, <2>6 DEF Next
<1> QED
  BY InitInv, StepInv, <1>1, PTL DEF Spec, NoStaleSend
================================================================================
