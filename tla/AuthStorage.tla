------------------------------ MODULE AuthStorage ------------------------------
(***************************************************************************)
(* The credential store: tokens in a file that several instances share.    *)
(*   src/frontend/packages/coding-agent/src/core/auth-storage.ts           *)
(*                                                                         *)
(* Every instance keeps a copy of auth.json.  Reading and writing it is    *)
(* done under a lock that only a refresh holds for longer than one step:   *)
(* it awaits the provider meanwhile, and who wants the lock synchronously  *)
(* then goes without.  Tokens are numbered as they are issued; a refresh   *)
(* token is good for one refresh.  0 stands for no credential.             *)
(***************************************************************************)
EXTENDS Naturals

CONSTANTS
  Instances, Providers,
  Callers,         \* calls of getApiKey that may be under way at the same time
  InstanceOf,      \* the instance that each of them belongs to
  Nobody, Orphan,  \* no lock, and the lock of an instance that died
  MaxTokens, MaxCrashes    \* bounds of the model, not of the code

ASSUME InstanceAssumption == InstanceOf \in [Callers -> Instances]
ASSUME HolderAssumption == Nobody # Orphan /\ {Nobody, Orphan} \cap Callers = {}
ASSUME BoundAssumption == {MaxTokens, MaxCrashes} \subseteq Nat

VARIABLES
  file,            \* auth.json
  holder,          \* of the lock of auth.json
  up,              \* the instances that run
  data,            \* this.data of every instance
  loadError,       \* the instances whose last reload failed
  pc, provider,    \* of every call
  token,           \* the token a call refreshes
  issued, expired, \* the last token, and the last one whose time is over
  spent, lost,     \* tokens that were refreshed, and those whose successor got lost
  removed,         \* history: providers that somebody logged out of since the file got their token
  crashes

fileVars == <<file, holder>>
instanceVars == <<up, data, loadError>>
callVars == <<pc, provider, token>>
tokenVars == <<issued, expired, spent, lost>>
vars == <<fileVars, instanceVars, callVars, tokenVars, removed, crashes>>

Tokens == 0 .. MaxTokens
Nothing == [q \in Providers |-> 0]

TypeOK ==
  /\ file \in [Providers -> Tokens]
  /\ holder \in Callers \cup {Nobody, Orphan}
  /\ up \in SUBSET Instances
  /\ data \in [Instances -> [Providers -> Tokens]]
  /\ loadError \in SUBSET Instances
  /\ pc \in [Callers -> {"idle", "locking", "refreshing", "done", "failed", "fallback"}]
  /\ provider \in [Callers -> Providers \cup {Nobody}]
  /\ token \in [Callers -> Tokens]
  /\ issued \in Tokens
  /\ expired \in Tokens
  /\ spent \in SUBSET Tokens
  /\ lost \in SUBSET Tokens
  /\ removed \in SUBSET Providers
  /\ crashes \in 0 .. MaxCrashes

Init ==
  /\ file = Nothing
  /\ holder = Nobody
  /\ up = Instances
  /\ data = [i \in Instances |-> Nothing]
  /\ loadError = {}
  /\ pc = [c \in Callers |-> "idle"]
  /\ provider = [c \in Callers |-> Nobody]
  /\ token = [c \in Callers |-> 0]
  /\ issued = 0
  /\ expired = 0
  /\ spent = {} /\ lost = {} /\ removed = {}
  /\ crashes = 0

Go(c, to) == pc' = [pc EXCEPT ![c] = to]
Forget(c) == token' = [token EXCEPT ![c] = 0]
Return(c) == Go(c, "idle") /\ provider' = [provider EXCEPT ![c] = Nobody]
Expired(t) == t \in 1 .. expired
Issue == issued < MaxTokens /\ issued' = issued + 1

\* reload: without the lock the copy stays as it is
Reload(i) ==
  IF holder = Nobody
  THEN data' = [data EXCEPT ![i] = file] /\ loadError' = loadError \ {i}
  ELSE data' = data /\ loadError' = loadError \cup {i}

(***************************************************************************)
(* Logging in and out.                                                     *)
(***************************************************************************)
\* (mutant) the copy is written as it is
PersistCopy(i, q, t) ==
  file' = IF i \in loadError \/ holder # Nobody THEN file ELSE [data[i] EXCEPT ![q] = t]

\* persistProviderChange: not after a reload that failed, nor without the lock
Persist(i, q, t) ==
  file' = IF i \in loadError \/ holder # Nobody THEN file ELSE [file EXCEPT ![q] = t]

Renewed == removed' = {q \in removed : file'[q] \in {0, file[q]}}

\* set, with the token of a login
Login(i, q) ==
  /\ i \in up
  /\ Issue
  /\ data' = [data EXCEPT ![i][q] = issued + 1]
  /\ Persist(i, q, issued + 1)
  /\ Renewed
  /\ UNCHANGED <<holder, up, loadError, callVars, expired, spent, lost, crashes>>

\* remove
Logout(i, q) ==
  /\ i \in up
  /\ data[i][q] # 0
  /\ data' = [data EXCEPT ![i][q] = 0]
  /\ Persist(i, q, 0)
  /\ removed' = removed \cup {q}
  /\ UNCHANGED <<holder, up, loadError, callVars, tokenVars, crashes>>

(***************************************************************************)
(* getApiKey: the calls that find an expired token.                        *)
(***************************************************************************)
\* Tokens are good for equally long.
Expire ==
  /\ expired < issued
  /\ expired' = expired + 1
  /\ UNCHANGED <<fileVars, instanceVars, callVars, issued, spent, lost, removed, crashes>>

GetApiKey(c, q) ==
  /\ pc[c] = "idle" /\ InstanceOf[c] \in up
  /\ Expired(data[InstanceOf[c]][q])
  /\ provider' = [provider EXCEPT ![c] = q]
  /\ Go(c, "locking")
  /\ UNCHANGED <<fileVars, instanceVars, token, tokenVars, removed, crashes>>

\* (mutant) the copy is trusted under the lock
AcquireTrusting(c) ==
  /\ pc[c] = "locking"
  /\ holder = Nobody /\ holder' = c
  /\ token' = [token EXCEPT ![c] = data[InstanceOf[c]][provider[c]]]
  /\ Go(c, IF Expired(data[InstanceOf[c]][provider[c]]) THEN "refreshing" ELSE "done")
  /\ UNCHANGED <<file, instanceVars, provider, tokenVars, removed, crashes>>

\* refreshOAuthTokenWithLock, up to the request: somebody else may have refreshed meanwhile
Acquire(c) ==
  LET i == InstanceOf[c] IN
  /\ pc[c] = "locking"
  /\ holder = Nobody /\ holder' = c
  /\ data' = [data EXCEPT ![i] = file]
  /\ loadError' = loadError \ {i}
  /\ \/ /\ Expired(file[provider[c]])
        /\ token' = [token EXCEPT ![c] = file[provider[c]]]
        /\ Go(c, "refreshing")
     \/ /\ ~Expired(file[provider[c]])
        /\ Go(c, "done") /\ UNCHANGED token
  /\ UNCHANGED <<file, up, provider, tokenVars, removed, crashes>>

\* the retries of the lock are used up
GiveUp(c) ==
  /\ pc[c] = "locking"
  /\ holder # Nobody
  /\ Go(c, "fallback")
  /\ UNCHANGED <<fileVars, instanceVars, provider, token, tokenVars, removed, crashes>>

\* (mutant) the new token is kept in the copy alone
RefreshedUnsaved(c) ==
  LET i == InstanceOf[c] merged == [data[i] EXCEPT ![provider[c]] = issued + 1] IN
  /\ pc[c] = "refreshing"
  /\ token[c] \notin spent
  /\ Issue
  /\ spent' = spent \cup {token[c]}
  /\ data' = [data EXCEPT ![i] = merged]
  /\ file' = file
  /\ loadError' = loadError \ {i}
  /\ Renewed
  /\ Go(c, "done") /\ Forget(c)
  /\ UNCHANGED <<holder, up, provider, expired, lost, crashes>>

\* The new token goes into the copy, which other calls of the instance may have changed
\* since, and the copy into the file.
Refreshed(c) ==
  LET i == InstanceOf[c] merged == [data[i] EXCEPT ![provider[c]] = issued + 1] IN
  /\ pc[c] = "refreshing"
  /\ token[c] \notin spent
  /\ Issue
  /\ spent' = spent \cup {token[c]}
  /\ data' = [data EXCEPT ![i] = merged]
  /\ file' = merged
  /\ loadError' = loadError \ {i}
  /\ Renewed
  /\ Go(c, "done") /\ Forget(c)
  /\ UNCHANGED <<holder, up, provider, expired, lost, crashes>>

\* the request does not reach the provider, its answer does not come, or it is refused
LoseAnswer(tokens) ==
  \/ UNCHANGED <<spent, lost>>
  \/ /\ spent' = spent \cup tokens
     /\ lost' = lost \cup (tokens \ spent)

RefreshFails(c) ==
  /\ pc[c] = "refreshing"
  /\ LoseAnswer({token[c]})
  /\ Go(c, "failed") /\ Forget(c)
  /\ UNCHANGED <<fileVars, instanceVars, provider, issued, expired, removed, crashes>>

\* finally: release
Release(c) ==
  /\ \/ pc[c] = "done" /\ Return(c)
     \/ pc[c] = "failed" /\ Go(c, "fallback") /\ UNCHANGED provider
  /\ holder' = Nobody
  /\ UNCHANGED <<file, instanceVars, token, tokenVars, removed, crashes>>

\* the token of another instance, if it got one
Fallback(c) ==
  /\ pc[c] = "fallback"
  /\ Reload(InstanceOf[c])
  /\ Return(c)
  /\ UNCHANGED <<fileVars, up, token, tokenVars, removed, crashes>>

(***************************************************************************)
(* Instances come and go.                                                  *)
(***************************************************************************)
Crash(i) ==
  LET mine == {c \in Callers : InstanceOf[c] = i} IN
  /\ i \in up
  /\ crashes < MaxCrashes /\ crashes' = crashes + 1
  /\ up' = up \ {i}
  /\ data' = [data EXCEPT ![i] = Nothing]
  /\ loadError' = loadError \ {i}
  /\ pc' = [c \in Callers |-> IF c \in mine THEN "idle" ELSE pc[c]]
  /\ provider' = [c \in Callers |-> IF c \in mine THEN Nobody ELSE provider[c]]
  /\ token' = [c \in Callers |-> IF c \in mine THEN 0 ELSE token[c]]
  /\ LoseAnswer({token[c] : c \in {d \in mine : pc[d] = "refreshing"}})
  /\ holder' = IF holder \in mine THEN Orphan ELSE holder
  /\ UNCHANGED <<file, issued, expired, removed>>

\* a lock that nobody renews is stale after a while
OrphanExpires ==
  /\ holder = Orphan /\ holder' = Nobody
  /\ UNCHANGED <<file, instanceVars, callVars, tokenVars, removed, crashes>>

Start(i) ==
  /\ i \notin up
  /\ up' = up \cup {i}
  /\ Reload(i)
  /\ UNCHANGED <<fileVars, callVars, tokenVars, removed, crashes>>

CallStep(c) ==
  \/ \E q \in Providers : GetApiKey(c, q)
  \/ Acquire(c) \/ GiveUp(c) \/ Refreshed(c) \/ RefreshFails(c) \/ Release(c) \/ Fallback(c)

Next ==
  \/ \E i \in Instances, q \in Providers : Login(i, q) \/ Logout(i, q)
  \/ Expire
  \/ \E c \in Callers : CallStep(c)
  \/ \E i \in Instances : Crash(i) \/ Start(i)
  \/ OrphanExpires

Spec == Init /\ [][Next]_vars

(***************************************************************************)
(* Properties.                                                             *)
(***************************************************************************)
Known == spent \ lost

\* "Uses file locking to prevent race conditions when multiple pi instances try to
\* refresh tokens simultaneously" (auth-storage.ts:5): no refresh token is presented
\* that another call has already exchanged for a new one.
RefreshOnce == \A c \in Callers : pc[c] = "refreshing" => token[c] \notin Known

\* The file never holds a refresh token that was exchanged, unless its successor got
\* lost on the way.
FileCanRefresh == \A q \in Providers : file[q] \notin Known

\* For no provider does the file go back to an older token.
FileNeverBack == [][\A q \in Providers : file'[q] # 0 => file'[q] >= file[q]]_vars

\* Nobody's write takes away a credential that was not logged out of.
NothingVanishes ==
  [][\A q \in Providers : file[q] # 0 /\ file'[q] = 0 => q \in removed']_vars
===============================================================================
