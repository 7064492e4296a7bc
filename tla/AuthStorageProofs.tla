-------------------------- MODULE AuthStorageProofs --------------------------
(***************************************************************************)
(* Proofs about AuthStorage, for any number of instances and calls.        *)
(*                                                                         *)
(* The lock is what everything rests on: whoever refreshes holds it, so    *)
(* that the file stays as it was when it was read under the lock, and the  *)
(* copy that will be merged can differ from it by logins and logouts alone. *)
(***************************************************************************)
EXTENDS AuthStorage, TLAPS

LEMMA NatAssumption == MaxTokens \in Nat /\ MaxCrashes \in Nat
  BY BoundAssumption

\* Types, and who asks for a token asks for that of a provider.
Typed ==
  /\ TypeOK
  /\ \A c \in Callers : pc[c] \in {"locking", "refreshing"} => provider[c] \in Providers

\* Who works under the lock holds it.
LockHeld == \A c \in Callers : pc[c] \in {"refreshing", "done", "failed"} => holder = c

\* No token comes from the future.
Past(tokens) == \A q \in Providers : tokens[q] <= issued
Issued ==
  /\ Past(file)
  /\ \A i \in Instances : Past(data[i])
  /\ \A t \in spent : t <= issued

\* Two providers never have the same token.
Distinct(tokens) == \A q, r \in Providers : tokens[q] = tokens[r] => q = r \/ tokens[q] = 0

\* What a refresh will merge: the file, but for logins and logouts.
Mergeable(copy) ==
  /\ Distinct(copy)
  /\ \A q \in Providers :
       /\ copy[q] \notin Known
       /\ copy[q] # 0 => copy[q] >= file[q]
       /\ copy[q] = 0 /\ file[q] # 0 => q \in removed

Refreshing(c) ==
  /\ token[c] # 0
  /\ token[c] = file[provider[c]]
  /\ Mergeable(data[InstanceOf[c]])
  /\ \A q \in Providers : data[InstanceOf[c]][q] = token[c] => q = provider[c]

IInv ==
  /\ Typed
  /\ LockHeld
  /\ Issued
  /\ 0 \notin spent
  /\ Distinct(file)
  /\ FileCanRefresh
  /\ \A c \in Callers : pc[c] = "refreshing" => Refreshing(c)

(***************************************************************************)
(* Types.                                                                  *)
(***************************************************************************)
LEMMA InitTyped == Init => Typed
  BY NatAssumption DEF Init, Typed, TypeOK, Tokens, Nothing

LEMMA StepTyped == Typed /\ [Next]_vars => Typed'
<1> SUFFICES ASSUME Typed, [Next]_vars PROVE Typed'
  OBVIOUS
<1> USE NatAssumption, InstanceAssumption DEF Typed, TypeOK, Tokens
<1>1. ASSUME NEW i \in Instances, NEW q \in Providers, Login(i, q) PROVE Typed'
  BY <1>1 DEF Login, Issue, Persist, Renewed, vars, fileVars, instanceVars, callVars, tokenVars
<1>2. ASSUME NEW i \in Instances, NEW q \in Providers, Logout(i, q) PROVE Typed'
  BY <1>2 DEF Logout, Persist, vars, fileVars, instanceVars, callVars, tokenVars
<1>3. CASE Expire
  BY <1>3 DEF Expire, vars, fileVars, instanceVars, callVars, tokenVars
<1>4. ASSUME NEW c \in Callers, NEW q \in Providers, GetApiKey(c, q) PROVE Typed'
  BY <1>4 DEF GetApiKey, Go, vars, fileVars, instanceVars, callVars, tokenVars
<1>5. ASSUME NEW c \in Callers, Acquire(c) PROVE Typed'
  <2>1. data' \in [Instances -> [Providers -> Tokens]] /\ loadError' \in SUBSET Instances
    BY <1>5 DEF Acquire
  <2>2. /\ pc' \in [Callers -> {"idle", "locking", "refreshing", "done", "failed", "fallback"}]
        /\ \A d \in Callers : pc'[d] \in {"locking", "refreshing"} => provider'[d] \in Providers
    BY <1>5 DEF Acquire, Go
  <2>3. token' \in [Callers -> Tokens] /\ holder' \in Callers \cup {Nobody, Orphan}
    BY <1>5 DEF Acquire
  <2> QED
    BY <1>5, <2>1, <2>2, <2>3 DEF Acquire, tokenVars
<1>6. ASSUME NEW c \in Callers, GiveUp(c) PROVE Typed'
  BY <1>6 DEF GiveUp, Go, vars, fileVars, instanceVars, callVars, tokenVars
<1>7. ASSUME NEW c \in Callers, Refreshed(c) PROVE Typed'
  <2>1. PICK i \in Instances : i = InstanceOf[c]
    OBVIOUS
  <2>2. issued' \in Tokens /\ spent' \in SUBSET Tokens
    <3>1. issued' \in Tokens
      BY <1>7 DEF Refreshed, Issue
    <3>2. token[c] \in Tokens /\ spent' = spent \cup {token[c]}
      BY <1>7 DEF Refreshed
    <3> QED
      BY <3>1, <3>2
  <2>3. [data[i] EXCEPT ![provider[c]] = issued + 1] \in [Providers -> Tokens]
    <3>1. data[i] \in [Providers -> Tokens]
      OBVIOUS
    <3>2. issued + 1 \in Tokens
      BY <1>7 DEF Refreshed, Issue
    <3> QED
      BY <3>1, <3>2
  <2>4. file' \in [Providers -> Tokens] /\ data' \in [Instances -> [Providers -> Tokens]]
    BY <1>7, <2>1, <2>3 DEF Refreshed
  <2>5. loadError' \in SUBSET Instances /\ removed' \in SUBSET Providers
    BY <1>7 DEF Refreshed, Renewed
  <2>6. /\ pc' \in [Callers -> {"idle", "locking", "refreshing", "done", "failed", "fallback"}]
        /\ token' \in [Callers -> Tokens]
        /\ \A d \in Callers : pc'[d] \in {"locking", "refreshing"} => provider'[d] \in Providers
    BY <1>7 DEF Refreshed, Go, Forget
  <2> QED
    BY <1>7, <2>2, <2>4, <2>5, <2>6 DEF Refreshed
<1>8. ASSUME NEW c \in Callers, RefreshFails(c) PROVE Typed'
  <2>1. spent' \in SUBSET Tokens /\ lost' \in SUBSET Tokens
    BY <1>8 DEF RefreshFails, LoseAnswer
  <2>2. /\ pc' \in [Callers -> {"idle", "locking", "refreshing", "done", "failed", "fallback"}]
        /\ token' \in [Callers -> Tokens]
        /\ \A d \in Callers : pc'[d] \in {"locking", "refreshing"} => provider'[d] \in Providers
    BY <1>8 DEF RefreshFails, Go, Forget
  <2> QED
    BY <1>8, <2>1, <2>2 DEF RefreshFails, fileVars, instanceVars
<1>9. ASSUME NEW c \in Callers, Release(c) PROVE Typed'
  BY <1>9 DEF Release, Return, Go, vars, fileVars, instanceVars, callVars, tokenVars
<1>10. ASSUME NEW c \in Callers, Fallback(c) PROVE Typed'
  BY <1>10 DEF Fallback, Reload, Return, Go, vars, fileVars, instanceVars, callVars, tokenVars
<1>11. ASSUME NEW i \in Instances, Crash(i) PROVE Typed'
  <2>1. spent' \in SUBSET Tokens /\ lost' \in SUBSET Tokens
    BY <1>11 DEF Crash, LoseAnswer
  <2>2. data' \in [Instances -> [Providers -> Tokens]] /\ {up', loadError'} \subseteq SUBSET Instances
    BY <1>11 DEF Crash, Nothing
  <2>3. /\ pc' \in [Callers -> {"idle", "locking", "refreshing", "done", "failed", "fallback"}]
        /\ token' \in [Callers -> Tokens]
        /\ provider' \in [Callers -> Providers \cup {Nobody}]
        /\ \A d \in Callers : pc'[d] \in {"locking", "refreshing"} => provider'[d] \in Providers
    BY <1>11 DEF Crash
  <2>4. holder' \in Callers \cup {Nobody, Orphan} /\ crashes' \in 0 .. MaxCrashes
    BY <1>11 DEF Crash
  <2> QED
    BY <1>11, <2>1, <2>2, <2>3, <2>4 DEF Crash
<1>12. ASSUME NEW i \in Instances, Start(i) PROVE Typed'
  BY <1>12 DEF Start, Reload, vars, fileVars, instanceVars, callVars, tokenVars
<1>13. CASE OrphanExpires
  BY <1>13 DEF OrphanExpires, vars, fileVars, instanceVars, callVars, tokenVars
<1>14. CASE UNCHANGED vars
  BY <1>14 DEF vars, fileVars, instanceVars, callVars, tokenVars
<1> QED
  BY <1>1, <1>2, <1>3, <1>4, <1>5, <1>6, <1>7, <1>8, <1>9, <1>10, <1>11, <1>12, <1>13, <1>14
  DEF Next, CallStep

\* The store and the state of every call keep their types.
THEOREM TypeCorrect == Spec => []TypeOK
<1>1. Typed => TypeOK
  BY DEF Typed
<1> QED
  BY InitTyped, StepTyped, <1>1, PTL DEF Spec

(***************************************************************************)
(* The invariant.                                                          *)
(***************************************************************************)
Store ==
  /\ Past(file)
  /\ \A i \in Instances : Past(data[i])
  /\ Distinct(file)
  /\ FileCanRefresh
  /\ \A c \in Callers : pc[c] = "refreshing" => Refreshing(c)

LEMMA InitInv == Init => IInv
<1> SUFFICES ASSUME Init PROVE IInv
  OBVIOUS
<1>1. Typed
  BY InitTyped
<1>2. /\ LockHeld
      /\ \A c \in Callers : pc[c] = "refreshing" => Refreshing(c)
  BY DEF Init, LockHeld
<1>3. Issued /\ Distinct(file) /\ FileCanRefresh /\ 0 \notin spent
  BY DEF Init, Issued, Past, Nothing, Distinct, FileCanRefresh, Known
<1> QED
  BY <1>1, <1>2, <1>3 DEF IInv

\* Without a holder nobody refreshes.
LEMMA Alone == ASSUME IInv, holder = Nobody PROVE \A c \in Callers : pc[c] # "refreshing"
  BY HolderAssumption DEF IInv, LockHeld

\* Steps that leave the file, and the copies of those who refresh, as they are.
LEMMA StoreKept ==
  ASSUME IInv, UNCHANGED <<file, issued, removed>>, Known' = Known,
         \A i \in Instances : data'[i] = data[i] \/ data'[i] = file \/ data'[i] = Nothing,
         \A c \in Callers : pc'[c] = "refreshing" =>
           /\ pc[c] = "refreshing"
           /\ provider'[c] = provider[c] /\ token'[c] = token[c]
           /\ data'[InstanceOf[c]] = data[InstanceOf[c]]
  PROVE  Store'
<1>1. Past(file)' /\ Distinct(file)' /\ FileCanRefresh'
  BY DEF IInv, Issued, Past, Distinct, FileCanRefresh
<1>2. ASSUME NEW i \in Instances PROVE Past(data[i])'
  <2>1. issued \in Nat
    BY NatAssumption DEF IInv, Typed, TypeOK, Tokens
  <2> QED
    BY <2>1 DEF IInv, Issued, Past, Nothing
<1>3. ASSUME NEW c \in Callers, pc'[c] = "refreshing" PROVE Refreshing(c)'
  BY <1>3, InstanceAssumption DEF IInv, Refreshing, Mergeable, Distinct
<1> QED
  BY <1>1, <1>2, <1>3 DEF Store

\* What is spent was issued, and the answers that get lost change nothing else.
LEMMA SpentKept ==
  ASSUME IInv, NEW T, \A t \in T : t \in Nat \ {0} /\ t <= issued, LoseAnswer(T)
  PROVE  /\ Known' = Known
         /\ 0 \notin spent'
         /\ \A t \in spent' : t <= issued
  BY DEF IInv, Issued, LoseAnswer, Known

\* The token that is refreshed.
LEMMA TokenIssued ==
  ASSUME IInv, NEW c \in Callers, pc[c] = "refreshing"
  PROVE  token[c] \in Nat \ {0} /\ token[c] <= issued
<1>1. Refreshing(c) /\ provider[c] \in Providers /\ token[c] \in Nat
  BY NatAssumption DEF IInv, Typed, TypeOK, Tokens
<1> QED
  BY <1>1 DEF IInv, Issued, Past, Refreshing

LEMMA LoginInv ==
  ASSUME IInv, NEW i \in Instances, NEW q \in Providers, Login(i, q) PROVE Store'
<1>1. /\ issued \in Nat /\ issued' = issued + 1 /\ spent' = spent /\ Known' = Known
      /\ \A r \in Providers : file[r] \in Nat /\ file[r] <= issued
      /\ \A j \in Instances : \A r \in Providers : data[j][r] \in Nat /\ data[j][r] <= issued
      /\ issued + 1 \notin Known
  <2>1. issued \in Nat /\ file \in [Providers -> Nat] /\ data \in [Instances -> [Providers -> Nat]]
    BY NatAssumption DEF IInv, Typed, TypeOK, Tokens
  <2> QED
    BY <2>1 DEF IInv, Issued, Past, Login, Issue, Known
<1>2. /\ file' = file \/ (holder = Nobody /\ file' = [file EXCEPT ![q] = issued + 1])
      /\ data' = [data EXCEPT ![i][q] = issued + 1]
      /\ file \in [Providers -> Tokens] /\ data \in [Instances -> [Providers -> Tokens]]
      /\ UNCHANGED <<pc, provider, token>>
  BY DEF Login, Persist, IInv, Typed, TypeOK, callVars
<1>3. Past(file)' /\ Distinct(file)' /\ FileCanRefresh'
  <2>1. /\ file'[q] \in {file[q], issued + 1}
        /\ \A r \in Providers \ {q} : file'[r] = file[r]
    BY <1>2
  <2>2. Past(file)'
    BY <1>1, <2>1 DEF Past
  <2>3. Distinct(file)'
    BY <1>1, <2>1 DEF IInv, Distinct
  <2>4. FileCanRefresh'
    BY <1>1, <2>1 DEF IInv, FileCanRefresh
  <2> QED
    BY <2>2, <2>3, <2>4
<1>4. ASSUME NEW j \in Instances PROVE Past(data[j])'
  BY <1>1, <1>2 DEF Past
<1>5. ASSUME NEW c \in Callers, pc'[c] = "refreshing" PROVE Refreshing(c)'
  <2>1. Refreshing(c) /\ file' = file /\ provider[c] \in Providers
    BY <1>2, <1>5, Alone DEF IInv, Typed
  <2>2. removed' = removed
    BY <2>1 DEF Login, Renewed, IInv, Typed, TypeOK
  <2>3. CASE InstanceOf[c] = i
    <3>1. /\ data'[i][q] = issued + 1
          /\ \A r \in Providers \ {q} : data'[i][r] = data[i][r]
      BY <1>2
    <3>2. Distinct(data[i])'
      BY <1>1, <2>1, <2>3, <3>1 DEF Refreshing, Mergeable, Distinct
    <3>3. ASSUME NEW r \in Providers
          PROVE  /\ data'[i][r] \notin Known'
                 /\ data'[i][r] # 0 => data'[i][r] >= file'[r]
                 /\ data'[i][r] = 0 /\ file'[r] # 0 => r \in removed'
      BY <1>1, <2>1, <2>2, <2>3, <3>1 DEF Refreshing, Mergeable
    <3>4. ASSUME NEW r \in Providers, data'[i][r] = token[c] PROVE r = provider[c]
      BY <1>1, <2>1, <2>3, <3>1, <3>4 DEF Refreshing
    <3> QED
      BY <1>2, <2>1, <2>3, <3>2, <3>3, <3>4 DEF Refreshing, Mergeable
  <2>4. CASE InstanceOf[c] # i
    <3>1. data'[InstanceOf[c]] = data[InstanceOf[c]]
      BY <1>2, <2>4, InstanceAssumption
    <3> QED
      BY <1>1, <1>2, <2>1, <2>2, <3>1 DEF Refreshing, Mergeable, Distinct
  <2> QED
    BY <2>3, <2>4
<1> QED
  BY <1>3, <1>4, <1>5 DEF Store

LEMMA LogoutInv ==
  ASSUME IInv, NEW i \in Instances, NEW q \in Providers, Logout(i, q) PROVE Store'
<1>1. /\ issued \in Nat /\ UNCHANGED <<issued, spent, lost, pc, provider, token>>
      /\ removed' = removed \cup {q}
      /\ file' = file \/ (holder = Nobody /\ file' = [file EXCEPT ![q] = 0])
      /\ data' = [data EXCEPT ![i][q] = 0]
      /\ file \in [Providers -> Tokens] /\ data \in [Instances -> [Providers -> Tokens]]
  BY NatAssumption DEF Logout, Persist, IInv, Typed, TypeOK, Tokens, callVars, tokenVars
<1>2. 0 \notin Known /\ Known' = Known
  BY <1>1 DEF IInv, Known
<1>3. Past(file)' /\ Distinct(file)' /\ FileCanRefresh'
  BY <1>1, <1>2 DEF IInv, Issued, Past, Distinct, FileCanRefresh
<1>4. ASSUME NEW j \in Instances PROVE Past(data[j])'
  BY <1>1 DEF Past, IInv, Issued
<1>5. ASSUME NEW c \in Callers, pc'[c] = "refreshing" PROVE Refreshing(c)'
  <2>1. Refreshing(c) /\ file' = file
    BY <1>1, <1>5, Alone DEF IInv
  <2>2. CASE InstanceOf[c] = i
    <3>1. /\ data'[i][q] = 0
          /\ \A r \in Providers \ {q} : data'[i][r] = data[i][r]
      BY <1>1
    <3> QED
      BY <1>1, <1>2, <2>1, <2>2, <3>1 DEF Refreshing, Mergeable, Distinct
  <2>3. CASE InstanceOf[c] # i
    <3>1. data'[InstanceOf[c]] = data[InstanceOf[c]]
      BY <1>1, <2>3, InstanceAssumption
    <3> QED
      BY <1>1, <1>2, <2>1, <3>1 DEF Refreshing, Mergeable, Distinct
  <2> QED
    BY <2>2, <2>3
<1> QED
  BY <1>3, <1>4, <1>5 DEF Store

LEMMA AcquireInv == ASSUME IInv, NEW c \in Callers, Acquire(c) PROVE Store'
<1>1. /\ UNCHANGED <<file, issued, spent, lost, removed>> /\ Known' = Known
      /\ data' = [data EXCEPT ![InstanceOf[c]] = file]
      /\ data \in [Instances -> [Providers -> Tokens]]
      /\ InstanceOf[c] \in Instances
      /\ file \in [Providers -> Nat]
  BY NatAssumption, InstanceAssumption DEF Acquire, IInv, Typed, TypeOK, Tokens, tokenVars, Known
<1>2. Past(file)' /\ Distinct(file)' /\ FileCanRefresh'
  BY <1>1 DEF IInv, Issued, Past, Distinct, FileCanRefresh
<1>3. ASSUME NEW j \in Instances PROVE Past(data[j])'
  BY <1>1 DEF Past, IInv, Issued
<1>4. ASSUME NEW d \in Callers, pc'[d] = "refreshing" PROVE Refreshing(d)'
  <2>1. d = c
    BY <1>4, Alone DEF Acquire, Go, IInv, Typed, TypeOK
  <2>2. Expired(file[provider[c]]) /\ token'[c] = file[provider[c]] /\ provider' = provider
    BY <1>4, <2>1 DEF Acquire, Go, IInv, Typed, TypeOK
  <2>3. token'[c] # 0 /\ provider[c] \in Providers
    BY <2>2 DEF Expired, Acquire, IInv, Typed
  <2>4. data'[InstanceOf[c]] = file
    BY <1>1
  <2>5. Mergeable(file) /\ \A q \in Providers : file[q] = token'[c] => q = provider[c]
    BY <1>1, <2>2, <2>3 DEF Mergeable, IInv, FileCanRefresh, Distinct
  <2> QED
    BY <1>1, <2>1, <2>2, <2>3, <2>4, <2>5 DEF Refreshing, Mergeable, Distinct
<1> QED
  BY <1>2, <1>3, <1>4 DEF Store

LEMMA RefreshedInv == ASSUME IInv, NEW c \in Callers, Refreshed(c) PROVE Store'
<1> DEFINE i == InstanceOf[c]
           copy == data[i]
<1>1. /\ i \in Instances /\ provider[c] \in Providers
      /\ issued \in Nat /\ copy \in [Providers -> Nat]
      /\ data \in [Instances -> [Providers -> Tokens]]
      /\ Refreshing(c)
      /\ token[c] \in Nat \ {0} /\ token[c] <= issued
  BY NatAssumption, InstanceAssumption, TokenIssued DEF Refreshed, IInv, Typed, TypeOK, Tokens
<1>2. /\ issued' = issued + 1
      /\ file' = [copy EXCEPT ![provider[c]] = issued + 1]
      /\ data' = [data EXCEPT ![i] = file']
      /\ Known' \subseteq Known \cup {token[c]}
      /\ issued + 1 \notin Known'
  <2>1. issued' = issued + 1 /\ spent' = spent \cup {token[c]} /\ lost' = lost
    BY DEF Refreshed, Issue
  <2>2. issued + 1 \notin spent'
    BY <1>1, <2>1 DEF IInv, Issued
  <2> QED
    BY <2>1, <2>2 DEF Refreshed, Known
<1>3. /\ file'[provider[c]] = issued + 1
      /\ \A q \in Providers \ {provider[c]} :
           file'[q] = copy[q] /\ copy[q] \in Nat /\ copy[q] <= issued /\ copy[q] # token[c]
  BY <1>1, <1>2 DEF IInv, Issued, Past, Refreshing
<1>4. Past(file)'
  BY <1>1, <1>2, <1>3 DEF Past
<1>5. Distinct(file)'
  BY <1>1, <1>3 DEF Distinct, Refreshing, Mergeable
<1>6. FileCanRefresh'
  BY <1>1, <1>2, <1>3 DEF FileCanRefresh, Refreshing, Mergeable
<1>7. ASSUME NEW j \in Instances PROVE Past(data[j])'
  <2>1. data'[j] = file' \/ data'[j] = data[j]
    BY <1>1, <1>2
  <2>2. \A q \in Providers : data[j][q] \in Nat /\ data[j][q] <= issued
    BY NatAssumption DEF IInv, Issued, Past, Typed, TypeOK, Tokens
  <2> QED
    BY <1>1, <1>2, <1>4, <2>1, <2>2 DEF Past
<1>8. ASSUME NEW d \in Callers PROVE pc'[d] # "refreshing"
  BY <1>1 DEF Refreshed, Go, IInv, LockHeld, Typed, TypeOK
<1> QED
  BY <1>4, <1>5, <1>6, <1>7, <1>8 DEF Store

LEMMA LockStep == IInv /\ [Next]_vars => LockHeld'
<1> SUFFICES ASSUME IInv, [Next]_vars PROVE LockHeld'
  OBVIOUS
<1> USE HolderAssumption DEF IInv, LockHeld, Typed, TypeOK
<1>1. ASSUME NEW i \in Instances, NEW q \in Providers, Login(i, q) \/ Logout(i, q) PROVE LockHeld'
  BY <1>1 DEF Login, Logout, callVars
<1>2. CASE Expire
  BY <1>2 DEF Expire, fileVars, callVars
<1>3. ASSUME NEW c \in Callers, NEW q \in Providers, GetApiKey(c, q) PROVE LockHeld'
  BY <1>3 DEF GetApiKey, Go, fileVars
<1>4. ASSUME NEW c \in Callers, Acquire(c) PROVE LockHeld'
  BY <1>4 DEF Acquire, Go
<1>5. ASSUME NEW c \in Callers, GiveUp(c) PROVE LockHeld'
  BY <1>5 DEF GiveUp, Go, fileVars
<1>6. ASSUME NEW c \in Callers, Refreshed(c) PROVE LockHeld'
  BY <1>6 DEF Refreshed, Go
<1>7. ASSUME NEW c \in Callers, RefreshFails(c) PROVE LockHeld'
  BY <1>7 DEF RefreshFails, Go, fileVars
<1>8. ASSUME NEW c \in Callers, Release(c) PROVE LockHeld'
  BY <1>8 DEF Release, Return, Go
<1>9. ASSUME NEW c \in Callers, Fallback(c) PROVE LockHeld'
  BY <1>9 DEF Fallback, Return, Go, fileVars
<1>10. ASSUME NEW i \in Instances, Crash(i) PROVE LockHeld'
  BY <1>10 DEF Crash
<1>11. ASSUME NEW i \in Instances, Start(i) PROVE LockHeld'
  BY <1>11 DEF Start, fileVars, callVars
<1>12. CASE OrphanExpires
  BY <1>12 DEF OrphanExpires, callVars
<1>13. CASE UNCHANGED vars
  BY <1>13 DEF vars, fileVars, callVars
<1> QED
  BY <1>1, <1>2, <1>3, <1>4, <1>5, <1>6, <1>7, <1>8, <1>9, <1>10, <1>11, <1>12, <1>13
  DEF Next, CallStep

\* The tokens that a crash takes along were issued.
LEMMA RefreshingIssued ==
  ASSUME IInv, NEW S \in SUBSET {c \in Callers : pc[c] = "refreshing"}
  PROVE  \A t \in {token[c] : c \in S} : t \in Nat \ {0} /\ t <= issued
  BY TokenIssued

LEMMA SpentStep ==
  IInv /\ [Next]_vars => 0 \notin spent' /\ \A t \in spent' : t <= issued'
<1> SUFFICES ASSUME IInv, [Next]_vars PROVE 0 \notin spent' /\ \A t \in spent' : t <= issued'
  OBVIOUS
<1>1. issued \in Nat /\ spent \in SUBSET Nat /\ 0 \notin spent /\ \A t \in spent : t <= issued
  BY NatAssumption DEF IInv, Issued, Typed, TypeOK, Tokens
<1>2. ASSUME NEW c \in Callers, Refreshed(c)
      PROVE  0 \notin spent' /\ \A t \in spent' : t <= issued'
  <2>1. token[c] \in Nat \ {0} /\ token[c] <= issued
    BY <1>2, TokenIssued DEF Refreshed
  <2>2. spent' = spent \cup {token[c]} /\ issued' = issued + 1
    BY <1>2 DEF Refreshed, Issue
  <2> QED
    BY <1>1, <2>1, <2>2
<1>3. ASSUME NEW c \in Callers, RefreshFails(c)
      PROVE  0 \notin spent' /\ \A t \in spent' : t <= issued'
  <2>1. token[c] \in Nat \ {0} /\ token[c] <= issued
    BY <1>3, TokenIssued DEF RefreshFails
  <2>2. LoseAnswer({token[c]}) /\ issued' = issued
    BY <1>3 DEF RefreshFails
  <2> QED
    BY <1>1, <2>1, <2>2 DEF LoseAnswer
<1>4. ASSUME NEW i \in Instances, Crash(i)
      PROVE  0 \notin spent' /\ \A t \in spent' : t <= issued'
  <2>1. PICK S \in SUBSET {c \in Callers : pc[c] = "refreshing"} :
          LoseAnswer({token[c] : c \in S})
    BY <1>4 DEF Crash
  <2>2. issued' = issued
    BY <1>4 DEF Crash
  <2> QED
    BY <2>1, <2>2, RefreshingIssued, SpentKept
<1>5. ASSUME NEW i \in Instances, NEW q \in Providers, Login(i, q) \/ Logout(i, q)
      PROVE  spent' = spent /\ issued' \in {issued, issued + 1}
  BY <1>5 DEF Login, Logout, Issue, tokenVars
<1>6. ASSUME NEW c \in Callers,
             (\E q \in Providers : GetApiKey(c, q)) \/ Acquire(c) \/ GiveUp(c) \/ Release(c) \/ Fallback(c)
      PROVE  spent' = spent /\ issued' = issued
  BY <1>6 DEF GetApiKey, Acquire, GiveUp, Release, Fallback, tokenVars
<1>7. ASSUME Expire \/ OrphanExpires \/ UNCHANGED vars \/ \E i \in Instances : Start(i)
      PROVE  spent' = spent /\ issued' = issued
  BY <1>7 DEF Expire, OrphanExpires, vars, Start, tokenVars
<1>8. ASSUME spent' = spent, issued' \in {issued, issued + 1}
      PROVE  0 \notin spent' /\ \A t \in spent' : t <= issued'
  BY <1>1, <1>8
<1> QED
  BY <1>2, <1>3, <1>4, <1>5, <1>6, <1>7, <1>8 DEF Next, CallStep

LEMMA StoreStep == IInv /\ [Next]_vars => Store'
<1> SUFFICES ASSUME IInv, [Next]_vars PROVE Store'
  OBVIOUS
<1> USE InstanceAssumption
<1>1. ASSUME NEW i \in Instances, NEW q \in Providers, Login(i, q) \/ Logout(i, q) PROVE Store'
  BY <1>1, LoginInv, LogoutInv
<1>2. ASSUME NEW c \in Callers, Acquire(c) \/ Refreshed(c) PROVE Store'
  BY <1>2, AcquireInv, RefreshedInv
<1>3. CASE Expire \/ OrphanExpires \/ UNCHANGED vars
  <2>1. UNCHANGED <<file, data, pc, provider, token, issued, spent, lost, removed>>
    BY <1>3 DEF Expire, OrphanExpires, vars, fileVars, instanceVars, callVars, tokenVars
  <2> QED
    BY <2>1, StoreKept DEF Known
<1>4. ASSUME NEW c \in Callers, (\E q \in Providers : GetApiKey(c, q)) \/ GiveUp(c) \/ Release(c)
      PROVE  Store'
  <2>1. UNCHANGED <<file, data, token, issued, spent, lost, removed>>
    BY <1>4 DEF GetApiKey, GiveUp, Release, fileVars, instanceVars, tokenVars
  <2>2. ASSUME NEW d \in Callers, pc'[d] = "refreshing"
        PROVE  pc[d] = "refreshing" /\ provider'[d] = provider[d]
    BY <1>4, <2>2 DEF GetApiKey, GiveUp, Release, Return, Go, IInv, Typed, TypeOK
  <2> QED
    BY <2>1, <2>2, StoreKept DEF Known
<1>5. ASSUME NEW c \in Callers, RefreshFails(c) PROVE Store'
  <2>1. UNCHANGED <<file, data, provider, issued, removed>>
    BY <1>5 DEF RefreshFails, fileVars, instanceVars
  <2>2. Known' = Known
    <3>1. token[c] \in Nat \ {0} /\ token[c] <= issued
      BY <1>5, TokenIssued DEF RefreshFails
    <3>2. LoseAnswer({token[c]})
      BY <1>5 DEF RefreshFails
    <3> QED
      BY <3>1, <3>2, SpentKept
  <2>3. ASSUME NEW d \in Callers, pc'[d] = "refreshing"
        PROVE  pc[d] = "refreshing" /\ token'[d] = token[d]
    BY <1>5, <2>3 DEF RefreshFails, Go, Forget, IInv, Typed, TypeOK
  <2> QED
    BY <2>1, <2>2, <2>3, StoreKept
<1>6. ASSUME NEW i \in Instances, Start(i) PROVE Store'
  <2>1. UNCHANGED <<file, pc, provider, token, issued, spent, lost, removed>>
    BY <1>6 DEF Start, fileVars, callVars, tokenVars
  <2>2. data \in [Instances -> [Providers -> Tokens]]
    BY DEF IInv, Typed, TypeOK
  <2>3. CASE holder = Nobody
    <3>1. \A c \in Callers : pc[c] # "refreshing"
      BY <2>3, Alone
    <3>2. data' = [data EXCEPT ![i] = file]
      BY <1>6, <2>3 DEF Start, Reload
    <3> QED
      BY <2>1, <2>2, <3>1, <3>2, StoreKept DEF Known
  <2>4. CASE holder # Nobody
    <3>1. data' = data
      BY <1>6, <2>4 DEF Start, Reload
    <3> QED
      BY <2>1, <3>1, StoreKept DEF Known
  <2> QED
    BY <2>3, <2>4
<1>7. ASSUME NEW c \in Callers, Fallback(c) PROVE Store'
  <2>1. UNCHANGED <<file, token, issued, spent, lost, removed>>
    BY <1>7 DEF Fallback, fileVars, tokenVars
  <2>2. data \in [Instances -> [Providers -> Tokens]] /\ InstanceOf[c] \in Instances
    BY DEF IInv, Typed, TypeOK
  <2>3. ASSUME NEW d \in Callers, pc'[d] = "refreshing"
        PROVE  pc[d] = "refreshing" /\ provider'[d] = provider[d]
    BY <1>7, <2>3 DEF Fallback, Return, Go, IInv, Typed, TypeOK
  <2>4. CASE holder = Nobody
    <3>1. \A d \in Callers : pc[d] # "refreshing"
      BY <2>4, Alone
    <3>2. data' = [data EXCEPT ![InstanceOf[c]] = file]
      BY <1>7, <2>4 DEF Fallback, Reload
    <3> QED
      BY <2>1, <2>2, <2>3, <3>1, <3>2, StoreKept DEF Known
  <2>5. CASE holder # Nobody
    <3>1. data' = data
      BY <1>7, <2>5 DEF Fallback, Reload
    <3> QED
      BY <2>1, <2>3, <3>1, StoreKept DEF Known
  <2> QED
    BY <2>4, <2>5
<1>8. ASSUME NEW i \in Instances, Crash(i) PROVE Store'
  <2>1. UNCHANGED <<file, issued, removed>>
    BY <1>8 DEF Crash
  <2>2. Known' = Known
    <3>1. PICK S \in SUBSET {c \in Callers : pc[c] = "refreshing"} :
            LoseAnswer({token[c] : c \in S})
      BY <1>8 DEF Crash
    <3> QED
      BY <3>1, RefreshingIssued, SpentKept
  <2>3. data' = [data EXCEPT ![i] = Nothing] /\ data \in [Instances -> [Providers -> Tokens]]
    BY <1>8 DEF Crash, IInv, Typed, TypeOK
  <2>4. ASSUME NEW d \in Callers, pc'[d] = "refreshing"
        PROVE  /\ pc[d] = "refreshing" /\ provider'[d] = provider[d] /\ token'[d] = token[d]
               /\ data'[InstanceOf[d]] = data[InstanceOf[d]]
    BY <1>8, <2>3, <2>4 DEF Crash
  <2> QED
    BY <2>1, <2>2, <2>3, <2>4, StoreKept
<1> QED
  BY <1>1, <1>2, <1>3, <1>4, <1>5, <1>6, <1>7, <1>8 DEF Next, CallStep

LEMMA StepInv == IInv /\ [Next]_vars => IInv'
<1> SUFFICES ASSUME IInv, [Next]_vars PROVE IInv'
  OBVIOUS
<1>1. Typed'
  BY StepTyped DEF IInv
<1>2. LockHeld' /\ Store'
  BY LockStep, StoreStep
<1>3. 0 \notin spent' /\ \A t \in spent' : t <= issued'
  BY SpentStep
<1> QED
  BY <1>1, <1>2, <1>3 DEF IInv, Store, Issued

\* The invariant holds in every state of the store.
THEOREM InvCorrect == Spec => []IInv
  BY InitInv, StepInv, PTL DEF Spec

(***************************************************************************)
(* The properties.                                                         *)
(***************************************************************************)
\* No refresh token is presented that another call has already exchanged: a refresh
\* presents what it read in the file under the lock, which no exchanged token is in.
THEOREM RefreshedOnce == Spec => []RefreshOnce
<1>1. IInv => RefreshOnce
  BY DEF IInv, Typed, Refreshing, FileCanRefresh, RefreshOnce
<1> QED
  BY InvCorrect, <1>1, PTL

\* The file never holds an exchanged token whose successor arrived.
THEOREM FileRefreshes == Spec => []FileCanRefresh
<1>1. IInv => FileCanRefresh
  BY DEF IInv
<1> QED
  BY InvCorrect, <1>1, PTL

\* What a step does to the file: nothing, or a login, a logout or a refresh writes it.
LEMMA FileWritten ==
  ASSUME IInv, [Next]_vars
  PROVE  \/ file' = file
         \/ \E q \in Providers : file' = [file EXCEPT ![q] = issued + 1]
         \/ \E q \in Providers : file' = [file EXCEPT ![q] = 0] /\ q \in removed'
         \/ \E c \in Callers : Refreshed(c)
<1>1. ASSUME NEW i \in Instances, NEW q \in Providers, Login(i, q)
      PROVE  file' \in {file, [file EXCEPT ![q] = issued + 1]}
  BY <1>1 DEF Login, Persist
<1>2. ASSUME NEW i \in Instances, NEW q \in Providers, Logout(i, q)
      PROVE  file' \in {file, [file EXCEPT ![q] = 0]} /\ q \in removed'
  BY <1>2 DEF Logout, Persist
<1>3. ASSUME NEW c \in Callers, CallStep(c) PROVE file' = file \/ Refreshed(c)
  BY <1>3 DEF CallStep, GetApiKey, Acquire, GiveUp, RefreshFails, Release, Fallback, fileVars
<1>4. CASE \/ Expire \/ OrphanExpires \/ UNCHANGED vars
           \/ \E i \in Instances : Crash(i) \/ Start(i)
  BY <1>4 DEF Expire, OrphanExpires, Crash, Start, vars, fileVars
<1> QED
  BY <1>1, <1>2, <1>3, <1>4 DEF Next

\* What a refresh writes, provider by provider.
LEMMA RefreshWrites ==
  ASSUME IInv, NEW c \in Callers, Refreshed(c), NEW q \in Providers
  PROVE  /\ file'[q] # 0 => file'[q] >= file[q]
         /\ file[q] # 0 /\ file'[q] = 0 => q \in removed'
<1>1. /\ Refreshing(c) /\ provider[c] \in Providers /\ InstanceOf[c] \in Instances
      /\ data[InstanceOf[c]] \in [Providers -> Nat]
      /\ issued \in Nat /\ file[q] \in Nat /\ file[q] <= issued
  BY NatAssumption, InstanceAssumption DEF Refreshed, IInv, Issued, Past, Typed, TypeOK, Tokens
<1>2. /\ file' = [data[InstanceOf[c]] EXCEPT ![provider[c]] = issued + 1]
      /\ removed' = {r \in removed : file'[r] \in {0, file[r]}}
  BY DEF Refreshed, Renewed
<1>3. CASE q = provider[c]
  <2>1. file'[q] = issued + 1
    BY <1>1, <1>2, <1>3
  <2> QED
    BY <1>1, <2>1
<1>4. CASE q # provider[c]
  <2>1. file'[q] = data[InstanceOf[c]][q]
    BY <1>1, <1>2, <1>4
  <2> QED
    BY <1>1, <1>2, <2>1 DEF Refreshing, Mergeable
<1> QED
  BY <1>3, <1>4

\* The file never goes back to an older token: no login or refresh writes one that was
\* not just issued, and what a refresh merges is no older than the file.
THEOREM NeverBack == Spec => FileNeverBack
<1>1. IInv /\ [Next]_vars => \A q \in Providers : file'[q] # 0 => file'[q] >= file[q]
  <2> SUFFICES ASSUME IInv, [Next]_vars, NEW q \in Providers, file'[q] # 0
               PROVE  file'[q] >= file[q]
    OBVIOUS
  <2>1. issued \in Nat /\ file[q] \in Nat /\ file[q] <= issued /\ file \in [Providers -> Nat]
    BY NatAssumption DEF IInv, Issued, Past, Typed, TypeOK, Tokens
  <2>2. CASE \E c \in Callers : Refreshed(c)
    BY <2>2, RefreshWrites
  <2>3. CASE file'[q] \in {file[q], issued + 1, 0}
    BY <2>1, <2>3
  <2> QED
    BY <2>1, <2>2, <2>3, FileWritten
<1> QED
  BY InvCorrect, <1>1, PTL DEF Spec, FileNeverBack

\* No write takes away a credential that nobody logged out of, the merge of a refresh
\* included.
THEOREM NoneVanishes == Spec => NothingVanishes
<1>1. IInv /\ [Next]_vars => \A q \in Providers : file[q] # 0 /\ file'[q] = 0 => q \in removed'
  <2> SUFFICES ASSUME IInv, [Next]_vars, NEW q \in Providers, file[q] # 0, file'[q] = 0
               PROVE  q \in removed'
    OBVIOUS
  <2>1. issued + 1 # 0 /\ file \in [Providers -> Nat]
    BY NatAssumption DEF IInv, Typed, TypeOK, Tokens
  <2>2. CASE \E c \in Callers : Refreshed(c)
    BY <2>2, RefreshWrites
  <2>3. CASE \E r \in Providers : file' = [file EXCEPT ![r] = 0] /\ r \in removed'
    BY <2>1, <2>3
  <2>4. ASSUME file' = file \/ \E r \in Providers : file' = [file EXCEPT ![r] = issued + 1]
        PROVE  FALSE
    BY <2>1, <2>4
  <2> QED
    BY <2>2, <2>3, <2>4, FileWritten
<1> QED
  BY InvCorrect, <1>1, PTL DEF Spec, NothingVanishes
===============================================================================
