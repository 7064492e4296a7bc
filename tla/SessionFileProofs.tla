-------------------------- MODULE SessionFileProofs --------------------------
(***************************************************************************)
(* SessionFile, for any number of entries, files and crashes: type         *)
(* correctness, the three invariants of its runs, and what a fork keeps.   *)
(***************************************************************************)
EXTENDS SessionFile, Integers, SequenceTheorems, FiniteSetTheorems, TLAPS

(***************************************************************************)
(* Induction.  Its theorems in the library take an operator as parameter,  *)
(* but that strict inclusion of finite sets is well-founded needs none.    *)
(***************************************************************************)
LEMMA LeastNatural ==
  ASSUME NEW S \in SUBSET Nat, S # {}
  PROVE  \E m \in S : \A k \in S : m <= k
<1>1. PICK n \in S : TRUE
  OBVIOUS
<1> DEFINE F == {T \in SUBSET (0 .. n) : \E m \in S : m <= n /\ T = 0 .. m}
<1>2. IsWellFoundedOn(StrictSubsetOrdering(0 .. n), FiniteSubsetsOf(0 .. n))
  BY FS_StrictSubsetOrderingWellFounded
<1>3. F \subseteq FiniteSubsetsOf(0 .. n)
  <2>1. IsFiniteSet(0 .. n)
    BY FS_Interval, <1>1
  <2>2. \A T \in SUBSET (0 .. n) : IsFiniteSet(T)
    BY FS_Subset, <2>1
  <2> QED
    BY <2>2 DEF FiniteSubsetsOf
<1>4. F # {}
  <2>1. 0 .. n \in F
    BY <1>1
  <2> QED
    BY <2>1
<1>5. PICK T \in F : \A U \in F : <<U, T>> \notin StrictSubsetOrdering(0 .. n)
  BY <1>2, <1>3, <1>4, WFMin
<1>6. PICK m \in S : m <= n /\ T = 0 .. m
  BY <1>5
<1>7. ASSUME NEW k \in S, k < m PROVE FALSE
  <2>1. 0 .. k \in F
    BY <1>6, <1>7, <1>1
  <2>2. 0 .. k \subseteq 0 .. m /\ 0 .. k # 0 .. m
    <3>1. m \in 0 .. m /\ m \notin 0 .. k
      BY <1>7
    <3> QED
      BY <3>1, <1>7
  <2> QED
    BY <2>1, <2>2, <1>5, <1>6 DEF StrictSubsetOrdering
<1> QED
  BY <1>6, <1>7

\* Complete induction up to a bound.
LEMMA UpTo ==
  ASSUME NEW m \in Nat, NEW S,
         \A n \in 0 .. m : (0 .. n - 1) \subseteq S => n \in S
  PROVE  0 .. m \subseteq S
<1> DEFINE Bad == {n \in 0 .. m : n \notin S}
<1> SUFFICES ASSUME Bad # {} PROVE FALSE
  OBVIOUS
<1>1. PICK n \in Bad : \A k \in Bad : n <= k
  <2>1. Bad \in SUBSET Nat
    OBVIOUS
  <2> HIDE DEF Bad
  <2> QED
    BY <2>1, LeastNatural
<1>2. \A k \in 0 .. n - 1 : k \in S
  <2> TAKE k \in 0 .. n - 1
  <2>1. k \in 0 .. m /\ k < n
    BY <1>1
  <2> QED
    BY <1>1, <2>1
<1> QED
  BY <1>1, <1>2

LEMMA Greatest ==
  ASSUME NEW m \in Nat, NEW S \in SUBSET (1 .. m), S # {}
  PROVE  Max(S) \in S /\ \A k \in S : k <= Max(S)
<1> DEFINE D == {m - k : k \in S}
<1>1. D \in SUBSET Nat /\ D # {}
  <2>1. \A k \in S : m - k \in Nat
    OBVIOUS
  <2> QED
    BY <2>1
<1>2. PICK d \in D : \A k \in D : d <= k
  <2> HIDE DEF D
  <2> QED
    BY <1>1, LeastNatural
<1>3. PICK x \in S : d = m - x
  BY <1>2
<1>4. \A k \in S : x >= k
  <2> TAKE k \in S
  <2>1. m - k \in D
    OBVIOUS
  <2> QED
    BY <1>2, <1>3, <2>1
<1> QED
  BY <1>3, <1>4 DEF Max

(***************************************************************************)
(* Only: the elements of the given kinds, in their order.                  *)
(***************************************************************************)
IsOnly(g, es, kinds, n) ==
  \A i \in 0 .. n :
    g[i] = IF i = 0 THEN <<>>
           ELSE IF es[i].kind \in kinds THEN Append(g[i - 1], es[i]) ELSE g[i - 1]

LEMMA OnlyExists ==
  ASSUME NEW es, Len(es) \in Nat, NEW kinds
  PROVE  \E g : g = [i \in 0 .. Len(es) |->
                       IF i = 0 THEN <<>>
                       ELSE IF es[i].kind \in kinds THEN Append(g[i - 1], es[i]) ELSE g[i - 1]]
<1> DEFINE S == {n \in 0 .. Len(es) : \E g : DOMAIN g = 0 .. n /\ IsOnly(g, es, kinds, n)}
<1>1. ASSUME NEW n \in 0 .. Len(es), 0 .. n - 1 \subseteq S PROVE n \in S
  <2>1. CASE n = 0
    <3>1. IsOnly([i \in 0 .. 0 |-> <<>>], es, kinds, 0)
      BY DEF IsOnly
    <3> QED
      BY <2>1, <3>1
  <2>2. CASE n > 0
    <3>1. n - 1 \in S
      BY <1>1, <2>2
    <3>2. PICK g : DOMAIN g = 0 .. n - 1 /\ IsOnly(g, es, kinds, n - 1)
      BY <3>1
    <3> DEFINE h == [i \in 0 .. n |->
                       IF i < n THEN g[i]
                       ELSE IF es[i].kind \in kinds THEN Append(g[i - 1], es[i]) ELSE g[i - 1]]
    <3>3. ASSUME NEW i \in 0 .. n
          PROVE  h[i] = IF i = 0 THEN <<>>
                        ELSE IF es[i].kind \in kinds THEN Append(h[i - 1], es[i]) ELSE h[i - 1]
      <4>1. CASE i < n
        <5>1. i \in 0 .. n - 1 /\ h[i] = g[i] /\ (i # 0 => h[i - 1] = g[i - 1])
          BY <4>1, <2>2
        <5> QED
          BY <5>1, <3>2 DEF IsOnly
      <4>2. CASE i = n
        <5>1. h[i] = (IF es[i].kind \in kinds THEN Append(g[i - 1], es[i]) ELSE g[i - 1])
              /\ h[i - 1] = g[i - 1]
          BY <4>2, <2>2
        <5> QED
          BY <5>1, <4>2, <2>2
      <4> QED
        BY <4>1, <4>2
    <3>4. IsOnly(h, es, kinds, n) /\ DOMAIN h = 0 .. n
      <4> HIDE DEF h
      <4>1. IsOnly(h, es, kinds, n)
        BY <3>3 DEF IsOnly
      <4> QED
        BY <4>1 DEF h
    <3> QED
      BY <3>4
  <2> QED
    BY <2>1, <2>2
<1>2. Len(es) \in S
  <2> HIDE DEF S
  <2>1. 0 .. Len(es) \subseteq S
    BY <1>1, UpTo
  <2> QED
    BY <2>1
<1>3. PICK g : DOMAIN g = 0 .. Len(es) /\ IsOnly(g, es, kinds, Len(es))
  BY <1>2
<1> DEFINE h == [i \in 0 .. Len(es) |-> g[i]]
<1>4. \A i \in 0 .. Len(es) :
        h[i] = IF i = 0 THEN <<>>
               ELSE IF es[i].kind \in kinds THEN Append(h[i - 1], es[i]) ELSE h[i - 1]
  <2> TAKE i \in 0 .. Len(es)
  <2>1. h[i] = g[i] /\ (i # 0 => h[i - 1] = g[i - 1])
    OBVIOUS
  <2> QED
    BY <1>3, <2>1 DEF IsOnly
<1>5. h = [i \in 0 .. Len(es) |->
             IF i = 0 THEN <<>>
             ELSE IF es[i].kind \in kinds THEN Append(h[i - 1], es[i]) ELSE h[i - 1]]
  BY <1>4
<1> QED
  BY <1>5

LEMMA OnlySteps ==
  ASSUME NEW es, Len(es) \in Nat, NEW kinds
  PROVE  \E g : IsOnly(g, es, kinds, Len(es)) /\ Only(es, kinds) = g[Len(es)]
<1> DEFINE G(g) == [i \in 0 .. Len(es) |->
                      IF i = 0 THEN <<>>
                      ELSE IF es[i].kind \in kinds THEN Append(g[i - 1], es[i]) ELSE g[i - 1]]
<1> DEFINE only == CHOOSE g : g = G(g)
<1>1. only = G(only)
  <2>1. \E g : g = G(g)
    BY OnlyExists, SMTT(30)
  <2> HIDE DEF G
  <2> QED
    BY <2>1
<1>2. Only(es, kinds) = only[Len(es)]
  BY DEF Only
<1>3. IsOnly(only, es, kinds, Len(es))
  <2> HIDE DEF only
  <2> QED
    BY <1>1 DEF IsOnly
<1> QED
  BY <1>2, <1>3

LEMMA SetOfMore ==
  ASSUME NEW T, NEW s \in Seq(T), NEW e \in T
  PROVE  ToSet(Append(s, e)) = ToSet(s) \cup {e}
<1>1. PICK t : t = Append(s, e)
  OBVIOUS
<1>2. Len(t) = Len(s) + 1 /\ DOMAIN t = 1 .. Len(t) /\ t[Len(t)] = e /\ \A i \in DOMAIN s : t[i] = s[i]
  BY <1>1
<1>3. ToSet(t) \subseteq ToSet(s) \cup {e}
  BY <1>2 DEF ToSet
<1>4. ToSet(s) \subseteq ToSet(t)
  BY <1>2 DEF ToSet
<1>5. e \in ToSet(t)
  BY <1>2 DEF ToSet
<1> QED
  BY <1>1, <1>3, <1>4, <1>5

LEMMA SetOfJoin ==
  ASSUME NEW T, NEW s \in Seq(T), NEW t \in Seq(T)
  PROVE  ToSet(s \o t) = ToSet(s) \cup ToSet(t)
<1>1. PICK u : u = s \o t
  OBVIOUS
<1>2. /\ DOMAIN u = 1 .. Len(s) + Len(t)
      /\ \A i \in 1 .. Len(s) : u[i] = s[i]
      /\ \A i \in 1 .. Len(t) : u[Len(s) + i] = t[i]
      /\ DOMAIN s = 1 .. Len(s) /\ DOMAIN t = 1 .. Len(t)
  BY <1>1
<1>3. ToSet(s) \subseteq ToSet(u)
  BY <1>2 DEF ToSet
<1>4. ToSet(t) \subseteq ToSet(u)
  <2> SUFFICES ASSUME NEW e \in ToSet(t) PROVE e \in ToSet(u)
    OBVIOUS
  <2>1. PICK i \in 1 .. Len(t) : e = t[i]
    BY <1>2 DEF ToSet
  <2>2. Len(s) + i \in DOMAIN u
    BY <1>2
  <2> QED
    BY <1>2, <2>1, <2>2 DEF ToSet
<1>5. ToSet(u) \subseteq ToSet(s) \cup ToSet(t)
  <2> SUFFICES ASSUME NEW e \in ToSet(u) PROVE e \in ToSet(s) \cup ToSet(t)
    OBVIOUS
  <2>1. PICK i \in DOMAIN u : e = u[i]
    BY DEF ToSet
  <2>2. CASE i <= Len(s)
    BY <1>2, <2>1, <2>2 DEF ToSet
  <2>3. CASE i > Len(s)
    <3>1. i - Len(s) \in 1 .. Len(t) /\ Len(s) + (i - Len(s)) = i
      BY <1>2, <2>3
    <3>2. e = t[i - Len(s)]
      BY <1>2, <2>1, <3>1
    <3> QED
      BY <1>2, <3>1, <3>2 DEF ToSet
  <2> QED
    BY <1>2, <2>2, <2>3
<1> QED
  BY <1>1, <1>3, <1>4, <1>5

LEMMA SetOfSeq ==
  ASSUME NEW T, NEW s \in Seq(T)
  PROVE  ToSet(s) \subseteq T /\ \A i \in 1 .. Len(s) : s[i] \in ToSet(s)
BY DEF ToSet

LEMMA OnlyFacts ==
  ASSUME NEW T, NEW es \in Seq(T), NEW kinds
  PROVE  /\ Only(es, kinds) \in Seq(T)
         /\ ToSet(Only(es, kinds)) = {e \in ToSet(es) : e.kind \in kinds}
         /\ (\A e \in ToSet(es) : e.kind \in kinds) => Only(es, kinds) = es
<1>1. PICK g : IsOnly(g, es, kinds, Len(es)) /\ Only(es, kinds) = g[Len(es)]
  BY OnlySteps
<1>0. ASSUME NEW n \in 1 .. Len(es)
      PROVE  /\ es[n] \in T /\ n - 1 \in 0 .. Len(es) /\ n \in 0 .. Len(es)
             /\ g[n] = IF es[n].kind \in kinds THEN Append(g[n - 1], es[n]) ELSE g[n - 1]
  BY <1>1 DEF IsOnly
<1>00. g[0] = <<>>
  BY <1>1 DEF IsOnly
<1> DEFINE Some(n) == {e \in {es[j] : j \in 1 .. n} : e.kind \in kinds}
<1> DEFINE S == {n \in 0 .. Len(es) :
                   /\ g[n] \in Seq(T)
                   /\ ToSet(g[n]) = Some(n)
                   /\ (\A e \in ToSet(es) : e.kind \in kinds) =>
                        Len(g[n]) = n /\ \A j \in 1 .. n : g[n][j] = es[j]}
<1>2. ASSUME NEW n \in 0 .. Len(es), 0 .. n - 1 \subseteq S PROVE n \in S
  <2>1. CASE n = 0
    <3>1. Some(0) = {} /\ ToSet(<<>>) = {} /\ Len(<<>>) = 0 /\ <<>> \in Seq(T)
      BY DEF ToSet
    <3>2. n \in 0 .. Len(es) /\ g[n] \in Seq(T) /\ ToSet(g[n]) = Some(n) /\ Len(g[n]) = n
      BY <1>00, <2>1, <3>1
    <3>3. \A j \in 1 .. n : g[n][j] = es[j]
      BY <2>1
    <3> HIDE DEF Some
    <3> QED
      BY <3>2, <3>3
  <2>2. CASE n > 0
    <3>0. PICK k : k = n - 1
      OBVIOUS
    <3>1. k \in S /\ n \in 1 .. Len(es) /\ k + 1 = n /\ k \in Nat
      <4>1. k \in 0 .. n - 1 /\ n \in 1 .. Len(es) /\ k + 1 = n /\ k \in Nat
        BY <2>2, <3>0
      <4> HIDE DEF S
      <4> QED
        BY <1>2, <4>1
    <3>2. PICK p \in Seq(T) : p = g[k]
      BY <3>1
    <3>3. g[n] = IF es[n].kind \in kinds THEN Append(p, es[n]) ELSE p
      BY <1>0, <3>0, <3>1, <3>2
    <3>4. ToSet(p) = Some(k)
      BY <3>1, <3>2
    <3>5. {es[j] : j \in 1 .. n} = {es[j] : j \in 1 .. k} \cup {es[n]}
      BY <3>1
    <3>6. CASE es[n].kind \in kinds
      <4>1. PICK q \in Seq(T) : q = Append(p, es[n])
        <5>1. es[n] \in T
          BY <3>1
        <5>2. Append(p, es[n]) \in Seq(T)
          BY <5>1
        <5> QED
          BY <5>2
      <4>2. ToSet(q) = ToSet(p) \cup {es[n]}
        BY <1>0, <3>1, <4>1, SetOfMore
      <4>3. ToSet(q) = Some(n)
        BY <3>4, <3>5, <3>6, <4>2
      <4>4. ASSUME \A e \in ToSet(es) : e.kind \in kinds
            PROVE  Len(q) = n /\ \A j \in 1 .. n : q[j] = es[j]
        <5>1. Len(p) = k /\ \A j \in 1 .. k : p[j] = es[j]
          BY <3>1, <3>2, <4>4
        <5>2. Len(q) = n /\ q[n] = es[n] /\ \A j \in 1 .. k : q[j] = p[j]
          BY <3>1, <4>1, <5>1
        <5> QED
          BY <3>1, <5>1, <5>2
      <4>5. g[n] = q
        BY <3>3, <3>6, <4>1
      <4> QED
        BY <4>1, <4>3, <4>4, <4>5
    <3>7. CASE es[n].kind \notin kinds
      <4>1. g[n] = p
        BY <3>3, <3>7
      <4>2. ToSet(p) = Some(n)
        BY <3>4, <3>5, <3>7
      <4>3. ~ \A e \in ToSet(es) : e.kind \in kinds
        BY <3>1, <3>7, SetOfSeq
      <4> QED
        BY <4>1, <4>2, <4>3
    <3> QED
      BY <3>6, <3>7
  <2> QED
    BY <2>1, <2>2
<1>3. Len(es) \in S
  <2> HIDE DEF S
  <2>0. Len(es) \in Nat /\ \A n \in 0 .. Len(es) : (0 .. n - 1) \subseteq S => n \in S
    BY <1>2
  <2>1. 0 .. Len(es) \subseteq S
    BY <2>0, UpTo
  <2> QED
    BY <2>1
<1>4. Some(Len(es)) = {e \in ToSet(es) : e.kind \in kinds}
  BY DEF ToSet
<1>5. ASSUME \A e \in ToSet(es) : e.kind \in kinds PROVE g[Len(es)] = es
  <2>1. g[Len(es)] \in Seq(T) /\ Len(g[Len(es)]) = Len(es) /\ \A j \in 1 .. Len(es) : g[Len(es)][j] = es[j]
    BY <1>3, <1>5
  <2> HIDE DEF S
  <2> QED
    BY <2>1
<1> QED
  BY <1>1, <1>3, <1>4, <1>5

\* Along a path the identifiers grow.
Growing(es) == \A i, j \in DOMAIN es : i < j => es[i].id < es[j].id

LEMMA OnlyGrows ==
  ASSUME NEW T, NEW es \in Seq(T), NEW kinds, Growing(es), \A e \in T : e.id \in Int
  PROVE  Growing(Only(es, kinds))
<1>1. PICK g : IsOnly(g, es, kinds, Len(es)) /\ Only(es, kinds) = g[Len(es)]
  BY OnlySteps
<1> DEFINE S == {n \in 0 .. Len(es) :
                   g[n] \in Seq(T) /\ Growing(g[n]) /\ \A e \in ToSet(g[n]) : \E j \in 1 .. n : e = es[j]}
<1>2. ASSUME NEW n \in 0 .. Len(es), 0 .. n - 1 \subseteq S PROVE n \in S
  <2>1. CASE n = 0
    <3>1. Growing(<<>>) /\ ToSet(<<>>) = {} /\ <<>> \in Seq(T)
      BY DEF ToSet, Growing
    <3>2. g[0] = <<>>
      BY <1>1 DEF IsOnly
    <3> QED
      BY <2>1, <3>1, <3>2
  <2>2. CASE n > 0
    <3>0. PICK k : k = n - 1
      OBVIOUS
    <3>1. k \in S /\ n \in 1 .. Len(es) /\ k + 1 = n /\ k \in Nat
      <4>1. k \in 0 .. n - 1 /\ n \in 1 .. Len(es) /\ k + 1 = n /\ k \in Nat
        BY <2>2, <3>0
      <4> HIDE DEF S
      <4> QED
        BY <1>2, <4>1
    <3>2. PICK p \in Seq(T) : p = g[k]
      BY <3>1
    <3>3. g[n] = IF es[n].kind \in kinds THEN Append(p, es[n]) ELSE p
      BY <1>1, <2>2, <3>0, <3>2 DEF IsOnly
    <3>4. Growing(p) /\ \A e \in ToSet(p) : \E j \in 1 .. k : e = es[j]
      BY <3>1, <3>2
    <3>5. CASE es[n].kind \in kinds
      <4>1. PICK q \in Seq(T) : q = Append(p, es[n])
        <5>1. es[n] \in T
          BY <3>1
        <5>2. Append(p, es[n]) \in Seq(T)
          BY <5>1
        <5> QED
          BY <5>2
      <4>2. ToSet(q) = ToSet(p) \cup {es[n]}
        BY <3>1, <4>1, SetOfMore
      <4>3. \A e \in ToSet(q) : \E j \in 1 .. n : e = es[j]
        <5>1. n \in 1 .. n /\ 1 .. k \subseteq 1 .. n
          BY <3>1
        <5> QED
          BY <3>4, <4>2, <5>1, Zenon
      <4>4. ASSUME NEW i \in DOMAIN q, NEW j \in DOMAIN q, i < j PROVE q[i].id < q[j].id
        <5>1. /\ DOMAIN q = 1 .. Len(p) + 1 /\ DOMAIN p = 1 .. Len(p) /\ Len(p) \in Nat
              /\ q[Len(p) + 1] = es[n] /\ \A a \in 1 .. Len(p) : q[a] = p[a]
          BY <4>1
        <5>2. i \in DOMAIN p /\ q[i] = p[i]
          BY <4>4, <5>1
        <5>3. CASE j \in DOMAIN p
          BY <3>4, <4>4, <5>1, <5>2, <5>3 DEF Growing
        <5>4. CASE j \notin DOMAIN p
          <6>1. j = Len(p) + 1
            BY <5>1, <5>4
          <6>2. q[j] = es[n]
            BY <5>1, <6>1
          <6>3. PICK a \in 1 .. k : p[i] = es[a]
            BY <3>4, <5>2 DEF ToSet
          <6>4. es[a].id < es[n].id
            BY <3>1, <6>3 DEF Growing
          <6> QED
            BY <5>2, <6>2, <6>3, <6>4
        <5> QED
          BY <5>3, <5>4
      <4>5. g[n] = q
        BY <3>3, <3>5, <4>1
      <4>6. Growing(q)
        BY <4>4 DEF Growing
      <4> QED
        BY <4>1, <4>3, <4>5, <4>6
    <3>6. CASE es[n].kind \notin kinds
      <4>1. g[n] = p
        BY <3>3, <3>6
      <4>2. \A e \in ToSet(p) : \E j \in 1 .. n : e = es[j]
        BY <3>1, <3>4
      <4> QED
        BY <3>4, <4>1, <4>2
    <3> QED
      BY <3>5, <3>6
  <2> QED
    BY <2>1, <2>2
<1>3. Len(es) \in S
  <2> HIDE DEF S
  <2>0. Len(es) \in Nat /\ \A n \in 0 .. Len(es) : (0 .. n - 1) \subseteq S => n \in S
    BY <1>2
  <2>1. 0 .. Len(es) \subseteq S
    BY <2>0, UpTo
  <2> QED
    BY <2>1
<1> QED
  BY <1>1, <1>3

(***************************************************************************)
(* PathTo: a path is a sequence of entries, each younger than the last.    *)
(***************************************************************************)
Older(es) == \A e \in ToSet(es) : IsEntry(e) => e.parent < e.id

LEMMA GetFacts ==
  ASSUME NEW es \in Seq(FileEntry), NEW i \in Ids(es)
  PROVE  Get(es, i) \in Entry /\ Get(es, i) \in ToSet(es) /\ Get(es, i).id = i
<1>1. PICK e \in ToSet(es) : IsEntry(e) /\ e.id = i
  BY DEF Ids
<1>2. Get(es, i) \in ToSet(es) /\ IsEntry(Get(es, i)) /\ Get(es, i).id = i
  BY <1>1 DEF Get
<1>3. Get(es, i) \in FileEntry
  BY <1>2, SetOfSeq
<1>4. \A f \in Files : Header(f) = [id |-> f, parent |-> 0, kind |-> "session", target |-> 0]
  BY DEF Header
<1> QED
  BY <1>2, <1>3, <1>4 DEF FileEntry, IsEntry, Kinds

IsPath(g, es, n) ==
  \A i \in 0 .. n :
    g[i] = IF i \in Ids(es) THEN Append(g[Get(es, i).parent], Get(es, i)) ELSE <<>>

LEMMA ParentBefore ==
  ASSUME NEW es \in Seq(FileEntry), Older(es), NEW i \in Ids(es)
  PROVE  Get(es, i).parent \in 0 .. i - 1 /\ i \in 1 .. MaxEntries
<1>1. Get(es, i) \in Entry /\ Get(es, i) \in ToSet(es) /\ Get(es, i).id = i
  BY GetFacts
<1>2. IsEntry(Get(es, i))
  BY <1>1 DEF Entry, IsEntry
<1>3. Get(es, i).parent < i
  BY <1>1, <1>2 DEF Older
<1>4. Get(es, i).parent \in 0 .. MaxEntries /\ Get(es, i).id \in 1 .. MaxEntries
  BY <1>1 DEF Entry
<1>5. MaxEntries \in Nat
  BY BoundAssumption
<1> QED
  BY <1>1, <1>3, <1>4, <1>5

LEMMA PathExists ==
  ASSUME NEW es \in Seq(FileEntry), Older(es)
  PROVE  \E g : g = [i \in 0 .. MaxEntries |->
                       IF i \in Ids(es) THEN Append(g[Get(es, i).parent], Get(es, i)) ELSE <<>>]
<1>0. MaxEntries \in Nat
  BY BoundAssumption
<1> DEFINE Parent(i) == Get(es, i).parent
<1>00. \A i \in Ids(es) : Parent(i) \in 0 .. i - 1
  BY ParentBefore
<1> DEFINE S == {n \in 0 .. MaxEntries : \E g : DOMAIN g = 0 .. n /\ IsPath(g, es, n)}
<1>1. ASSUME NEW n \in 0 .. MaxEntries, 0 .. n - 1 \subseteq S PROVE n \in S
  <2>1. \E g : \A i \in 0 .. n - 1 :
          g[i] = IF i \in Ids(es) THEN Append(g[Parent(i)], Get(es, i)) ELSE <<>>
    <3>1. CASE n = 0
      BY <3>1
    <3>2. CASE n > 0
      <4>1. n - 1 \in S
        <5>1. n - 1 \in 0 .. n - 1
          BY <3>2
        <5> HIDE DEF S
        <5> QED
          BY <1>1, <5>1
      <4> QED
        BY <4>1 DEF IsPath
    <3> QED
      BY <3>1, <3>2
  <2>2. PICK g : \A i \in 0 .. n - 1 :
          g[i] = IF i \in Ids(es) THEN Append(g[Parent(i)], Get(es, i)) ELSE <<>>
    BY <2>1
  <2> DEFINE h == [i \in 0 .. n |->
                     IF i < n THEN g[i]
                     ELSE IF i \in Ids(es) THEN Append(g[Parent(i)], Get(es, i)) ELSE <<>>]
  <2>3. ASSUME NEW i \in 0 .. n
        PROVE  h[i] = IF i \in Ids(es) THEN Append(h[Parent(i)], Get(es, i)) ELSE <<>>
    <3>1. i \in Ids(es) => Parent(i) \in 0 .. n - 1 /\ h[Parent(i)] = g[Parent(i)]
      <4> SUFFICES ASSUME i \in Ids(es) PROVE Parent(i) \in 0 .. n - 1 /\ h[Parent(i)] = g[Parent(i)]
        OBVIOUS
      <4>1. Parent(i) \in 0 .. i - 1
        BY <1>00
      <4> HIDE DEF Parent
      <4> QED
        BY <4>1
    <3>2. CASE i < n
      <4>1. h[i] = g[i] /\ i \in 0 .. n - 1
        BY <3>2
      <4> HIDE DEF h, Parent
      <4> QED
        BY <2>2, <3>1, <4>1
    <3>3. CASE i = n
      <4>1. h[i] = IF i \in Ids(es) THEN Append(g[Parent(i)], Get(es, i)) ELSE <<>>
        BY <3>3
      <4> HIDE DEF h, Parent
      <4> QED
        BY <3>1, <4>1
    <3> QED
      BY <3>2, <3>3
  <2>4. DOMAIN h = 0 .. n
    OBVIOUS
  <2>5. IsPath(h, es, n)
    <3> HIDE DEF h
    <3> QED
      BY <2>3 DEF IsPath
  <2> HIDE DEF h
  <2> QED
    BY <2>4, <2>5
<1>2. MaxEntries \in S
  <2> HIDE DEF S
  <2>1. 0 .. MaxEntries \subseteq S
    BY <1>0, <1>1, UpTo
  <2> QED
    BY <1>0, <2>1
<1>3. PICK g : IsPath(g, es, MaxEntries)
  BY <1>2
<1> DEFINE h == [i \in 0 .. MaxEntries |-> g[i]]
<1>4. \A i \in 0 .. MaxEntries :
        h[i] = IF i \in Ids(es) THEN Append(h[Parent(i)], Get(es, i)) ELSE <<>>
  <2> TAKE i \in 0 .. MaxEntries
  <2>1. i \in Ids(es) => Parent(i) \in 0 .. MaxEntries
    <3> SUFFICES ASSUME i \in Ids(es) PROVE Parent(i) \in 0 .. MaxEntries
      OBVIOUS
    <3>1. Parent(i) \in 0 .. i - 1
      BY <1>00
    <3> HIDE DEF Parent
    <3> QED
      BY <1>0, <3>1
  <2>2. h[i] = g[i] /\ (i \in Ids(es) => h[Parent(i)] = g[Parent(i)])
    <3> HIDE DEF Parent
    <3> QED
      BY <2>1
  <2> HIDE DEF h
  <2> QED
    BY <1>3, <2>2 DEF IsPath
<1>5. h = [i \in 0 .. MaxEntries |->
             IF i \in Ids(es) THEN Append(h[Get(es, i).parent], Get(es, i)) ELSE <<>>]
  BY <1>4
<1> QED
  BY <1>5

LEMMA PathSteps ==
  ASSUME NEW es \in Seq(FileEntry), Older(es)
  PROVE  \E g : IsPath(g, es, MaxEntries) /\ \A id \in 0 .. MaxEntries : PathTo(es, id) = g[id]
<1> DEFINE G(g) == [i \in 0 .. MaxEntries |->
                      IF i \in Ids(es) THEN Append(g[Get(es, i).parent], Get(es, i)) ELSE <<>>]
<1> DEFINE path == CHOOSE g : g = G(g)
<1>1. path = G(path)
  <2>1. \E g : g = G(g)
    BY PathExists
  <2> HIDE DEF G
  <2> QED
    BY <2>1
<1>2. \A id \in 0 .. MaxEntries : PathTo(es, id) = path[id]
  BY DEF PathTo
<1>3. IsPath(path, es, MaxEntries)
  <2> HIDE DEF path
  <2> QED
    BY <1>1 DEF IsPath
<1> QED
  BY <1>2, <1>3

LEMMA PathFacts ==
  ASSUME NEW es \in Seq(FileEntry), Older(es), NEW id \in 0 .. MaxEntries
  PROVE  /\ PathTo(es, id) \in Seq(Entry)
         /\ ToSet(PathTo(es, id)) \subseteq ToSet(es)
         /\ Growing(PathTo(es, id))
<1>0. MaxEntries \in Nat
  BY BoundAssumption
<1>1. PICK g : IsPath(g, es, MaxEntries) /\ \A i \in 0 .. MaxEntries : PathTo(es, i) = g[i]
  BY PathSteps
<1> DEFINE S == {n \in 0 .. MaxEntries :
                   /\ g[n] \in Seq(Entry)
                   /\ ToSet(g[n]) \subseteq ToSet(es)
                   /\ Growing(g[n])
                   /\ \A e \in ToSet(g[n]) : e.id <= n}
<1>2. ASSUME NEW n \in 0 .. MaxEntries, 0 .. n - 1 \subseteq S PROVE n \in S
  <2>1. CASE n \notin Ids(es)
    <3>1. g[n] = <<>>
      BY <1>1, <2>1 DEF IsPath
    <3>2. <<>> \in Seq(Entry) /\ ToSet(<<>>) = {} /\ Growing(<<>>)
      BY DEF ToSet, Growing
    <3> QED
      BY <3>1, <3>2
  <2>2. CASE n \in Ids(es)
    <3>1. PICK e : e = Get(es, n)
      OBVIOUS
    <3>2. e \in Entry /\ e \in ToSet(es) /\ e.id = n /\ e.parent \in 0 .. n - 1
      BY <2>2, <3>1, GetFacts, ParentBefore
    <3>3. e.parent \in S
      <4> HIDE DEF S
      <4> QED
        BY <1>2, <3>2
    <3>4. PICK p \in Seq(Entry) : p = g[e.parent]
      BY <3>3
    <3>5. ToSet(p) \subseteq ToSet(es) /\ Growing(p) /\ \A x \in ToSet(p) : x.id <= e.parent
      BY <3>3, <3>4
    <3>6. g[n] = Append(p, e)
      BY <1>1, <2>2, <3>1, <3>4 DEF IsPath
    <3> HIDE DEF S
    <3>7. PICK q \in Seq(Entry) : q = Append(p, e)
      <4>1. Append(p, e) \in Seq(Entry)
        BY <3>2
      <4> QED
        BY <4>1
    <3>8. ToSet(q) = ToSet(p) \cup {e}
      BY <3>2, <3>7, SetOfMore
    <3>9. /\ DOMAIN q = 1 .. Len(p) + 1 /\ DOMAIN p = 1 .. Len(p) /\ Len(p) \in Nat
          /\ q[Len(p) + 1] = e /\ \A a \in 1 .. Len(p) : q[a] = p[a]
      BY <3>7
    <3>10. ASSUME NEW x \in ToSet(p) PROVE x.id < n
      <4>1. x \in Entry
        BY <3>10, SetOfSeq
      <4>2. x.id \in Int
        BY <1>0, <4>1 DEF Entry
      <4>3. x.id <= e.parent
        BY <3>5, <3>10
      <4> QED
        BY <3>2, <4>2, <4>3
    <3>11. ASSUME NEW i \in DOMAIN q, NEW j \in DOMAIN q, i < j PROVE q[i].id < q[j].id
      <4>1. i \in DOMAIN p /\ q[i] = p[i] /\ q[i] \in ToSet(p)
        BY <3>9, <3>11 DEF ToSet
      <4>2. CASE j \in DOMAIN p
        BY <3>5, <3>9, <3>11, <4>1, <4>2 DEF Growing
      <4>3. CASE j \notin DOMAIN p
        <5>1. q[j] = e
          BY <3>9, <4>3
        <5> QED
          BY <3>2, <3>10, <4>1, <5>1
      <4> QED
        BY <4>2, <4>3
    <3>12. Growing(q)
      BY <3>11 DEF Growing
    <3>13. ToSet(q) \subseteq ToSet(es)
      BY <3>2, <3>5, <3>8
    <3>14. \A x \in ToSet(q) : x.id <= n
      <4>1. \A x \in ToSet(p) : x.id <= n
        <5> TAKE x \in ToSet(p)
        <5>1. x \in Entry
          BY SetOfSeq
        <5>2. x.id \in Int
          BY <1>0, <5>1 DEF Entry
        <5> QED
          BY <3>10, <5>2
      <4> QED
        BY <3>2, <3>8, <4>1
    <3>15. g[n] = q
      BY <3>6, <3>7
    <3> QED
      BY <3>12, <3>13, <3>14, <3>15 DEF S
  <2> QED
    BY <2>1, <2>2
<1>3. id \in S
  <2> HIDE DEF S
  <2>1. 0 .. MaxEntries \subseteq S
    BY <1>0, <1>2, UpTo
  <2> QED
    BY <2>1
<1> QED
  BY <1>1, <1>3

(***************************************************************************)
(* The last entry, labels, and the order of parents and children.          *)
(***************************************************************************)
LEMMA LeafFacts ==
  ASSUME NEW es \in Seq(FileEntry)
  PROVE  /\ LeafOf(es) \in Ids(es) \cup {0}
         /\ (\E e \in ToSet(es) : IsEntry(e)) =>
              \E i \in DOMAIN es :
                IsEntry(es[i]) /\ LeafOf(es) = es[i].id /\ \A j \in DOMAIN es : IsEntry(es[j]) => j <= i
<1> DEFINE Own == {i \in DOMAIN es : IsEntry(es[i])}
<1>1. LeafOf(es) = IF Own = {} THEN 0 ELSE es[Max(Own)].id
  BY DEF LeafOf
<1>2. ASSUME Own # {}
      PROVE  Max(Own) \in Own /\ \A j \in Own : j <= Max(Own)
  <2>1. Len(es) \in Nat /\ Own \in SUBSET (1 .. Len(es))
    OBVIOUS
  <2> HIDE DEF Own
  <2> QED
    BY <1>2, <2>1, Greatest
<1>3. (\E e \in ToSet(es) : IsEntry(e)) => Own # {}
  BY DEF ToSet
<1>4. ASSUME Own # {} PROVE es[Max(Own)].id \in Ids(es)
  <2>1. es[Max(Own)] \in ToSet(es) /\ IsEntry(es[Max(Own)])
    BY <1>2, <1>4 DEF ToSet
  <2> QED
    BY <2>1 DEF Ids
<1>5. ASSUME Own # {}
      PROVE  \E i \in DOMAIN es :
               IsEntry(es[i]) /\ LeafOf(es) = es[i].id /\ \A j \in DOMAIN es : IsEntry(es[j]) => j <= i
  BY <1>1, <1>2, <1>5
<1> QED
  BY <1>1, <1>3, <1>4, <1>5

About(es, id) == {i \in DOMAIN es : es[i].kind \in {"label", "unlabel"} /\ es[i].target = id}

LEMMA LabelledIs ==
  ASSUME NEW es
  PROVE  Labelled(es) = {id \in 1 .. MaxEntries :
           \E i \in About(es, id) : es[i].kind = "label" /\ \A j \in About(es, id) : j <= i}
BY DEF Labelled, About

LEMMA LabelledMore ==
  ASSUME NEW es \in Seq(FileEntry), NEW e \in Entry
  PROVE  Labelled(Append(es, e)) =
           IF e.kind = "label" THEN Labelled(es) \cup ({e.target} \cap 1 .. MaxEntries)
           ELSE IF e.kind = "unlabel" THEN Labelled(es) \ {e.target} ELSE Labelled(es)
<1>1. PICK t : t = Append(es, e)
  OBVIOUS
<1>2. /\ DOMAIN t = 1 .. Len(es) + 1 /\ DOMAIN es = 1 .. Len(es) /\ Len(es) \in Nat
      /\ t[Len(es) + 1] = e /\ \A i \in 1 .. Len(es) : t[i] = es[i]
  BY <1>1
<1>3. ASSUME NEW id, e.kind \notin {"label", "unlabel"} \/ e.target # id
      PROVE  About(t, id) = About(es, id)
  BY <1>2, <1>3 DEF About
<1>4. ASSUME NEW id, e.kind \in {"label", "unlabel"}, e.target = id
      PROVE  Len(es) + 1 \in About(t, id) /\ \A j \in About(t, id) : j <= Len(es) + 1
  BY <1>2, <1>4 DEF About
<1>5. ASSUME NEW id, e.kind \notin {"label", "unlabel"} \/ e.target # id
      PROVE  id \in Labelled(t) <=> id \in Labelled(es)
  <2>1. \A i \in About(es, id) : t[i] = es[i]
    BY <1>2 DEF About
  <2>2. About(t, id) = About(es, id)
    BY <1>3, <1>5
  <2>3. id \in Labelled(t) <=> id \in 1 .. MaxEntries /\
          \E i \in About(t, id) : t[i].kind = "label" /\ \A j \in About(t, id) : j <= i
    BY LabelledIs, Zenon
  <2>4. id \in Labelled(es) <=> id \in 1 .. MaxEntries /\
          \E i \in About(es, id) : es[i].kind = "label" /\ \A j \in About(es, id) : j <= i
    BY LabelledIs, Zenon
  <2> QED
    BY <2>1, <2>2, <2>3, <2>4
<1>6. ASSUME NEW id \in 1 .. MaxEntries, e.kind \in {"label", "unlabel"}, e.target = id
      PROVE  id \in Labelled(t) <=> e.kind = "label"
  <2>1. \A i \in About(t, id) : (\A j \in About(t, id) : j <= i) => i = Len(es) + 1
    BY <1>2, <1>4, <1>6 DEF About
  <2>2. t[Len(es) + 1].kind = e.kind
    BY <1>2
  <2> DEFINE n == Len(es) + 1
  <2>3. n \in About(t, id) /\ (\A j \in About(t, id) : j <= n) /\ t[n].kind = e.kind
        /\ \A i \in About(t, id) : (\A j \in About(t, id) : j <= i) => i = n
    BY <1>4, <1>6, <2>1, <2>2
  <2>4. id \in Labelled(t) <=>
          \E i \in About(t, id) : t[i].kind = "label" /\ \A j \in About(t, id) : j <= i
    BY LabelledIs, Zenon
  <2> HIDE DEF n
  <2>5. t[n].kind = "label" => id \in Labelled(t)
    BY <2>3, <2>4, Zenon
  <2>6. id \in Labelled(t) => t[n].kind = "label"
    BY <2>3, <2>4, Zenon
  <2> QED
    BY <2>3, <2>5, <2>6
<1>7. Labelled(t) \subseteq 1 .. MaxEntries /\ Labelled(es) \subseteq 1 .. MaxEntries
  BY LabelledIs
<1>8. CASE e.kind = "label"
  BY <1>1, <1>5, <1>6, <1>7, <1>8
<1>9. CASE e.kind = "unlabel"
  BY <1>1, <1>5, <1>6, <1>7, <1>9
<1>10. CASE e.kind \notin {"label", "unlabel"}
  BY <1>1, <1>5, <1>10
<1> QED
  BY <1>8, <1>9, <1>10

\* Every entry comes after its parent, unless a fork may leave that behind.
ParentsFirst(es) ==
  \/ ForkPastGaps
  \/ \A i \in DOMAIN es :
       es[i].parent = 0 \/ \E j \in 1 .. i - 1 : IsEntry(es[j]) /\ es[j].id = es[i].parent

LEMMA PartsOfJoin ==
  ASSUME NEW T, NEW s \in Seq(T), NEW t \in Seq(T), NEW u, u = s \o t
  PROVE  /\ u \in Seq(T) /\ Len(u) = Len(s) + Len(t) /\ Len(s) \in Nat /\ Len(t) \in Nat
         /\ DOMAIN u = 1 .. Len(s) + Len(t) /\ DOMAIN s = 1 .. Len(s) /\ DOMAIN t = 1 .. Len(t)
         /\ \A i \in 1 .. Len(s) : u[i] = s[i]
         /\ \A i \in 1 .. Len(t) : u[Len(s) + i] = t[i]
         /\ \A i \in DOMAIN u : i > Len(s) => i - Len(s) \in 1 .. Len(t) /\ u[i] = t[i - Len(s)]
<1>1. /\ u \in Seq(T) /\ Len(u) = Len(s) + Len(t) /\ Len(s) \in Nat /\ Len(t) \in Nat
      /\ DOMAIN u = 1 .. Len(s) + Len(t) /\ DOMAIN s = 1 .. Len(s) /\ DOMAIN t = 1 .. Len(t)
      /\ \A i \in 1 .. Len(s) : u[i] = s[i]
      /\ \A i \in 1 .. Len(t) : u[Len(s) + i] = t[i]
  OBVIOUS
<1>2. ASSUME NEW i \in DOMAIN u, i > Len(s)
      PROVE  i - Len(s) \in 1 .. Len(t) /\ u[i] = t[i - Len(s)]
  <2>1. i - Len(s) \in 1 .. Len(t) /\ Len(s) + (i - Len(s)) = i
    BY <1>1, <1>2
  <2> QED
    BY <1>1, <2>1
<1> QED
  BY <1>1, <1>2

\* The parents of t may be entries of s.
LEMMA ParentsOfJoin ==
  ASSUME NEW T, NEW s \in Seq(T), NEW t \in Seq(T), ParentsFirst(s),
         \A i \in DOMAIN t :
           \/ t[i].parent = 0
           \/ \E j \in 1 .. i - 1 : IsEntry(t[j]) /\ t[j].id = t[i].parent
           \/ t[i].parent \in Ids(s)
  PROVE  ParentsFirst(s \o t)
<1>0. SUFFICES ASSUME ~ForkPastGaps PROVE ParentsFirst(s \o t)
  BY DEF ParentsFirst
<1>1. PICK u : u = s \o t
  OBVIOUS
<1>2. /\ DOMAIN u = 1 .. Len(s) + Len(t) /\ Len(s) \in Nat /\ Len(t) \in Nat
      /\ DOMAIN s = 1 .. Len(s) /\ DOMAIN t = 1 .. Len(t)
      /\ \A i \in 1 .. Len(s) : u[i] = s[i]
      /\ \A i \in 1 .. Len(t) : u[Len(s) + i] = t[i]
      /\ \A i \in DOMAIN u : i > Len(s) => i - Len(s) \in 1 .. Len(t) /\ u[i] = t[i - Len(s)]
  BY <1>1, PartsOfJoin
<1>3. ASSUME NEW i \in DOMAIN u
      PROVE  u[i].parent = 0 \/ \E j \in 1 .. i - 1 : IsEntry(u[j]) /\ u[j].id = u[i].parent
  <2>1. CASE i <= Len(s)
    <3>1. i \in DOMAIN s /\ u[i] = s[i] /\ \A j \in 1 .. i - 1 : u[j] = s[j]
      BY <1>2, <1>3, <2>1
    <3> QED
      BY <1>0, <3>1 DEF ParentsFirst
  <2>2. CASE i > Len(s)
    <3>1. PICK n \in 1 .. Len(t) : n = i - Len(s) /\ u[i] = t[n]
      BY <1>2, <1>3, <2>2
    <3>2. CASE t[n].parent = 0
      BY <3>1, <3>2
    <3>3. ASSUME NEW j \in 1 .. n - 1, IsEntry(t[j]), t[j].id = t[n].parent
          PROVE  \E k \in 1 .. i - 1 : IsEntry(u[k]) /\ u[k].id = u[i].parent
      <4>1. Len(s) + j \in 1 .. i - 1 /\ u[Len(s) + j] = t[j]
        BY <1>2, <3>1, <3>3
      <4> QED
        BY <3>1, <3>3, <4>1
    <3>4. ASSUME t[n].parent \in Ids(s)
          PROVE  \E k \in 1 .. i - 1 : IsEntry(u[k]) /\ u[k].id = u[i].parent
      <4>1. PICK k \in DOMAIN s : IsEntry(s[k]) /\ s[k].id = t[n].parent
        BY <3>4 DEF Ids, ToSet
      <4>2. k \in 1 .. i - 1 /\ u[k] = s[k]
        BY <1>2, <1>3, <2>2
      <4> QED
        BY <3>1, <4>1, <4>2
    <3>5. \/ t[n].parent = 0
          \/ \E j \in 1 .. n - 1 : IsEntry(t[j]) /\ t[j].id = t[n].parent
          \/ t[n].parent \in Ids(s)
      BY <1>2
    <3> QED
      BY <3>2, <3>3, <3>4, <3>5
  <2> QED
    BY <1>2, <2>1, <2>2
<1> QED
  BY <1>1, <1>3 DEF ParentsFirst

LEMMA ParentsOfPart ==
  ASSUME NEW T, NEW s \in Seq(T), NEW t \in Seq(T), ParentsFirst(s \o t)
  PROVE  ParentsFirst(s)
<1>0. SUFFICES ASSUME ~ForkPastGaps PROVE ParentsFirst(s)
  BY DEF ParentsFirst
<1>1. PICK u : u = s \o t
  OBVIOUS
<1>2. /\ DOMAIN u = 1 .. Len(s) + Len(t) /\ Len(s) \in Nat /\ Len(t) \in Nat
      /\ DOMAIN s = 1 .. Len(s) /\ \A i \in 1 .. Len(s) : u[i] = s[i]
  BY <1>1, PartsOfJoin
<1>3. ASSUME NEW i \in DOMAIN s
      PROVE  s[i].parent = 0 \/ \E j \in 1 .. i - 1 : IsEntry(s[j]) /\ s[j].id = s[i].parent
  <2>1. i \in DOMAIN u /\ u[i] = s[i] /\ \A j \in 1 .. i - 1 : u[j] = s[j]
    BY <1>2
  <2>2. u[i].parent = 0 \/ \E j \in 1 .. i - 1 : IsEntry(u[j]) /\ u[j].id = u[i].parent
    BY <1>0, <1>1, <2>1 DEF ParentsFirst
  <2> QED
    BY <2>1, <2>2
<1> QED
  BY <1>3 DEF ParentsFirst

\* A path that holds the parents of its entries holds them first.
LEMMA ParentsOfPath ==
  ASSUME NEW es \in Seq(Entry), Growing(es), Older(es),
         ForkPastGaps \/ \A e \in ToSet(es) : e.parent \in Ids(es) \cup {0}
  PROVE  ParentsFirst(es)
<1>0. SUFFICES ASSUME ~ForkPastGaps PROVE ParentsFirst(es)
  BY DEF ParentsFirst
<1>1. ASSUME NEW i \in DOMAIN es, es[i].parent # 0
      PROVE  \E j \in 1 .. i - 1 : IsEntry(es[j]) /\ es[j].id = es[i].parent
  <2>1. es[i] \in Entry /\ es[i] \in ToSet(es)
    BY DEF ToSet
  <2>2. IsEntry(es[i])
    BY <2>1 DEF Entry, IsEntry
  <2>3. es[i].parent \in Ids(es) /\ es[i].parent < es[i].id
    BY <1>0, <1>1, <2>1, <2>2 DEF Older
  <2>4. PICK j \in DOMAIN es : IsEntry(es[j]) /\ es[j].id = es[i].parent
    BY <2>3 DEF Ids, ToSet
  <2>5. es[j] \in Entry /\ DOMAIN es = 1 .. Len(es) /\ Len(es) \in Nat
    OBVIOUS
  <2>6. es[i].id \in Int /\ es[j].id \in Int
    BY <2>1, <2>5, BoundAssumption DEF Entry
  <2>7. j < i
    <3>1. i < j => es[i].id < es[j].id
      BY DEF Growing
    <3>2. i # j
      BY <2>3, <2>4, <2>6
    <3> QED
      BY <2>3, <2>4, <2>5, <2>6, <3>1, <3>2
  <2> QED
    BY <2>4, <2>5, <2>7
<1> QED
  BY <1>1 DEF ParentsFirst

(***************************************************************************)
(* A file whose end is what is in memory, and that holds nothing else.     *)
(***************************************************************************)
EndsWith(es, end) ==
  \E n \in 0 .. Len(es) : Len(es) = n + Len(end) /\ \A i \in DOMAIN end : end[i] = es[n + i]

LEMMA EndOfJoin ==
  ASSUME NEW T, NEW s \in Seq(T), NEW t \in Seq(T)
  PROVE  EndsWith(s \o t, t)
<1>1. PICK u : u = s \o t
  OBVIOUS
<1>2. /\ Len(u) = Len(s) + Len(t) /\ Len(s) \in Nat /\ Len(t) \in Nat /\ DOMAIN t = 1 .. Len(t)
      /\ \A i \in 1 .. Len(t) : u[Len(s) + i] = t[i]
  BY <1>1, PartsOfJoin
<1>3. Len(s) \in 0 .. Len(u)
  BY <1>2
<1> QED
  BY <1>1, <1>2, <1>3 DEF EndsWith

LEMMA EndOfMore ==
  ASSUME NEW T, NEW s \in Seq(T), NEW t \in Seq(T), NEW e \in T, EndsWith(s, t)
  PROVE  EndsWith(s \o <<e>>, Append(t, e))
<1>1. PICK u : u = s \o <<e>>
  OBVIOUS
<1>2. PICK v : v = Append(t, e)
  OBVIOUS
<1>3. /\ Len(u) = Len(s) + 1 /\ Len(s) \in Nat /\ u[Len(s) + 1] = e
      /\ \A i \in 1 .. Len(s) : u[i] = s[i]
  BY <1>1
<1>4. /\ Len(v) = Len(t) + 1 /\ Len(t) \in Nat /\ v[Len(t) + 1] = e
      /\ DOMAIN v = 1 .. Len(t) + 1 /\ DOMAIN t = 1 .. Len(t) /\ \A i \in 1 .. Len(t) : v[i] = t[i]
  BY <1>2
<1>5. PICK n \in 0 .. Len(s) : Len(s) = n + Len(t) /\ \A i \in DOMAIN t : t[i] = s[n + i]
  BY DEF EndsWith
<1>6. ASSUME NEW i \in DOMAIN v PROVE v[i] = u[n + i]
  <2>1. CASE i \in DOMAIN t
    <3>1. n + i \in 1 .. Len(s)
      BY <1>3, <1>4, <1>5, <2>1
    <3> QED
      BY <1>3, <1>4, <1>5, <2>1, <3>1
  <2>2. CASE i \notin DOMAIN t
    <3>1. i = Len(t) + 1 /\ n + i = Len(s) + 1
      BY <1>3, <1>4, <1>5, <2>2
    <3> QED
      BY <1>3, <1>4, <3>1
  <2> QED
    BY <2>1, <2>2
<1>7. n \in 0 .. Len(u) /\ Len(u) = n + Len(v)
  BY <1>3, <1>4, <1>5
<1> QED
  BY <1>1, <1>2, <1>6, <1>7 DEF EndsWith

\* s is n elements and then t
Parts(s, t, n) ==
  /\ DOMAIN t = 1 .. Len(t) /\ DOMAIN s = 1 .. Len(s) /\ Len(t) \in Nat /\ Len(s) \in Nat
  /\ Len(s) = n + Len(t)
  /\ \A i \in 1 .. Len(t) : n + i \in DOMAIN s /\ s[n + i] = t[i]
  /\ \A i \in DOMAIN s : i > n => i - n \in DOMAIN t /\ s[i] = t[i - n]

LEMMA EndParts ==
  ASSUME NEW T, NEW s \in Seq(T), NEW t \in Seq(T), EndsWith(s, t)
  PROVE  \E n \in Nat : Parts(s, t, n)
<1>1. PICK n \in 0 .. Len(s) : Len(s) = n + Len(t) /\ \A i \in DOMAIN t : t[i] = s[n + i]
  BY DEF EndsWith
<1>2. n \in Nat /\ Len(t) \in Nat /\ Len(s) \in Nat /\ DOMAIN t = 1 .. Len(t) /\ DOMAIN s = 1 .. Len(s)
  BY <1>1
<1>3. \A i \in 1 .. Len(t) : n + i \in DOMAIN s /\ s[n + i] = t[i]
  BY <1>1, <1>2
<1>4. ASSUME NEW i \in DOMAIN s, i > n PROVE i - n \in DOMAIN t /\ s[i] = t[i - n]
  <2>1. i - n \in 1 .. Len(t) /\ n + (i - n) = i
    BY <1>1, <1>2, <1>4
  <2> QED
    BY <1>2, <1>3, <2>1
<1> QED
  BY <1>1, <1>2, <1>3, <1>4 DEF Parts

LEMMA SetOfEnd ==
  ASSUME NEW T, NEW s \in Seq(T), NEW t \in Seq(T), EndsWith(s, t)
  PROVE  ToSet(t) \subseteq ToSet(s)
<1>0. PICK n \in Nat : Parts(s, t, n)
  BY EndParts
<1>1. /\ DOMAIN t = 1 .. Len(t) /\ DOMAIN s = 1 .. Len(s) /\ Len(t) \in Nat /\ Len(s) \in Nat
      /\ Len(s) = n + Len(t)
      /\ \A i \in 1 .. Len(t) : n + i \in DOMAIN s /\ s[n + i] = t[i]
      /\ \A i \in DOMAIN s : i > n => i - n \in DOMAIN t /\ s[i] = t[i - n]
  BY <1>0 DEF Parts
<1> SUFFICES ASSUME NEW e \in ToSet(t) PROVE e \in ToSet(s)
  OBVIOUS
<1>2. PICK i \in 1 .. Len(t) : e = t[i]
  BY <1>1 DEF ToSet
<1>3. n + i \in DOMAIN s /\ s[n + i] = e
  BY <1>1, <1>2
<1> QED
  BY <1>3 DEF ToSet

LEMMA LeafOfEnd ==
  ASSUME NEW s \in Seq(FileEntry), NEW t \in Seq(FileEntry), EndsWith(s, t),
         \E e \in ToSet(t) : IsEntry(e)
  PROVE  LeafOf(s) = LeafOf(t)
<1>0. PICK n \in Nat : Parts(s, t, n)
  BY EndParts
<1>1. /\ DOMAIN t = 1 .. Len(t) /\ DOMAIN s = 1 .. Len(s) /\ Len(t) \in Nat /\ Len(s) \in Nat
      /\ Len(s) = n + Len(t)
      /\ \A i \in 1 .. Len(t) : n + i \in DOMAIN s /\ s[n + i] = t[i]
      /\ \A i \in DOMAIN s : i > n => i - n \in DOMAIN t /\ s[i] = t[i - n]
  BY <1>0 DEF Parts
<1>2. PICK i \in DOMAIN t :
        IsEntry(t[i]) /\ LeafOf(t) = t[i].id /\ \A j \in DOMAIN t : IsEntry(t[j]) => j <= i
  BY LeafFacts
<1>3. \E e \in ToSet(s) : IsEntry(e)
  BY SetOfEnd
<1>4. PICK k \in DOMAIN s :
        IsEntry(s[k]) /\ LeafOf(s) = s[k].id /\ \A j \in DOMAIN s : IsEntry(s[j]) => j <= k
  BY <1>3, LeafFacts
<1>5. n + i \in DOMAIN s /\ s[n + i] = t[i]
  BY <1>1, <1>2
<1>6. n + i <= k
  BY <1>2, <1>4, <1>5
<1>7. k > n
  BY <1>1, <1>2, <1>4, <1>6
<1>8. k - n \in DOMAIN t /\ s[k] = t[k - n]
  BY <1>1, <1>4, <1>7
<1>9. k - n <= i
  BY <1>2, <1>4, <1>8
<1>10. k = n + i
  BY <1>1, <1>2, <1>4, <1>6, <1>9
<1> QED
  BY <1>2, <1>4, <1>5, <1>10

LEMMA LabelledOfEnd ==
  ASSUME NEW s \in Seq(FileEntry), NEW t \in Seq(FileEntry), EndsWith(s, t), ToSet(s) \subseteq ToSet(t)
  PROVE  Labelled(s) = Labelled(t)
<1>0. PICK n \in Nat : Parts(s, t, n)
  BY EndParts
<1>1. /\ DOMAIN t = 1 .. Len(t) /\ DOMAIN s = 1 .. Len(s) /\ Len(t) \in Nat /\ Len(s) \in Nat
      /\ Len(s) = n + Len(t)
      /\ \A i \in 1 .. Len(t) : n + i \in DOMAIN s /\ s[n + i] = t[i]
      /\ \A i \in DOMAIN s : i > n => i - n \in DOMAIN t /\ s[i] = t[i - n]
  BY <1>0 DEF Parts
<1>2. ASSUME NEW id, NEW i \in About(t, id) PROVE n + i \in About(s, id) /\ s[n + i] = t[i] /\ i \in Nat
  BY <1>1, <1>2 DEF About
<1>3. ASSUME NEW id, NEW i \in About(s, id), i > n
      PROVE  i - n \in About(t, id) /\ s[i] = t[i - n] /\ i \in Nat
  BY <1>1, <1>3 DEF About
<1>4. ASSUME NEW id, NEW i \in About(s, id) PROVE \E k \in About(t, id) : t[k] = s[i]
  <2>1. i \in DOMAIN s /\ s[i] \in ToSet(t)
    BY <1>4 DEF About, ToSet
  <2>2. PICK k \in DOMAIN t : t[k] = s[i]
    BY <2>1 DEF ToSet
  <2> QED
    BY <1>4, <2>2 DEF About
<1>5. ASSUME NEW id, NEW i \in About(s, id), s[i].kind = "label", \A j \in About(s, id) : j <= i
      PROVE  \E k \in About(t, id) : t[k].kind = "label" /\ \A j \in About(t, id) : j <= k
  <2>1. PICK a \in About(t, id) : TRUE
    BY <1>4, <1>5
  <2>2. n + a <= i /\ a \in 1 .. Len(t) /\ i \in Nat
    BY <1>1, <1>2, <1>5 DEF About
  <2>3. i > n
    BY <1>1, <2>2
  <2>4. i - n \in About(t, id) /\ s[i] = t[i - n]
    BY <1>3, <1>5, <2>3
  <2>5. \A j \in About(t, id) : j <= i - n
    <3> TAKE j \in About(t, id)
    <3>1. n + j <= i /\ j \in Nat
      BY <1>2, <1>5
    <3> QED
      BY <2>2, <3>1
  <2> QED
    BY <1>5, <2>4, <2>5
<1>6. ASSUME NEW id, NEW i \in About(t, id), t[i].kind = "label", \A j \in About(t, id) : j <= i
      PROVE  \E k \in About(s, id) : s[k].kind = "label" /\ \A j \in About(s, id) : j <= k
  <2>1. n + i \in About(s, id) /\ s[n + i] = t[i] /\ i \in Nat
    BY <1>2, <1>6
  <2>2. \A j \in About(s, id) : j <= n + i
    <3> TAKE j \in About(s, id)
    <3>1. j \in Nat
      BY <1>1 DEF About
    <3>2. CASE j <= n
      BY <2>1, <3>1, <3>2
    <3>3. CASE j > n
      <4>1. j - n \in About(t, id)
        BY <1>3, <3>3
      <4>2. j - n <= i
        BY <1>6, <4>1
      <4> QED
        BY <2>1, <3>1, <4>2
    <3> QED
      BY <3>1, <3>2, <3>3
  <2> QED
    BY <1>6, <2>1, <2>2
<1>7. Labelled(s) = {id \in 1 .. MaxEntries :
        \E i \in About(s, id) : s[i].kind = "label" /\ \A j \in About(s, id) : j <= i}
  BY LabelledIs, Zenon
<1>8. Labelled(t) = {id \in 1 .. MaxEntries :
        \E i \in About(t, id) : t[i].kind = "label" /\ \A j \in About(t, id) : j <= i}
  BY LabelledIs, Zenon
<1> QED
  BY <1>5, <1>6, <1>7, <1>8

(***************************************************************************)
(* The inductive invariant.                                                *)
(***************************************************************************)
\* No entry is older than its parent, or younger than the last one made.
Below(es, n) == \A e \in ToSet(es) : IsEntry(e) => e.parent < e.id /\ e.id <= n
Begun(es) == es # <<>> /\ es[1].kind = "session"
Clean(es) == ToSet(es) \cap {Torn, Spoilt} = {}

\* what the file will hold when the write under way is over
Coming == disk[file] \o writing

FilesInv ==
  /\ \A f \in Files : f > used.file => disk[f] = <<>>
  /\ file <= used.file
  /\ ~Open => writing = <<>>

\* A crash between two lines leaves a file like this too.
Readable(lines) == Clean(lines) => ParentsFirst(lines) /\ (lines # <<>> => Begun(lines))
DiskInv == \A f \in Files : Below(disk[f], used.entry) /\ Readable(disk[f])

\* The file may begin with what was in it before the first answer, and then holds it twice.
Follows ==
  /\ ParentsFirst(entries) /\ Readable(Coming)
  /\ ToSet(disk[file]) \subseteq ToSet(entries)
  /\ flushed => EndsWith(Coming, entries)

OpenInv ==
  Open =>
    /\ Begun(entries) /\ Below(entries, used.entry)
    /\ labels = Labelled(entries) /\ leaf \in Ids(entries) \cup {0}
    /\ ToSet(writing) \subseteq ToSet(entries)
    /\ ~flushed => ~HasAssistant(entries) /\ writing = <<>>
    /\ Clean(disk[file]) => Follows

Inv == TypeOK /\ FilesInv /\ DiskInv /\ OpenInv

(***************************************************************************)
(* Lines of a file.                                                        *)
(***************************************************************************)
LEMMA FrontFacts ==
  ASSUME NEW S, NEW s \in Seq(S), s # <<>>
  PROVE  /\ Front(s) \in Seq(S) /\ Len(Front(s)) = Len(s) - 1 /\ Len(s) \in Nat \ {0}
         /\ DOMAIN s = 1 .. Len(s) /\ DOMAIN Front(s) = 1 .. Len(s) - 1
         /\ \A i \in 1 .. Len(s) - 1 : Front(s)[i] = s[i]
         /\ Last(s) = s[Len(s)]
<1>1. Front(s) = SubSeq(s, 1, Len(s) - 1) /\ Last(s) = s[Len(s)]
  BY DEF Front, Last
<1>2. Len(s) \in Nat \ {0} /\ DOMAIN s = 1 .. Len(s)
  BY EmptySeq, LenProperties
<1>3. \A i \in 1 .. Len(s) - 1 : s[i] \in S
  BY <1>2, ElementOfSeq
<1>4. /\ SubSeq(s, 1, Len(s) - 1) \in Seq(S)
      /\ Len(SubSeq(s, 1, Len(s) - 1)) = Len(s) - 1
      /\ \A i \in 1 .. Len(s) - 1 : SubSeq(s, 1, Len(s) - 1)[i] = s[i]
  BY <1>2
<1>5. DOMAIN SubSeq(s, 1, Len(s) - 1) = 1 .. Len(s) - 1
  BY <1>4, LenProperties
<1> QED
  BY <1>1, <1>2, <1>4, <1>5

LEMMA JoinType ==
  ASSUME NEW T, NEW s \in Seq(T), NEW t \in Seq(T)
  PROVE  s \o t \in Seq(T) /\ (s \o t = <<>> <=> s = <<>> /\ t = <<>>)
BY ConcatEqualIffEmpty

LEMMA JoinThree ==
  ASSUME NEW T, NEW s \in Seq(T), NEW t \in Seq(T), NEW u \in Seq(T),
         NEW c, c = s \o t, NEW d, d = t \o u
  PROVE  c \o u = s \o d
<1>1. (s \o t) \o u = s \o (t \o u)
  BY ConcatAssociative
<1> QED
  BY <1>1, Zenon

SplitAt(s, n, a, b) == a = SubSeq(s, 1, n) /\ s = a \o b

LEMMA Split ==
  ASSUME NEW T, NEW s \in Seq(T), NEW n \in 0 .. Len(s)
  PROVE  \E a, b \in Seq(T) : SplitAt(s, n, a, b)
<1>1. PICK a : a = SubSeq(s, 1, n)
  OBVIOUS
<1>2. PICK b : b = SubSeq(s, n + 1, Len(s))
  OBVIOUS
<1>3. Len(s) \in Nat /\ \A i \in 1 .. Len(s) : s[i] \in T
  OBVIOUS
<1>4. a \in Seq(T)
  <2>1. \A i \in 1 .. n : s[i] \in T
    BY <1>3
  <2> QED
    BY <1>1, <1>3, <2>1, SubSeqProperties
<1>5. b \in Seq(T)
  <2>1. \A i \in n + 1 .. Len(s) : s[i] \in T
    BY <1>3
  <2> QED
    BY <1>2, <1>3, <2>1, SubSeqProperties
<1>6. SubSeq(s, 1, n) \o SubSeq(s, n + 1, Len(s)) = SubSeq(s, 1, Len(s))
  <2>1. 1 \in 1 .. Len(s) + 1 /\ n \in 1 - 1 .. Len(s) /\ Len(s) \in n .. Len(s)
    BY <1>3
  <2> QED
    BY <2>1, ConcatAdjacentSubSeq
<1>7. s = a \o b
  BY <1>1, <1>2, <1>6, SubSeqFull
<1>8. SplitAt(s, n, a, b)
  BY <1>1, <1>7 DEF SplitAt
<1> QED
  BY <1>4, <1>5, <1>8

LEMMA LineKinds ==
  ASSUME NEW l \in Line
  PROVE  /\ l \in FileEntry <=> l.kind \in Kinds \cup {"session"}
         /\ l \in Entry <=> IsEntry(l)
         /\ l \notin FileEntry => l \in {Torn, Spoilt}
         /\ l \in {Torn, Spoilt} => l \notin FileEntry
<1>1. Torn.kind = "torn" /\ Spoilt.kind = "spoilt"
  BY DEF Torn, Spoilt, Garbage
<1>2. \A f \in Files : Header(f).kind = "session"
  BY DEF Header
<1>3. \A e \in Entry : e.kind \in Kinds
  BY DEF Entry
<1> QED
  BY <1>1, <1>2, <1>3 DEF Line, FileEntry, IsEntry, Kinds

LEMMA SeqWithin ==
  ASSUME NEW T, NEW U, NEW s \in Seq(T), ToSet(s) \subseteq U
  PROVE  s \in Seq(U)
<1>1. \A i \in 1 .. Len(s) : s[i] \in U
  BY DEF ToSet
<1> QED
  BY <1>1

LEMMA LoadFacts ==
  ASSUME NEW lines \in Seq(Line)
  PROVE  /\ Load(lines) \in Seq(FileEntry) /\ ToSet(Load(lines)) \subseteq ToSet(lines)
         /\ Load(lines) # <<>> => Begun(Load(lines))
         /\ Clean(lines) /\ Begun(lines) => Load(lines) = lines
<1> DEFINE kinds == Kinds \cup {"session"}
<1>1. PICK good : good = Only(lines, kinds)
  OBVIOUS
<1>2. /\ good \in Seq(Line) /\ ToSet(good) = {l \in ToSet(lines) : l.kind \in kinds}
      /\ (\A l \in ToSet(lines) : l.kind \in kinds) => good = lines
  BY <1>1, OnlyFacts
<1>3. ToSet(lines) \subseteq Line
  BY SetOfSeq
<1>4. good \in Seq(FileEntry)
  <2>1. ToSet(good) \subseteq FileEntry
    BY <1>2, <1>3, LineKinds
  <2> QED
    BY <1>2, <2>1, SeqWithin
<1>5. Load(lines) = IF good # <<>> /\ good[1].kind = "session" THEN good ELSE <<>>
  BY <1>1 DEF Load
<1>6. Clean(lines) => good = lines
  <2> SUFFICES ASSUME Clean(lines) PROVE \A l \in ToSet(lines) : l.kind \in kinds
    BY <1>2
  <2> QED
    BY <1>3, LineKinds DEF Clean
<1>7. ToSet(<<>>) = {} /\ <<>> \in Seq(FileEntry)
  BY DEF ToSet
<1>8. ToSet(good) \subseteq ToSet(lines)
  BY <1>2
<1> QED
  BY <1>4, <1>5, <1>6, <1>7, <1>8 DEF Begun

LEMMA AddedFacts ==
  ASSUME NEW lines \in Seq(Line), NEW more \in Seq(Line)
  PROVE  /\ Added(lines, more) \in Seq(Line)
         /\ ToSet(Added(lines, more)) \subseteq ToSet(lines) \cup ToSet(more) \cup {Spoilt}
         /\ Clean(Added(lines, more)) =>
              Added(lines, more) = lines \o more /\ Clean(lines) /\ Clean(more)
<1>1. CASE ~(more # <<>> /\ lines # <<>> /\ Last(lines) = Torn)
  <2>1. Added(lines, more) = lines \o more
    BY <1>1 DEF Added
  <2>2. ToSet(lines \o more) = ToSet(lines) \cup ToSet(more)
    BY SetOfJoin
  <2>3. lines \o more \in Seq(Line)
    OBVIOUS
  <2> QED
    BY <2>1, <2>2, <2>3 DEF Clean
<1>2. CASE more # <<>> /\ lines # <<>> /\ Last(lines) = Torn
  <2>1. PICK a : a = Front(lines)
    OBVIOUS
  <2>2. PICK b : b = Tail(more)
    OBVIOUS
  <2>3. PICK c : c = <<Spoilt>>
    OBVIOUS
  <2>4. Added(lines, more) = (a \o c) \o b
    BY <1>2, <2>1, <2>2, <2>3 DEF Added
  <2>5. a \in Seq(Line) /\ ToSet(a) \subseteq ToSet(lines)
    <3>1. /\ Len(a) = Len(lines) - 1 /\ DOMAIN a = 1 .. Len(lines) - 1 /\ a \in Seq(Line)
          /\ DOMAIN lines = 1 .. Len(lines)
          /\ \A i \in 1 .. Len(lines) - 1 : a[i] = lines[i]
      BY <1>2, <2>1, FrontFacts
    <3> QED
      BY <3>1 DEF ToSet
  <2>6. b \in Seq(Line) /\ ToSet(b) \subseteq ToSet(more)
    <3>1. /\ Len(b) = Len(more) - 1 /\ DOMAIN b = 1 .. Len(more) - 1 /\ b \in Seq(Line)
          /\ DOMAIN more = 1 .. Len(more) /\ Len(more) \in Nat
          /\ \A i \in 1 .. Len(more) - 1 : b[i] = more[i + 1]
      BY <1>2, <2>2
    <3>2. \A i \in 1 .. Len(more) - 1 : i + 1 \in DOMAIN more
      BY <3>1
    <3> QED
      BY <3>1, <3>2 DEF ToSet
  <2>7. c \in Seq(Line) /\ ToSet(c) = {Spoilt}
    <3>1. Len(c) = 1 /\ DOMAIN c = {1} /\ c[1] = Spoilt
      BY <2>3
    <3>2. Spoilt \in Line
      BY DEF Line
    <3> QED
      BY <2>3, <3>1, <3>2 DEF ToSet
  <2>8. PICK d \in Seq(Line) : d = a \o c
    <3>1. a \o c \in Seq(Line)
      BY <2>5, <2>7, JoinType
    <3> QED
      BY <3>1
  <2>9. ToSet(d) = ToSet(a) \cup ToSet(c)
    BY <2>5, <2>7, <2>8, SetOfJoin
  <2>10. d \o b \in Seq(Line) /\ ToSet(d \o b) = ToSet(d) \cup ToSet(b)
    BY <2>6, SetOfJoin, JoinType
  <2>11. Added(lines, more) = d \o b
    BY <2>4, <2>8
  <2> QED
    BY <2>5, <2>6, <2>7, <2>9, <2>10, <2>11 DEF Clean
<1> QED
  BY <1>1, <1>2

\* A crash cuts what was to be written.
LEMMA ReadablePart ==
  ASSUME NEW lines \in Seq(Line), NEW more \in Seq(Line), NEW n \in 0 .. Len(more),
         Readable(lines \o more), Clean(lines), Clean(more)
  PROVE  Readable(lines \o SubSeq(more, 1, n))
<1>2. PICK a, b \in Seq(Line) : SplitAt(more, n, a, b)
  BY Split
<1>3. a = SubSeq(more, 1, n) /\ more = a \o b
  BY <1>2 DEF SplitAt
<1>4. PICK c \in Seq(Line) : c = lines \o a
  BY JoinType
<1>5. lines \o more = c \o b
  BY <1>3, <1>4, JoinThree, SMTT(30)
<1>6. ToSet(lines \o more) = ToSet(lines) \cup ToSet(more)
  BY SetOfJoin
<1>7. ParentsFirst(c \o b) /\ (c \o b # <<>> => Begun(c \o b))
  BY <1>5, <1>6 DEF Readable, Clean
<1>8. ParentsFirst(c)
  BY <1>3, <1>4, <1>7, ParentsOfPart
<1>9. ASSUME c # <<>> PROVE Begun(c)
  <2>1. c \o b # <<>> /\ (c \o b)[1] = c[1]
    BY <1>3, <1>4, <1>9
  <2> QED
    BY <1>7, <1>9, <2>1 DEF Begun
<1> QED
  BY <1>3, <1>4, <1>8, <1>9 DEF Readable

LEMMA EntriesAreLines ==
  ASSUME NEW es \in Seq(FileEntry)
  PROVE  es \in Seq(Line) /\ Clean(es)
<1>1. FileEntry \subseteq Line
  BY DEF Line
<1>2. es \in Seq(Line)
  BY <1>1, SeqMonotonic
<1>3. \A e \in ToSet(es) : e \in FileEntry /\ e \in Line
  BY <1>1, SetOfSeq
<1> QED
  BY <1>2, <1>3, LineKinds DEF Clean

LEMMA OpenTypes ==
  ASSUME TypeOK, Open
  PROVE  /\ file \in Files /\ disk[file] \in Seq(Line) /\ writing \in Seq(Line) /\ Clean(writing)
         /\ entries \in Seq(Line) /\ Clean(entries)
BY EntriesAreLines DEF TypeOK, Open

\* What is added to a file makes it hold what was coming, or a part of it.
LEMMA DiskKept ==
  ASSUME Inv, Open, NEW n \in 0 .. Len(writing), NEW torn \in {<<>>, <<Torn>>},
         disk' = [disk EXCEPT ![file] = Added(@, SubSeq(writing, 1, n) \o torn)],
         UNCHANGED used
  PROVE  DiskInv' /\ disk' \in [Files -> Seq(Line)]
<1>1. /\ file \in Files /\ disk[file] \in Seq(Line) /\ writing \in Seq(Line) /\ Clean(writing)
      /\ disk \in [Files -> Seq(Line)]
  BY OpenTypes DEF Inv, TypeOK
<1>2. PICK more : more = SubSeq(writing, 1, n) \o torn
  OBVIOUS
<1>3. /\ more \in Seq(Line) /\ ToSet(more) \subseteq ToSet(writing) \cup {Torn}
      /\ Clean(more) => more = SubSeq(writing, 1, n)
  <2>1. PICK a, b \in Seq(Line) : SplitAt(writing, n, a, b)
    BY <1>1, Split
  <2>2. a = SubSeq(writing, 1, n) /\ writing = a \o b
    BY <2>1 DEF SplitAt
  <2>3. ToSet(a) \subseteq ToSet(writing)
    <3>1. ToSet(a \o b) = ToSet(a) \cup ToSet(b)
      BY SetOfJoin
    <3>2. ToSet(writing) = ToSet(a) \cup ToSet(b)
      BY <2>2, <3>1, Zenon
    <3> QED
      BY <3>2
  <2>4. CASE torn = <<>>
    <3>1. more = a
      BY <1>2, <2>2, <2>4, ConcatEmptySeq
    <3> QED
      BY <2>2, <2>3, <3>1
  <2>5. CASE torn = <<Torn>>
    <3>1. PICK t : t = <<Torn>>
      OBVIOUS
    <3>2. t \in Seq(Line) /\ ToSet(t) = {Torn}
      <4>1. Torn \in Line
        BY DEF Line
      <4>2. Len(t) = 1 /\ DOMAIN t = {1} /\ t[1] = Torn
        BY <3>1
      <4> QED
        BY <3>1, <4>1, <4>2 DEF ToSet
    <3>3. more = a \o t
      BY <1>2, <2>2, <2>5, <3>1
    <3>4. a \o t \in Seq(Line) /\ ToSet(a \o t) = ToSet(a) \cup ToSet(t)
      BY <3>2, SetOfJoin, JoinType
    <3> QED
      BY <2>3, <3>2, <3>3, <3>4 DEF Clean
  <2> QED
    BY <2>4, <2>5
<1>4. PICK added : added = Added(disk[file], more)
  OBVIOUS
<1>5. /\ added \in Seq(Line)
      /\ ToSet(added) \subseteq ToSet(disk[file]) \cup ToSet(more) \cup {Spoilt}
      /\ Clean(added) => added = disk[file] \o more /\ Clean(disk[file]) /\ Clean(more)
  BY <1>1, <1>3, <1>4, AddedFacts
<1>6. disk' = [disk EXCEPT ![file] = added]
  BY <1>2, <1>4
<1>7. Below(added, used.entry)
  <2>1. ToSet(writing) \subseteq ToSet(entries) /\ Below(entries, used.entry) /\ Below(disk[file], used.entry)
    BY <1>1 DEF Inv, OpenInv, DiskInv
  <2>2. ToSet(added) \subseteq ToSet(disk[file]) \cup ToSet(entries) \cup {Torn, Spoilt}
    BY <1>3, <1>5, <2>1
  <2>3. ~IsEntry(Torn) /\ ~IsEntry(Spoilt)
    BY DEF IsEntry, Torn, Spoilt, Garbage, Kinds
  <2> QED
    BY <2>1, <2>2, <2>3 DEF Below
<1>8. Readable(added)
  <2> SUFFICES ASSUME Clean(added) PROVE Readable(added)
    BY DEF Readable
  <2>1. added = disk[file] \o SubSeq(writing, 1, n) /\ Clean(disk[file])
    BY <1>3, <1>5
  <2>2. Readable(disk[file] \o writing)
    BY <2>1 DEF Inv, OpenInv, Follows, Coming
  <2>3. Readable(disk[file] \o SubSeq(writing, 1, n))
    BY <1>1, <2>1, <2>2, ReadablePart
  <2> QED
    BY <2>1, <2>3
<1>9. DiskInv'
  <2>1. ASSUME NEW f \in Files PROVE Below(disk'[f], used.entry) /\ Readable(disk'[f])
    <3>1. disk'[f] = IF f = file THEN added ELSE disk[f]
      BY <1>1, <1>6
    <3> QED
      BY <1>7, <1>8, <3>1 DEF Inv, DiskInv
  <2> QED
    BY <2>1 DEF DiskInv
<1> QED
  BY <1>1, <1>5, <1>6, <1>9

LEMMA WriteKeeps ==
  ASSUME Inv, Write
  PROVE  Inv'
<1>1. Open /\ ~Idle
  BY DEF Write, Inv, FilesInv, Idle
<1>2. /\ file \in Files /\ disk[file] \in Seq(Line) /\ writing \in Seq(Line) /\ Clean(writing)
      /\ disk \in [Files -> Seq(Line)] /\ entries \in Seq(Line)
  BY <1>1, OpenTypes DEF Inv, TypeOK
<1>3. /\ disk' = [disk EXCEPT ![file] = Added(@, writing)] /\ writing' = <<>>
      /\ UNCHANGED <<file, entries, leaf, flushed, labels, used, crashes>>
  BY DEF Write
<1>4. DiskInv' /\ disk' \in [Files -> Seq(Line)]
  <2>1. SubSeq(writing, 1, Len(writing)) \o <<>> = writing /\ Len(writing) \in 0 .. Len(writing)
    BY <1>2, SubSeqFull, ConcatEmptySeq
  <2> QED
    BY <1>1, <1>3, <2>1, DiskKept
<1>5. PICK added : added = Added(disk[file], writing)
  OBVIOUS
<1>6. added \in Seq(Line) /\ (Clean(added) => added = Coming /\ Clean(disk[file]))
  BY <1>2, <1>5, AddedFacts DEF Coming
<1>7. disk'[file] = added /\ \A f \in Files : f # file => disk'[f] = disk[f]
  BY <1>2, <1>3, <1>5
<1>8. Coming' = added
  BY <1>3, <1>6, <1>7, ConcatEmptySeq DEF Coming
<1>9. ASSUME Clean(added) PROVE Follows'
  <2>1. Follows /\ added = Coming
    BY <1>1, <1>6, <1>9 DEF Inv, OpenInv
  <2>2. ToSet(Coming) \subseteq ToSet(entries)
    <3>1. ToSet(writing) \subseteq ToSet(entries) /\ ToSet(disk[file]) \subseteq ToSet(entries)
      BY <1>1, <2>1 DEF Inv, OpenInv, Follows
    <3> QED
      BY <1>2, <3>1, SetOfJoin DEF Coming
  <2>3. Readable(Coming)' /\ ParentsFirst(entries)'
    <3>1. Readable(added) /\ ParentsFirst(entries)
      BY <2>1 DEF Follows
    <3>2. Readable(Coming)' = Readable(added) /\ ParentsFirst(entries)' = ParentsFirst(entries)
      BY <1>3, <1>8 DEF Readable, ParentsFirst, Begun, Clean
    <3> QED
      BY <3>1, <3>2
  <2>4. flushed => EndsWith(added, entries)
    BY <2>1 DEF Follows
  <2>5. ToSet(disk'[file]) \subseteq ToSet(entries)
    BY <1>7, <2>1, <2>2
  <2> QED
    BY <1>3, <1>7, <1>8, <2>3, <2>4, <2>5 DEF Follows
<1>10. TypeOK'
  <2>1. <<>> \in Seq(FileEntry)
    OBVIOUS
  <2> QED
    BY <1>3, <1>4, <2>1 DEF Inv, TypeOK
<1>11. FilesInv'
  <2>1. file <= used.file /\ used.file \in Nat /\ file \in Nat
    BY <1>2, BoundAssumption DEF Inv, FilesInv, TypeOK, Files
  <2>2. \A f \in Files : f > used.file => disk'[f] = <<>>
    <3> TAKE f \in Files
    <3>1. f > used.file => f # file /\ disk[f] = <<>>
      BY <2>1 DEF Inv, FilesInv, Files
    <3> QED
      BY <1>7, <3>1
  <2> QED
    BY <1>3, <2>1, <2>2 DEF FilesInv, Open
<1>12. OpenInv'
  <2>1. /\ Begun(entries) /\ Below(entries, used.entry)
        /\ labels = Labelled(entries) /\ leaf \in Ids(entries) \cup {0}
        /\ ~flushed => ~HasAssistant(entries)
    BY <1>1 DEF Inv, OpenInv
  <2>2. ToSet(<<>>) = {}
    BY DEF ToSet
  <2> QED
    BY <1>3, <1>7, <1>9, <2>1, <2>2 DEF OpenInv
<1> QED
  BY <1>4, <1>10, <1>11, <1>12 DEF Inv

LEMMA CrashKeeps ==
  ASSUME Inv, Crash
  PROVE  Inv'
<1>1. /\ Open /\ file' = 0 /\ entries' = <<>> /\ leaf' = 0 /\ flushed' = FALSE /\ labels' = {}
      /\ writing' = <<>> /\ used' = used /\ crashes < MaxCrashes /\ crashes' = crashes + 1
  BY DEF Crash
<1>2. PICK n \in 0 .. Len(writing), torn \in {<<>>, <<Torn>>} :
        disk' = [disk EXCEPT ![file] = Added(@, SubSeq(writing, 1, n) \o torn)]
  BY DEF Crash
<1>3. DiskInv' /\ disk' \in [Files -> Seq(Line)]
  BY <1>1, <1>2, DiskKept
<1>4. TypeOK'
  <2>1. <<>> \in Seq(FileEntry) /\ crashes' \in 0 .. MaxCrashes
    BY <1>1, BoundAssumption DEF Inv, TypeOK
  <2>2. 0 \in 0 .. MaxEntries
    BY BoundAssumption
  <2> QED
    BY <1>1, <1>3, <2>1, <2>2 DEF Inv, TypeOK
<1>5. FilesInv'
  <2>1. file <= used.file /\ used.file \in Nat /\ file \in Files /\ disk \in [Files -> Seq(Line)]
    BY <1>1, OpenTypes, BoundAssumption DEF Inv, FilesInv, TypeOK, Files
  <2>2. \A f \in Files : f > used.file => disk'[f] = <<>>
    <3> TAKE f \in Files
    <3>1. f > used.file => f # file /\ disk[f] = <<>>
      BY <2>1 DEF Inv, FilesInv, Files
    <3>2. f # file => disk'[f] = disk[f]
      BY <1>2, <2>1
    <3> QED
      BY <3>1, <3>2
  <2> QED
    BY <1>1, <2>1, <2>2 DEF FilesInv, Open
<1>6. OpenInv'
  BY <1>1 DEF OpenInv, Open
<1> QED
  BY <1>3, <1>4, <1>5, <1>6 DEF Inv

LEMMA BranchKeeps ==
  ASSUME Inv, NEW id \in Ids(entries) \cup {0}, Branch(id)
  PROVE  Inv'
<1>1. leaf' = id /\ UNCHANGED <<disk, file, entries, flushed, labels, writing, used, crashes>>
  BY DEF Branch
<1>2. id \in 0 .. MaxEntries
  <2>1. id \in Ids(entries) => id \in 1 .. MaxEntries
    <3> SUFFICES ASSUME id \in Ids(entries) PROVE id \in 1 .. MaxEntries
      OBVIOUS
    <3>1. Get(entries, id) \in Entry /\ Get(entries, id).id = id
      BY GetFacts DEF Inv, TypeOK
    <3> QED
      BY <3>1 DEF Entry
  <2> QED
    BY <2>1, BoundAssumption
<1>3. TypeOK'
  BY <1>1, <1>2 DEF Inv, TypeOK
<1>4. FilesInv' /\ DiskInv'
  BY <1>1 DEF Inv, FilesInv, DiskInv, Open, Below, Readable, Clean, ParentsFirst, Begun
<1>5. OpenInv'
  <2>1. OpenInv /\ (Follows' <=> Follows)
    BY <1>1 DEF Inv, Follows, Readable, Coming, EndsWith, ParentsFirst, Clean, Begun
  <2> QED
    BY <1>1, <2>1 DEF OpenInv, Open, Begun, Below, Clean
<1> QED
  BY <1>3, <1>4, <1>5 DEF Inv

LEMMA NewSessionKeeps ==
  ASSUME Inv, NewSession
  PROVE  Inv'
<1>0. PICK new : new = used.file + 1
  OBVIOUS
<1>00. PICK h : h = Header(new)
  OBVIOUS
<1>1. /\ Idle /\ used.file < MaxFiles /\ used' = [used EXCEPT !.file = @ + 1]
      /\ file' = new /\ entries' = <<h>> /\ leaf' = 0 /\ flushed' = FALSE /\ labels' = {}
      /\ UNCHANGED <<disk, writing, crashes>>
  BY <1>0, <1>00 DEF NewSession, NewFile
<1>2. /\ used.file \in 0 .. MaxFiles /\ used.entry \in 0 .. MaxEntries /\ MaxFiles \in Nat /\ MaxEntries \in Nat
      /\ used \in [entry : 0 .. MaxEntries, file : 0 .. MaxFiles]
  BY BoundAssumption DEF Inv, TypeOK
<1>3. /\ new \in Files /\ new > used.file /\ new # 0
      /\ used'.file = new /\ used'.entry = used.entry
      /\ used' \in [entry : 0 .. MaxEntries, file : 0 .. MaxFiles]
  BY <1>0, <1>1, <1>2 DEF Files
<1>4. h.kind = "session" /\ h.parent = 0 /\ h \in FileEntry
  BY <1>00, <1>3 DEF Header, FileEntry
<1>5. PICK es : es = <<h>>
  OBVIOUS
<1>6. es \in Seq(FileEntry) /\ Len(es) = 1 /\ DOMAIN es = {1} /\ es[1] = h /\ ToSet(es) = {h} /\ es # <<>>
  BY <1>4, <1>5 DEF ToSet
<1>7. entries' = es
  BY <1>1, <1>5
<1>8. disk[new] = <<>> /\ writing = <<>>
  BY <1>1, <1>3 DEF Inv, FilesInv, Idle
<1>9. TypeOK'
  <2>1. 0 \in 0 .. MaxEntries
    BY <1>2
  <2> QED
    BY <1>1, <1>3, <1>6, <1>7, <2>1 DEF Inv, TypeOK
<1>10. FilesInv'
  <2>1. \A f \in Files : f > new => disk[f] = <<>>
    <3> TAKE f \in Files
    <3>1. f > new => f > used.file
      BY <1>0, <1>2 DEF Files
    <3> QED
      BY <3>1 DEF Inv, FilesInv
  <2> QED
    BY <1>1, <1>3, <1>8, <2>1 DEF FilesInv, Open, Files
<1>11. DiskInv'
  <2>1. DiskInv
    BY DEF Inv
  <2> QED
    BY <1>1, <1>3, <2>1 DEF DiskInv, Below, Readable, Clean, ParentsFirst, Begun
<1>12. ~IsEntry(h)
  BY <1>4 DEF IsEntry, Kinds
<1>13. Begun(es) /\ (\A n : Below(es, n)) /\ Labelled(es) = {} /\ ParentsFirst(es) /\ ~HasAssistant(es)
  <2>1. Begun(es) /\ (\A n : Below(es, n)) /\ ParentsFirst(es) /\ ~HasAssistant(es)
    BY <1>4, <1>6, <1>12 DEF Begun, Below, ParentsFirst, HasAssistant
  <2>2. \A id : About(es, id) = {}
    BY <1>4, <1>6 DEF About
  <2>3. Labelled(es) = {id \in 1 .. MaxEntries :
          \E i \in About(es, id) : es[i].kind = "label" /\ \A j \in About(es, id) : j <= i}
    BY LabelledIs, Zenon
  <2> QED
    BY <2>1, <2>2, <2>3
<1>14. ToSet(<<>>) = {} /\ Readable(<<>>) /\ <<>> \o <<>> = <<>>
  BY DEF ToSet, Readable, ParentsFirst
<1>15. Coming' = <<>>
  BY <1>1, <1>8, <1>14 DEF Coming
<1>16. Follows'
  <2>1. Readable(Coming)'
    BY <1>14, <1>15 DEF Readable, Clean, ParentsFirst, Begun
  <2>2. ParentsFirst(entries)'
    BY <1>7, <1>13 DEF ParentsFirst
  <2>3. ToSet(disk[file])' \subseteq ToSet(entries)'
    BY <1>1, <1>8, <1>14
  <2> QED
    BY <1>1, <2>1, <2>2, <2>3 DEF Follows
<1>17. OpenInv'
  BY <1>1, <1>7, <1>8, <1>13, <1>14, <1>16 DEF OpenInv, HasAssistant
<1> QED
  BY <1>9, <1>10, <1>11, <1>17 DEF Inv

\* What all operations share that append an entry.
LEMMA AppendEntryKeeps ==
  ASSUME Inv, NEW kind \in Kinds, NEW parent \in Ids(entries) \cup {0}, NEW target \in 0 .. MaxEntries,
         AppendEntry(kind, parent, target), labels' = Labelled(entries')
  PROVE  Inv'
<1>0. PICK e : e = [id |-> used.entry + 1, parent |-> parent, kind |-> kind, target |-> target]
  OBVIOUS
<1>1. /\ Open /\ writing = <<>> /\ used.entry < MaxEntries /\ used' = [used EXCEPT !.entry = @ + 1]
      /\ entries' = Append(entries, e) /\ leaf' = e.id
      /\ flushed' = HasAssistant(Append(entries, e))
      /\ writing' = IF ~HasAssistant(Append(entries, e)) THEN <<>>
                    ELSE IF flushed THEN <<Last(Append(entries, e))>> ELSE Append(entries, e)
      /\ UNCHANGED <<disk, file, crashes>>
  BY <1>0 DEF AppendEntry, Persist, Idle
<1>2. /\ used.file \in 0 .. MaxFiles /\ used.entry \in 0 .. MaxEntries /\ MaxFiles \in Nat /\ MaxEntries \in Nat
      /\ used \in [entry : 0 .. MaxEntries, file : 0 .. MaxFiles]
      /\ entries \in Seq(FileEntry) /\ file \in Files /\ disk \in [Files -> Seq(Line)]
      /\ disk[file] \in Seq(Line)
  BY <1>1, OpenTypes, BoundAssumption DEF Inv, TypeOK
<1>3. /\ used'.file = used.file /\ used'.entry = used.entry + 1
      /\ used' \in [entry : 0 .. MaxEntries, file : 0 .. MaxFiles]
  <2>1. used' = [used EXCEPT !.entry = used.entry + 1] /\ used.entry < MaxEntries
    BY <1>1
  <2>2. used.entry + 1 \in 0 .. MaxEntries
    BY <1>2, <2>1
  <2>3. used \in [entry : 0 .. MaxEntries, file : 0 .. MaxFiles]
    BY <1>2
  <2> QED
    BY <2>1, <2>2, <2>3
<1>4. /\ Begun(entries) /\ Below(entries, used.entry) /\ leaf \in Ids(entries) \cup {0}
      /\ ~flushed => ~HasAssistant(entries)
      /\ Clean(disk[file]) => Follows
  BY <1>1 DEF Inv, OpenInv
<1>5. parent \in 0 .. used.entry
  <2>1. ASSUME parent \in Ids(entries) PROVE parent \in 1 .. MaxEntries /\ parent <= used.entry
    <3>1. Get(entries, parent) \in Entry /\ Get(entries, parent) \in ToSet(entries)
          /\ Get(entries, parent).id = parent
      BY <1>2, <2>1, GetFacts
    <3>2. IsEntry(Get(entries, parent))
      BY <3>1 DEF Entry, IsEntry
    <3>3. Get(entries, parent).id \in 1 .. MaxEntries
      BY <3>1 DEF Entry
    <3> QED
      BY <1>4, <3>1, <3>2, <3>3 DEF Below
  <2> QED
    BY <1>2, <2>1
<1>6. /\ e.id = used.entry + 1 /\ e.parent = parent /\ e.kind = kind /\ e.target = target
      /\ e \in Entry /\ IsEntry(e) /\ e.id \in 1 .. MaxEntries /\ e.parent < e.id
  BY <1>0, <1>1, <1>2, <1>5 DEF Entry, IsEntry
<1>7. e \in FileEntry /\ e \in Line
  BY <1>6 DEF FileEntry, Line
<1>8. PICK es : es = Append(entries, e)
  OBVIOUS
<1>9. /\ es \in Seq(FileEntry) /\ Len(es) = Len(entries) + 1 /\ Len(entries) \in Nat /\ es[Len(es)] = e
      /\ DOMAIN es = 1 .. Len(entries) + 1 /\ DOMAIN entries = 1 .. Len(entries)
      /\ \A i \in 1 .. Len(entries) : es[i] = entries[i]
  BY <1>2, <1>7, <1>8
<1>10. ToSet(es) = ToSet(entries) \cup {e}
  BY <1>2, <1>7, <1>8, SetOfMore
<1>11. Begun(es) /\ Below(es, used.entry + 1)
  <2>1. Begun(es)
    <3>1. entries # <<>> /\ entries[1].kind = "session"
      BY <1>4 DEF Begun
    <3>2. Len(entries) > 0
      BY <1>2, <3>1, EmptySeq
    <3>3. es # <<>> /\ es[1] = entries[1]
      BY <1>9, <3>2
    <3> QED
      BY <3>1, <3>3 DEF Begun
  <2>2. ASSUME NEW x \in ToSet(es), IsEntry(x) PROVE x.parent < x.id /\ x.id <= used.entry + 1
    <3>1. CASE x = e
      BY <1>2, <1>6, <3>1
    <3>2. CASE x \in ToSet(entries)
      <4>1. x \in Line
        BY <1>2, <3>2, SetOfSeq DEF Line
      <4>2. x.id \in Int
        BY <1>2, <2>2, <4>1, LineKinds DEF Entry
      <4>3. x.parent < x.id /\ x.id <= used.entry
        BY <1>4, <2>2, <3>2 DEF Below
      <4> QED
        BY <1>2, <4>2, <4>3
    <3> QED
      BY <1>10, <2>2, <3>1, <3>2
  <2> QED
    BY <2>1, <2>2 DEF Below
<1>12. PICK w : w = writing'
  OBVIOUS
<1>13. w = IF ~HasAssistant(es) THEN <<>> ELSE IF flushed THEN <<e>> ELSE es
  BY <1>1, <1>8, <1>9, <1>12 DEF Last
<1>14. w \in Seq(FileEntry) /\ ToSet(w) \subseteq ToSet(es)
  <2>1. PICK one : one = <<e>>
    OBVIOUS
  <2>2. one \in Seq(FileEntry) /\ DOMAIN one = {1} /\ one[1] = e
    BY <1>7, <2>1
  <2>3. ToSet(one) = {e} /\ ToSet(<<>>) = {} /\ <<>> \in Seq(FileEntry)
    BY <2>2 DEF ToSet
  <2> QED
    BY <1>9, <1>10, <1>13, <2>1, <2>2, <2>3
<1>15. TypeOK'
  <2>1. labels' \subseteq 1 .. MaxEntries
    BY LabelledIs
  <2>2. flushed' \in BOOLEAN
    BY <1>1 DEF HasAssistant
  <2>3. leaf' \in 0 .. MaxEntries
    BY <1>1, <1>2, <1>6
  <2> QED
    BY <1>1, <1>3, <1>8, <1>9, <1>12, <1>14, <2>1, <2>2, <2>3 DEF Inv, TypeOK
<1>16. FilesInv'
  BY <1>1, <1>3 DEF Inv, FilesInv, Open
<1>17. DiskInv'
  <2>1. ASSUME NEW f \in Files PROVE Below(disk[f], used.entry + 1)
    <3>1. Below(disk[f], used.entry) /\ disk[f] \in Seq(Line)
      BY <1>2 DEF Inv, DiskInv
    <3>2. \A x \in ToSet(disk[f]) : IsEntry(x) => x.id \in Int
      BY <1>2, <3>1, SetOfSeq, LineKinds DEF Entry
    <3> QED
      BY <1>2, <3>1, <3>2 DEF Below
  <2>2. \A f \in Files : Readable(disk[f])
    BY DEF Inv, DiskInv
  <2> QED
    BY <1>1, <1>3, <2>1, <2>2 DEF DiskInv, Below, Readable, Clean, ParentsFirst, Begun
<1>18. ASSUME Clean(disk[file])
       PROVE  /\ ParentsFirst(es) /\ Readable(disk[file] \o w) /\ ToSet(disk[file]) \subseteq ToSet(es)
              /\ HasAssistant(es) => EndsWith(disk[file] \o w, es)
  <2>1. PICK lines \in Seq(Line) : lines = disk[file]
    BY <1>2
  <2>2. /\ ParentsFirst(entries) /\ Readable(lines) /\ ToSet(lines) \subseteq ToSet(entries)
        /\ flushed => EndsWith(lines, entries)
    <3>1. Follows
      BY <1>4, <1>18
    <3>2. Coming = lines
      BY <1>1, <2>1, ConcatEmptySeq DEF Coming
    <3> QED
      BY <2>1, <3>1, <3>2 DEF Follows
  <2>3. PICK one : one = <<e>>
    OBVIOUS
  <2>4. one \in Seq(FileEntry) /\ Len(one) = 1 /\ DOMAIN one = {1} /\ one[1] = e /\ one \in Seq(Line)
    BY <1>7, <2>3
  <2>5. ParentsFirst(es)
    <3>1. es = entries \o one
      BY <1>2, <1>7, <1>8, <2>3, AppendIsConcat
    <3>2. \A i \in DOMAIN one : one[i].parent = 0 \/ one[i].parent \in Ids(entries)
      BY <1>6, <2>4
    <3>3. ParentsFirst(entries \o one)
      BY <1>2, <2>2, <2>4, <3>2, ParentsOfJoin
    <3> QED
      BY <3>1, <3>3
  <2>6. es \in Seq(Line)
    BY <1>9, EntriesAreLines
  <2>7. ToSet(lines) \subseteq ToSet(es)
    BY <1>10, <2>2
  <2>8. CASE w = <<>>
    <3>1. lines \o w = lines
      BY <2>8, ConcatEmptySeq
    <3>2. ~HasAssistant(es)
      BY <1>9, <1>13, <2>8, <2>3, <2>4
    <3> QED
      BY <2>1, <2>2, <2>5, <2>7, <3>1, <3>2
  <2>9. CASE HasAssistant(es) /\ flushed
    <3>1. EndsWith(lines, entries) /\ entries \in Seq(Line)
      BY <1>2, <2>2, <2>9, EntriesAreLines
    <3>2. EndsWith(lines \o <<e>>, Append(entries, e))
      BY <1>7, <3>1, EndOfMore
    <3>3. ToSet(entries) \subseteq ToSet(lines)
      BY <3>1, SetOfEnd
    <3>4. Clean(lines) /\ ParentsFirst(lines) /\ (lines # <<>> => Begun(lines))
      BY <1>18, <2>1, <2>2 DEF Readable
    <3>5. \A i \in DOMAIN one : one[i].parent = 0 \/ one[i].parent \in Ids(lines)
      <4>1. Ids(entries) \subseteq Ids(lines)
        BY <3>3 DEF Ids
      <4> QED
        BY <1>6, <2>4, <4>1
    <3>6. ParentsFirst(lines \o one)
      BY <2>4, <3>4, <3>5, ParentsOfJoin
    <3>7. Begun(lines \o one)
      <4>1. lines # <<>>
        <5>1. entries[1] \in ToSet(entries)
          BY <1>2, <1>4, EmptySeq, SetOfSeq DEF Begun
        <5>2. ToSet(<<>>) = {}
          BY DEF ToSet
        <5> QED
          BY <3>3, <5>1, <5>2
      <4>2. Begun(lines) /\ (lines \o one)[1] = lines[1] /\ lines \o one # <<>>
        BY <2>4, <3>4, <4>1
      <4> QED
        BY <4>2 DEF Begun
    <3>8. w = one
      BY <1>13, <2>3, <2>9
    <3> QED
      BY <1>8, <2>1, <2>3, <2>5, <2>7, <3>2, <3>6, <3>7, <3>8 DEF Readable
  <2>10. CASE HasAssistant(es) /\ ~flushed
    <3>1. w = es
      BY <1>13, <2>10
    <3>2. EndsWith(lines \o es, es)
      BY <2>6, EndOfJoin
    <3>3. ParentsFirst(lines) /\ (lines # <<>> => Begun(lines))
      BY <1>18, <2>1, <2>2 DEF Readable
    <3>4. ParentsFirst(lines \o es)
      <4>1. CASE ForkPastGaps
        BY <4>1 DEF ParentsFirst
      <4>2. CASE ~ForkPastGaps
        <5>1. \A i \in DOMAIN es :
                es[i].parent = 0 \/ \E j \in 1 .. i - 1 : IsEntry(es[j]) /\ es[j].id = es[i].parent
          BY <2>5, <4>2 DEF ParentsFirst
        <5> QED
          BY <2>6, <3>3, <5>1, ParentsOfJoin
      <4> QED
        BY <4>1, <4>2
    <3>5. Begun(lines \o es)
      <4>1. CASE lines = <<>>
        <5>1. lines \o es = es
          BY <2>6, <4>1, ConcatEmptySeq
        <5> QED
          BY <1>11, <5>1
      <4>2. CASE lines # <<>>
        <5>1. Begun(lines) /\ (lines \o es)[1] = lines[1] /\ lines \o es # <<>>
          BY <2>6, <3>3, <4>2
        <5> QED
          BY <5>1 DEF Begun
      <4> QED
        BY <4>1, <4>2
    <3> QED
      BY <2>1, <2>5, <2>7, <3>1, <3>2, <3>4, <3>5 DEF Readable
  <2> QED
    BY <1>13, <2>8, <2>9, <2>10
<1>19. ASSUME Clean(disk[file]) PROVE Follows'
  <2>1. Coming' = disk[file] \o w
    BY <1>1, <1>12 DEF Coming
  <2>2. Readable(Coming)'
    BY <1>18, <1>19, <2>1 DEF Readable, Clean, ParentsFirst, Begun
  <2>3. ParentsFirst(entries)'
    BY <1>1, <1>8, <1>18, <1>19 DEF ParentsFirst
  <2>4. flushed' => EndsWith(Coming, entries)'
    BY <1>1, <1>8, <1>18, <1>19, <2>1 DEF EndsWith
  <2>5. ToSet(disk[file])' \subseteq ToSet(entries)'
    BY <1>1, <1>8, <1>18, <1>19
  <2> QED
    BY <2>2, <2>3, <2>4, <2>5 DEF Follows
<1>20. OpenInv'
  <2>1. Begun(entries)' /\ Below(entries', used'.entry)
    BY <1>1, <1>3, <1>8, <1>11 DEF Begun
  <2>2. leaf' \in Ids(entries')
    BY <1>1, <1>6, <1>8, <1>10 DEF Ids
  <2>3. ToSet(writing') \subseteq ToSet(entries')
    BY <1>1, <1>8, <1>12, <1>14
  <2>4. ~flushed' => ~HasAssistant(entries') /\ writing' = <<>>
    BY <1>1
  <2>5. Clean(disk[file])' => Follows'
    BY <1>1, <1>19 DEF Clean
  <2> QED
    BY <2>1, <2>2, <2>3, <2>4, <2>5 DEF OpenInv, Begun, Below, HasAssistant, Labelled, Ids
<1> QED
  BY <1>15, <1>16, <1>17, <1>20 DEF Inv

LEMMA AppendsKeep ==
  ASSUME Inv,
         \/ \E kind \in {"user", "assistant"} : AppendMessage(kind)
         \/ \E id \in Ids(entries) : AppendCompaction(id) \/ AppendLabelChange(id)
         \/ \E id \in Ids(entries) \cup {0} : BranchWithSummary(id)
  PROVE  Inv'
<1>1. ASSUME NEW kind \in Kinds, NEW parent, NEW target, AppendEntry(kind, parent, target),
             parent \in Ids(entries) \cup {0}, target \in Ids(entries) \cup {0},
             kind = "label" => labels' = labels \cup {target} /\ target # 0,
             kind = "unlabel" => labels' = labels \ {target},
             kind \notin {"label", "unlabel"} => labels' = labels
      PROVE  Inv'
  <2>0. entries \in Seq(FileEntry) /\ used.entry \in 0 .. MaxEntries /\ MaxEntries \in Nat
    BY BoundAssumption DEF Inv, TypeOK
  <2>1. PICK e : e = [id |-> used.entry + 1, parent |-> parent, kind |-> kind, target |-> target]
    OBVIOUS
  <2>2. Open /\ entries' = Append(entries, e) /\ used.entry < MaxEntries
    BY <1>1, <2>1 DEF AppendEntry
  <2>3. \A id \in Ids(entries) : id \in 1 .. MaxEntries
    <3> TAKE id \in Ids(entries)
    <3>1. Get(entries, id) \in Entry /\ Get(entries, id).id = id
      BY <2>0, GetFacts
    <3> QED
      BY <3>1 DEF Entry
  <2>4. target \in 0 .. MaxEntries /\ parent \in 0 .. MaxEntries
    BY <1>1, <2>0, <2>3
  <2>5. e \in Entry /\ e.kind = kind /\ e.target = target
    BY <2>0, <2>1, <2>2, <2>4 DEF Entry
  <2>6. Labelled(Append(entries, e)) =
          IF e.kind = "label" THEN Labelled(entries) \cup ({e.target} \cap 1 .. MaxEntries)
          ELSE IF e.kind = "unlabel" THEN Labelled(entries) \ {e.target} ELSE Labelled(entries)
    BY <2>0, <2>5, LabelledMore
  <2>7. labels = Labelled(entries)
    BY <2>2 DEF Inv, OpenInv
  <2>8. labels' = Labelled(entries')
    <3>1. target # 0 => {target} \cap 1 .. MaxEntries = {target}
      BY <2>0, <2>4
    <3>2. CASE kind = "label"
      BY <1>1, <2>2, <2>5, <2>6, <2>7, <3>1, <3>2
    <3>3. CASE kind = "unlabel"
      BY <1>1, <2>2, <2>5, <2>6, <2>7, <3>3
    <3>4. CASE kind \notin {"label", "unlabel"}
      BY <1>1, <2>2, <2>5, <2>6, <2>7, <3>4
    <3> QED
      BY <3>2, <3>3, <3>4
  <2> QED
    BY <1>1, <2>4, <2>8, AppendEntryKeeps
<1>2. ASSUME Open PROVE leaf \in Ids(entries) \cup {0}
  BY <1>2 DEF Inv, OpenInv
<1>3. ASSUME NEW kind \in {"user", "assistant"}, AppendMessage(kind) PROVE Inv'
  <2>1. AppendEntry(kind, leaf, 0) /\ labels' = labels /\ kind \in Kinds
    BY <1>3 DEF AppendMessage, Kinds
  <2>2. Open
    BY <2>1 DEF AppendEntry
  <2> QED
    BY <1>1, <1>2, <1>3, <2>1, <2>2
<1>4. ASSUME NEW id \in Ids(entries), AppendCompaction(id) PROVE Inv'
  <2>1. AppendEntry("compaction", leaf, id) /\ labels' = labels /\ "compaction" \in Kinds
    BY <1>4 DEF AppendCompaction, Kinds
  <2>2. Open
    BY <2>1 DEF AppendEntry
  <2> QED
    BY <1>1, <1>2, <2>1, <2>2
<1>5. ASSUME NEW id \in Ids(entries), AppendLabelChange(id) PROVE Inv'
  <2>0. id # 0
    <3>1. Get(entries, id) \in Entry /\ Get(entries, id).id = id
      BY GetFacts DEF Inv, TypeOK
    <3> QED
      BY <3>1 DEF Entry
  <2>1. CASE AppendEntry("label", leaf, id) /\ labels' = labels \cup {id}
    <3>1. Open /\ "label" \in Kinds
      BY <2>1 DEF AppendEntry, Kinds
    <3> QED
      BY <1>1, <1>2, <2>0, <2>1, <3>1
  <2>2. CASE AppendEntry("unlabel", leaf, id) /\ labels' = labels \ {id}
    <3>1. Open /\ "unlabel" \in Kinds
      BY <2>2 DEF AppendEntry, Kinds
    <3> QED
      BY <1>1, <1>2, <2>2, <3>1
  <2> QED
    BY <1>5, <2>1, <2>2 DEF AppendLabelChange
<1>6. ASSUME NEW id \in Ids(entries) \cup {0}, BranchWithSummary(id) PROVE Inv'
  <2>1. AppendEntry("summary", id, 0) /\ labels' = labels /\ "summary" \in Kinds
    BY <1>6 DEF BranchWithSummary, Kinds
  <2> QED
    BY <1>1, <2>1
<1> QED
  BY <1>3, <1>4, <1>5, <1>6

LEMMA SetSessionFileKeeps ==
  ASSUME Inv, NEW f \in Files, SetSessionFile(f)
  PROVE  Inv'
<1>1. PICK loaded : loaded = Load(disk[f])
  OBVIOUS
<1>2. PICK h : h = Header(f)
  OBVIOUS
<1>3. PICK one : one = <<h>>
  OBVIOUS
<1>4. /\ writing = <<>> /\ f <= used.file /\ file' = f
      /\ entries' = IF loaded = <<>> THEN one ELSE loaded
      /\ leaf' = LeafOf(loaded) /\ labels' = Labelled(loaded)
      /\ \/ loaded # <<>> /\ flushed' = TRUE /\ UNCHANGED <<disk, writing>>
         \/ loaded = <<>> /\ flushed' = TRUE /\ disk' = [disk EXCEPT ![f] = <<>>] /\ writing' = one
         \/ disk[f] = <<>> /\ flushed' = FALSE /\ UNCHANGED <<disk, writing>>
      /\ UNCHANGED <<used, crashes>>
  BY <1>1, <1>2, <1>3 DEF SetSessionFile, Idle
<1>5. /\ disk \in [Files -> Seq(Line)] /\ disk[f] \in Seq(Line) /\ f # 0 /\ f \in Nat
      /\ MaxEntries \in Nat /\ used.file \in Nat
  <2>1. disk \in [Files -> Seq(Line)] /\ used.file \in 0 .. MaxFiles
    BY DEF Inv, TypeOK
  <2>2. MaxEntries \in Nat /\ MaxFiles \in Nat
    BY BoundAssumption
  <2> QED
    BY <2>1, <2>2 DEF Files
<1>6. /\ loaded \in Seq(FileEntry) /\ ToSet(loaded) \subseteq ToSet(disk[f])
      /\ loaded # <<>> => Begun(loaded)
      /\ Clean(disk[f]) /\ Begun(disk[f]) => loaded = disk[f]
  BY <1>1, <1>5, LoadFacts
<1>7. /\ h.kind = "session" /\ h.parent = 0 /\ h \in FileEntry /\ ~IsEntry(h)
      /\ one \in Seq(FileEntry) /\ Len(one) = 1 /\ DOMAIN one = {1} /\ one[1] = h
      /\ ToSet(one) = {h} /\ one # <<>>
  <2>1. h.kind = "session" /\ h.parent = 0 /\ h \in FileEntry /\ ~IsEntry(h)
    BY <1>2 DEF Header, FileEntry, IsEntry, Kinds
  <2> QED
    BY <1>3, <2>1 DEF ToSet
<1>8. /\ Begun(one) /\ (\A n : Below(one, n)) /\ ParentsFirst(one) /\ Labelled(one) = {}
      /\ one \in Seq(Line) /\ Clean(one)
  <2>1. Begun(one) /\ (\A n : Below(one, n)) /\ ParentsFirst(one)
    BY <1>7 DEF Begun, Below, ParentsFirst
  <2>2. \A id : About(one, id) = {}
    BY <1>7 DEF About
  <2>3. Labelled(one) = {id \in 1 .. MaxEntries :
          \E i \in About(one, id) : one[i].kind = "label" /\ \A j \in About(one, id) : j <= i}
    BY LabelledIs, Zenon
  <2> QED
    BY <1>7, <2>1, <2>2, <2>3, EntriesAreLines
<1>9. Labelled(<<>>) = {} /\ LeafOf(<<>>) = 0 /\ ToSet(<<>>) = {}
  <2>1. \A id : About(<<>>, id) = {}
    BY DEF About
  <2>2. Labelled(<<>>) = {id \in 1 .. MaxEntries :
          \E i \in About(<<>>, id) : <<>>[i].kind = "label" /\ \A j \in About(<<>>, id) : j <= i}
    BY LabelledIs, Zenon
  <2> QED
    BY <2>1, <2>2 DEF LeafOf, ToSet
<1>10. PICK es \in Seq(FileEntry) : es = IF loaded = <<>> THEN one ELSE loaded
  BY <1>6, <1>7
<1>11. entries' = es /\ labels' = Labelled(es) /\ leaf' \in Ids(es) \cup {0}
  <2>1. LeafOf(loaded) \in Ids(loaded) \cup {0}
    BY <1>6, LeafFacts
  <2> QED
    BY <1>4, <1>8, <1>9, <1>10, <2>1
<1>12. Begun(es) /\ Below(es, used.entry)
  <2>1. Below(disk[f], used.entry)
    BY DEF Inv, DiskInv
  <2>2. Below(loaded, used.entry)
    BY <1>6, <2>1 DEF Below
  <2> QED
    BY <1>6, <1>8, <1>10, <2>2
<1>13. PICK lines : lines = disk'[f]
  OBVIOUS
<1>14. PICK w : w = writing'
  OBVIOUS
\* the three cases: a session, a file without a header, and none
<1>15. /\ \/ loaded # <<>> /\ lines = disk[f] /\ w = <<>> /\ flushed' = TRUE
          \/ loaded = <<>> /\ lines = <<>> /\ w = one /\ flushed' = TRUE
          \/ loaded = <<>> /\ lines = <<>> /\ w = <<>> /\ flushed' = FALSE
       /\ disk' \in [Files -> Seq(Line)]
       /\ \A k \in Files : disk'[k] = IF k = f THEN lines ELSE disk[k]
  <2>1. ASSUME disk[f] = <<>> PROVE loaded = <<>>
    <3>1. ToSet(loaded) = {}
      BY <1>6, <1>9, <2>1
    <3>2. ASSUME loaded # <<>> PROVE FALSE
      <4>1. 1 \in DOMAIN loaded
        BY <1>6, <3>2
      <4> QED
        BY <3>1, <4>1 DEF ToSet
    <3> QED
      BY <1>6, <3>2
  <2>2. <<>> \in Seq(Line)
    OBVIOUS
  <2>3. CASE loaded # <<>> /\ flushed' = TRUE /\ UNCHANGED <<disk, writing>>
    <3>1. writing = <<>>
      BY <1>4
    <3>2. lines = disk[f] /\ w = <<>> /\ disk' = disk
      BY <1>13, <1>14, <2>3, <3>1
    <3> QED
      BY <1>5, <2>3, <3>2
  <2>4. CASE loaded = <<>> /\ flushed' = TRUE /\ disk' = [disk EXCEPT ![f] = <<>>] /\ writing' = one
    <3>1. disk' \in [Files -> Seq(Line)]
      BY <1>5, <2>2, <2>4
    <3>2. disk'[f] = <<>> /\ \A k \in Files \ {f} : disk'[k] = disk[k]
      BY <1>5, <2>4
    <3> QED
      BY <1>13, <1>14, <2>4, <3>1, <3>2
  <2>5. CASE disk[f] = <<>> /\ flushed' = FALSE /\ UNCHANGED <<disk, writing>>
    <3>1. writing = <<>>
      BY <1>4
    <3>2. lines = <<>> /\ w = <<>> /\ disk' = disk /\ loaded = <<>>
      BY <1>13, <1>14, <2>1, <2>5, <3>1
    <3> QED
      BY <1>5, <2>5, <3>2
  <2> QED
    BY <1>4, <2>3, <2>4, <2>5
<1>15a. lines \in Seq(Line) /\ w \in Seq(FileEntry)
  <2>1. <<>> \in Seq(FileEntry)
    OBVIOUS
  <2> QED
    BY <1>5, <1>7, <1>13, <1>15, <2>1
<1>16. ASSUME Clean(lines)
       PROVE  ParentsFirst(es) /\ Readable(lines \o w) /\ (flushed' => lines \o w = es)
              /\ ToSet(lines) \subseteq ToSet(es)
  <2>1. CASE loaded # <<>>
    <3>1. lines = disk[f] /\ es = loaded /\ w = <<>>
      BY <1>10, <1>15, <2>1
    <3>2. Readable(disk[f])
      BY DEF Inv, DiskInv
    <3>3. Begun(disk[f]) /\ ParentsFirst(disk[f])
      <4>1. disk[f] # <<>>
        <5>1. 1 \in DOMAIN loaded
          BY <1>6, <2>1
        <5>2. loaded[1] \in ToSet(disk[f])
          BY <1>6, <5>1 DEF ToSet
        <5> QED
          BY <1>9, <5>2
      <4> QED
        BY <1>16, <3>1, <3>2, <4>1 DEF Readable
    <3>4. loaded = disk[f] /\ lines \o w = lines
      BY <1>5, <1>6, <1>16, <3>1, <3>3, ConcatEmptySeq
    <3> QED
      BY <3>1, <3>2, <3>3, <3>4
  <2>2. CASE loaded = <<>>
    <3>1. lines = <<>> /\ es = one /\ (w = one \/ (w = <<>> /\ flushed' = FALSE))
      BY <1>10, <1>15, <2>2
    <3>2. <<>> \o one = one /\ <<>> \o <<>> = <<>>
      BY <1>7, ConcatEmptySeq
    <3>3. Readable(one) /\ Readable(<<>>)
      BY <1>8 DEF Readable, ParentsFirst
    <3> QED
      BY <1>8, <1>9, <3>1, <3>2, <3>3
  <2> QED
    BY <2>1, <2>2
<1>17. TypeOK'
  <2>1. Labelled(es) \subseteq 1 .. MaxEntries
    BY LabelledIs
  <2>2. leaf' \in 0 .. MaxEntries
    <3>1. ASSUME NEW id \in Ids(es) PROVE id \in 1 .. MaxEntries
      <4>1. Get(es, id) \in Entry /\ Get(es, id).id = id
        BY <1>10, GetFacts
      <4> QED
        BY <4>1 DEF Entry
    <3> QED
      BY <1>5, <1>11, <3>1
  <2>3. flushed' \in BOOLEAN /\ writing' \in Seq(FileEntry)
    BY <1>14, <1>15, <1>15a
  <2>4. entries' \in Seq(FileEntry) /\ labels' \subseteq 1 .. MaxEntries
    BY <1>10, <1>11, <2>1
  <2> QED
    BY <1>4, <1>15, <2>2, <2>3, <2>4 DEF Inv, TypeOK
<1>18. FilesInv'
  <2>1. f <= used.file
    BY <1>4
  <2>2. \A k \in Files : k > used.file => disk'[k] = <<>>
    <3> TAKE k \in Files
    <3>1. k > used.file => k # f
      BY <1>5, <2>1 DEF Files
    <3> QED
      BY <1>15, <3>1 DEF Inv, FilesInv
  <2> QED
    BY <1>4, <1>5, <2>1, <2>2 DEF FilesInv, Open
<1>19. Below(lines, used.entry) /\ Readable(lines)
  <2>1. Below(disk[f], used.entry) /\ Readable(disk[f])
    BY DEF Inv, DiskInv
  <2>2. Below(<<>>, used.entry) /\ Readable(<<>>)
    BY DEF Below, Readable, ParentsFirst, ToSet
  <2> QED
    BY <1>15, <2>1, <2>2
<1>20. DiskInv'
  <2>1. ASSUME NEW k \in Files PROVE Below(disk'[k], used.entry) /\ Readable(disk'[k])
    BY <1>15, <1>19 DEF Inv, DiskInv
  <2> QED
    BY <1>4, <2>1 DEF DiskInv, Below, Readable, Clean, ParentsFirst, Begun
<1>21. ASSUME Clean(lines) PROVE Follows'
  <2>1. Coming' = lines \o w
    BY <1>4, <1>13, <1>14 DEF Coming
  <2>2. Readable(Coming)'
    BY <1>16, <1>21, <2>1 DEF Readable, Clean, ParentsFirst, Begun
  <2>3. ParentsFirst(entries)'
    BY <1>11, <1>16, <1>21 DEF ParentsFirst
  <2>4. EndsWith(es, es)
    <3>1. EndsWith(<<>> \o es, es) /\ <<>> \o es = es
      <4>1. <<>> \in Seq(FileEntry)
        OBVIOUS
      <4> QED
        BY <1>10, <4>1, EndOfJoin, ConcatEmptySeq
    <3> QED
      BY <3>1
  <2>5. flushed' => EndsWith(Coming, entries)'
    BY <1>11, <1>16, <1>21, <2>1, <2>4 DEF EndsWith
  <2>6. ToSet(disk[file])' \subseteq ToSet(entries)'
    BY <1>4, <1>11, <1>13, <1>16, <1>21
  <2> QED
    BY <2>2, <2>3, <2>5, <2>6 DEF Follows
<1>22. OpenInv'
  <2>1. Begun(entries)' /\ Below(entries', used'.entry) /\ labels' = Labelled(entries')
        /\ leaf' \in Ids(entries') \cup {0}
    BY <1>4, <1>11, <1>12 DEF Begun
  <2>2. ToSet(writing') \subseteq ToSet(entries')
    BY <1>9, <1>10, <1>11, <1>14, <1>15
  <2>3. ~flushed' => ~HasAssistant(entries') /\ writing' = <<>>
    <3>1. ~HasAssistant(one)
      BY <1>7 DEF HasAssistant
    <3> QED
      BY <1>10, <1>11, <1>14, <1>15, <3>1
  <2>4. Clean(disk[file])' => Follows'
    BY <1>4, <1>13, <1>21 DEF Clean
  <2> QED
    BY <2>1, <2>2, <2>3, <2>4 DEF OpenInv, Begun, Below, Labelled, Ids, HasAssistant
<1> QED
  BY <1>17, <1>18, <1>20, <1>22 DEF Inv

(***************************************************************************)
(* A fork.                                                                 *)
(***************************************************************************)
\* the entries for the labels: one for each, every one below the one before
Ladder(added, n, below) ==
  \A i \in DOMAIN added :
    /\ added[i].id = n + i /\ added[i].kind = "label"
    /\ added[i].parent = IF i = 1 THEN below ELSE n + i - 1

LEMMA LabelEntriesFacts ==
  ASSUME used.entry \in Nat, NEW targets \in SUBSET (1 .. MaxEntries), NEW below \in 0 .. used.entry,
         used.entry + Len(LabelEntries(targets, below)) <= MaxEntries
  PROVE  /\ LabelEntries(targets, below) \in Seq(Entry)
         /\ Ladder(LabelEntries(targets, below), used.entry, below)
<1>1. PICK order : order = SetToSeq(targets)
  OBVIOUS
<1>2. PICK n : n = used.entry
  OBVIOUS
<1>3. PICK added : added = LabelEntries(targets, below)
  OBVIOUS
<1>4. MaxEntries \in Nat /\ n \in Nat
  BY <1>2, BoundAssumption
<1>5. \E m \in Nat : order \in [1 .. m -> targets]
  <2>1. IsFiniteSet(targets)
    <3>1. IsFiniteSet(1 .. MaxEntries)
      BY <1>4, FS_Interval
    <3> QED
      BY <3>1, FS_Subset
  <2>2. Cardinality(targets) \in Nat /\ ExistsBijection(1 .. Cardinality(targets), targets)
    BY <2>1, FS_CardinalityType
  <2>3. \E f \in [1 .. Cardinality(targets) -> targets] : IsInjective(f)
    BY <2>2 DEF ExistsBijection, Bijection, Injection, IsInjective
  <2>4. order \in [1 .. Cardinality(targets) -> targets]
    BY <1>1, <2>3 DEF SetToSeq
  <2> QED
    BY <2>2, <2>4
<1>6. PICK m \in Nat : order \in [1 .. m -> targets]
  BY <1>5
<1>7. added = [i \in 1 .. m |->
        [id |-> n + i, parent |-> IF i = 1 THEN below ELSE n + i - 1,
         kind |-> "label", target |-> order[i]]]
  <2>1. DOMAIN order = 1 .. m
    BY <1>6
  <2> QED
    BY <1>1, <1>2, <1>3, <2>1 DEF LabelEntries
<1>8. DOMAIN added = 1 .. m /\ Len(added) = m
  BY <1>6, <1>7
<1>9. n + m <= MaxEntries
  BY <1>2, <1>3, <1>8
<1>10. ASSUME NEW i \in 1 .. m
       PROVE  /\ added[i] \in Entry
              /\ added[i].id = n + i /\ added[i].kind = "label"
              /\ added[i].parent = IF i = 1 THEN below ELSE n + i - 1
  <2>1. added[i] = [id |-> n + i, parent |-> IF i = 1 THEN below ELSE n + i - 1,
                    kind |-> "label", target |-> order[i]]
    BY <1>7
  <2>2. /\ n + i \in 1 .. MaxEntries /\ order[i] \in 0 .. MaxEntries
        /\ (IF i = 1 THEN below ELSE n + i - 1) \in 0 .. MaxEntries
    <3>1. order[i] \in 1 .. MaxEntries
      BY <1>6
    <3>2. below \in 0 .. n /\ i \in Nat /\ 1 <= i /\ i <= m
      BY <1>2
    <3>3. below \in 0 .. MaxEntries /\ n + i \in 1 .. MaxEntries /\ n + i - 1 \in 0 .. MaxEntries
      BY <1>4, <1>6, <1>9, <3>2
    <3> QED
      BY <1>4, <3>1, <3>3
  <2>3. "label" \in Kinds
    BY DEF Kinds
  <2> QED
    BY <2>1, <2>2, <2>3 DEF Entry
<1>11. added \in Seq(Entry)
  <2>1. added \in [1 .. m -> Entry]
    BY <1>7, <1>8, <1>10
  <2> QED
    BY <1>6, <2>1
<1>12. Ladder(added, n, below)
  BY <1>8, <1>10 DEF Ladder
<1> QED
  BY <1>2, <1>3, <1>11, <1>12

\* the path of a fork, which is part of the tree that it was
LEMMA ForkPath ==
  ASSUME Inv, Open, NEW id \in Ids(entries), NEW path, path = Unlabelled(PathTo(entries, id))
  PROVE  /\ path \in Seq(Entry) /\ Below(path, used.entry)
         /\ RefersWithin(path) \/ ForkPastGaps => ParentsFirst(path)
<1>1. entries \in Seq(FileEntry) /\ Below(entries, used.entry) /\ used.entry \in Nat
  BY BoundAssumption DEF Inv, OpenInv, TypeOK
<1>2. Older(entries)
  BY <1>1 DEF Older, Below
<1>3. id \in 0 .. MaxEntries
  BY <1>1, <1>2, ParentBefore
<1>4. PICK long : long = PathTo(entries, id)
  OBVIOUS
<1>5. long \in Seq(Entry) /\ ToSet(long) \subseteq ToSet(entries) /\ Growing(long)
  BY <1>1, <1>2, <1>3, <1>4, PathFacts
<1>6. PICK kinds : kinds = Kinds \ {"label", "unlabel"}
  OBVIOUS
<1>7. path = Only(long, kinds)
  BY <1>4, <1>6 DEF Unlabelled
<1>8. path \in Seq(Entry) /\ ToSet(path) = {e \in ToSet(long) : e.kind \in kinds}
  BY <1>5, <1>7, OnlyFacts
<1>9. ToSet(path) \subseteq ToSet(entries)
  BY <1>5, <1>8
<1>10. Growing(path)
  <2>1. \A e \in Entry : e.id \in Int
    BY BoundAssumption DEF Entry
  <2> QED
    BY <1>5, <1>7, <2>1, OnlyGrows
<1>11. Below(path, used.entry) /\ Older(path)
  BY <1>1, <1>2, <1>9 DEF Below, Older
<1>12. RefersWithin(path) => \A e \in ToSet(path) : e.parent \in Ids(path) \cup {0}
  BY DEF RefersWithin
<1>13. RefersWithin(path) \/ ForkPastGaps => ParentsFirst(path)
  BY <1>8, <1>10, <1>11, <1>12, ParentsOfPath
<1> QED
  BY <1>8, <1>11, <1>13

\* a header, a path, and the entries for its labels
LEMMA ForkedTree ==
  ASSUME NEW h \in FileEntry, h.kind = "session", h.parent = 0, NEW n \in Nat,
         NEW path \in Seq(Entry), Below(path, n), ParentsFirst(path), NEW below \in Ids(path) \cup {0},
         below <= n,
         NEW added \in Seq(Entry), Ladder(added, n, below)
  PROVE  LET all == <<h>> \o path \o added
         IN /\ all \in Seq(FileEntry)
            /\ Begun(all) /\ Below(all, n + Len(added)) /\ ParentsFirst(all)
<1>1. PICK one : one = <<h>>
  OBVIOUS
<1>2. one \in Seq(FileEntry) /\ Len(one) = 1 /\ DOMAIN one = {1} /\ one[1] = h /\ ToSet(one) = {h}
  BY <1>1 DEF ToSet
<1>3. path \in Seq(FileEntry) /\ added \in Seq(FileEntry)
  BY DEF FileEntry
<1>4. PICK first \in Seq(FileEntry) : first = one \o path
  <2>1. one \o path \in Seq(FileEntry)
    BY <1>2, <1>3, JoinType
  <2> QED
    BY <2>1
<1>5. PICK all \in Seq(FileEntry) : all = first \o added
  <2>1. first \o added \in Seq(FileEntry)
    BY <1>3, JoinType
  <2> QED
    BY <2>1
<1>6. all = <<h>> \o path \o added
  BY <1>1, <1>4, <1>5
<1>7. ToSet(first) = {h} \cup ToSet(path)
  BY <1>2, <1>3, <1>4, SetOfJoin
<1>8. ToSet(all) = {h} \cup ToSet(path) \cup ToSet(added)
  <2>1. ToSet(all) = ToSet(first) \cup ToSet(added)
    BY <1>3, <1>5, SetOfJoin
  <2> QED
    BY <1>7, <2>1
<1>9. Len(added) \in Nat /\ DOMAIN added = 1 .. Len(added) /\ \A i \in DOMAIN added : added[i] \in Entry
  OBVIOUS
<1>10. below \in 0 .. n
  <2>1. \A e \in Entry : e.id \in Nat
    BY BoundAssumption DEF Entry
  <2>2. \A e \in ToSet(path) : e \in Entry
    BY SetOfSeq
  <2> QED
    BY <2>1, <2>2 DEF Ids
<1>11. Below(all, n + Len(added))
  <2>1. ~IsEntry(h)
    BY DEF IsEntry, Kinds
  <2>2. ASSUME NEW e \in ToSet(path), IsEntry(e) PROVE e.parent < e.id /\ e.id <= n + Len(added)
    <3>1. e.parent < e.id /\ e.id <= n
      BY <2>2 DEF Below
    <3>2. e \in Entry
      BY <2>2, SetOfSeq
    <3>3. e.id \in Nat
      BY <3>2, BoundAssumption DEF Entry
    <3> QED
      BY <1>9, <3>1, <3>3
  <2>3. ASSUME NEW e \in ToSet(added) PROVE e.parent < e.id /\ e.id <= n + Len(added)
    <3>1. PICK i \in DOMAIN added : e = added[i]
      BY DEF ToSet
    <3>2. e.id = n + i /\ e.parent = IF i = 1 THEN below ELSE n + i - 1
      BY <3>1 DEF Ladder
    <3> QED
      BY <1>9, <1>10, <3>1, <3>2
  <2> QED
    BY <1>8, <2>1, <2>2, <2>3 DEF Below
<1>12. Begun(all)
  <2>1. first # <<>> /\ first[1] = h /\ Len(first) \in Nat \ {0}
    <3>0. PICK u \in Seq(FileEntry) : u = path
      BY <1>3
    <3>1. /\ Len(first) = Len(one) + Len(u) /\ Len(u) \in Nat
          /\ \A i \in 1 .. Len(one) : first[i] = one[i]
      <4>1. first = one \o u
        BY <1>4, <3>0
      <4>2. one \in Seq(FileEntry)
        BY <1>2
      <4> QED
        BY <4>1, <4>2, PartsOfJoin
    <3>2. Len(first) \in Nat \ {0} /\ first[1] = h
      BY <1>2, <3>1
    <3> QED
      BY <3>2
  <2>2. all # <<>> /\ all[1] = h
    BY <1>3, <1>5, <2>1
  <2> QED
    BY <2>2 DEF Begun
<1>13. ParentsFirst(first)
  <2>1. ParentsFirst(one)
    BY <1>2 DEF ParentsFirst
  <2>2. CASE ForkPastGaps
    BY <2>2 DEF ParentsFirst
  <2>3. CASE ~ForkPastGaps
    <3>1. \A i \in DOMAIN path :
            path[i].parent = 0 \/ \E j \in 1 .. i - 1 : IsEntry(path[j]) /\ path[j].id = path[i].parent
      BY <2>3 DEF ParentsFirst
    <3> QED
      BY <1>2, <1>3, <1>4, <2>1, <3>1, ParentsOfJoin
  <2> QED
    BY <2>2, <2>3
<1>14. ParentsFirst(all)
  <2>1. Ids(path) \subseteq Ids(first)
    BY <1>7 DEF Ids
  <2>2. ASSUME NEW i \in DOMAIN added
        PROVE  \/ added[i].parent = 0
               \/ \E j \in 1 .. i - 1 : IsEntry(added[j]) /\ added[j].id = added[i].parent
               \/ added[i].parent \in Ids(first)
    <3>1. CASE i = 1
      <4>1. added[i].parent = below
        BY <3>1 DEF Ladder
      <4> QED
        BY <2>1, <4>1
    <3>2. CASE i # 1
      <4>1. added[i].parent = n + i - 1
        BY <3>2 DEF Ladder
      <4>2. i - 1 \in DOMAIN added /\ i - 1 \in 1 .. i - 1
        BY <1>9, <3>2
      <4>3. added[i - 1].id = n + (i - 1) /\ added[i - 1].kind = "label"
        BY <4>2 DEF Ladder
      <4>4. IsEntry(added[i - 1]) /\ added[i - 1].id = added[i].parent
        BY <1>9, <4>1, <4>3 DEF IsEntry, Kinds
      <4> QED
        BY <4>2, <4>4
    <3> QED
      BY <3>1, <3>2
  <2> QED
    BY <1>3, <1>5, <1>13, <2>2, ParentsOfJoin
<1> QED
  BY <1>6, <1>11, <1>12, <1>14

LEMMA ForkKeeps ==
  ASSUME Inv, NEW id \in Ids(entries), Fork(id)
  PROVE  Inv'
<1>1. PICK path : path = Unlabelled(PathTo(entries, id))
  OBVIOUS
<1>2. PICK below : below = IF path = <<>> THEN 0 ELSE Last(path).id
  OBVIOUS
<1>3. PICK added : added = LabelEntries(labels \cap Ids(path), below)
  OBVIOUS
<1>4. PICK new : new = used.file + 1
  OBVIOUS
<1>5. PICK h : h = Header(new)
  OBVIOUS
<1>6. PICK es : es = <<h>> \o path \o added
  OBVIOUS
<1>7. /\ Open /\ Idle /\ used.file < MaxFiles /\ file' = new
      /\ RefersWithin(path) \/ ForkPastGaps
      /\ used.entry + Len(added) <= MaxEntries
      /\ used' = [entry |-> used.entry + Len(added), file |-> new]
      /\ entries' = es /\ leaf' = LeafOf(es) /\ labels' = Labelled(es)
      /\ Rewrite(es) /\ UNCHANGED <<disk, crashes>>
  BY <1>1, <1>2, <1>3, <1>4, <1>5, <1>6 DEF Fork
<1>8. /\ used.file \in 0 .. MaxFiles /\ used.entry \in 0 .. MaxEntries
      /\ MaxFiles \in Nat /\ MaxEntries \in Nat /\ labels \subseteq 1 .. MaxEntries
      /\ disk \in [Files -> Seq(Line)]
  BY BoundAssumption DEF Inv, TypeOK
<1>9. path \in Seq(Entry) /\ Below(path, used.entry) /\ ParentsFirst(path)
  BY <1>1, <1>7, ForkPath
<1>10. below \in Ids(path) \cup {0} /\ below \in 0 .. used.entry
  <2>1. CASE path = <<>>
    BY <1>2, <1>8, <2>1
  <2>2. CASE path # <<>>
    <3>1. Last(path) = path[Len(path)] /\ Len(path) \in DOMAIN path
      <4>1. Last(path) = path[Len(path)] /\ Len(path) \in Nat \ {0} /\ DOMAIN path = 1 .. Len(path)
        BY <1>9, <2>2, FrontFacts
      <4> QED
        BY <4>1
    <3>2. Last(path) \in Entry /\ Last(path) \in ToSet(path)
      BY <1>9, <3>1 DEF ToSet
    <3>3. IsEntry(Last(path)) /\ Last(path).id \in Nat /\ below = Last(path).id
      BY <1>2, <1>8, <2>2, <3>2 DEF Entry, IsEntry
    <3>4. below <= used.entry
      BY <1>9, <3>2, <3>3 DEF Below
    <3> QED
      BY <1>8, <3>2, <3>3, <3>4 DEF Ids
  <2> QED
    BY <2>1, <2>2
<1>11. added \in Seq(Entry) /\ Ladder(added, used.entry, below)
  <2>0. PICK targets : targets = labels \cap Ids(path)
    OBVIOUS
  <2>1. targets \in SUBSET (1 .. MaxEntries)
    <3>1. labels \subseteq 1 .. MaxEntries
      BY <1>8
    <3> QED
      BY <2>0, <3>1
  <2>2. used.entry \in Nat
    BY <1>8
  <2> QED
    BY <1>3, <1>7, <1>10, <2>0, <2>1, <2>2, LabelEntriesFacts
<1>12. /\ new \in Files /\ new > used.file /\ new # 0
       /\ used'.file = new /\ used'.entry = used.entry + Len(added)
       /\ used'.entry \in 0 .. MaxEntries /\ used.entry <= used'.entry
       /\ used' \in [entry : 0 .. MaxEntries, file : 0 .. MaxFiles]
  <2>1. Len(added) \in Nat
    BY <1>11
  <2> QED
    BY <1>4, <1>7, <1>8, <2>1, SMTT(30) DEF Files
<1>13. h.kind = "session" /\ h.parent = 0 /\ h \in FileEntry
  BY <1>5, <1>12 DEF Header, FileEntry
<1>14. es \in Seq(FileEntry) /\ Begun(es) /\ Below(es, used'.entry) /\ ParentsFirst(es)
  <2>1. used.entry \in Nat /\ below <= used.entry
    BY <1>8, <1>10
  <2> QED
    BY <1>6, <1>9, <1>10, <1>11, <1>12, <1>13, <2>1, ForkedTree
<1>15. Labelled(es) \subseteq 1 .. MaxEntries /\ LeafOf(es) \in Ids(es) \cup {0}
  BY <1>14, LabelledIs, LeafFacts
<1>16. disk[new] = <<>>
  BY <1>12 DEF Inv, FilesInv
<1>17. PICK w : w = IF HasAssistant(es) THEN es ELSE <<>>
  OBVIOUS
<1>18. flushed' = HasAssistant(es) /\ writing' = w
  BY <1>7, <1>17 DEF Rewrite
<1>19. w \in Seq(FileEntry) /\ ToSet(w) \subseteq ToSet(es) /\ w \in Seq(Line)
  <2>1. ToSet(<<>>) = {} /\ <<>> \in Seq(FileEntry)
    BY DEF ToSet
  <2> QED
    BY <1>14, <1>17, <2>1, EntriesAreLines
<1>20. TypeOK'
  <2>1. flushed' \in BOOLEAN
    BY <1>18 DEF HasAssistant
  <2>2. leaf' \in 0 .. MaxEntries
    <3>1. ASSUME NEW k \in Ids(es) PROVE k \in 1 .. MaxEntries
      <4>1. Get(es, k) \in Entry /\ Get(es, k).id = k
        BY <1>14, GetFacts
      <4> QED
        BY <4>1 DEF Entry
    <3> QED
      BY <1>7, <1>8, <1>15, <3>1
  <2>3. file' \in Files \cup {0}
    BY <1>7, <1>12
  <2> QED
    BY <1>7, <1>12, <1>14, <1>15, <1>18, <1>19, <2>1, <2>2, <2>3 DEF Inv, TypeOK
<1>21. FilesInv'
  <2>1. \A f \in Files : f > new => disk[f] = <<>>
    <3> TAKE f \in Files
    <3>1. f > new => f > used.file
      BY <1>4, <1>8 DEF Files
    <3> QED
      BY <3>1 DEF Inv, FilesInv
  <2> QED
    BY <1>7, <1>12, <2>1 DEF FilesInv, Open, Files
<1>22. DiskInv'
  <2>1. ASSUME NEW f \in Files PROVE Below(disk[f], used'.entry) /\ Readable(disk[f])
    <3>1. Below(disk[f], used.entry) /\ disk[f] \in Seq(Line) /\ Readable(disk[f])
      BY <1>8 DEF Inv, DiskInv
    <3>2. \A x \in ToSet(disk[f]) : IsEntry(x) => x.id \in Int
      BY <1>8, <3>1, SetOfSeq, LineKinds DEF Entry
    <3> QED
      BY <1>8, <1>12, <3>1, <3>2 DEF Below
  <2> QED
    BY <1>7, <2>1 DEF DiskInv, Below, Readable, Clean, ParentsFirst, Begun
<1>23. Coming' = w
  <2>1. <<>> \o w = w
    BY <1>19, ConcatEmptySeq
  <2> QED
    BY <1>7, <1>16, <1>18, <2>1 DEF Coming
<1>24. Follows'
  <2>1. Readable(w)
    <3>1. Readable(es)
      BY <1>14 DEF Readable
    <3>2. Readable(<<>>)
      BY DEF Readable, ParentsFirst
    <3> QED
      BY <1>17, <3>1, <3>2
  <2>2. Readable(Coming)'
    BY <1>23, <2>1 DEF Readable, Clean, ParentsFirst, Begun
  <2>3. ParentsFirst(entries)'
    BY <1>7, <1>14 DEF ParentsFirst
  <2>4. ToSet(disk[file])' \subseteq ToSet(entries)'
    <3>1. ToSet(<<>>) = {}
      BY DEF ToSet
    <3> QED
      BY <1>7, <1>16, <3>1
  <2>5. flushed' => EndsWith(Coming, entries)'
    <3>1. EndsWith(es, es)
      <4>1. es \in Seq(Line) /\ <<>> \in Seq(Line) /\ <<>> \o es = es
        BY <1>14, EntriesAreLines, ConcatEmptySeq
      <4> QED
        BY <4>1, EndOfJoin
    <3>2. flushed' => Coming' = es
      BY <1>17, <1>18, <1>23
    <3> QED
      BY <1>7, <3>1, <3>2 DEF EndsWith
  <2> QED
    BY <2>2, <2>3, <2>4, <2>5 DEF Follows
<1>25. OpenInv'
  <2>1. Begun(entries)' /\ Below(entries', used'.entry) /\ labels' = Labelled(entries')
        /\ leaf' \in Ids(entries') \cup {0}
    BY <1>7, <1>14, <1>15 DEF Begun
  <2>2. ToSet(writing') \subseteq ToSet(entries')
    BY <1>7, <1>18, <1>19
  <2>3. ~flushed' => ~HasAssistant(entries') /\ writing' = <<>>
    BY <1>7, <1>17, <1>18
  <2> QED
    BY <1>24, <2>1, <2>2, <2>3 DEF OpenInv, Begun, Below, HasAssistant, Labelled, Ids
<1> QED
  BY <1>20, <1>21, <1>22, <1>25 DEF Inv

(***************************************************************************)
(* The invariant, in every state.                                          *)
(***************************************************************************)
LEMMA InvInit == Init => Inv
<1> SUFFICES ASSUME Init PROVE Inv
  OBVIOUS
<1>1. /\ disk = [f \in Files |-> <<>>] /\ file = 0 /\ entries = <<>> /\ leaf = 0 /\ flushed = FALSE
      /\ labels = {} /\ writing = <<>> /\ used = [entry |-> 0, file |-> 0] /\ crashes = 0
  BY DEF Init
<1>2. MaxEntries \in Nat /\ MaxFiles \in Nat /\ MaxCrashes \in Nat
  BY BoundAssumption
<1>3. TypeOK
  <2>1. <<>> \in Seq(Line) /\ <<>> \in Seq(FileEntry)
    OBVIOUS
  <2> QED
    <3>1. disk \in [Files -> Seq(Line)] /\ writing \in Seq(FileEntry) /\ entries \in Seq(FileEntry)
      BY <1>1, <2>1
    <3>2. /\ file \in Files \cup {0} /\ leaf \in 0 .. MaxEntries /\ flushed \in BOOLEAN
          /\ labels \subseteq 1 .. MaxEntries /\ crashes \in 0 .. MaxCrashes
          /\ used \in [entry: 0 .. MaxEntries, file: 0 .. MaxFiles]
      <4>1. 0 \in 0 .. MaxEntries /\ 0 \in 0 .. MaxFiles /\ 0 \in 0 .. MaxCrashes
        BY <1>2
      <4>2. used \in [entry: 0 .. MaxEntries, file: 0 .. MaxFiles]
        BY <1>1, <4>1
      <4> QED
        BY <1>1, <4>1, <4>2
    <3> QED
      BY <3>1, <3>2 DEF TypeOK
<1>4. FilesInv
  BY <1>1 DEF FilesInv
<1>5. DiskInv
  <2>1. ToSet(<<>>) = {} /\ Readable(<<>>)
    BY DEF ToSet, Readable, ParentsFirst
  <2>2. Below(<<>>, used.entry)
    BY <2>1 DEF Below
  <2> QED
    <3>1. \A f \in Files : disk[f] = <<>>
      BY <1>1
    <3> QED
      BY <2>1, <2>2, <3>1 DEF DiskInv
<1>6. OpenInv
  BY <1>1 DEF OpenInv, Open
<1> QED
  BY <1>3, <1>4, <1>5, <1>6 DEF Inv

LEMMA StutterKeeps ==
  ASSUME Inv, UNCHANGED vars
  PROVE  Inv'
<1>1. UNCHANGED <<disk, file, entries, leaf, flushed, labels, writing, used, crashes>>
  BY DEF vars
<1>2. TypeOK' /\ FilesInv' /\ DiskInv'
  <2>1. TypeOK' /\ FilesInv'
    BY <1>1 DEF Inv, TypeOK, FilesInv, Open
  <2>2. DiskInv'
    BY <1>1 DEF Inv, DiskInv, Below, Readable, Clean, ParentsFirst, Begun
  <2> QED
    BY <2>1, <2>2
<1>3. OpenInv'
  <2>1. OpenInv /\ (Follows' <=> Follows)
    BY <1>1 DEF Inv, Follows, Readable, Coming, EndsWith, ParentsFirst, Clean, Begun
  <2> QED
    BY <1>1, <2>1 DEF OpenInv, Open, Begun, Below, Clean
<1> QED
  BY <1>2, <1>3 DEF Inv

LEMMA InvStep == Inv /\ [Next]_vars => Inv'
<1> SUFFICES ASSUME Inv, [Next]_vars PROVE Inv'
  OBVIOUS
<1>1. CASE Write
  BY <1>1, WriteKeeps
<1>2. CASE Crash
  BY <1>2, CrashKeeps
<1>3. CASE \E kind \in {"user", "assistant"} : AppendMessage(kind)
  BY <1>3, AppendsKeep
<1>4. CASE \E id \in Ids(entries) : AppendCompaction(id) \/ AppendLabelChange(id) \/ Fork(id)
  <2>1. CASE \E id \in Ids(entries) : AppendCompaction(id) \/ AppendLabelChange(id)
    BY <2>1, AppendsKeep
  <2>2. CASE \E id \in Ids(entries) : Fork(id)
    BY <2>2, ForkKeeps
  <2> QED
    BY <1>4, <2>1, <2>2
<1>5. CASE \E id \in Ids(entries) \cup {0} : Branch(id) \/ BranchWithSummary(id)
  <2>1. CASE \E id \in Ids(entries) \cup {0} : BranchWithSummary(id)
    BY <2>1, AppendsKeep
  <2>2. CASE \E id \in Ids(entries) \cup {0} : Branch(id)
    BY <2>2, BranchKeeps
  <2> QED
    BY <1>5, <2>1, <2>2
<1>6. CASE NewSession
  BY <1>6, NewSessionKeeps
<1>7. CASE \E f \in Files : SetSessionFile(f)
  BY <1>7, SetSessionFileKeeps
<1>8. CASE UNCHANGED vars
  BY <1>8, StutterKeeps
<1> QED
  BY <1>1, <1>2, <1>3, <1>4, <1>5, <1>6, <1>7, <1>8 DEF Next

LEMMA InvAlways == Spec => []Inv
BY InvInit, InvStep, PTL DEF Spec

\* Every variable keeps its type: an entry refers to what an entry can refer to, and
\* no file holds anything but headers, entries and what a crash leaves.
THEOREM TypeCorrect == Spec => []TypeOK
<1>1. Inv => TypeOK
  BY DEF Inv
<1> QED
  BY <1>1, InvAlways, PTL

(***************************************************************************)
(* What the file holds of the session that is open.                        *)
(***************************************************************************)
LEMMA WhatIsSaved ==
  ASSUME Inv, Settled
  PROVE  /\ Load(disk[file]) = disk[file]
         /\ disk[file] \in Seq(FileEntry) /\ entries \in Seq(FileEntry)
         /\ ToSet(disk[file]) = ToSet(entries) /\ EndsWith(disk[file], entries)
<1>1. Open /\ writing = <<>> /\ HasAssistant(entries) /\ Clean(disk[file]) /\ flushed
  <2>1. Open /\ writing = <<>> /\ HasAssistant(entries) /\ Clean(disk[file])
    BY DEF Settled, Idle, Damaged, Clean
  <2> QED
    BY <2>1 DEF Inv, OpenInv
<1>2. file \in Files /\ disk[file] \in Seq(Line) /\ entries \in Seq(FileEntry)
  BY <1>1 DEF Inv, TypeOK, Open
<1>3. Follows /\ Begun(entries)
  BY <1>1 DEF Inv, OpenInv
<1>4. PICK lines \in Seq(Line) : lines = disk[file]
  BY <1>2
<1>5. Coming = lines
  <2>1. lines \o <<>> = lines
    BY ConcatEmptySeq
  <2> QED
    BY <1>1, <1>4, <2>1 DEF Coming
<1>6. EndsWith(lines, entries) /\ ToSet(lines) \subseteq ToSet(entries) /\ Readable(lines)
  BY <1>1, <1>3, <1>4, <1>5 DEF Follows
<1>7. ToSet(entries) \subseteq ToSet(lines)
  <2>1. entries \in Seq(Line)
    BY <1>2, EntriesAreLines
  <2> QED
    BY <1>6, <2>1, SetOfEnd
<1>8. lines # <<>>
  <2>1. \E e : e \in ToSet(lines)
    BY <1>1, <1>7 DEF HasAssistant
  <2>2. ToSet(<<>>) = {}
    BY DEF ToSet
  <2> QED
    BY <2>1, <2>2
<1>9. Load(lines) = lines /\ Load(lines) \in Seq(FileEntry)
  BY <1>1, <1>4, <1>6, <1>8, LoadFacts DEF Readable
<1> QED
  BY <1>2, <1>4, <1>6, <1>7, <1>9

\* From the first answer on the session's file holds what is in memory, after any
\* appends, navigation, forks, reopening and crashes: the one that is open loses nothing.
THEOREM FileAlwaysFollows == Spec => []FileFollows
<1>1. Inv => FileFollows
  BY WhatIsSaved DEF FileFollows
<1> QED
  BY <1>1, InvAlways, PTL

\* The path to an entry depends on the entries alone, and not on their order.
PathIn(all, id) ==
  LET ids == {e.id : e \in {x \in all : IsEntry(x)}}
      path[i \in 0 .. MaxEntries] ==
        IF i \in ids THEN LET e == CHOOSE e \in all : IsEntry(e) /\ e.id = i IN Append(path[e.parent], e)
        ELSE <<>>
  IN path[id]

LEMMA PathIs ==
  ASSUME NEW es, NEW id
  PROVE  PathTo(es, id) = PathIn(ToSet(es), id)
BY DEF PathTo, PathIn, Ids, Get

\* A session that was last written to where it stands is read back from its file with
\* the same context for the model and the same labels, whatever was done to it before.
THEOREM ReopenAlwaysRestores == Spec => []ReopenRestores
<1>1. Inv => ReopenRestores
  <2> SUFFICES ASSUME Inv, Settled, leaf = LeafOf(entries)
               PROVE  /\ ContextOf(PathTo(Load(disk[file]), LeafOf(Load(disk[file])))) =
                           ContextOf(PathTo(entries, leaf))
                      /\ Labelled(Load(disk[file])) = labels
    BY DEF ReopenRestores
  <2>1. PICK lines \in Seq(FileEntry) :
          /\ lines = disk[file] /\ Load(disk[file]) = lines /\ entries \in Seq(FileEntry)
          /\ ToSet(lines) = ToSet(entries) /\ EndsWith(lines, entries)
    BY WhatIsSaved
  <2>2. \E e \in ToSet(entries) : IsEntry(e)
    BY DEF Settled, HasAssistant, IsEntry, Kinds
  <2>3. LeafOf(lines) = leaf
    BY <2>1, <2>2, LeafOfEnd
  <2>4. PathTo(lines, leaf) = PathTo(entries, leaf)
    BY <2>1, PathIs
  <2>5. Labelled(lines) = Labelled(entries)
    BY <2>1, LabelledOfEnd
  <2>6. labels = Labelled(entries)
    BY DEF Inv, OpenInv, Settled
  <2> QED
    BY <2>1, <2>3, <2>4, <2>5, <2>6
<1> QED
  BY <1>1, InvAlways, PTL

\* No crash, at any line of any write, leaves a file with an entry whose parent is not
\* there, where no session is forked whose path has gaps (a label in the middle of the
\* path is enough for one: see the run MCSessionFork).
THEOREM TreesStayWhole ==
  ASSUME ~ForkPastGaps
  PROVE  Spec => []TreesAreWhole
<1>1. Inv => TreesAreWhole
  <2> SUFFICES ASSUME Inv, NEW f \in Files, ~Damaged(f), NEW e \in ToSet(Load(disk[f]))
               PROVE  e.parent \in Ids(Load(disk[f])) \cup {0}
    BY DEF TreesAreWhole
  <2>1. PICK lines \in Seq(Line) : lines = disk[f]
    BY DEF Inv, TypeOK
  <2>2. Clean(lines) /\ Readable(lines)
    BY <2>1 DEF Damaged, Clean, Inv, DiskInv
  <2>3. e \in ToSet(lines)
    BY <2>1, LoadFacts
  <2>4. lines # <<>>
    <3>1. ToSet(<<>>) = {}
      BY DEF ToSet
    <3> QED
      BY <2>3, <3>1
  <2>5. ParentsFirst(lines) /\ Begun(lines)
    BY <2>2, <2>4 DEF Readable
  <2>6. Load(lines) = lines
    BY <2>2, <2>5, LoadFacts
  <2>7. PICK i \in DOMAIN lines : e = lines[i]
    BY <2>3 DEF ToSet
  <2>8. e.parent = 0 \/ \E j \in 1 .. i - 1 : IsEntry(lines[j]) /\ lines[j].id = e.parent
    BY <2>5, <2>7 DEF ParentsFirst
  <2>9. \A j \in 1 .. i - 1 : lines[j] \in ToSet(lines)
    BY <2>7 DEF ToSet
  <2>10. e.parent \in Ids(lines) \cup {0}
    BY <2>8, <2>9 DEF Ids
  <2> QED
    BY <2>1, <2>6, <2>10
<1> QED
  BY <1>1, InvAlways, PTL

(***************************************************************************)
(* What a fork has of the session.  Appending to a path.                   *)
(***************************************************************************)
LEMMA OnlyLast ==
  ASSUME NEW T, NEW s \in Seq(T), NEW e \in T, NEW kinds
  PROVE  Only(Append(s, e), kinds) = IF e.kind \in kinds THEN Append(Only(s, kinds), e) ELSE Only(s, kinds)
<1>1. PICK t \in Seq(T) : t = Append(s, e)
  <2>1. Append(s, e) \in Seq(T)
    OBVIOUS
  <2> QED
    BY <2>1
<1>2. PICK n \in Nat : n = Len(s)
  OBVIOUS
<1>3. Len(t) = n + 1 /\ t[n + 1] = e /\ \A i \in 1 .. n : t[i] = s[i]
  BY <1>1, <1>2
<1>4. PICK g : IsOnly(g, s, kinds, n) /\ Only(s, kinds) = g[n]
  BY <1>2, OnlySteps
<1>5. PICK h : IsOnly(h, t, kinds, n + 1) /\ Only(t, kinds) = h[n + 1]
  BY <1>3, OnlySteps
<1> DEFINE S == {i \in 0 .. n : h[i] = g[i]}
<1>6. ASSUME NEW i \in 0 .. n, 0 .. i - 1 \subseteq S PROVE i \in S
  <2>1. CASE i = 0
    <3>1. g[0] = <<>> /\ h[0] = <<>>
      BY <1>4, <1>5 DEF IsOnly
    <3> QED
      BY <2>1, <3>1
  <2>2. CASE i # 0
    <3>1. i \in 1 .. n /\ i \in 0 .. n + 1 /\ i - 1 \in 0 .. i - 1 /\ t[i] = s[i]
      BY <1>3, <2>2
    <3>2. h[i - 1] = g[i - 1]
      BY <1>6, <3>1
    <3>3. g[i] = IF s[i].kind \in kinds THEN Append(g[i - 1], s[i]) ELSE g[i - 1]
      BY <1>4, <2>2 DEF IsOnly
    <3>4. h[i] = IF t[i].kind \in kinds THEN Append(h[i - 1], t[i]) ELSE h[i - 1]
      BY <1>5, <2>2, <3>1 DEF IsOnly
    <3> QED
      BY <3>1, <3>2, <3>3, <3>4
  <2> QED
    BY <2>1, <2>2
<1>7. h[n] = g[n]
  <2> HIDE DEF S
  <2>1. 0 .. n \subseteq S
    BY <1>6, UpTo
  <2> QED
    BY <2>1 DEF S
<1>8. h[n + 1] = IF t[n + 1].kind \in kinds THEN Append(h[n], t[n + 1]) ELSE h[n]
  <2>1. n + 1 \in 0 .. n + 1 /\ n + 1 # 0 /\ (n + 1) - 1 = n
    OBVIOUS
  <2> QED
    BY <1>5, <2>1 DEF IsOnly
<1> QED
  BY <1>1, <1>3, <1>4, <1>5, <1>7, <1>8

LEMMA OnlyNone ==
  ASSUME NEW kinds
  PROVE  Only(<<>>, kinds) = <<>>
<1>1. <<>> \in Seq(Entry) /\ ToSet(<<>>) = {}
  BY DEF ToSet
<1> QED
  BY <1>1, OnlyFacts

LEMMA SubSeqLast ==
  ASSUME NEW T, NEW s \in Seq(T), NEW e \in T, NEW a \in 1 .. Len(s) + 1
  PROVE  /\ SubSeq(s, a, Len(s)) \in Seq(T)
         /\ SubSeq(Append(s, e), a, Len(s) + 1) = Append(SubSeq(s, a, Len(s)), e)
<1>1. PICK n \in Nat : n = Len(s)
  OBVIOUS
<1>2. /\ Append(s, e) \in Seq(T) /\ Len(Append(s, e)) = n + 1 /\ Append(s, e)[n + 1] = e
      /\ \A i \in 1 .. n : Append(s, e)[i] = s[i]
  BY <1>1
<1>3. PICK t \in Seq(T) : t = Append(s, e)
  BY <1>2
<1>4. PICK u : u = SubSeq(s, a, n)
  OBVIOUS
<1>5. u \in Seq(T) /\ Len(u) = n + 1 - a /\ \A i \in 1 .. n + 1 - a : u[i] = s[a + i - 1]
  <2>1. \A i \in a .. n : s[i] \in T
    BY <1>1
  <2>2. a \in Int /\ n \in Int /\ n - a + 1 = n + 1 - a /\ (a > n => n + 1 - a = 0)
    BY <1>1
  <2> QED
    BY <1>1, <1>4, <2>1, <2>2, SubSeqProperties
<1>6. PICK v : v = SubSeq(t, a, n + 1)
  OBVIOUS
<1>7. v \in Seq(T) /\ Len(v) = n + 2 - a /\ \A i \in 1 .. n + 2 - a : v[i] = t[a + i - 1]
  <2>1. \A i \in a .. n + 1 : t[i] \in T
    BY <1>1, <1>2, <1>3
  <2>2. a \in Int /\ n + 1 \in Int /\ (n + 1) - a + 1 = n + 2 - a /\ a <= n + 1
    BY <1>1
  <2> QED
    BY <1>6, <2>1, <2>2, SubSeqProperties
<1>8. PICK w \in Seq(T) : w = Append(u, e)
  <2>1. Append(u, e) \in Seq(T)
    BY <1>5
  <2> QED
    BY <2>1
<1>9. Len(w) = n + 2 - a /\ w[n + 2 - a] = e /\ \A i \in 1 .. n + 1 - a : w[i] = u[i]
  BY <1>1, <1>5, <1>8
<1>10. ASSUME NEW i \in 1 .. n + 2 - a PROVE v[i] = w[i]
  <2>1. CASE i = n + 2 - a
    BY <1>1, <1>2, <1>3, <1>7, <1>9, <2>1
  <2>2. CASE i # n + 2 - a
    <3>1. i \in 1 .. n + 1 - a /\ a + i - 1 \in 1 .. n
      BY <1>1, <2>2
    <3> QED
      BY <1>2, <1>3, <1>5, <1>7, <1>9, <3>1
  <2> QED
    BY <2>1, <2>2
<1>12. v = w
  BY <1>7, <1>8, <1>9, <1>10, SeqEqual
<1> QED
  BY <1>1, <1>3, <1>4, <1>5, <1>6, <1>8, <1>12

\* the parts of a context, by position
CompactedIn(path) == {i \in DOMAIN path : path[i].kind = "compaction"}
LastOf(places) == CHOOSE i \in places : \A j \in places : j <= i
KeptIn(path, last) == {i \in 1 .. last - 1 : path[i].id = path[last].target}
OneOf(places) == CHOOSE i \in places : TRUE
KeptOf(path, last, kept) == IF kept = {} THEN <<>> ELSE SubSeq(path, OneOf(kept), last - 1)

LEMMA ContextParts ==
  ASSUME NEW path
  PROVE  ContextOf(path) =
           IF CompactedIn(path) = {} THEN Messages(path)
           ELSE LET last == LastOf(CompactedIn(path))
                IN <<path[last]>> \o Messages(KeptOf(path, last, KeptIn(path, last)))
                     \o Messages(SubSeq(path, last + 1, Len(path)))
BY DEF ContextOf, CompactedIn, LastOf, KeptIn, OneOf, KeptOf

\* A label is nothing to the model.
LEMMA ContextOfLabel ==
  ASSUME NEW p \in Seq(Entry), NEW e \in Entry, e.kind \in {"label", "unlabel"}
  PROVE  ContextOf(Append(p, e)) = ContextOf(p)
<1>1. PICK q \in Seq(Entry) : q = Append(p, e)
  <2>1. Append(p, e) \in Seq(Entry)
    OBVIOUS
  <2> QED
    BY <2>1
<1>2. PICK n \in Nat : n = Len(p)
  OBVIOUS
<1>3. Len(q) = n + 1 /\ q[n + 1] = e /\ (\A i \in 1 .. n : q[i] = p[i])
      /\ DOMAIN q = 1 .. n + 1 /\ DOMAIN p = 1 .. n
  BY <1>1, <1>2
<1>4. ASSUME NEW s \in Seq(Entry) PROVE Messages(Append(s, e)) = Messages(s)
  <2>1. e.kind \notin {"user", "assistant", "summary"}
    OBVIOUS
  <2> QED
    BY <2>1, OnlyLast DEF Messages
<1>5. CompactedIn(q) = CompactedIn(p)
  <2>1. e.kind # "compaction"
    OBVIOUS
  <2> QED
    BY <1>3, <2>1 DEF CompactedIn
<1>6. CASE CompactedIn(p) = {}
  BY <1>1, <1>4, <1>5, <1>6, ContextParts
<1>7. CASE CompactedIn(p) # {}
  <2>1. PICK last : last = LastOf(CompactedIn(p))
    OBVIOUS
  <2>2. last \in 1 .. n
    <3>1. PICK C : C = CompactedIn(p)
      OBVIOUS
    <3>2. C \in SUBSET (1 .. n) /\ C # {}
      BY <1>3, <1>7, <3>1 DEF CompactedIn
    <3>3. \E i \in C : \A j \in C : j <= i
      BY <3>2, Greatest
    <3>4. LastOf(C) \in C
      BY <3>3 DEF LastOf
    <3> QED
      BY <2>1, <3>1, <3>2, <3>4
  <2>3. q[last] = p[last] /\ \A i \in 1 .. last - 1 : q[i] = p[i]
    BY <1>3, <2>2
  <2>4. KeptIn(q, last) = KeptIn(p, last)
    BY <2>3 DEF KeptIn
  <2>5. KeptOf(q, last, KeptIn(q, last)) = KeptOf(p, last, KeptIn(p, last))
    <3>1. PICK K : K = KeptIn(p, last)
      OBVIOUS
    <3>2. CASE K = {}
      BY <2>4, <3>1, <3>2 DEF KeptOf
    <3>3. CASE K # {}
      <4>1. PICK k : k = OneOf(K)
        OBVIOUS
      <4>2. k \in 1 .. last - 1
        <5>1. k \in K
          BY <3>3, <4>1 DEF OneOf
        <5> QED
          BY <3>1, <5>1 DEF KeptIn
      <4>3. SubSeq(q, k, last - 1) = SubSeq(p, k, last - 1)
        BY <1>2, <1>3, <2>2, <4>2
      <4> QED
        BY <2>4, <3>1, <3>3, <4>1, <4>3 DEF KeptOf
    <3> QED
      BY <3>2, <3>3
  <2>6. PICK a \in Nat : a = last + 1 /\ a \in 1 .. n + 1
    BY <2>2
  <2>7. SubSeq(p, a, n) \in Seq(Entry) /\ SubSeq(q, a, n + 1) = Append(SubSeq(p, a, n), e)
    BY <1>1, <1>2, <1>3, <2>6, SubSeqLast
  <2>8. Messages(SubSeq(q, last + 1, Len(q))) = Messages(SubSeq(p, last + 1, Len(p)))
    BY <1>2, <1>3, <1>4, <2>6, <2>7
  <2> QED
    BY <1>1, <1>5, <1>7, <2>1, <2>3, <2>5, <2>8, ContextParts
<1> QED
  BY <1>6, <1>7

(***************************************************************************)
(* Paths in two trees.                                                     *)
(***************************************************************************)
\* A path is the path to the parent, and the entry.
LEMMA PathMore ==
  ASSUME NEW es \in Seq(FileEntry), Older(es), NEW id \in 0 .. MaxEntries
  PROVE  /\ 0 \notin Ids(es)
         /\ id \notin Ids(es) => PathTo(es, id) = <<>>
         /\ id \in Ids(es) =>
              /\ Get(es, id) \in Entry /\ Get(es, id) \in ToSet(es) /\ Get(es, id).id = id
              /\ Get(es, id).parent \in 0 .. id - 1 /\ Get(es, id).parent \in 0 .. MaxEntries
              /\ PathTo(es, id) = Append(PathTo(es, Get(es, id).parent), Get(es, id))
<1>0. MaxEntries \in Nat
  BY BoundAssumption
<1>1. PICK g : IsPath(g, es, MaxEntries) /\ \A i \in 0 .. MaxEntries : PathTo(es, i) = g[i]
  BY PathSteps
<1>2. 0 \notin Ids(es)
  <2>1. ASSUME 0 \in Ids(es) PROVE FALSE
    <3>1. 0 \in 1 .. MaxEntries
      BY <2>1, ParentBefore
    <3> QED
      BY <3>1
  <2> QED
    BY <2>1
<1>3. ASSUME id \notin Ids(es) PROVE PathTo(es, id) = <<>>
  BY <1>1, <1>3 DEF IsPath
<1>4. ASSUME id \in Ids(es)
      PROVE  /\ Get(es, id) \in Entry /\ Get(es, id) \in ToSet(es) /\ Get(es, id).id = id
             /\ Get(es, id).parent \in 0 .. id - 1 /\ Get(es, id).parent \in 0 .. MaxEntries
             /\ PathTo(es, id) = Append(PathTo(es, Get(es, id).parent), Get(es, id))
  <2>1. Get(es, id) \in Entry /\ Get(es, id) \in ToSet(es) /\ Get(es, id).id = id
    BY <1>4, GetFacts
  <2>2. Get(es, id).parent \in 0 .. id - 1
    BY <1>4, ParentBefore
  <2>3. Get(es, id).parent \in 0 .. MaxEntries
    BY <1>0, <2>2
  <2>4. PathTo(es, id) = Append(PathTo(es, Get(es, id).parent), Get(es, id))
    BY <1>1, <1>4, <2>3 DEF IsPath
  <2> QED
    BY <2>1, <2>2, <2>3, <2>4
<1> QED
  BY <1>2, <1>3, <1>4

LEMMA PathElements ==
  ASSUME NEW es \in Seq(FileEntry), Older(es), NEW id \in 0 .. MaxEntries
  PROVE  \A e \in ToSet(PathTo(es, id)) : e.id \in Ids(es) /\ e = Get(es, e.id) /\ e.id \in 1 .. id
<1>0. MaxEntries \in Nat
  BY BoundAssumption
<1> DEFINE S == {n \in 0 .. MaxEntries :
                   \A e \in ToSet(PathTo(es, n)) : e.id \in Ids(es) /\ e = Get(es, e.id) /\ e.id \in 1 .. n}
<1>1. ASSUME NEW n \in 0 .. MaxEntries, 0 .. n - 1 \subseteq S PROVE n \in S
  <2>1. CASE n \notin Ids(es)
    <3>1. PathTo(es, n) = <<>> /\ ToSet(<<>>) = {}
      BY <2>1, PathMore DEF ToSet
    <3> QED
      BY <3>1
  <2>2. CASE n \in Ids(es)
    <3>1. PICK e : e = Get(es, n)
      OBVIOUS
    <3>2. /\ e \in Entry /\ e.id = n /\ e.parent \in 0 .. n - 1 /\ e.parent \in 0 .. MaxEntries
          /\ PathTo(es, n) = Append(PathTo(es, e.parent), e)
      BY <2>2, <3>1, PathMore
    <3>3. PICK p \in Seq(Entry) : p = PathTo(es, e.parent)
      BY <3>2, PathFacts
    <3>4. ToSet(PathTo(es, n)) = ToSet(p) \cup {e}
      BY <3>2, <3>3, SetOfMore
    <3>5. \A x \in ToSet(p) : x.id \in Ids(es) /\ x = Get(es, x.id) /\ x.id \in 1 .. e.parent
      <4>1. e.parent \in S
        <5> HIDE DEF S
        <5> QED
          BY <1>1, <3>2
      <4> QED
        BY <3>3, <4>1
    <3>6. n \in 1 .. n
      BY <3>2
    <3>7. ASSUME NEW x \in ToSet(p) PROVE x.id \in 1 .. n
      BY <3>2, <3>5, <3>7
    <3>8. \A x \in ToSet(PathTo(es, n)) : x.id \in Ids(es) /\ x = Get(es, x.id) /\ x.id \in 1 .. n
      BY <2>2, <3>1, <3>2, <3>4, <3>5, <3>6, <3>7
    <3> QED
      BY <3>8
  <2> QED
    BY <2>1, <2>2
<1>2. id \in S
  <2> HIDE DEF S
  <2>1. 0 .. MaxEntries \subseteq S
    BY <1>0, <1>1, UpTo
  <2> QED
    BY <2>1
<1> QED
  BY <1>2

\* A tree that holds the entries of a path has the same path.
Holds(ts, es, p) ==
  \A e \in ToSet(p) : e.id \in Ids(ts) /\ Get(ts, e.id) = e /\ e.parent \in Ids(es) \cup {0}

LEMMA SamePath ==
  ASSUME NEW es \in Seq(FileEntry), Older(es), NEW ts \in Seq(FileEntry), Older(ts),
         NEW id \in Ids(es) \cup {0}, Holds(ts, es, PathTo(es, id))
  PROVE  PathTo(ts, id) = PathTo(es, id)
<1>0. MaxEntries \in Nat
  BY BoundAssumption
<1> DEFINE S == {n \in 0 .. MaxEntries :
                   n \in Ids(es) \cup {0} /\ Holds(ts, es, PathTo(es, n)) => PathTo(ts, n) = PathTo(es, n)}
<1>1. ASSUME NEW n \in 0 .. MaxEntries, 0 .. n - 1 \subseteq S PROVE n \in S
  <2>1. CASE n = 0
    <3>1. PathTo(ts, n) = <<>> /\ PathTo(es, n) = <<>>
      BY <2>1, PathMore
    <3> QED
      BY <3>1
  <2>2. CASE n \in Ids(es) /\ Holds(ts, es, PathTo(es, n))
    <3>1. PICK e : e = Get(es, n)
      OBVIOUS
    <3>2. /\ e \in Entry /\ e.id = n /\ e.parent \in 0 .. n - 1 /\ e.parent \in 0 .. MaxEntries
          /\ PathTo(es, n) = Append(PathTo(es, e.parent), e)
      BY <2>2, <3>1, PathMore
    <3>3. PICK p \in Seq(Entry) : p = PathTo(es, e.parent)
      BY <3>2, PathFacts
    <3>4. ToSet(PathTo(es, n)) = ToSet(p) \cup {e}
      BY <3>2, <3>3, SetOfMore
    <3>5. n \in Ids(ts) /\ Get(ts, n) = e /\ e.parent \in Ids(es) \cup {0} /\ Holds(ts, es, p)
      BY <2>2, <3>2, <3>4 DEF Holds
    <3>6. PathTo(ts, n) = Append(PathTo(ts, e.parent), e)
      BY <3>5, PathMore
    <3>7. PathTo(ts, e.parent) = p
      <4>1. e.parent \in S
        <5> HIDE DEF S
        <5> QED
          BY <1>1, <3>2
      <4> QED
        BY <3>3, <3>5, <4>1
    <3> QED
      BY <3>2, <3>3, <3>6, <3>7
  <2> QED
    BY <2>1, <2>2
<1>2. id \in 0 .. MaxEntries
  BY <1>0, ParentBefore
<1>3. id \in S
  <2> HIDE DEF S
  <2>1. 0 .. MaxEntries \subseteq S
    BY <1>0, <1>1, UpTo
  <2> QED
    BY <1>2, <2>1
<1> QED
  BY <1>3

\* The entries of a path that a fork keeps have their parents among those: then the
\* labels are at the end of the path, and what is left is a path of the tree itself.
Kept == Kinds \ {"label", "unlabel"}
Whole(p) ==
  \A e \in ToSet(p) : e.kind \in Kept =>
    e.parent = 0 \/ \E x \in ToSet(p) : x.kind \in Kept /\ x.id = e.parent
IsPathOf(u, es) == u = <<>> \/ (Last(u).id \in Ids(es) /\ u = PathTo(es, Last(u).id))

LEMMA UnlabelledLast ==
  ASSUME NEW p \in Seq(Entry), NEW e \in Entry
  PROVE  /\ e.kind \in Kept => Unlabelled(Append(p, e)) = Append(Unlabelled(p), e)
         /\ e.kind \notin Kept => /\ Unlabelled(Append(p, e)) = Unlabelled(p)
                                  /\ ContextOf(Append(p, e)) = ContextOf(p)
         /\ Unlabelled(p) \in Seq(Entry)
         /\ Append(Unlabelled(p), e) # <<>> /\ Last(Append(Unlabelled(p), e)) = e
<1>1. Unlabelled(p) \in Seq(Entry)
  BY OnlyFacts DEF Unlabelled
<1>2. PICK u \in Seq(Entry) : u = Unlabelled(p)
  BY <1>1
<1>3. Append(u, e) # <<>> /\ Last(Append(u, e)) = e
  <2>1. Append(u, e) \in Seq(Entry) /\ Len(Append(u, e)) = Len(u) + 1 /\ Append(u, e)[Len(u) + 1] = e
        /\ Len(u) \in Nat
    OBVIOUS
  <2> QED
    BY <2>1 DEF Last
<1>4. Only(Append(p, e), Kept) = IF e.kind \in Kept THEN Append(Only(p, Kept), e) ELSE Only(p, Kept)
  BY OnlyLast
<1>5. e.kind \notin Kept => ContextOf(Append(p, e)) = ContextOf(p)
  BY ContextOfLabel DEF Kept, Entry
<1> QED
  BY <1>1, <1>2, <1>3, <1>4, <1>5 DEF Unlabelled, Kept

LEMMA UnlabelledEnd ==
  ASSUME NEW es \in Seq(FileEntry), Older(es), NEW id \in 0 .. MaxEntries, Whole(PathTo(es, id))
  PROVE  /\ ContextOf(PathTo(es, id)) = ContextOf(Unlabelled(PathTo(es, id)))
         /\ IsPathOf(Unlabelled(PathTo(es, id)), es)
<1>0. MaxEntries \in Nat
  BY BoundAssumption
<1> DEFINE Good(p) == ContextOf(p) = ContextOf(Unlabelled(p)) /\ IsPathOf(Unlabelled(p), es)
<1> DEFINE S == {n \in 0 .. MaxEntries : Whole(PathTo(es, n)) => Good(PathTo(es, n))}
<1>1. ASSUME NEW n \in 0 .. MaxEntries, 0 .. n - 1 \subseteq S, Whole(PathTo(es, n))
      PROVE  Good(PathTo(es, n))
  <2>1. CASE n \notin Ids(es)
    <3>1. PathTo(es, n) = <<>> /\ Unlabelled(<<>>) = <<>>
      BY <2>1, PathMore, OnlyNone DEF Unlabelled
    <3> QED
      BY <3>1 DEF IsPathOf
  <2>2. CASE n \in Ids(es)
    <3>1. PICK e : e = Get(es, n)
      OBVIOUS
    <3>2. /\ e \in Entry /\ e.id = n /\ e.parent \in 0 .. n - 1 /\ e.parent \in 0 .. MaxEntries
          /\ PathTo(es, n) = Append(PathTo(es, e.parent), e)
      BY <2>2, <3>1, PathMore
    <3>3. PICK q \in Seq(Entry) : q = PathTo(es, e.parent) /\ ToSet(q) \subseteq ToSet(es)
      BY <3>2, PathFacts
    <3>4. PICK p : p = PathTo(es, n) /\ p = Append(q, e)
      BY <3>2, <3>3
    <3>5. ToSet(p) = ToSet(q) \cup {e}
      BY <3>2, <3>4, SetOfMore
    <3>6. \A x \in ToSet(q) : x.id \in Ids(es) /\ x = Get(es, x.id) /\ x.id \in 1 .. e.parent
      BY <3>2, <3>3, PathElements
    <3>7. Whole(q)
      <4> SUFFICES ASSUME NEW x \in ToSet(q), x.kind \in Kept, x.parent # 0
                   PROVE  \E y \in ToSet(q) : y.kind \in Kept /\ y.id = x.parent
        BY DEF Whole
      <4>1. PICK y \in ToSet(p) : y.kind \in Kept /\ y.id = x.parent
        BY <1>1, <3>4, <3>5 DEF Whole
      <4>2. x.parent \in 0 .. x.id - 1 /\ x.id \in 1 .. e.parent
        BY <3>6, ParentBefore
      <4>3. y # e
        BY <3>2, <4>1, <4>2
      <4> QED
        BY <3>5, <4>1, <4>3
    <3>8. Good(q)
      <4>1. e.parent \in S
        <5> HIDE DEF S
        <5> QED
          BY <1>1, <3>2
      <4> HIDE DEF Good
      <4> QED
        BY <3>3, <3>7, <4>1
    <3>9. CASE e.kind \notin Kept
      <4>1. Unlabelled(p) = Unlabelled(q) /\ ContextOf(p) = ContextOf(q)
        BY <3>2, <3>4, <3>9, UnlabelledLast
      <4> QED
        BY <3>4, <3>8, <4>1
    <3>10. CASE e.kind \in Kept
      <4>1. Unlabelled(q) = q
        <5>1. CASE e.parent = 0
          <6>1. q = <<>>
            <7>1. e.parent \notin Ids(es)
              BY <3>2, <5>1, PathMore
            <7> QED
              BY <3>2, <3>3, <7>1, PathMore
          <6> QED
            BY <6>1, OnlyNone DEF Unlabelled
        <5>2. CASE e.parent # 0
          <6>1. PICK y \in ToSet(p) : y.kind \in Kept /\ y.id = e.parent
            BY <1>1, <3>4, <3>5, <3>10, <5>2 DEF Whole
          <6>2. y \in ToSet(q)
            BY <3>2, <3>5, <6>1
          <6>3. e.parent \in Ids(es) /\ y = Get(es, e.parent)
            BY <3>6, <6>1, <6>2
          <6>4. /\ y \in Entry /\ y.parent \in 0 .. MaxEntries
                /\ PathTo(es, e.parent) = Append(PathTo(es, y.parent), y)
            BY <3>2, <6>3, PathMore
          <6>5. PICK r \in Seq(Entry) : r = PathTo(es, y.parent)
            BY <6>4, PathFacts
          <6>6. q = Append(r, y)
            BY <3>3, <6>4, <6>5
          <6>7. Unlabelled(q) = Append(Unlabelled(r), y) /\ Unlabelled(q) # <<>> /\ Last(Unlabelled(q)) = y
            BY <6>1, <6>4, <6>6, UnlabelledLast
          <6> QED
            BY <3>3, <3>8, <6>1, <6>7 DEF IsPathOf
        <5> QED
          BY <5>1, <5>2
      <4>2. Unlabelled(p) = p /\ p # <<>> /\ Last(p) = e
        BY <3>2, <3>4, <3>10, <4>1, UnlabelledLast
      <4> QED
        BY <2>2, <3>2, <3>4, <4>2 DEF IsPathOf
    <3> QED
      BY <3>9, <3>10
  <2> QED
    BY <2>1, <2>2
<1>2. id \in S
  <2>1. \A n \in 0 .. MaxEntries : (0 .. n - 1) \subseteq S => n \in S
    <3> HIDE DEF Good
    <3> QED
      BY <1>1
  <2> HIDE DEF S
  <2>2. 0 .. MaxEntries \subseteq S
    BY <1>0, <2>1, UpTo
  <2> QED
    BY <2>2
<1> QED
  BY <1>2

(***************************************************************************)
(* The tree of a fork.                                                     *)
(***************************************************************************)
LEMMA LeafOfEntries ==
  ASSUME NEW es \in Seq(Entry), es # <<>>
  PROVE  LeafOf(es) = es[Len(es)].id
<1>1. es \in Seq(FileEntry) /\ Len(es) \in Nat \ {0} /\ DOMAIN es = 1 .. Len(es)
  BY EmptySeq DEF FileEntry
<1>2. \A i \in DOMAIN es : IsEntry(es[i]) /\ es[i] \in ToSet(es)
  <2>1. \A i \in DOMAIN es : es[i] \in Entry /\ es[i] \in ToSet(es)
    BY <1>1 DEF ToSet
  <2> QED
    BY <2>1 DEF IsEntry, Entry
<1>3. Len(es) \in DOMAIN es
  BY <1>1
<1>4. PICK i \in DOMAIN es : LeafOf(es) = es[i].id /\ \A j \in DOMAIN es : IsEntry(es[j]) => j <= i
  BY <1>1, <1>2, <1>3, LeafFacts
<1>5. i = Len(es)
  BY <1>1, <1>2, <1>3, <1>4
<1> QED
  BY <1>4, <1>5

\* Where no label is taken back, the entries with a label are those that a label names.
LEMMA LabelledBySet ==
  ASSUME NEW es \in Seq(FileEntry), \A e \in ToSet(es) : e.kind # "unlabel"
  PROVE  Labelled(es) = {id \in 1 .. MaxEntries : \E e \in ToSet(es) : e.kind = "label" /\ e.target = id}
<1>1. ASSUME NEW id \in 1 .. MaxEntries
      PROVE  (\E i \in About(es, id) : es[i].kind = "label" /\ \A j \in About(es, id) : j <= i)
             <=> \E e \in ToSet(es) : e.kind = "label" /\ e.target = id
  <2>1. PICK A : A = About(es, id)
    OBVIOUS
  <2>2. Len(es) \in Nat /\ A \in SUBSET (1 .. Len(es)) /\ A \subseteq DOMAIN es
    BY <2>1 DEF About
  <2>3. \A i \in A : es[i] \in ToSet(es) /\ es[i].kind = "label" /\ es[i].target = id
    BY <2>1 DEF About, ToSet
  <2>4. ASSUME NEW e \in ToSet(es), e.kind = "label", e.target = id
        PROVE  \E i \in A : es[i].kind = "label" /\ \A j \in A : j <= i
    <3>1. PICK i \in DOMAIN es : e = es[i]
      BY DEF ToSet
    <3>2. i \in A
      BY <2>1, <2>4, <3>1 DEF About
    <3>3. Max(A) \in A /\ \A j \in A : j <= Max(A)
      BY <2>2, <3>2, Greatest
    <3> QED
      BY <2>3, <3>3
  <2> QED
    BY <2>1, <2>3, <2>4
<1> QED
  BY <1>1, LabelledIs

\* The entries for the labels name just these.
LEMMA LabelTargets ==
  ASSUME used.entry \in Nat, NEW targets \in SUBSET (1 .. MaxEntries), NEW below
  PROVE  \A id : id \in targets <=> \E e \in ToSet(LabelEntries(targets, below)) : e.target = id
<1>1. PICK order : order = SetToSeq(targets)
  OBVIOUS
<1>2. PICK added : added = LabelEntries(targets, below)
  OBVIOUS
<1>3. IsFiniteSet(targets)
  <2>1. IsFiniteSet(1 .. MaxEntries)
    BY BoundAssumption, FS_Interval
  <2> QED
    BY <2>1, FS_Subset
<1>4. PICK m \in Nat : m = Cardinality(targets)
  BY <1>3, FS_CardinalityType
<1>5. order \in Injection(1 .. m, targets)
  <2>1. ExistsBijection(1 .. m, targets)
    BY <1>3, <1>4, FS_CardinalityType
  <2>2. \E f \in [1 .. m -> targets] : IsInjective(f)
    BY <2>1 DEF ExistsBijection, Bijection, Injection, IsInjective
  <2> QED
    BY <1>1, <1>4, <2>2 DEF SetToSeq, Injection
<1>6. order \in Surjection(1 .. m, targets)
  <2>1. Cardinality(1 .. m) = m
    BY FS_Interval
  <2> QED
    BY <1>3, <1>4, <1>5, <2>1, FS_Injection
<1>7. DOMAIN added = 1 .. m /\ \A i \in 1 .. m : added[i].target = order[i]
  <2>1. DOMAIN order = 1 .. m
    BY <1>5 DEF Injection
  <2>2. added = [i \in 1 .. m |->
          [id |-> used.entry + i, parent |-> IF i = 1 THEN below ELSE used.entry + i - 1,
           kind |-> "label", target |-> order[i]]]
    BY <1>1, <1>2, <2>1 DEF LabelEntries
  <2> QED
    BY <2>2
<1>8. (\A i \in 1 .. m : order[i] \in targets) /\ \A id \in targets : \E i \in 1 .. m : order[i] = id
  BY <1>6 DEF Surjection
<1>9. ToSet(added) = {added[i] : i \in 1 .. m}
  BY <1>7 DEF ToSet
<1>10. ASSUME NEW id \in targets PROVE \E e \in ToSet(added) : e.target = id
  <2>1. PICK i \in 1 .. m : order[i] = id
    BY <1>8
  <2>2. added[i] \in ToSet(added) /\ added[i].target = id
    BY <1>7, <1>9, <2>1
  <2> QED
    BY <2>2
<1>11. ASSUME NEW e \in ToSet(added) PROVE e.target \in targets
  <2>1. PICK i \in 1 .. m : e = added[i]
    BY <1>9
  <2> QED
    BY <1>7, <1>8, <2>1
<1> QED
  BY <1>2, <1>10, <1>11

\* In the tree of a fork every entry is found by its identifier.
LEMMA ForkedEntries ==
  ASSUME NEW h \in FileEntry, h.kind = "session", NEW n \in Nat,
         NEW path \in Seq(Entry), Growing(path), \A e \in ToSet(path) : e.id <= n,
         NEW added \in Seq(Entry), NEW below, Ladder(added, n, below),
         NEW all \in Seq(FileEntry), ToSet(all) = {h} \cup ToSet(path) \cup ToSet(added)
  PROVE  /\ \A e \in ToSet(path) : e.id \in Ids(all) /\ Get(all, e.id) = e
         /\ \A i \in DOMAIN added : n + i \in Ids(all) /\ Get(all, n + i) = added[i]
<1>1. ~IsEntry(h)
  BY DEF IsEntry, Kinds
<1>2. \A e \in ToSet(path) \cup ToSet(added) : e \in Entry /\ IsEntry(e) /\ e.id \in Nat
  <2>1. \A e \in ToSet(path) \cup ToSet(added) : e \in Entry
    BY SetOfSeq
  <2> QED
    BY <2>1, BoundAssumption DEF Entry, IsEntry
<1>3. ASSUME NEW e \in ToSet(added)
      PROVE  \E i \in DOMAIN added : e = added[i] /\ e.id = n + i /\ e.id > n
  <2>1. PICK i \in DOMAIN added : e = added[i]
    BY DEF ToSet
  <2>2. e.id = n + i /\ i \in Nat \ {0}
    BY <2>1 DEF Ladder
  <2> QED
    BY <2>1, <2>2
<1>4. ASSUME NEW e \in ToSet(path), NEW x \in ToSet(path), e.id = x.id PROVE e = x
  <2>1. PICK i \in DOMAIN path, j \in DOMAIN path : e = path[i] /\ x = path[j]
    BY DEF ToSet
  <2>2. ~(i < j) /\ ~(j < i)
    BY <1>2, <1>4, <2>1 DEF Growing
  <2>3. i = j
    BY <2>2
  <2> QED
    BY <2>1, <2>3
<1>5. ASSUME NEW e \in ToSet(path) \cup ToSet(added), NEW x \in ToSet(path) \cup ToSet(added), e.id = x.id
      PROVE  e = x
  <2>1. CASE e \in ToSet(path) /\ x \in ToSet(path)
    BY <1>4, <1>5, <2>1
  <2>2. CASE e \in ToSet(added) /\ x \in ToSet(added)
    <3>1. PICK i \in DOMAIN added : e = added[i] /\ e.id = n + i
      BY <1>3, <2>2
    <3>2. PICK j \in DOMAIN added : x = added[j] /\ x.id = n + j
      BY <1>3, <2>2
    <3>3. i = j
      BY <1>5, <3>1, <3>2
    <3> QED
      BY <3>1, <3>2, <3>3
  <2>3. CASE e \in ToSet(path) /\ x \in ToSet(added)
    BY <1>2, <1>3, <1>5, <2>3
  <2>4. CASE e \in ToSet(added) /\ x \in ToSet(path)
    BY <1>2, <1>3, <1>5, <2>4
  <2> QED
    BY <2>1, <2>2, <2>3, <2>4
<1>6. ASSUME NEW e \in ToSet(path) \cup ToSet(added)
      PROVE  e.id \in Ids(all) /\ Get(all, e.id) = e
  <2>1. e.id \in Ids(all)
    BY <1>2 DEF Ids
  <2>2. Get(all, e.id) \in ToSet(all) /\ IsEntry(Get(all, e.id)) /\ Get(all, e.id).id = e.id
    <3>1. Get(all, e.id) \in Entry /\ Get(all, e.id) \in ToSet(all) /\ Get(all, e.id).id = e.id
      BY <2>1, GetFacts
    <3> QED
      BY <3>1 DEF Entry, IsEntry
  <2>3. Get(all, e.id) \in ToSet(path) \cup ToSet(added)
    BY <1>1, <2>2
  <2> QED
    BY <1>5, <2>1, <2>2, <2>3
<1>7. ASSUME NEW i \in DOMAIN added PROVE n + i \in Ids(all) /\ Get(all, n + i) = added[i]
  <2>1. added[i] \in ToSet(added) /\ added[i].id = n + i
    BY DEF ToSet, Ladder
  <2> QED
    BY <1>6, <2>1
<1> QED
  BY <1>6, <1>7

\* The leaf of a fork is the last label, or the last entry of the path if there is none.
LeafAfter(path, added) ==
  IF added # <<>> THEN added[Len(added)].id ELSE IF path # <<>> THEN path[Len(path)].id ELSE 0

LEMMA ForkedLeaf ==
  ASSUME NEW h \in FileEntry, h.kind = "session", NEW path \in Seq(Entry), NEW added \in Seq(Entry),
         NEW all \in Seq(FileEntry), all = <<h>> \o path \o added
  PROVE  LeafOf(all) = LeafAfter(path, added)
<1>1. PICK one : one = <<h>>
  OBVIOUS
<1>2. one \in Seq(FileEntry) /\ ToSet(one) = {h} /\ path \in Seq(FileEntry) /\ added \in Seq(FileEntry)
  BY <1>1 DEF ToSet, FileEntry
<1>3. PICK first \in Seq(FileEntry) : first = one \o path
  <2>1. one \o path \in Seq(FileEntry)
    BY <1>2, JoinType
  <2> QED
    BY <2>1
<1>4. all = first \o added
  BY <1>1, <1>3
<1>5. ASSUME NEW es \in Seq(Entry), es # <<>> PROVE \E e \in ToSet(es) : IsEntry(e)
  <2>1. Len(es) \in DOMAIN es
    BY <1>5, EmptySeq
  <2>2. es[Len(es)] \in ToSet(es) /\ es[Len(es)] \in Entry
    BY <2>1 DEF ToSet
  <2> QED
    BY <2>2 DEF IsEntry, Entry
<1>6. CASE added # <<>>
  <2>1. EndsWith(all, added)
    BY <1>2, <1>4, EndOfJoin
  <2>2. LeafOf(all) = LeafOf(added)
    BY <1>2, <1>5, <1>6, <2>1, LeafOfEnd
  <2> QED
    BY <1>6, <2>2, LeafOfEntries DEF LeafAfter
<1>7. CASE added = <<>>
  <2>1. all = first
    <3>1. first \o <<>> = first
      BY ConcatEmptySeq
    <3> QED
      BY <1>4, <1>7, <3>1
  <2>2. CASE path # <<>>
    <3>1. EndsWith(all, path)
      BY <1>2, <1>3, <2>1, EndOfJoin
    <3>2. LeafOf(all) = LeafOf(path)
      BY <1>2, <1>5, <2>2, <3>1, LeafOfEnd
    <3> QED
      BY <1>7, <2>2, <3>2, LeafOfEntries DEF LeafAfter
  <2>3. CASE path = <<>>
    <3>1. ToSet(all) = {h}
      <4>1. one \o <<>> = one
        BY <1>2, ConcatEmptySeq
      <4> QED
        BY <1>2, <1>3, <2>1, <2>3, <4>1
    <3>2. Ids(all) = {}
      BY <3>1 DEF Ids, IsEntry, Kinds
    <3>3. LeafOf(all) = 0
      BY <3>2, LeafFacts
    <3> QED
      BY <1>7, <2>3, <3>3 DEF LeafAfter
  <2> QED
    BY <2>2, <2>3
<1> QED
  BY <1>6, <1>7

\* The path of a fork is a path of the tree that it was, and says as much to the model.
LEMMA ForkedPath ==
  ASSUME NEW es \in Seq(FileEntry), Older(es), NEW id \in Ids(es), RefersWithin(Unlabelled(PathTo(es, id)))
  PROVE  LET path == Unlabelled(PathTo(es, id))
         IN /\ path \in Seq(Entry) /\ Growing(path) /\ Ids(path) \subseteq Ids(es)
            /\ \A e \in ToSet(path) : e.kind \in Kept /\ e.parent \in Ids(path) \cup {0}
            /\ ContextOf(PathTo(es, id)) = ContextOf(path) /\ IsPathOf(path, es)
<1>0. MaxEntries \in Nat /\ id \in 0 .. MaxEntries
  BY BoundAssumption, ParentBefore
<1>1. PICK long \in Seq(Entry) : long = PathTo(es, id) /\ ToSet(long) \subseteq ToSet(es) /\ Growing(long)
  BY <1>0, PathFacts
<1>2. PICK path : path = Unlabelled(PathTo(es, id)) /\ path = Only(long, Kept)
  BY <1>1 DEF Unlabelled, Kept
<1>3. path \in Seq(Entry) /\ ToSet(path) = {e \in ToSet(long) : e.kind \in Kept}
  BY <1>2, OnlyFacts
<1>4. Growing(path)
  <2>1. \A e \in Entry : e.id \in Int
    BY BoundAssumption DEF Entry
  <2> QED
    BY <1>1, <1>2, <2>1, OnlyGrows
<1>5. RefersWithin(path)
  BY <1>2
<1>6. \A e \in ToSet(path) : e.kind \in Kept /\ e.parent \in Ids(path) \cup {0}
  BY <1>3, <1>5 DEF RefersWithin
<1>7. Whole(long)
  <2> SUFFICES ASSUME NEW e \in ToSet(long), e.kind \in Kept, e.parent # 0
               PROVE  \E x \in ToSet(long) : x.kind \in Kept /\ x.id = e.parent
    BY DEF Whole
  <2>1. e.parent \in Ids(path)
    BY <1>3, <1>6
  <2>2. PICK x \in ToSet(path) : x.id = e.parent
    BY <2>1 DEF Ids
  <2> QED
    BY <1>3, <2>2
<1>8. ContextOf(PathTo(es, id)) = ContextOf(path) /\ IsPathOf(path, es)
  BY <1>0, <1>1, <1>2, <1>7, UnlabelledEnd
<1>9. Ids(path) \subseteq Ids(es)
  BY <1>1, <1>3 DEF Ids
<1> QED
  BY <1>2, <1>3, <1>4, <1>6, <1>8, <1>9

EndOf(path) == IF path = <<>> THEN 0 ELSE Last(path).id
Closed(path) == \A e \in ToSet(path) : e.parent \in Ids(path) \cup {0}
Finds(all, path, added, n) ==
  /\ \A e \in ToSet(path) : e.id \in Ids(all) /\ Get(all, e.id) = e
  /\ \A i \in DOMAIN added : n + i \in Ids(all) /\ Get(all, n + i) = added[i]

LEMMA ForkedContext ==
  ASSUME NEW es \in Seq(FileEntry), Older(es),
         NEW path \in Seq(Entry), IsPathOf(path, es), Ids(path) \subseteq Ids(es), Closed(path),
         NEW n \in Nat, NEW added \in Seq(Entry), Ladder(added, n, EndOf(path)),
         NEW all \in Seq(FileEntry), Older(all),
         Finds(all, path, added, n), LeafOf(all) = LeafAfter(path, added)
  PROVE  ContextOf(PathTo(all, LeafOf(all))) = ContextOf(path)
<1>0. MaxEntries \in Nat
  BY BoundAssumption
<1>8. \A i \in DOMAIN added : n + i \in Ids(all) /\ Get(all, n + i) = added[i]
  BY DEF Finds
<1>9. PICK below : /\ below = EndOf(path) /\ below \in 0 .. MaxEntries /\ PathTo(all, below) = path
                   /\ Ladder(added, n, below)
  <2>1. CASE path = <<>>
    <3>1. EndOf(path) = 0
      BY <2>1 DEF EndOf
    <3>2. 0 \in 0 .. MaxEntries
      BY <1>0
    <3>3. PathTo(all, 0) = <<>>
      BY <3>2, PathMore
    <3> QED
      BY <2>1, <3>1, <3>2, <3>3
  <2>2. CASE path # <<>>
    <3>1. EndOf(path) \in Ids(es) /\ path = PathTo(es, EndOf(path))
      BY <2>2 DEF IsPathOf, EndOf
    <3>2. Holds(all, es, path)
      BY DEF Holds, Finds, Closed
    <3>3. PICK below \in Ids(es) : below = EndOf(path)
      BY <3>1
    <3>4. below \in 0 .. MaxEntries
      BY <1>0, ParentBefore
    <3>5. PathTo(all, below) = PathTo(es, below)
      BY <3>1, <3>2, <3>3, SamePath
    <3> QED
      BY <3>1, <3>3, <3>4, <3>5
  <2> QED
    BY <2>1, <2>2
<1>10. PICK m \in Nat : m = Len(added) /\ DOMAIN added = 1 .. m
  OBVIOUS
<1> DEFINE Top(k) == IF k = 0 THEN below ELSE n + k
           S == {k \in 0 .. m : ContextOf(PathTo(all, Top(k))) = ContextOf(path)}
<1>11. ASSUME NEW k \in 0 .. m, 0 .. k - 1 \subseteq S PROVE k \in S
  <2>1. CASE k = 0
    BY <1>9, <2>1
  <2>2. CASE k # 0
    <3>1. k \in DOMAIN added /\ k - 1 \in 0 .. k - 1 /\ Top(k) = n + k
      BY <1>10, <2>2
    <3>2. PICK e : e = added[k]
      OBVIOUS
    <3>3. e.parent = Top(k - 1) /\ e.kind = "label" /\ e \in Entry
      <4>1. e.parent = (IF k = 1 THEN below ELSE n + k - 1) /\ e.kind = "label" /\ e \in Entry
        <5> HIDE DEF S, Top
        <5>1. added[k] \in Entry
          BY <3>1
        <5>2. added[k].parent = (IF k = 1 THEN below ELSE n + k - 1) /\ added[k].kind = "label"
          BY <1>9, <3>1 DEF Ladder
        <5> QED
          BY <3>2, <5>1, <5>2
      <4> QED
        BY <2>2, <4>1
    <3>4. n + k \in Ids(all) /\ Get(all, n + k) = e /\ n + k \in 0 .. MaxEntries
      <4>1. n + k \in Ids(all) /\ Get(all, n + k) = e
        <5> HIDE DEF S, Top
        <5> QED
          BY <1>8, <3>1, <3>2
      <4> QED
        BY <1>0, <4>1, ParentBefore
    <3>5. PathTo(all, n + k) = Append(PathTo(all, e.parent), e) /\ e.parent \in 0 .. MaxEntries
      BY <3>4, PathMore
    <3>6. PICK p \in Seq(Entry) : p = PathTo(all, e.parent)
      BY <3>5, PathFacts
    <3>7. ContextOf(PathTo(all, n + k)) = ContextOf(p)
      BY <3>3, <3>5, <3>6, ContextOfLabel
    <3>8. k - 1 \in S
      <4> HIDE DEF S
      <4> QED
        BY <1>11, <3>1
    <3>9. ContextOf(p) = ContextOf(path)
      BY <3>3, <3>6, <3>8
    <3> QED
      BY <3>1, <3>7, <3>9
  <2> QED
    BY <2>1, <2>2
<1>12. m \in S
  <2> HIDE DEF S
  <2>1. 0 .. m \subseteq S
    BY <1>11, UpTo
  <2> QED
    BY <2>1
<1>13. LeafOf(all) = Top(m)
  <2>1. CASE added # <<>>
    <3>1. m # 0 /\ m \in DOMAIN added
      BY <1>10, <2>1, EmptySeq
    <3>2. added[m].id = n + m
      BY <3>1 DEF Ladder
    <3> QED
      BY <1>10, <2>1, <3>1, <3>2 DEF LeafAfter
  <2>2. CASE added = <<>>
    <3>1. m = 0
      BY <1>10, <2>2
    <3> QED
      BY <1>9, <2>2, <3>1 DEF Last, EndOf, LeafAfter
  <2> QED
    BY <2>1, <2>2
<1> QED
  BY <1>12, <1>13

\* A fork of a path without gaps continues with the context and the labels that the
\* session had up to there, whatever was compacted, labelled or left aside before.
THEOREM ForksKeepPath ==
  ASSUME ~ForkPastGaps
  PROVE  Spec => ForkKeepsPath
<1> DEFINE Same(id) ==
      /\ ContextOf(PathTo(entries', leaf')) = ContextOf(PathTo(entries, id))
      /\ labels' = labels \cap Ids(Unlabelled(PathTo(entries, id)))
<1>1. ASSUME Inv, NEW id \in 1 .. MaxEntries, Fork(id) PROVE Same(id)
  <2>1. PICK path : path = Unlabelled(PathTo(entries, id))
    OBVIOUS
  <2>2. PICK below : below = EndOf(path)
    OBVIOUS
  <2>3. PICK targets : targets = labels \cap Ids(path)
    OBVIOUS
  <2>4. PICK added : added = LabelEntries(targets, below)
    OBVIOUS
  <2>5. PICK h : h = Header(used.file + 1)
    OBVIOUS
  <2>6. PICK all : all = <<h>> \o path \o added
    OBVIOUS
  <2>7. /\ Open /\ id \in Ids(entries) /\ used.file < MaxFiles /\ RefersWithin(path)
        /\ used.entry + Len(added) <= MaxEntries
        /\ entries' = all /\ leaf' = LeafOf(all) /\ labels' = Labelled(all)
    BY <1>1, <2>1, <2>2, <2>3, <2>4, <2>5, <2>6 DEF Fork, EndOf
  <2>8. /\ entries \in Seq(FileEntry) /\ Below(entries, used.entry) /\ used.entry \in Nat
        /\ used.file \in 0 .. MaxFiles /\ MaxFiles \in Nat /\ targets \in SUBSET (1 .. MaxEntries)
    <3>1. /\ entries \in Seq(FileEntry) /\ Below(entries, used.entry) /\ labels \subseteq 1 .. MaxEntries
          /\ used \in [entry: 0 .. MaxEntries, file: 0 .. MaxFiles]
      BY <1>1, <2>7 DEF Inv, OpenInv, TypeOK
    <3>2. MaxEntries \in Nat /\ MaxFiles \in Nat
      BY BoundAssumption
    <3>3. targets \subseteq 1 .. MaxEntries
      BY <2>3, <3>1
    <3>4. used.entry \in Nat /\ used.file \in 0 .. MaxFiles
      BY <3>1, <3>2
    <3> QED
      BY <3>1, <3>2, <3>3, <3>4
  <2>9. Older(entries)
    BY <2>8 DEF Older, Below
  <2>10. path \in Seq(Entry) /\ Below(path, used.entry)
    BY <1>1, <2>1, <2>7, ForkPath
  <2>11. \A e \in ToSet(path) : e \in Entry /\ IsEntry(e) /\ e.id <= used.entry /\ e.id \in Nat
    <3>1. \A e \in ToSet(path) : e \in Entry
      BY <2>10, SetOfSeq
    <3>2. \A e \in ToSet(path) : IsEntry(e) /\ e.id \in Nat
      BY <3>1, BoundAssumption DEF Entry, IsEntry
    <3> QED
      BY <2>10, <3>1, <3>2 DEF Below
  <2>12. below \in 0 .. used.entry
    <3>1. CASE path = <<>>
      BY <2>2, <2>8, <3>1 DEF EndOf
    <3>2. CASE path # <<>>
      <4>1. Last(path) = path[Len(path)] /\ Len(path) \in DOMAIN path
        <5>1. Last(path) = path[Len(path)] /\ Len(path) \in Nat \ {0} /\ DOMAIN path = 1 .. Len(path)
          BY <2>10, <3>2, FrontFacts
        <5> QED
          BY <5>1
      <4>2. Last(path) \in ToSet(path)
        BY <4>1 DEF ToSet
      <4> QED
        BY <2>2, <2>8, <2>11, <3>2, <4>2 DEF EndOf
    <3> QED
      BY <3>1, <3>2
  <2>13. added \in Seq(Entry) /\ Ladder(added, used.entry, below)
    BY <2>4, <2>7, <2>8, <2>12, LabelEntriesFacts
  <2>14. h \in FileEntry /\ h.kind = "session"
    <3>1. used.file + 1 \in Files
      BY <2>7, <2>8 DEF Files
    <3> QED
      BY <2>5, <3>1 DEF Header, FileEntry
  <2>15. entries' \in Seq(FileEntry) /\ Older(entries')
    <3>1. Inv'
      BY <1>1, <2>7, ForkKeeps
    <3>2. file' = used.file + 1
      BY <1>1 DEF Fork
    <3>3. Open'
      BY <2>8, <3>2 DEF Open
    <3> QED
      BY <3>1, <3>3 DEF Inv, TypeOK, OpenInv, Older, Below
  <2>16. all \in Seq(FileEntry) /\ Older(all)
    BY <2>7, <2>15
  <2>17. ToSet(all) = {h} \cup ToSet(path) \cup ToSet(added)
    <3>1. PICK one : one = <<h>>
      OBVIOUS
    <3>2. one \in Seq(FileEntry) /\ ToSet(one) = {h} /\ path \in Seq(FileEntry) /\ added \in Seq(FileEntry)
      BY <2>10, <2>13, <2>14, <3>1 DEF ToSet, FileEntry
    <3>3. PICK first : first = one \o path
      OBVIOUS
    <3>4. first \in Seq(FileEntry) /\ ToSet(first) = {h} \cup ToSet(path)
      BY <3>2, <3>3, JoinType, SetOfJoin
    <3>5. ToSet(first \o added) = ToSet(first) \cup ToSet(added)
      BY <3>2, <3>4, SetOfJoin
    <3> QED
      BY <2>6, <3>1, <3>3, <3>4, <3>5
  <2>18. ContextOf(PathTo(all, LeafOf(all))) = ContextOf(PathTo(entries, id))
    <3>1. /\ path \in Seq(Entry) /\ Growing(path) /\ Ids(path) \subseteq Ids(entries)
          /\ \A e \in ToSet(path) : e.parent \in Ids(path) \cup {0}
          /\ ContextOf(PathTo(entries, id)) = ContextOf(path) /\ IsPathOf(path, entries)
      BY <2>1, <2>7, <2>8, <2>9, ForkedPath
    <3>2. PICK n \in Nat : n = used.entry
      BY <2>8
    <3>3. Ladder(added, n, below) /\ \A e \in ToSet(path) : e.id <= n
      BY <2>11, <2>13, <3>2
    <3>4. Finds(all, path, added, n)
      BY <2>13, <2>14, <2>16, <2>17, <3>1, <3>3, ForkedEntries DEF Finds
    <3>5. LeafOf(all) = LeafAfter(path, added)
      BY <2>6, <2>10, <2>13, <2>14, <2>16, ForkedLeaf
    <3>6. ContextOf(PathTo(all, LeafOf(all))) = ContextOf(path)
      <4>1. Ladder(added, n, EndOf(path))
        BY <2>2, <3>3
      <4>2. Closed(path)
        BY <3>1 DEF Closed
      <4> QED
        BY <2>8, <2>9, <2>13, <2>16, <3>1, <3>4, <3>5, <4>1, <4>2, ForkedContext
    <3> QED
      BY <3>1, <3>6
  <2>19. Labelled(all) = targets
    <3>1. \A e \in ToSet(path) : e.kind \notin {"label", "unlabel"}
      <4>1. PICK long \in Seq(Entry) : long = PathTo(entries, id)
        <5>1. id \in 0 .. MaxEntries
          OBVIOUS
        <5> QED
          BY <2>8, <2>9, <5>1, PathFacts
      <4>2. ToSet(path) = {e \in ToSet(long) : e.kind \in Kinds \ {"label", "unlabel"}}
        BY <2>1, <4>1, OnlyFacts DEF Unlabelled
      <4> QED
        BY <4>2
    <3>2. \A e \in ToSet(added) : e.kind = "label"
      BY <2>13 DEF ToSet, Ladder
    <3>3. Labelled(all) = {k \in 1 .. MaxEntries : \E e \in ToSet(all) : e.kind = "label" /\ e.target = k}
      <4>1. \A e \in ToSet(all) : e.kind # "unlabel"
        BY <2>14, <2>17, <3>1, <3>2
      <4> QED
        BY <2>16, <4>1, LabelledBySet
    <3>4. ASSUME NEW k
          PROVE  (\E e \in ToSet(all) : e.kind = "label" /\ e.target = k) <=> k \in targets
      <4>1. k \in targets <=> \E e \in ToSet(added) : e.target = k
        BY <2>4, <2>8, LabelTargets
      <4> QED
        BY <2>14, <2>17, <3>1, <3>2, <4>1
    <3> QED
      BY <2>8, <3>3, <3>4
  <2> QED
    BY <2>1, <2>3, <2>7, <2>18, <2>19
<1>2. Inv /\ [Next]_vars => [\A id \in 1 .. MaxEntries : Fork(id) => Same(id)]_vars
  <2> HIDE DEF Same
  <2> QED
    BY <1>1
<1> QED
  BY <1>2, InvAlways, PTL DEF Spec, ForkKeepsPath
==============================================================================
