----------------------------- MODULE PoolProofs -----------------------------
(* Theorems of Pool, for every set of accounts, providers, references,      *)
(* configurations, sessions, exchanges and steering requests.               *)
EXTENDS Pool, FiniteSetTheorems, SequenceTheorems, TLAPS

---------------------------------------------------------------------------
(* Lemmas on the order accounts are held in. *)

LEMMA Appended ==
  ASSUME NEW S, NEW s \in Seq(S), IsInjective(s), NEW h \in S, h \notin ToSet(s)
  PROVE  /\ Append(s, h) \in Seq(S) /\ IsInjective(Append(s, h))
         /\ ToSet(Append(s, h)) = ToSet(s) \cup {h}
<1>1. /\ Append(s, h) \in Seq(S) /\ Len(Append(s, h)) = Len(s) + 1
      /\ \A i \in 1 .. Len(s) : Append(s, h)[i] = s[i]
      /\ Append(s, h)[Len(s) + 1] = h
      /\ DOMAIN s = 1 .. Len(s) /\ DOMAIN Append(s, h) = 1 .. Len(s) + 1 /\ Len(s) \in Nat
  OBVIOUS
<1> DEFINE t == Append(s, h)
           n == Len(s)
<1> HIDE DEF t, n
<1>2. \A i \in 1 .. n : t[i] # h
  BY <1>1 DEF ToSet, t, n
<1>3. IsInjective(t)
  BY <1>1, <1>2 DEF IsInjective, t, n
<1>4. ToSet(t) = ToSet(s) \cup {h}
  BY <1>1 DEF ToSet, t, n
<1> QED
  BY <1>1, <1>3, <1>4 DEF t

LEMMA RemovedAt ==
  ASSUME NEW S, NEW s \in Seq(S), IsInjective(s), NEW i \in DOMAIN s
  PROVE  /\ RemoveAt(s, i) \in Seq(S) /\ IsInjective(RemoveAt(s, i))
         /\ ToSet(RemoveAt(s, i)) = ToSet(s) \ {s[i]}
<1> DEFINE t == RemoveAt(s, i)
           n == Len(s)
           u == SubSeq(s, 1, i - 1)
           v == SubSeq(s, i + 1, n)
<1>1. n \in Nat /\ DOMAIN s = 1 .. n /\ i \in 1 .. n /\ \A j \in 1 .. n : s[j] \in S
  BY LenProperties, ElementOfSeq
<1>7. u \in Seq(S) /\ Len(u) = i - 1 /\ \A j \in 1 .. i - 1 : u[j] = s[j]
  BY <1>1, SubSeqProperties
<1>8. v \in Seq(S) /\ Len(v) = n - i /\ \A j \in 1 .. n - i : v[j] = s[i + j]
  <2> HIDE DEF n
  <2>1. i \in Int /\ i + 1 \in Int /\ n \in Int /\ \A j \in i + 1 .. n : s[j] \in S
    BY <1>1
  <2>2. /\ v \in Seq(S) /\ Len(v) = IF i + 1 <= n THEN n - (i + 1) + 1 ELSE 0
        /\ \A j \in 1 .. n - (i + 1) + 1 : v[j] = s[i + 1 + j - 1]
    BY <2>1, SubSeqProperties
  <2> QED
    BY <1>1, <2>1, <2>2
<1> HIDE DEF u, v
<1>2. /\ t \in Seq(S) /\ Len(t) = n - 1 /\ DOMAIN t = 1 .. n - 1
      /\ \A j \in 1 .. n - 1 : t[j] = IF j < i THEN s[j] ELSE s[j + 1]
  <2>1. t = u \o v
    BY Zenon DEF RemoveAt, u, v, n
  <2> HIDE DEF t, n
  <2>2. /\ u \o v \in Seq(S) /\ Len(u \o v) = Len(u) + Len(v)
        /\ \A j \in 1 .. Len(u) + Len(v) :
             (u \o v)[j] = IF j <= Len(u) THEN u[j] ELSE v[j - Len(u)]
    BY <1>7, <1>8, ConcatProperties
  <2>3. t \in Seq(S) /\ Len(t) = n - 1 /\ DOMAIN t = 1 .. n - 1
    BY <1>1, <1>7, <1>8, <2>1, <2>2
  <2>4. \A j \in 1 .. Len(u) + Len(v) : t[j] = IF j <= Len(u) THEN u[j] ELSE v[j - Len(u)]
    BY <2>1, <2>2, Zenon
  <2>5. ASSUME NEW j \in 1 .. n - 1
        PROVE  t[j] = IF j < i THEN s[j] ELSE s[j + 1]
    <3>1. t[j] = IF j <= i - 1 THEN u[j] ELSE v[j - (i - 1)]
      <4>1. j \in 1 .. Len(u) + Len(v) /\ Len(u) = i - 1
        BY <1>1, <1>7, <1>8
      <4> QED
        BY <2>4, <4>1, Zenon
    <3>2. CASE j < i
      BY <1>1, <1>7, <3>1, <3>2
    <3>3. CASE i <= j
      <4>1. j - (i - 1) \in 1 .. n - i /\ i + (j - (i - 1)) = j + 1
        BY <1>1, <3>3
      <4>2. v[j - (i - 1)] = s[j + 1]
        BY <1>8, <4>1
      <4>3. t[j] = v[j - (i - 1)]
        BY <1>1, <3>1, <3>3
      <4> QED
        BY <1>1, <3>3, <4>2, <4>3
    <3> QED
      BY <1>1, <3>2, <3>3
  <2> QED
    BY <2>3, <2>5
<1> HIDE DEF t, n
<1>9. \A j \in 1 .. n - 1 : \E k \in 1 .. n :
        t[j] = s[k] /\ k # i /\ k = IF j < i THEN j ELSE j + 1
  BY <1>1, <1>2
<1>3. IsInjective(t)
  <2> SUFFICES ASSUME NEW a \in 1 .. n - 1, NEW b \in 1 .. n - 1, t[a] = t[b]
               PROVE  a = b
    BY <1>2 DEF IsInjective
  <2>1. PICK j \in 1 .. n : t[a] = s[j] /\ j = IF a < i THEN a ELSE a + 1
    BY <1>9
  <2>2. PICK k \in 1 .. n : t[b] = s[k] /\ k = IF b < i THEN b ELSE b + 1
    BY <1>9
  <2>3. j = k
    BY <1>1, <2>1, <2>2 DEF IsInjective
  <2> QED
    BY <1>1, <2>1, <2>2, <2>3
<1>4. \A j \in 1 .. n : j # i => s[j] \in ToSet(t)
  <2> SUFFICES ASSUME NEW j \in 1 .. n, j # i
               PROVE  s[j] \in ToSet(t)
    OBVIOUS
  <2>1. CASE j < i
    <3>1. j \in 1 .. n - 1 /\ t[j] = s[j]
      BY <1>1, <1>2, <2>1
    <3> QED
      BY <1>2, <3>1 DEF ToSet
  <2>2. CASE i < j
    <3>1. j - 1 \in 1 .. n - 1 /\ t[j - 1] = s[j]
      BY <1>1, <1>2, <2>2
    <3> QED
      BY <1>2, <3>1 DEF ToSet
  <2> QED
    BY <1>1, <2>1, <2>2
<1>5. ToSet(t) \subseteq ToSet(s) \ {s[i]}
  <2> SUFFICES ASSUME NEW j \in 1 .. n - 1
               PROVE  t[j] \in ToSet(s) \ {s[i]}
    BY <1>2 DEF ToSet
  <2>1. PICK k \in 1 .. n : t[j] = s[k] /\ k # i
    BY <1>9
  <2> QED
    BY <1>1, <2>1 DEF IsInjective, ToSet
<1>6. ToSet(s) \ {s[i]} \subseteq ToSet(t)
  BY <1>1, <1>4 DEF ToSet
<1> QED
  BY <1>2, <1>3, <1>5, <1>6 DEF t

LEMMA OrderOfSet ==
  ASSUME NEW S, IsFiniteSet(S)
  PROVE  SetToSeq(S) \in Seq(S) /\ IsInjective(SetToSeq(S)) /\ ToSet(SetToSeq(S)) = S
<1> DEFINE n == Cardinality(S)
<1>1. n \in Nat /\ ExistsBijection(1 .. n, S)
  BY FS_CardinalityType
<1> HIDE DEF n
<1>2. PICK f \in Bijection(1 .. n, S) : TRUE
  BY <1>1 DEF ExistsBijection
<1>3. f \in [1 .. n -> S] /\ IsInjective(f)
  BY <1>2 DEF Bijection, Injection, IsInjective
<1>4. \E g \in [1 .. n -> S] : IsInjective(g)
  BY <1>3
<1> DEFINE q == SetToSeq(S)
<1>5. q \in [1 .. n -> S] /\ IsInjective(q)
  BY <1>4 DEF SetToSeq, n
<1> HIDE DEF q
<1>6. q \in Injection(1 .. n, S)
  BY <1>5 DEF Injection, IsInjective
<1>7. IsFiniteSet(1 .. n) /\ Cardinality(1 .. n) = n
  BY <1>1, FS_Interval
<1>8. q \in Surjection(1 .. n, S)
  BY <1>6, <1>7, FS_Injection DEF n
<1>9. ToSet(q) = S
  BY <1>5, <1>8 DEF Surjection, ToSet
<1> QED
  BY <1>1, <1>5, <1>9 DEF q

---------------------------------------------------------------------------
(* The inductive invariant. *)

\* The accounts and the defaults that point into them.
AccountsHold ==
  /\ order \in Seq(Handle) /\ IsInjective(order)
  /\ Pooled \subseteq used /\ used \subseteq Handle
  /\ account \in [Handle -> AccountType]
  /\ default \in [Provider -> DefaultType]
  /\ DefaultsExist

SteeringHolds ==
  /\ pref \in [RouteKey \X Spelling -> Handle \cup {NoHandle}]
  /\ config \in Config
  /\ request \in [Request -> RequestType]

Types == /\ session \in [Session -> SessionType]
         /\ exchange \in [Exchange -> ExchangeType]
         /\ \A x \in Exchange : exchange[x].pc = "attempt" => exchange[x].serving \in Handle

BindingsHold == \A s \in Session : session[s].bound \in Pooled \cup {NoHandle}

\* An idle slot counts in no session.
In(s) == {x \in Exchange : exchange[x].session = s}
CountsHold == /\ \A x \in Exchange : exchange[x].pc = "idle" => exchange[x].session = NoSession
              /\ \A s \in Session : session[s].inFlight = Cardinality(In(s))

Inv == AccountsHold /\ SteeringHolds /\ Types /\ BindingsHold /\ CountsHold

---------------------------------------------------------------------------
(* Counting the exchanges of a session. *)

LEMMA CountType ==
  \A s : IsFiniteSet(In(s)) /\ Cardinality(In(s)) \in Nat
<1> SUFFICES ASSUME NEW s
             PROVE  IsFiniteSet(In(s)) /\ Cardinality(In(s)) \in Nat
  OBVIOUS
<1>1. In(s) \in SUBSET Exchange /\ IsFiniteSet(Exchange)
  BY ParametersAssumption DEF In
<1> QED
  BY <1>1, FS_Subset, FS_CardinalityType

LEMMA CountAfter ==
  ASSUME NEW x \in Exchange, NEW s,
         \A y \in Exchange \ {x} : exchange'[y].session = exchange[y].session
  PROVE  /\ (exchange'[x].session = s <=> exchange[x].session = s)
               => Cardinality(In(s)') = Cardinality(In(s))
         /\ exchange[x].session # s /\ exchange'[x].session = s
               => Cardinality(In(s)') = Cardinality(In(s)) + 1
         /\ exchange[x].session = s /\ exchange'[x].session # s
               => /\ Cardinality(In(s)') = Cardinality(In(s)) - 1
                  /\ Cardinality(In(s)) # 0
<1>1. CASE exchange'[x].session = s <=> exchange[x].session = s
  <2>1. In(s)' = In(s)
    BY <1>1 DEF In
  <2> QED
    BY <1>1, <2>1
<1>2. CASE exchange[x].session # s /\ exchange'[x].session = s
  <2>1. In(s)' = In(s) \cup {x} /\ x \notin In(s)
    BY <1>2 DEF In
  <2>2. Cardinality(In(s) \cup {x}) = Cardinality(In(s)) + 1
    BY <2>1, CountType, FS_AddElement
  <2> QED
    BY <1>2, <2>1, <2>2
<1>3. CASE exchange[x].session = s /\ exchange'[x].session # s
  <2>1. In(s)' = In(s) \ {x} /\ x \in In(s)
    BY <1>3 DEF In
  <2>2. Cardinality(In(s) \ {x}) = Cardinality(In(s)) - 1
    BY <2>1, CountType, FS_RemoveElement
  <2>3. Cardinality(In(s)) # 0
    BY <2>1, CountType, FS_EmptySet
  <2> QED
    BY <1>3, <2>1, <2>2, <2>3
<1> QED
  BY <1>1, <1>2, <1>3

---------------------------------------------------------------------------
(* What an exchange step does to the records. *)

LEMMA EndedType ==
  ASSUME config \in Config
  PROVE  Ended \in ExchangeType /\ Ended.pc = "idle" /\ Ended.session = NoSession
<1>1. (CHOOSE p \in Provider : TRUE) \in Provider /\ (CHOOSE c \in Config : TRUE) \in Config
  BY ParametersAssumption
<1>2. 0 \in 0 .. MaxWaits
  BY ParametersAssumption
<1> QED
  BY <1>1, <1>2 DEF Ended, ExchangeType

\* An exchange that ends gives its count back; bindings stay.
LEMMA EndsKeeps ==
  ASSUME Inv, NEW x \in Exchange, Ends(x)
  PROVE  /\ Types' /\ CountsHold'
         /\ \A s \in Session : session'[s].bound = session[s].bound
         /\ \A y \in Exchange : exchange'[y] = exchange[y] \/ exchange'[y].pc = "idle"
<1> DEFINE t == exchange[x].session
<1>1. /\ exchange' = [exchange EXCEPT ![x] = Ended]
      /\ session' = IF t = NoSession THEN session
                    ELSE [session EXCEPT ![t].inFlight = IF @ = 0 THEN 0 ELSE @ - 1]
  BY DEF Ends
<1>2. /\ Ended \in ExchangeType /\ Ended.pc = "idle" /\ Ended.session = NoSession
      /\ session \in [Session -> SessionType] /\ exchange \in [Exchange -> ExchangeType]
      /\ t \in Session \cup {NoSession} /\ NoSession \notin Session
  BY EndedType, ParametersAssumption DEF Inv, SteeringHolds, Types, ExchangeType
<1>3. exchange' \in [Exchange -> ExchangeType]
  BY <1>1, <1>2
<1>4. /\ exchange'[x] = Ended
      /\ \A y \in Exchange \ {x} : exchange'[y] = exchange[y]
  BY <1>1, <1>2
<1> HIDE DEF t
<1>5. ASSUME NEW s \in Session
      PROVE  /\ session'[s] \in SessionType /\ session'[s].bound = session[s].bound
             /\ session'[s].inFlight = Cardinality(In(s)')
  <2>1. session[s] \in SessionType /\ session[s].inFlight = Cardinality(In(s))
    BY <1>2 DEF Inv, CountsHold
  <2>2. exchange'[x].session # s
    BY <1>2, <1>4
  <2>3. CASE t = s
    <3>1. Cardinality(In(s)') = Cardinality(In(s)) - 1 /\ Cardinality(In(s)) # 0
      BY <1>4, <2>2, <2>3, CountAfter DEF t
    <3>2. session'[s] = [session[s] EXCEPT !.inFlight = IF @ = 0 THEN 0 ELSE @ - 1]
      BY <1>1, <1>2, <2>3
    <3> QED
      BY <2>1, <3>1, <3>2 DEF SessionType
  <2>4. CASE t # s
    <3>1. Cardinality(In(s)') = Cardinality(In(s))
      BY <1>4, <2>2, <2>4, CountAfter DEF t
    <3>2. session'[s] = session[s]
      BY <1>1, <1>2, <2>4
    <3> QED
      BY <2>1, <3>1, <3>2
  <2> QED
    BY <2>3, <2>4
<1>6. session' \in [Session -> SessionType]
  <2>1. \/ session' \in [Session -> SessionType]
        \/ /\ t \in Session
           /\ session' = [session EXCEPT ![t].inFlight = IF @ = 0 THEN 0 ELSE @ - 1]
    BY <1>1, <1>2
  <2> QED
    BY <1>2, <1>5, <2>1
<1>7. \A y \in Exchange : /\ exchange'[y].pc = "idle" => exchange'[y].session = NoSession
                          /\ exchange'[y].pc = "attempt" => exchange'[y].serving \in Handle
  BY <1>2, <1>4 DEF Inv, Types, CountsHold
<1> QED
  BY <1>2, <1>3, <1>4, <1>5, <1>6, <1>7 DEF Types, CountsHold

\* An exchange that goes on stays in its session.
LEMMA GoesOn ==
  ASSUME Inv, NEW x \in Exchange, exchange' \in [Exchange -> ExchangeType],
         \A y \in Exchange \ {x} : exchange'[y] = exchange[y],
         exchange'[x].session = exchange[x].session, exchange'[x].pc # "idle",
         \A s \in Session : session'[s].inFlight = session[s].inFlight
  PROVE  CountsHold'
<1>1. \A s : Cardinality(In(s)') = Cardinality(In(s))
  BY CountAfter
<1> QED
  BY <1>1 DEF Inv, CountsHold

---------------------------------------------------------------------------
(* What the selection answers. *)

\* The account answered is one of the provider's, and was not passed over.
LEMMA AnswerEligible ==
  ASSUME NEW e \in ExchangeType, Answer(e) # Nobody, NEW h \in Answer(e).from
  PROVE  /\ h \in PoolOf(e.provider) /\ h \notin e.exclusion
         /\ Eligible(e, h, TRUE) \/ Eligible(e, h, FALSE)
<1>1. \A hs : Best(e, hs) \subseteq hs
  BY DEF Best
<1>2. Nobody = Choice("nobody", {})
  BY DEF Nobody
<1>3. \A cause, from : Choice(cause, from).from = from
  BY DEF Choice
<1>4. Eligible(e, h, TRUE) \/ Eligible(e, h, FALSE)
  <2>1. CASE e.pin # NoHandle
    <3>1. Answer(e) = IF Eligible(e, e.pin, FALSE) THEN Choice("pin", {e.pin}) ELSE Nobody
      BY <2>1, Zenon DEF Answer
    <3>2. Eligible(e, e.pin, FALSE) /\ Answer(e) = Choice("pin", {e.pin})
      BY <3>1, Zenon
    <3>3. h = e.pin
      BY <1>3, <3>2
    <3> QED
      BY <3>2, <3>3
  <2>2. CASE e.pin = NoHandle /\ Eligible(e, e.preference, FALSE)
    <3>1. Answer(e) = Choice("preference", {e.preference})
      BY <2>2, Zenon DEF Answer
    <3>2. h = e.preference
      BY <1>3, <3>1
    <3> QED
      BY <2>2, <3>2
  <2>3. CASE e.pin = NoHandle /\ ~Eligible(e, e.preference, FALSE)
             /\ Eligible(e, PreferredByRoute(e), FALSE)
    <3>1. Answer(e) = Choice("route", {PreferredByRoute(e)})
      BY <2>3 DEF Answer
    <3>2. h = PreferredByRoute(e)
      BY <1>3, <3>1
    <3> QED
      BY <2>3, <3>2
  <2>4. CASE e.pin = NoHandle /\ ~Eligible(e, e.preference, FALSE)
             /\ ~Eligible(e, PreferredByRoute(e), FALSE)
    <3>1. Answer(e) =
            IF HasBound(e) /\ ~Moves(e)
              THEN IF Eligible(e, Binding(e), TRUE) THEN Choice("session", {Binding(e)}) ELSE Nobody
            ELSE IF EligibleSet(e) = {} THEN Nobody
            ELSE IF e.config.distribute /\ Binds(e) THEN Choice("session", Best(e, EligibleSet(e)))
            ELSE IF default[e.provider].handle \in EligibleSet(e)
              THEN Choice("default", {default[e.provider].handle})
            ELSE Choice("ranking", Best(e, EligibleSet(e)))
      BY <2>4 DEF Answer
    <3>2. CASE HasBound(e) /\ ~Moves(e)
      <4>1. Answer(e) = IF Eligible(e, Binding(e), TRUE) THEN Choice("session", {Binding(e)}) ELSE Nobody
        BY <3>1, <3>2
      <4>2. Eligible(e, Binding(e), TRUE) /\ h = Binding(e)
        <5>1. Eligible(e, Binding(e), TRUE) /\ Answer(e) = Choice("session", {Binding(e)})
          BY <4>1, Zenon
        <5>2. Answer(e) = Choice("session", {Binding(e)})
          BY <5>1, Zenon
        <5>3. h = Binding(e)
          BY <1>3, <5>2
        <5> QED
          BY <5>1, <5>3, Zenon
      <4> QED
        BY <4>2
    <3>3. CASE ~(HasBound(e) /\ ~Moves(e))
      <4> DEFINE E == EligibleSet(e)
      <4>1. E # {}
        BY <3>1, <3>3, Zenon
      <4> HIDE DEF E
      <4>2. CASE e.config.distribute /\ Binds(e)
        <5>1. Answer(e) = Choice("session", Best(e, E))
          BY <3>1, <3>3, <4>1, <4>2, Zenon DEF E
        <5>2. h \in E
          BY <1>1, <1>3, <5>1
        <5> QED
          BY <5>2 DEF E, EligibleSet
      <4>3. CASE ~(e.config.distribute /\ Binds(e)) /\ default[e.provider].handle \in E
        <5>1. Answer(e) = Choice("default", {default[e.provider].handle})
          BY <3>1, <3>3, <4>1, <4>3, Zenon DEF E
        <5>2. h \in E
          BY <1>3, <4>3, <5>1
        <5> QED
          BY <5>2 DEF E, EligibleSet
      <4>4. CASE ~(e.config.distribute /\ Binds(e)) /\ default[e.provider].handle \notin E
        <5>1. Answer(e) = Choice("ranking", Best(e, E))
          BY <3>1, <3>3, <4>1, <4>4, Zenon DEF E
        <5>2. h \in E
          BY <1>1, <1>3, <5>1
        <5> QED
          BY <5>2 DEF E, EligibleSet
      <4> QED
        BY <4>2, <4>3, <4>4
    <3> QED
      BY <3>2, <3>3
  <2> QED
    BY <2>1, <2>2, <2>3, <2>4
<1> QED
  BY <1>4 DEF Eligible

\* A selection that would move the default answers with an account of the pool.
LEMMA PoolOfHandle ==
  ASSUME AccountsHold, NEW p, NEW h \in PoolOf(p)
  PROVE  h \in Handle /\ h \in Pooled /\ ProviderOf[h] = p
BY DEF AccountsHold, PoolOf

LEMMA ExchangeFields ==
  ASSUME Inv, NEW x \in Exchange
  PROVE  /\ exchange[x] \in ExchangeType
         /\ exchange[x].provider \in Provider /\ exchange[x].session \in Session \cup {NoSession}
         /\ exchange[x].exclusion \in SUBSET Handle /\ exchange[x].serving \in Handle \cup {NoHandle}
         /\ exchange[x].waits \in 0 .. MaxWaits /\ MaxWaits \in Nat
BY ParametersAssumption DEF Inv, Types, ExchangeType

LEMMA AttemptsKeeps ==
  ASSUME Inv, NEW x \in Exchange, NEW h \in Handle, Attempts(x, h)
  PROVE  /\ exchange' \in [Exchange -> ExchangeType]
         /\ \A y \in Exchange \ {x} : exchange'[y] = exchange[y]
         /\ exchange'[x].session = exchange[x].session /\ exchange'[x].pc # "idle"
         /\ exchange'[x].serving = h
<1>1. exchange \in [Exchange -> ExchangeType] /\ 0 \in 0 .. MaxWaits
  BY ParametersAssumption DEF Inv, Types
<1>2. exchange' = [exchange EXCEPT ![x] = [exchange[x] EXCEPT !.pc = "attempt", !.serving = h,
                                                              !.waits = 0]]
  BY <1>1 DEF Attempts
<1>3. /\ [exchange[x] EXCEPT !.pc = "attempt", !.serving = h, !.waits = 0] \in ExchangeType
      /\ [exchange[x] EXCEPT !.pc = "attempt", !.serving = h, !.waits = 0].session = exchange[x].session
      /\ [exchange[x] EXCEPT !.pc = "attempt", !.serving = h, !.waits = 0].pc = "attempt"
      /\ [exchange[x] EXCEPT !.pc = "attempt", !.serving = h, !.waits = 0].serving = h
  BY <1>1, ExchangeFields DEF ExchangeType
<1> QED
  BY <1>1, <1>2, <1>3

LEMMA PassesOverKeeps ==
  ASSUME Inv, NEW x \in Exchange, exchange[x].serving \in Handle, PassesOver(x)
  PROVE  /\ exchange' \in [Exchange -> ExchangeType]
         /\ \A y \in Exchange \ {x} : exchange'[y] = exchange[y]
         /\ exchange'[x].session = exchange[x].session /\ exchange'[x].pc = "select"
<1>1. exchange \in [Exchange -> ExchangeType]
  BY DEF Inv, Types
<1> DEFINE e == [exchange[x] EXCEPT !.pc = "select", !.serving = NoHandle,
                                    !.exclusion = @ \cup {exchange[x].serving}]
<1>2. exchange' = [exchange EXCEPT ![x] = e]
  BY <1>1 DEF PassesOver
<1>3. e \in ExchangeType /\ e.session = exchange[x].session /\ e.pc = "select"
  BY <1>1, ExchangeFields DEF ExchangeType
<1> HIDE DEF e
<1> QED
  BY <1>1, <1>2, <1>3

---------------------------------------------------------------------------
(* Every step preserves the invariant: what is left alone. *)

LEMMA AccountsKept ==
  ASSUME AccountsHold, UNCHANGED <<order, used, default>>, account' \in [Handle -> AccountType]
  PROVE  AccountsHold'
BY DEF AccountsHold, Pooled, PoolOf, DefaultsExist

LEMMA SteeringKept ==
  ASSUME SteeringHolds, UNCHANGED <<pref, config, request>>
  PROVE  SteeringHolds'
BY DEF SteeringHolds

LEMMA BindingsKept ==
  ASSUME BindingsHold, UNCHANGED order, \A s \in Session : session'[s].bound = session[s].bound
  PROVE  BindingsHold'
BY DEF BindingsHold, Pooled

\* A step that leaves sessions and exchanges alone, and drops no account.
LEMMA SessionsKept ==
  ASSUME Types, BindingsHold, CountsHold, UNCHANGED <<session, exchange>>, Pooled \subseteq Pooled'
  PROVE  Types' /\ BindingsHold' /\ CountsHold'
<1>1. \A s : In(s)' = In(s)
  BY DEF In
<1> QED
  BY <1>1 DEF Types, BindingsHold, CountsHold

LEMMA OnlyAccounts ==
  ASSUME Inv, UNCHANGED <<order, used, session, exchange>>, UNCHANGED steering,
         account' \in [Handle -> AccountType]
  PROVE  Inv'
<1>1. AccountsHold'
  BY AccountsKept DEF Inv, steering
<1>2. SteeringHolds'
  BY SteeringKept DEF Inv, steering
<1>3. Types' /\ BindingsHold' /\ CountsHold'
  BY SessionsKept DEF Inv, Pooled
<1> QED
  BY <1>1, <1>2, <1>3 DEF Inv

LEMMA StepEnds ==
  ASSUME Inv, NEW x \in Exchange, Ends(x), UNCHANGED <<order, used>>, UNCHANGED steering,
         account' \in [Handle -> AccountType]
  PROVE  Inv'
<1>1. AccountsHold'
  BY AccountsKept DEF Inv, steering
<1>2. SteeringHolds'
  BY SteeringKept DEF Inv, steering
<1>3. Types' /\ CountsHold'
  BY EndsKeeps
<1>4. BindingsHold'
  BY BindingsKept, EndsKeeps DEF Inv
<1> QED
  BY <1>1, <1>2, <1>3, <1>4 DEF Inv

LEMMA StepGoesOn ==
  ASSUME Inv, NEW x \in Exchange, exchange' \in [Exchange -> ExchangeType],
         \A y \in Exchange \ {x} : exchange'[y] = exchange[y],
         exchange'[x].session = exchange[x].session, exchange'[x].pc # "idle",
         exchange'[x].pc = "attempt" => exchange'[x].serving \in Handle,
         UNCHANGED <<order, used, session>>, UNCHANGED steering,
         account' \in [Handle -> AccountType]
  PROVE  Inv'
<1>1. AccountsHold'
  BY AccountsKept DEF Inv, steering
<1>2. SteeringHolds'
  BY SteeringKept DEF Inv, steering
<1>3. Types'
  BY DEF Inv, Types
<1>4. CountsHold'
  BY GoesOn
<1>5. BindingsHold'
  BY BindingsKept DEF Inv
<1> QED
  BY <1>1, <1>2, <1>3, <1>4, <1>5 DEF Inv

LEMMA StepPassesOver ==
  ASSUME Inv, NEW x \in Exchange, exchange[x].pc = "attempt", PassesOver(x),
         UNCHANGED <<order, used, session>>, UNCHANGED steering,
         account' \in [Handle -> AccountType]
  PROVE  Inv'
<1>1. exchange[x].serving \in Handle
  BY DEF Inv, Types
<1> QED
  BY <1>1, PassesOverKeeps, StepGoesOn

LEMMA Untouched ==
  ASSUME Inv, UNCHANGED account
  PROVE  account' \in [Handle -> AccountType]
BY DEF Inv, AccountsHold

---------------------------------------------------------------------------
(* Every step preserves the invariant: the exchanges. *)

LEMMA SelectInv ==
  ASSUME Inv, NEW x \in Exchange, Select(x)
  PROVE  Inv'
<1> DEFINE e == exchange[x]
<1>1. PICK h \in Answer(e).from :
        /\ Attempts(x, h) /\ session' = Bound(x, h)
        /\ IF Answer(e).cause = "ranking" /\ DefaultMoves(e)
             THEN MovedDefault(e.provider, h) ELSE UNCHANGED default
  BY DEF Select
<1>2. e \in ExchangeType /\ e.provider \in Provider /\ e.session \in Session \cup {NoSession}
  BY ExchangeFields
<1>3. h \in PoolOf(e.provider)
  BY <1>2, AnswerEligible DEF Select
<1>4. h \in Handle /\ h \in Pooled /\ ProviderOf[h] = e.provider
  BY <1>3, PoolOfHandle DEF Inv
<1>5. UNCHANGED <<order, used, account, pref, config, request>>
  BY DEF Select
<1>6. AccountsHold'
  <2>1. CASE UNCHANGED default
    BY <1>5, <2>1, AccountsKept, Untouched DEF Inv
  <2>2. CASE MovedDefault(e.provider, h)
    <3>1. default' = [default EXCEPT ![e.provider] = [handle |-> h, chosen |-> FALSE]]
      BY <2>2 DEF MovedDefault
    <3>2. [handle |-> h, chosen |-> FALSE] \in DefaultType
      BY <1>4 DEF DefaultType
    <3>3. default \in [Provider -> DefaultType] /\ DefaultsExist
      BY DEF Inv, AccountsHold
    <3>4. default' \in [Provider -> DefaultType]
      BY <3>1, <3>2, <3>3
    <3>5. ASSUME NEW p \in Provider
          PROVE  IF PoolOf(p)' = {} THEN default'[p].handle = NoHandle
                 ELSE default'[p].handle \in PoolOf(p)'
      <4>1. PoolOf(p)' = PoolOf(p)
        BY <1>5 DEF PoolOf, Pooled
      <4>2. CASE p = e.provider
        <5>1. default'[p].handle = h
          BY <3>1, <3>3, <4>2
        <5> QED
          BY <1>3, <4>1, <4>2, <5>1
      <4>3. CASE p # e.provider
        <5>1. default'[p] = default[p]
          BY <3>1, <3>3, <4>3
        <5> QED
          BY <3>3, <4>1, <5>1 DEF DefaultsExist
      <4> QED
        BY <4>2, <4>3
    <3>6. DefaultsExist'
      BY <3>5 DEF DefaultsExist
    <3> QED
      BY <1>5, <3>4, <3>6 DEF Inv, AccountsHold, Pooled
  <2> QED
    BY <1>1, <2>1, <2>2
<1>7. SteeringHolds'
  BY <1>5, SteeringKept DEF Inv
<1>8. /\ exchange' \in [Exchange -> ExchangeType]
      /\ \A y \in Exchange \ {x} : exchange'[y] = exchange[y]
      /\ exchange'[x].session = exchange[x].session /\ exchange'[x].pc # "idle"
      /\ exchange'[x].serving = h
  BY <1>1, <1>4, AttemptsKeeps
<1>9. /\ session' \in [Session -> SessionType]
      /\ \A s \in Session : /\ session'[s].inFlight = session[s].inFlight
                            /\ session'[s].bound \in {session[s].bound, h}
  <2>1. session \in [Session -> SessionType]
    BY DEF Inv, Types
  <2>2. CASE Binds(e)
    <3>1. session' = [session EXCEPT ![e.session].bound = h] /\ e.session \in Session
      BY <1>1, <1>2, <2>2 DEF Bound, Binds
    <3>2. [session[e.session] EXCEPT !.bound = h] \in SessionType
      BY <1>4, <2>1, <3>1 DEF SessionType
    <3>3. session' \in [Session -> SessionType]
      BY <2>1, <3>1, <3>2
    <3>4. ASSUME NEW s \in Session
          PROVE  /\ session'[s].inFlight = session[s].inFlight
                 /\ session'[s].bound \in {session[s].bound, h}
      <4>1. CASE s = e.session
        <5>1. session'[s] = [session[s] EXCEPT !.bound = h] /\ session[s] \in SessionType
          BY <2>1, <3>1, <4>1
        <5> QED
          BY <5>1 DEF SessionType
      <4>2. CASE s # e.session
        BY <2>1, <3>1, <4>2
      <4> QED
        BY <4>1, <4>2
    <3> QED
      BY <3>3, <3>4
  <2>3. CASE ~Binds(e)
    BY <1>1, <2>1, <2>3 DEF Bound
  <2> QED
    BY <2>2, <2>3
<1>10. Types'
  BY <1>4, <1>8, <1>9 DEF Inv, Types
<1>11. BindingsHold'
  BY <1>4, <1>5, <1>9 DEF Inv, BindingsHold, Pooled
<1>12. CountsHold'
  BY <1>8, <1>9, GoesOn
<1> QED
  BY <1>6, <1>7, <1>10, <1>11, <1>12 DEF Inv

LEMMA ChallengeInv ==
  ASSUME Inv, NEW x \in Exchange, Challenge(x)
  PROVE  Inv'
<1>1. PICK h \in Challengeable(exchange[x]) : Attempts(x, h)
  BY DEF Challenge
<1>2. h \in PoolOf(exchange[x].provider)
  BY DEF Challengeable, Best, Usable
<1>3. h \in Handle
  BY <1>2, PoolOfHandle DEF Inv
<1>4. UNCHANGED <<order, used, account, session>> /\ UNCHANGED steering
  BY DEF Challenge
<1> QED
  BY <1>1, <1>3, <1>4, AttemptsKeeps, StepGoesOn, Untouched

LEMMA NobodyServesInv ==
  ASSUME Inv, NEW x \in Exchange, NobodyServes(x)
  PROVE  Inv'
<1>1. UNCHANGED <<order, used>> /\ UNCHANGED steering /\ account' \in [Handle -> AccountType]
  BY Untouched DEF NobodyServes
<1>2. CASE Ends(x)
  BY <1>1, <1>2, StepEnds
<1>3. CASE /\ exchange[x].waits < MaxWaits
           /\ exchange' = [exchange EXCEPT ![x].waits = @ + 1] /\ UNCHANGED session
  <2>1. exchange \in [Exchange -> ExchangeType]
    BY DEF Inv, Types
  <2> DEFINE e == [exchange[x] EXCEPT !.waits = @ + 1]
  <2>2. exchange' = [exchange EXCEPT ![x] = e]
    BY <1>3, <2>1
  <2>3. e \in ExchangeType /\ e.session = exchange[x].session /\ e.pc = exchange[x].pc
    BY <1>3, <2>1, ExchangeFields DEF ExchangeType
  <2> HIDE DEF e
  <2>4. exchange[x].pc = "select"
    BY DEF NobodyServes
  <2>5. /\ exchange' \in [Exchange -> ExchangeType] /\ exchange'[x] = e
        /\ \A y \in Exchange \ {x} : exchange'[y] = exchange[y]
    BY <2>1, <2>2, <2>3
  <2> QED
    BY <1>1, <1>3, <2>3, <2>4, <2>5, StepGoesOn
<1> QED
  BY <1>2, <1>3 DEF NobodyServes

LEMMA ExhaustedInv ==
  ASSUME Inv, NEW x \in Exchange, Exhausted(x)
  PROVE  Inv'
<1>1. account' \in [Handle -> AccountType]
  BY DEF Exhausted, Inv, AccountsHold, AccountType
<1>2. UNCHANGED <<order, used>> /\ UNCHANGED steering /\ exchange[x].pc = "attempt"
  BY DEF Exhausted
<1>3. CASE PassesOver(x) /\ UNCHANGED session
  BY <1>1, <1>2, <1>3, StepPassesOver
<1>4. CASE Ends(x)
  BY <1>1, <1>2, <1>4, StepEnds
<1> QED
  BY <1>3, <1>4 DEF Exhausted

LEMMA AttemptFailedInv ==
  ASSUME Inv, NEW x \in Exchange, AttemptFailed(x)
  PROVE  Inv'
<1>1. /\ UNCHANGED <<order, used>> /\ UNCHANGED steering /\ account' \in [Handle -> AccountType]
      /\ exchange[x].pc = "attempt"
  BY Untouched DEF AttemptFailed
<1>2. CASE PassesOver(x) /\ UNCHANGED session
  BY <1>1, <1>2, StepPassesOver
<1>3. CASE Ends(x)
  BY <1>1, <1>3, StepEnds
<1> QED
  BY <1>2, <1>3 DEF AttemptFailed

LEMMA Refused401Inv ==
  ASSUME Inv, NEW x \in Exchange, Refused401(x)
  PROVE  Inv'
<1>1. account' \in [Handle -> AccountType]
  BY DEF Refused401, Inv, AccountsHold, AccountType
<1> QED
  BY <1>1, StepEnds DEF Refused401

LEMMA ProceedInv ==
  ASSUME Inv, NEW x \in Exchange, Proceed(x)
  PROVE  Inv'
<1>1. CASE Relayed(x)
  BY <1>1, StepEnds, Untouched DEF Relayed
<1> QED
  BY <1>1, SelectInv, ChallengeInv, NobodyServesInv, ExhaustedInv, AttemptFailedInv, Refused401Inv
     DEF Proceed

LEMMA LeaveInv ==
  ASSUME Inv, NEW x \in Exchange, Leave(x)
  PROVE  Inv'
BY StepEnds, Untouched DEF Leave

LEMMA BeginInv ==
  ASSUME Inv, NEW x \in Exchange, Begin(x)
  PROVE  Inv'
<1>1. PICK p \in Provider, m \in Model, s \in Session \cup {NoSession}, intent \in Intent :
        \E h \in IF intent = "none" THEN {NoHandle} ELSE PoolOf(p) :
          /\ exchange' = [exchange EXCEPT ![x] =
               [Ended EXCEPT !.pc = "select", !.provider = p, !.model = m, !.session = s,
                             !.pin = IF intent = "pin" THEN h ELSE NoHandle,
                             !.preference = IF intent = "preference" THEN h ELSE NoHandle,
                             !.config = config]]
          /\ session' = IF s = NoSession THEN session
                        ELSE [session EXCEPT ![s].inFlight = @ + 1]
  BY DEF Begin
<1>2. PICK h \in IF intent = "none" THEN {NoHandle} ELSE PoolOf(p) :
          /\ exchange' = [exchange EXCEPT ![x] =
               [Ended EXCEPT !.pc = "select", !.provider = p, !.model = m, !.session = s,
                             !.pin = IF intent = "pin" THEN h ELSE NoHandle,
                             !.preference = IF intent = "preference" THEN h ELSE NoHandle,
                             !.config = config]]
          /\ session' = IF s = NoSession THEN session
                        ELSE [session EXCEPT ![s].inFlight = @ + 1]
  BY <1>1
<1> DEFINE pin == IF intent = "pin" THEN h ELSE NoHandle
           preference == IF intent = "preference" THEN h ELSE NoHandle
           e == [Ended EXCEPT !.pc = "select", !.provider = p, !.model = m, !.session = s,
                              !.pin = pin, !.preference = preference, !.config = config]
<1>3. h \in Handle \cup {NoHandle}
  BY <1>2, PoolOfHandle DEF Inv
<1>4. pin \in Handle \cup {NoHandle} /\ preference \in Handle \cup {NoHandle}
  BY <1>3
<1>5. config \in Config /\ m \in RouteKey \cup {NoModel} /\ Ended \in ExchangeType
  BY EndedType, ParametersAssumption DEF Inv, SteeringHolds
<1>6. exchange' = [exchange EXCEPT ![x] = e]
  BY <1>2
<1> HIDE DEF pin, preference
<1>7. e \in ExchangeType /\ e.pc = "select" /\ e.session = s
  BY <1>4, <1>5 DEF ExchangeType
<1> HIDE DEF e
<1>8. exchange \in [Exchange -> ExchangeType] /\ session \in [Session -> SessionType]
  BY DEF Inv, Types
<1>9. /\ exchange' \in [Exchange -> ExchangeType] /\ exchange'[x] = e
      /\ \A y \in Exchange \ {x} : exchange'[y] = exchange[y]
  BY <1>6, <1>7, <1>8
<1>10. exchange[x].session = NoSession /\ NoSession \notin Session
  BY ParametersAssumption DEF Begin, Inv, CountsHold
<1>11. ASSUME NEW t \in Session
       PROVE  /\ session'[t] \in SessionType /\ session'[t].bound = session[t].bound
              /\ session'[t].inFlight = Cardinality(In(t)')
  <2>1. session[t] \in SessionType /\ session[t].inFlight = Cardinality(In(t))
    BY <1>8 DEF Inv, CountsHold
  <2>2. exchange[x].session # t
    BY <1>10
  <2>3. CASE t = s
    <3>1. exchange'[x].session = t
      BY <1>7, <1>9, <2>3
    <3>2. Cardinality(In(t)') = Cardinality(In(t)) + 1
      BY <1>9, <2>2, <3>1, CountAfter
    <3>3. session'[t] = [session[t] EXCEPT !.inFlight = @ + 1]
      BY <1>2, <1>8, <1>10, <2>3
    <3> QED
      BY <2>1, <3>2, <3>3 DEF SessionType
  <2>4. CASE t # s
    <3>1. exchange'[x].session # t
      BY <1>7, <1>9, <2>4
    <3>2. Cardinality(In(t)') = Cardinality(In(t))
      BY <1>9, <2>2, <3>1, CountAfter
    <3>3. session'[t] = session[t]
      BY <1>2, <1>8, <2>4
    <3> QED
      BY <2>1, <3>2, <3>3
  <2> QED
    BY <2>3, <2>4
<1>12. session' \in [Session -> SessionType]
  <2>1. session' = session \/ (s \in Session /\ session' = [session EXCEPT ![s].inFlight = @ + 1])
    BY <1>2
  <2> QED
    BY <1>8, <1>11, <2>1
<1>13. UNCHANGED <<order, used, account>> /\ UNCHANGED steering
  BY DEF Begin
<1>14. AccountsHold'
  BY <1>13, AccountsKept, Untouched DEF Inv, steering
<1>15. SteeringHolds'
  BY <1>13, SteeringKept DEF Inv, steering
<1>16. Types'
  BY <1>7, <1>9, <1>12 DEF Inv, Types
<1>17. BindingsHold'
  BY <1>11, <1>13, BindingsKept DEF Inv
<1>18. CountsHold'
  BY <1>7, <1>9, <1>11 DEF Inv, CountsHold
<1> QED
  BY <1>14, <1>15, <1>16, <1>17, <1>18 DEF Inv

LEMMA ReapInv ==
  ASSUME Inv, NEW s \in Session, Reap(s)
  PROVE  Inv'
<1>1. /\ session[s].inFlight = 0 /\ session' = [session EXCEPT ![s] = UnknownSession]
      /\ UNCHANGED <<order, used, account, exchange>> /\ UNCHANGED steering
  BY DEF Reap
<1>2. session \in [Session -> SessionType] /\ UnknownSession \in SessionType
  BY DEF Inv, Types, UnknownSession, SessionType
<1>3. AccountsHold' /\ SteeringHolds'
  BY <1>1, AccountsKept, SteeringKept, Untouched DEF Inv, steering
<1>4. Types'
  BY <1>1, <1>2 DEF Inv, Types
<1>5. \A t : In(t)' = In(t)
  BY <1>1 DEF In
<1>6. \A t \in Session : session'[t].inFlight = session[t].inFlight
  BY <1>1, <1>2 DEF UnknownSession
<1>7. CountsHold'
  BY <1>1, <1>5, <1>6 DEF Inv, CountsHold
<1>8. \A t \in Session : session'[t].bound \in {session[t].bound, NoHandle}
  BY <1>1, <1>2 DEF UnknownSession
<1>9. BindingsHold'
  BY <1>1, <1>8 DEF Inv, BindingsHold, Pooled
<1> QED
  BY <1>3, <1>4, <1>7, <1>9 DEF Inv

---------------------------------------------------------------------------
(* Every step preserves the invariant: the operator. *)

LEMMA PushedInv ==
  ASSUME Inv, NEW h \in Handle, NEW name \in Ref, Pushed(h, name)
  PROVE  Inv'
<1> DEFINE p == ProviderOf[h]
<1>1. /\ h \notin used /\ order' = Append(order, h) /\ used' = used \cup {h}
      /\ account' = [account EXCEPT ![h] = [name |-> name, usable |-> TRUE, bar |-> "none"]]
      /\ IF default[p].handle = NoHandle
           THEN default' = [default EXCEPT ![p] = [handle |-> h, chosen |-> FALSE]]
           ELSE UNCHANGED default
      /\ UNCHANGED <<pref, config, session, exchange, request>>
  BY DEF Pushed, Named, MovedDefault
<1>2. /\ order \in Seq(Handle) /\ IsInjective(order) /\ Pooled \subseteq used /\ used \subseteq Handle
      /\ account \in [Handle -> AccountType] /\ default \in [Provider -> DefaultType] /\ DefaultsExist
      /\ p \in Provider /\ NoHandle \notin Handle
  BY ParametersAssumption DEF Inv, AccountsHold
<1>3. h \notin Pooled
  BY <1>1, <1>2
<1>4. order' \in Seq(Handle) /\ IsInjective(order') /\ Pooled' = Pooled \cup {h}
  BY <1>1, <1>2, <1>3, Appended DEF Pooled
<1>5. account' \in [Handle -> AccountType]
  BY <1>1, <1>2 DEF AccountType
<1> HIDE DEF p
<1>6. default' \in [Provider -> DefaultType]
  <2>1. [handle |-> h, chosen |-> FALSE] \in DefaultType
    BY DEF DefaultType
  <2>2. \/ default' = [default EXCEPT ![p] = [handle |-> h, chosen |-> FALSE]]
        \/ UNCHANGED default
    BY <1>1
  <2> QED
    BY <1>2, <2>1, <2>2
<1>7. DefaultsExist'
  <2> SUFFICES ASSUME NEW q \in Provider
               PROVE  IF PoolOf(q)' = {} THEN default'[q].handle = NoHandle
                      ELSE default'[q].handle \in PoolOf(q)'
    BY DEF DefaultsExist
  <2>1. IF PoolOf(q) = {} THEN default[q].handle = NoHandle ELSE default[q].handle \in PoolOf(q)
    BY <1>2 DEF DefaultsExist
  <2>2. CASE q # p
    <3>1. PoolOf(q)' = PoolOf(q)
      BY <1>4, <2>2 DEF PoolOf, p
    <3>2. default'[q] = default[q]
      BY <1>1, <1>2, <2>2
    <3> QED
      BY <2>1, <3>1, <3>2
  <2>3. CASE q = p
    <3>1. PoolOf(q)' = PoolOf(q) \cup {h}
      BY <1>4, <2>3 DEF PoolOf, p
    <3>2. CASE default[p].handle = NoHandle
      <4>1. default'[q].handle = h
        BY <1>1, <1>2, <2>3, <3>2
      <4> QED
        BY <3>1, <4>1
    <3>3. CASE default[p].handle # NoHandle
      BY <1>1, <2>1, <2>3, <3>1, <3>3
    <3> QED
      BY <3>2, <3>3
  <2> QED
    BY <2>2, <2>3
<1>8. AccountsHold'
  BY <1>1, <1>2, <1>4, <1>5, <1>6, <1>7 DEF AccountsHold
<1>9. SteeringHolds'
  BY <1>1, SteeringKept DEF Inv
<1>10. Types' /\ BindingsHold' /\ CountsHold'
  BY <1>1, <1>4, SessionsKept DEF Inv
<1> QED
  BY <1>8, <1>9, <1>10 DEF Inv

LEMMA RemoveAccountInv ==
  ASSUME Inv, NEW h \in Handle, RemoveAccount(h)
  PROVE  Inv'
<1> DEFINE p == ProviderOf[h]
           gone == [name |-> CHOOSE n \in Ref : TRUE, usable |-> TRUE, bar |-> "none"]
<1>1. PICK place \in DOMAIN order :
        /\ order[place] = h /\ order' = RemoveAt(order, place)
        /\ account' = [account EXCEPT ![h] = gone]
        /\ session' = [s \in Session |->
                         [session[s] EXCEPT !.bound = IF @ = h THEN NoHandle ELSE @]]
        /\ pref' = [name \in DOMAIN pref |-> IF pref[name] = h THEN NoHandle ELSE pref[name]]
        /\ CASE default[p].handle # h -> UNCHANGED default
             [] default[p].handle = h /\ PoolOf(p) = {h} -> MovedDefault(p, NoHandle)
             [] OTHER -> \E next \in Handle :
                           FirstOf(p, RemoveAt(order, place), next) /\ MovedDefault(p, next)
        /\ UNCHANGED <<used, config, exchange, request>>
  BY DEF RemoveAccount
<1>2. /\ order \in Seq(Handle) /\ IsInjective(order) /\ Pooled \subseteq used /\ used \subseteq Handle
      /\ account \in [Handle -> AccountType] /\ default \in [Provider -> DefaultType] /\ DefaultsExist
      /\ p \in Provider /\ NoHandle \notin Handle
  BY ParametersAssumption DEF Inv, AccountsHold
<1>3. /\ order' \in Seq(Handle) /\ IsInjective(order') /\ Pooled' = Pooled \ {h}
      /\ h \in Pooled
  <2>1. h \in ToSet(order)
    BY <1>1 DEF ToSet
  <2> QED
    BY <1>1, <1>2, <2>1, RemovedAt DEF Pooled
<1>4. account' \in [Handle -> AccountType]
  <2>1. account[h].name \in Ref
    BY <1>2 DEF AccountType
  <2>2. (CHOOSE n \in Ref : TRUE) \in Ref
    BY <2>1
  <2>3. gone \in AccountType
    BY <2>2 DEF AccountType
  <2> QED
    BY <1>1, <1>2, <2>3
<1> HIDE DEF p, gone
<1>5. \A q \in Provider : PoolOf(q)' = PoolOf(q) \ {h}
  BY <1>3 DEF PoolOf
<1>6. \A q \in Provider \ {p} : PoolOf(q)' = PoolOf(q)
  BY <1>5 DEF PoolOf, p
<1>7. h \in PoolOf(p)
  BY <1>3 DEF PoolOf, p
<1>8. \/ default[p].handle # h /\ UNCHANGED default
      \/ PoolOf(p) = {h} /\ MovedDefault(p, NoHandle)
      \/ \E next \in Handle : next \in PoolOf(p)' /\ MovedDefault(p, next)
  <2>1. ASSUME NEW next \in Handle, FirstOf(p, order', next)
        PROVE  next \in PoolOf(p)'
    BY <2>1 DEF FirstOf, PoolOf, Pooled, ToSet
  <2>2. CASE default[p].handle # h
    BY <1>1, <2>2
  <2>3. CASE default[p].handle = h /\ PoolOf(p) = {h}
    BY <1>1, <2>3
  <2>4. CASE default[p].handle = h /\ PoolOf(p) # {h}
    <3>1. \E next \in Handle : FirstOf(p, order', next) /\ MovedDefault(p, next)
      BY <1>1, <2>4
    <3> QED
      BY <2>1, <3>1
  <2> QED
    BY <2>2, <2>3, <2>4
<1>9. default' \in [Provider -> DefaultType] /\ DefaultsExist'
  <2>1. ASSUME NEW g \in Handle \cup {NoHandle}, MovedDefault(p, g),
               IF PoolOf(p)' = {} THEN g = NoHandle ELSE g \in PoolOf(p)'
        PROVE  default' \in [Provider -> DefaultType] /\ DefaultsExist'
    <3>1. default' = [default EXCEPT ![p] = [handle |-> g, chosen |-> FALSE]]
      BY <2>1 DEF MovedDefault
    <3>2. [handle |-> g, chosen |-> FALSE] \in DefaultType
      BY DEF DefaultType
    <3>3. default' \in [Provider -> DefaultType] /\ default'[p].handle = g
      BY <1>2, <3>1, <3>2
    <3>4. \A q \in Provider \ {p} : default'[q] = default[q]
      BY <1>2, <3>1
    <3>5. ASSUME NEW q \in Provider
          PROVE  IF PoolOf(q)' = {} THEN default'[q].handle = NoHandle
                 ELSE default'[q].handle \in PoolOf(q)'
      <4>1. CASE q = p
        BY <2>1, <3>3, <4>1
      <4>2. CASE q # p
        BY <1>2, <1>6, <3>4, <4>2 DEF DefaultsExist
      <4> QED
        BY <4>1, <4>2
    <3> QED
      BY <3>3, <3>5 DEF DefaultsExist
  <2>2. CASE default[p].handle # h /\ UNCHANGED default
    <3>1. default[p].handle \in PoolOf(p)'
      BY <1>2, <1>5, <1>7, <2>2 DEF DefaultsExist
    <3>2. ASSUME NEW q \in Provider
          PROVE  IF PoolOf(q)' = {} THEN default'[q].handle = NoHandle
                 ELSE default'[q].handle \in PoolOf(q)'
      <4>1. CASE q = p
        BY <2>2, <3>1, <4>1
      <4>2. CASE q # p
        BY <1>2, <1>6, <2>2, <4>2 DEF DefaultsExist
      <4> QED
        BY <4>1, <4>2
    <3> QED
      BY <1>2, <2>2, <3>2 DEF DefaultsExist
  <2>3. CASE PoolOf(p) = {h} /\ MovedDefault(p, NoHandle)
    <3>1. PoolOf(p)' = {}
      BY <1>2, <1>5, <2>3
    <3> QED
      BY <2>1, <2>3, <3>1
  <2>4. CASE \E next \in Handle : next \in PoolOf(p)' /\ MovedDefault(p, next)
    <3>1. PICK next \in Handle : next \in PoolOf(p)' /\ MovedDefault(p, next)
      BY <2>4
    <3> QED
      BY <2>1, <3>1
  <2> QED
    BY <1>8, <2>2, <2>3, <2>4
<1>10. AccountsHold'
  BY <1>1, <1>2, <1>3, <1>4, <1>9 DEF AccountsHold
<1>11. SteeringHolds'
  <2>1. pref \in [RouteKey \X Spelling -> Handle \cup {NoHandle}]
    BY DEF Inv, SteeringHolds
  <2>2. pref' \in [RouteKey \X Spelling -> Handle \cup {NoHandle}]
    BY <1>1, <2>1
  <2> QED
    BY <1>1, <2>2 DEF Inv, SteeringHolds
<1>12. session \in [Session -> SessionType]
  BY DEF Inv, Types
<1>13. ASSUME NEW s \in Session
       PROVE  /\ session'[s] \in SessionType /\ session'[s].inFlight = session[s].inFlight
              /\ session'[s].bound = IF session[s].bound = h THEN NoHandle ELSE session[s].bound
  <2>1. session'[s] = [session[s] EXCEPT !.bound = IF @ = h THEN NoHandle ELSE @]
    BY <1>1
  <2>2. session[s] \in SessionType
    BY <1>12
  <2> QED
    BY <2>1, <2>2 DEF SessionType
<1>14. Types'
  <2>1. session' \in [Session -> SessionType]
    BY <1>1, <1>13
  <2> QED
    BY <1>1, <2>1 DEF Inv, Types
<1>15. BindingsHold'
  BY <1>3, <1>13 DEF Inv, BindingsHold
<1>16. CountsHold'
  <2>1. \A s : In(s)' = In(s)
    BY <1>1 DEF In
  <2> QED
    BY <1>1, <1>13, <2>1 DEF Inv, CountsHold
<1> QED
  BY <1>10, <1>11, <1>14, <1>15, <1>16 DEF Inv

LEMMA AccountOperationInv ==
  ASSUME Inv, AccountOperation
  PROVE  Inv'
<1>1. PICK h \in Handle : \/ \E name \in Ref : Add(h, name) \/ LogIn(h, name) \/ Rename(h, name)
                          \/ SetUsable(h) \/ RemoveAccount(h) \/ QuotaMoves(h)
  BY DEF AccountOperation
<1>2. account \in [Handle -> AccountType]
  BY DEF Inv, AccountsHold
<1>3. CASE \E name \in Ref : Add(h, name) \/ LogIn(h, name)
  BY <1>3, PushedInv DEF Add, LogIn
<1>4. ASSUME NEW name \in Ref, Rename(h, name)
      PROVE  Inv'
  <2>1. account' = [account EXCEPT ![h].name = name]
    BY <1>4 DEF Rename
  <2>2. account' \in [Handle -> AccountType]
    BY <1>2, <2>1 DEF AccountType
  <2> QED
    BY <1>4, <2>2, OnlyAccounts DEF Rename
<1>5. CASE SetUsable(h)
  <2>1. account' \in [Handle -> AccountType]
    BY <1>2, <1>5 DEF SetUsable, AccountType
  <2> QED
    BY <1>5, <2>1, OnlyAccounts DEF SetUsable
<1>6. CASE QuotaMoves(h)
  <2>1. account' \in [Handle -> AccountType]
    BY <1>2, <1>6, ParametersAssumption DEF QuotaMoves, AccountType
  <2> QED
    BY <1>6, <2>1, OnlyAccounts DEF QuotaMoves
<1> QED
  BY <1>1, <1>3, <1>4, <1>5, <1>6, RemoveAccountInv

\* Steering and reloads move defaults to accounts of the pool, preferences, and
\* the configuration.
LEMMA OnlySteering ==
  ASSUME Inv, UNCHANGED <<order, used, account, default, session, exchange>>, SteeringHolds'
  PROVE  Inv'
<1>1. AccountsHold'
  BY AccountsKept, Untouched DEF Inv
<1>2. Types' /\ BindingsHold' /\ CountsHold'
  BY SessionsKept DEF Inv, Pooled
<1> QED
  BY <1>1, <1>2 DEF Inv

LEMMA NoRequestType ==
  /\ NoRequest \in RequestType /\ NoRequest.pc = "idle"
  /\ NoRoute \in RouteType
<1>1. (CHOOSE n \in Spelling : TRUE) \in Spelling /\ (CHOOSE k \in RouteKey : TRUE) \in RouteKey
  BY ParametersAssumption
<1>2. NoRoute \in RouteType
  BY <1>1 DEF NoRoute, RouteType
<1> QED
  BY <1>1, <1>2 DEF NoRequest, RequestType

LEMMA RouteFields ==
  ASSUME Inv, NEW k \in RouteKey
  PROVE  config.routes[k] \in RouteType /\ config.routes[k].spelling \in Spelling
BY ParametersAssumption DEF Inv, SteeringHolds, ConfigType, RouteType

LEMMA SwitchInv ==
  ASSUME Inv, NEW q \in Request, Switch(q)
  PROVE  Inv'
<1> DEFINE h == request[q].handle
           p == ProviderOf[h]
<1>1. /\ default' = IF h \in Pooled THEN [default EXCEPT ![p] = [handle |-> h, chosen |-> TRUE]]
                    ELSE default
      /\ request' = [request EXCEPT ![q] = NoRequest]
      /\ UNCHANGED <<order, used, account, pref, config, session, exchange>>
  BY DEF Switch
<1> HIDE DEF h, p
<1>2. default \in [Provider -> DefaultType] /\ DefaultsExist
  BY DEF Inv, AccountsHold
<1>3. \A r \in Provider : PoolOf(r)' = PoolOf(r)
  BY <1>1 DEF PoolOf, Pooled
<1>4. ASSUME h \in Pooled
      PROVE  AccountsHold'
  <2>1. h \in PoolOf(p) /\ h \in Handle /\ p \in Provider
    BY <1>4, ParametersAssumption DEF Inv, AccountsHold, PoolOf, p
  <2>2. [handle |-> h, chosen |-> TRUE] \in DefaultType
    BY <2>1 DEF DefaultType
  <2>3. default' \in [Provider -> DefaultType] /\ default'[p].handle = h
    BY <1>1, <1>2, <1>4, <2>1, <2>2
  <2>4. \A r \in Provider \ {p} : default'[r] = default[r]
    BY <1>1, <1>2, <1>4
  <2>5. ASSUME NEW r \in Provider
        PROVE  IF PoolOf(r)' = {} THEN default'[r].handle = NoHandle
               ELSE default'[r].handle \in PoolOf(r)'
    <3>1. CASE r = p
      BY <1>3, <2>1, <2>3, <3>1
    <3>2. CASE r # p
      BY <1>2, <1>3, <2>4, <3>2 DEF DefaultsExist
    <3> QED
      BY <3>1, <3>2
  <2>6. DefaultsExist'
    BY <2>5 DEF DefaultsExist
  <2> QED
    BY <1>1, <2>3, <2>6 DEF Inv, AccountsHold, Pooled
<1>5. ASSUME h \notin Pooled
      PROVE  AccountsHold'
  <2>1. UNCHANGED default
    BY <1>1, <1>5
  <2> QED
    BY <1>1, <2>1, AccountsKept, Untouched DEF Inv
<1>6. SteeringHolds'
  BY <1>1, NoRequestType DEF Inv, SteeringHolds
<1>7. Types' /\ BindingsHold' /\ CountsHold'
  BY <1>1, SessionsKept DEF Inv, Pooled
<1> QED
  BY <1>4, <1>5, <1>6, <1>7 DEF Inv

LEMMA SteerInv ==
  ASSUME Inv, Steer
  PROVE  Inv'
<1>1. /\ request \in [Request -> RequestType] /\ config \in Config
      /\ pref \in [RouteKey \X Spelling -> Handle \cup {NoHandle}]
  BY DEF Inv, SteeringHolds
<1>2. ASSUME NEW q \in Request, NEW h \in Handle, RequestSwitch(q, h)
      PROVE  Inv'
  <2>1. [NoRequest EXCEPT !.pc = "switch", !.handle = h] \in RequestType
    BY NoRequestType DEF RequestType
  <2>2. request' \in [Request -> RequestType]
    BY <1>1, <1>2, <2>1 DEF RequestSwitch
  <2> QED
    BY <1>1, <1>2, <2>2, OnlySteering DEF RequestSwitch, SteeringHolds
<1>3. ASSUME NEW q \in Request, NEW k \in RouteKey, RequestPreference(q, k)
      PROVE  Inv'
  <2>1. [NoRequest EXCEPT !.pc = "prefer", !.key = k, !.route = config.routes[k]] \in RequestType
    BY NoRequestType, RouteFields DEF RequestType
  <2>2. request' \in [Request -> RequestType]
    BY <1>1, <1>3, <2>1 DEF RequestPreference
  <2> QED
    BY <1>1, <1>3, <2>2, OnlySteering DEF RequestPreference, SteeringHolds
<1>4. ASSUME NEW q \in Request, NEW h \in Handle, ResolvePreference(q, h)
      PROVE  Inv'
  <2>1. request' \in [Request -> RequestType]
    BY <1>1, <1>4 DEF ResolvePreference, RequestType
  <2> QED
    BY <1>1, <1>4, <2>1, OnlySteering DEF ResolvePreference, SteeringHolds
<1>5. ASSUME NEW q \in Request, SetPreference(q)
      PROVE  Inv'
  <2>1. /\ <<request[q].key, request[q].route.spelling>> \in RouteKey \X Spelling
        /\ request[q].handle \in Handle \cup {NoHandle}
    BY <1>1 DEF RequestType, RouteType
  <2>2. pref' \in [RouteKey \X Spelling -> Handle \cup {NoHandle}]
    <3>1. \/ pref' = [pref EXCEPT ![<<request[q].key, request[q].route.spelling>>] = request[q].handle]
          \/ pref' = pref
      BY <1>5 DEF SetPreference
    <3> QED
      BY <1>1, <2>1, <3>1
  <2>3. request' \in [Request -> RequestType]
    BY <1>1, <1>5, NoRequestType DEF SetPreference
  <2>4. UNCHANGED <<order, used, account, default, config, session, exchange>>
    BY <1>5 DEF SetPreference
  <2> QED
    BY <1>1, <2>2, <2>3, <2>4, OnlySteering DEF SteeringHolds
<1>6. ASSUME NEW k \in RouteKey, ClearPreference(k)
      PROVE  Inv'
  <2>1. <<k, config.routes[k].spelling>> \in RouteKey \X Spelling
    BY RouteFields
  <2>2. pref' \in [RouteKey \X Spelling -> Handle \cup {NoHandle}]
    BY <1>1, <1>6, <2>1 DEF ClearPreference
  <2> QED
    BY <1>1, <1>6, <2>2, OnlySteering DEF ClearPreference, SteeringHolds
<1>7. ASSUME NEW cfg \in Config, Reload(cfg)
      PROVE  Inv'
  <2>1. pref' \in [RouteKey \X Spelling -> Handle \cup {NoHandle}]
    <3>1. pref' = [name \in RouteKey \X Spelling |->
                     IF cfg.routes[name[1]].configured THEN pref[name] ELSE NoHandle]
      BY <1>1, <1>7 DEF Reload
    <3> QED
      BY <1>1, <3>1
  <2> QED
    BY <1>1, <1>7, <2>1, OnlySteering DEF Reload, SteeringHolds
<1> QED
  BY <1>2, <1>3, <1>4, <1>5, <1>6, <1>7, SwitchInv DEF Steer

---------------------------------------------------------------------------

LEMMA StutterInv == Inv /\ UNCHANGED vars => Inv'
<1> SUFFICES ASSUME Inv, UNCHANGED vars
             PROVE  Inv'
  OBVIOUS
<1>1. account' \in [Handle -> AccountType]
  BY Untouched DEF vars
<1> QED
  BY <1>1, OnlyAccounts DEF vars, steering

LEMMA NextInv == Inv /\ [Next]_vars => Inv'
BY AccountOperationInv, SteerInv, BeginInv, ProceedInv, LeaveInv, ReapInv, StutterInv DEF Next

LEMMA InitInv == Init => Inv
<1> SUFFICES ASSUME Init
             PROVE  Inv
  OBVIOUS
<1>1. PICK hs \in SUBSET Handle : order = SetToSeq(hs)
  BY DEF Init
<1>2. order \in Seq(hs) /\ IsInjective(order) /\ Pooled = hs
  <2>1. IsFiniteSet(hs)
    BY ParametersAssumption, FS_Subset
  <2> QED
    BY <1>1, <2>1, OrderOfSet DEF Pooled
<1>3. order \in Seq(Handle)
  BY <1>2, SeqMonotonic
<1>4. account \in [Handle -> AccountType]
  <2>1. account \in [Handle -> {[name |-> n, usable |-> TRUE, bar |-> "none"] : n \in Ref}]
    BY DEF Init
  <2>2. {[name |-> n, usable |-> TRUE, bar |-> "none"] : n \in Ref} \subseteq AccountType
    <3>1. \A n \in Ref : [name |-> n, usable |-> TRUE, bar |-> "none"] \in AccountType
      BY DEF AccountType
    <3> QED
      BY <3>1
  <2> QED
    BY <2>1, <2>2
<1>5. ASSUME NEW p \in Provider
      PROVE  /\ default[p] \in DefaultType
             /\ IF PoolOf(p) = {} THEN default[p].handle = NoHandle
                ELSE default[p].handle \in PoolOf(p)
  <2>1. default[p] \in InitialDefault(p)
    BY DEF Init
  <2>2. CASE PoolOf(p) = {}
    <3>1. default[p] = [handle |-> NoHandle, chosen |-> FALSE]
      BY <2>1, <2>2 DEF InitialDefault, NoDefault
    <3> QED
      BY <2>2, <3>1 DEF DefaultType
  <2>3. CASE PoolOf(p) # {}
    <3>1. PICK h \in PoolOf(p) : default[p] = [handle |-> h, chosen |-> FALSE]
      BY <2>1, <2>3 DEF InitialDefault, Best
    <3>2. h \in Handle
      BY <1>2 DEF PoolOf
    <3> QED
      BY <2>3, <3>1, <3>2 DEF DefaultType
  <2> QED
    BY <2>2, <2>3
<1>6. AccountsHold
  <2>1. default \in [Provider -> DefaultType]
    <3>1. \E R : default \in [Provider -> R]
      BY DEF Init
    <3> QED
      BY <1>5, <3>1
  <2>2. DefaultsExist
    BY <1>5 DEF DefaultsExist
  <2> QED
    BY <1>2, <1>3, <1>4, <2>1, <2>2 DEF AccountsHold, Init
<1>7. SteeringHolds
  BY NoRequestType DEF Init, SteeringHolds
<1>8. Types
  <2>1. Ended \in ExchangeType /\ Ended.pc = "idle"
    BY <1>7, EndedType DEF SteeringHolds
  <2>2. UnknownSession \in SessionType
    BY DEF SessionType, UnknownSession
  <2> QED
    BY <2>1, <2>2 DEF Init, Types
<1>9. BindingsHold
  BY DEF Init, BindingsHold, UnknownSession
<1>10. CountsHold
  <2>1. \A x \in Exchange : exchange[x].session = NoSession
    <3>1. Ended.session = NoSession
      BY <1>7, EndedType DEF SteeringHolds
    <3> QED
      BY <3>1 DEF Init
  <2>2. ASSUME NEW s \in Session
        PROVE  session[s].inFlight = Cardinality(In(s))
    <3>1. In(s) = {}
      BY <2>1, ParametersAssumption DEF In
    <3> QED
      BY <3>1, FS_EmptySet DEF Init, UnknownSession
  <2> QED
    BY <2>1, <2>2 DEF CountsHold
<1> QED
  BY <1>6, <1>7, <1>8, <1>9, <1>10 DEF Inv

\* The pool, the defaults and bindings that point into it, and the sessions'
\* counts hold together in every state: the invariant of the proofs below.
THEOREM PoolConsistent == Spec => []Inv
<1>1. Init => Inv
  BY InitInv
<1>2. Inv /\ [Next]_vars => Inv'
  BY NextInv
<1> QED
  BY <1>1, <1>2, PTL DEF Spec

\* Every variable has its type, for every set of accounts, sessions and exchanges.
THEOREM TypeCorrect == Spec => []TypeOK
<1>1. Inv => TypeOK
  BY DEF Inv, AccountsHold, SteeringHolds, Types, TypeOK
<1> QED
  BY <1>1, PoolConsistent, PTL

\* A provider has a default exactly when it has an account, and one of its own,
\* whatever operator requests, selections, logins and removals interleave.
THEOREM DefaultsAlwaysExist == Spec => []DefaultsExist
<1>1. Inv => DefaultsExist
  BY DEF Inv, AccountsHold
<1> QED
  BY <1>1, PoolConsistent, PTL

\* No session is bound to an account that left the pool, and each counts its
\* exchanges in flight exactly, however many exchanges share it.
THEOREM SessionsAlwaysExact == Spec => []SessionsExact
<1>1. Inv => SessionsExact
  BY DEF Inv, BindingsHold, CountsHold, In, SessionsExact
<1> QED
  BY <1>1, PoolConsistent, PTL

---------------------------------------------------------------------------
(* Action properties. *)

\* No exchange attempts an account it has passed over, whichever rule of the
\* selection chose it, and revalidations included.
THEOREM AttemptsAreNew == Spec => NeverTwice
<1>1. Inv /\ [Next]_vars => NeverTwiceStep
  <2> SUFFICES ASSUME Inv, [Next]_vars, NEW x \in Exchange,
                      exchange[x].pc = "select", exchange'[x].pc = "attempt"
               PROVE  exchange'[x].serving \notin exchange[x].exclusion
    BY DEF NeverTwiceStep
  <2>1. exchange \in [Exchange -> ExchangeType] /\ config \in Config
    BY DEF Inv, Types, SteeringHolds
  <2>2. PICK y \in Exchange : Begin(y) \/ Proceed(y) \/ Leave(y)
    <3>1. exchange' # exchange
      OBVIOUS
    <3>2. ~AccountOperation /\ ~Steer /\ ~(\E s \in Session : Reap(s)) /\ ~(UNCHANGED vars)
      <4>1. ASSUME AccountOperation PROVE FALSE
        BY <3>1, <4>1 DEF AccountOperation, Add, LogIn, Pushed, Rename, SetUsable, RemoveAccount,
                          QuotaMoves
      <4>2. ASSUME Steer PROVE FALSE
        BY <3>1, <4>2 DEF Steer, Switch, SetPreference, RequestSwitch, ResolvePreference,
                          RequestPreference, ClearPreference, Reload
      <4>3. ASSUME NEW s \in Session, Reap(s) PROVE FALSE
        BY <3>1, <4>3 DEF Reap
      <4>4. ASSUME UNCHANGED vars PROVE FALSE
        BY <3>1, <4>4 DEF vars
      <4> QED
        BY <4>1, <4>2, <4>3, <4>4
    <3> QED
      BY <3>2 DEF Next
  <2>3. Ended.pc = "idle"
    BY <2>1, EndedType
  <2>4. ~Ends(y)
    BY <2>1, <2>3 DEF Ends
  <2>5. ASSUME PassesOver(y) PROVE FALSE
    BY <2>1, <2>5 DEF PassesOver, ExchangeType
  <2>6. ASSUME NEW h, Attempts(y, h)
        PROVE  x = y /\ exchange'[x].serving = h
    <3>1. x = y
      BY <2>1, <2>6 DEF Attempts
    <3>2. exchange' = [exchange EXCEPT ![x] = [exchange[x] EXCEPT !.pc = "attempt", !.serving = h,
                                                                  !.waits = 0]]
      BY <2>1, <2>6, <3>1 DEF Attempts
    <3> QED
      BY <2>1, <3>1, <3>2 DEF ExchangeType
  <2>7. CASE Select(y)
    <3>1. PICK h \in Answer(exchange[y]).from : Attempts(y, h)
      BY <2>7 DEF Select
    <3>2. h \notin exchange[y].exclusion
      BY <2>1, <2>7, AnswerEligible DEF Select
    <3> QED
      BY <2>6, <3>1, <3>2
  <2>8. CASE Challenge(y)
    <3>1. PICK h \in Challengeable(exchange[y]) : Attempts(y, h)
      BY <2>8 DEF Challenge
    <3>2. h \notin exchange[y].exclusion
      BY DEF Challengeable, Best, Usable
    <3> QED
      BY <2>6, <3>1, <3>2
  <2>9. CASE Begin(y)
    BY <2>1, <2>9 DEF Begin
  <2>10. ~(exchange' = [exchange EXCEPT ![y].waits = @ + 1])
    BY <2>1 DEF ExchangeType
  <2> QED
    BY <2>2, <2>4, <2>5, <2>7, <2>8, <2>9, <2>10
       DEF Proceed, NobodyServes, Relayed, Exhausted, AttemptFailed, Refused401, Leave
<1>2. Inv /\ [Next]_vars => [NeverTwiceStep]_vars
  BY <1>1
<1> QED
  BY <1>2, PoolConsistent, PTL DEF Spec, NeverTwice

\* Only an exchange of its own whose configuration fails over moves a session
\* from one account to another.
THEOREM SessionsMoveByFailover == Spec => SessionMovesByFailover
<1>1. Inv /\ [Next]_vars => SessionMovesStep
  <2> SUFFICES ASSUME Inv, [Next]_vars, NEW s \in Session,
                      session[s].bound # NoHandle, session'[s].bound # NoHandle,
                      session'[s].bound # session[s].bound
               PROVE  \E x \in Exchange : /\ exchange[x].session = s /\ exchange[x].config.failover
                                          /\ exchange[x].pc = "select" /\ exchange'[x].pc = "attempt"
    BY DEF SessionMovesStep
  <2>1. exchange \in [Exchange -> ExchangeType] /\ session \in [Session -> SessionType]
    BY DEF Inv, Types
  <2>2. session' # session
    OBVIOUS
  <2>3. ~(UNCHANGED vars)
    BY <2>2 DEF vars
  <2>4. ASSUME AccountOperation PROVE FALSE
    <3>1. PICK h \in Handle : RemoveAccount(h)
      BY <2>2, <2>4 DEF AccountOperation, Add, LogIn, Pushed, Rename, SetUsable, QuotaMoves
    <3>2. session'[s] = [session[s] EXCEPT !.bound = IF @ = h THEN NoHandle ELSE @]
      BY <3>1 DEF RemoveAccount
    <3> QED
      BY <2>1, <3>2 DEF SessionType
  <2>5. ASSUME Steer PROVE FALSE
    BY <2>2, <2>5 DEF Steer, Switch, SetPreference, RequestSwitch, ResolvePreference,
                      RequestPreference, ClearPreference, Reload
  <2>6. ASSUME NEW t \in Session, Reap(t) PROVE FALSE
    BY <2>1, <2>6 DEF Reap, UnknownSession
  <2>7. ASSUME NEW x \in Exchange, Begin(x) PROVE FALSE
    <3>1. PICK t \in Session \cup {NoSession} :
            session' = IF t = NoSession THEN session ELSE [session EXCEPT ![t].inFlight = @ + 1]
      BY <2>7 DEF Begin
    <3>2. session'[s] = session[s] \/ session'[s] = [session[s] EXCEPT !.inFlight = @ + 1]
      BY <2>1, <3>1
    <3> QED
      BY <2>1, <3>2 DEF SessionType
  <2>8. ASSUME NEW x \in Exchange, Ends(x) PROVE FALSE
    BY <2>8, EndsKeeps
  <2>9. PICK x \in Exchange : Select(x)
    <3>1. \E x \in Exchange : Proceed(x) \/ Leave(x)
      BY <2>3, <2>4, <2>5, <2>6, <2>7 DEF Next
    <3> QED
      BY <2>2, <2>8, <3>1 DEF Proceed, Challenge, NobodyServes, Relayed, Exhausted, AttemptFailed,
                              Refused401, Leave
  <2>10. PICK h \in Answer(exchange[x]).from : Attempts(x, h) /\ session' = Bound(x, h)
    BY <2>9 DEF Select
  <2>11. h \in Handle
    <3>1. h \in PoolOf(exchange[x].provider)
      BY <2>1, <2>9, AnswerEligible DEF Select
    <3> QED
      BY <3>1, PoolOfHandle DEF Inv
  <2>12. exchange'[x].pc = "attempt" /\ exchange[x].pc = "select"
    <3>1. exchange'[x].pc = "attempt"
      BY <2>1, <2>10 DEF Attempts, ExchangeType
    <3> QED
      BY <2>9, <3>1 DEF Select
  <2>13. Binds(exchange[x]) /\ exchange[x].session = s
    BY <2>1, <2>2, <2>10 DEF Bound
  <2>14. Binding(exchange[x]) # NoHandle
    BY <2>13 DEF Binding, Binds
  <2>15. exchange[x].config.failover
    BY <2>13, <2>14 DEF Binds, Moves
  <2> QED
    BY <2>12, <2>13, <2>15
<1>2. Inv /\ [Next]_vars => [SessionMovesStep]_vars
  BY <1>1
<1> QED
  BY <1>2, PoolConsistent, PTL DEF Spec, SessionMovesByFailover

\* What breaks a reference: the accounts of the pool and their names.
LEMMA SameConflicts ==
  ASSUME NEW cfg, NEW pool, pool \subseteq Handle, NEW acct, NEW acct2,
         \A h \in Handle : acct2[h].name = acct[h].name
  PROVE  Conflicts(cfg, pool, acct2) = Conflicts(cfg, pool, acct)
<1>1. \A p, ref : Matches(pool, acct2, p, ref) = Matches(pool, acct, p, ref)
  BY DEF Matches, References
<1>2. \A ref : Resolves(pool, acct2, ref) <=> Resolves(pool, acct, ref)
  BY <1>1 DEF Resolves
<1> QED
  BY <1>2 DEF Conflicts

\* Account operations and reloads leave no reference broken that was not; only a
\* login adds a conflict, for every pool and every configuration.
THEOREM ReferencesBreakByLogin == Spec => ReferencesBreakOnlyByLogin
<1>1. Inv /\ [Next]_vars => ReferencesStep
  <2> SUFFICES ASSUME Inv, [Next]_vars, ~(\E h \in Handle, name \in Ref : LogIn(h, name))
               PROVE  Conflicts(config', ToSet(order'), account') \subseteq Conflicts(config, Pooled, account)
    BY DEF ReferencesStep
  <2>1. account \in [Handle -> AccountType] /\ Pooled \subseteq Handle
    BY DEF Inv, AccountsHold
  <2>2. ASSUME UNCHANGED <<order, config>>, \A h \in Handle : account'[h].name = account[h].name
        PROVE  Conflicts(config', ToSet(order'), account') \subseteq Conflicts(config, Pooled, account)
    <3>1. Conflicts(config, Pooled, account') = Conflicts(config, Pooled, account)
      BY <2>1, <2>2, SameConflicts
    <3> QED
      BY <2>2, <3>1 DEF Pooled
  <2>3. CASE UNCHANGED <<order, config, account>>
    BY <2>2, <2>3
  <2>4. ASSUME AccountOperation
        PROVE  Conflicts(config', ToSet(order'), account') \subseteq Conflicts(config, Pooled, account)
    <3>1. PICK h \in Handle : \/ \E name \in Ref : Add(h, name) \/ LogIn(h, name) \/ Rename(h, name)
                              \/ SetUsable(h) \/ RemoveAccount(h) \/ QuotaMoves(h)
      BY <2>4 DEF AccountOperation
    <3>2. ASSUME NEW name \in Ref, Add(h, name)
          PROVE  Conflicts(config', ToSet(order'), account') \subseteq Conflicts(config, Pooled, account)
      <4>1. Guarded(Pooled \cup {h}, account') /\ config' = config
        BY <3>2 DEF Add, Pushed
      <4>2. ToSet(order') = Pooled \cup {h}
        <5>1. /\ order' = Append(order, h) /\ h \notin ToSet(order)
              /\ order \in Seq(Handle) /\ IsInjective(order)
          BY <3>2 DEF Add, Pushed, Inv, AccountsHold, Pooled
        <5> QED
          BY <5>1, Appended DEF Pooled
      <4> QED
        BY <4>1, <4>2 DEF Guarded
    <3>3. ASSUME NEW name \in Ref, Rename(h, name)
          PROVE  Conflicts(config', ToSet(order'), account') \subseteq Conflicts(config, Pooled, account)
      BY <3>3 DEF Rename, Guarded, Pooled, steering
    <3>4. CASE RemoveAccount(h)
      <4>1. PICK place \in DOMAIN order :
              /\ order' = RemoveAt(order, place) /\ Guarded(ToSet(RemoveAt(order, place)), account)
              /\ account' = [account EXCEPT ![h] = [name |-> CHOOSE n \in Ref : TRUE, usable |-> TRUE,
                                                    bar |-> "none"]]
              /\ config' = config /\ order[place] = h
        BY <3>4 DEF RemoveAccount
      <4>2. ToSet(order') = Pooled \ {h}
        BY <4>1, RemovedAt DEF Inv, AccountsHold, Pooled
      <4>3. \A g \in ToSet(order') : account'[g] = account[g]
        BY <2>1, <4>1, <4>2
      <4>4. Conflicts(config, ToSet(order'), account') = Conflicts(config, ToSet(order'), account)
        <5>1. \A p, ref : Matches(ToSet(order'), account', p, ref) = Matches(ToSet(order'), account, p, ref)
          BY <4>3 DEF Matches, References
        <5>2. \A ref : Resolves(ToSet(order'), account', ref) <=> Resolves(ToSet(order'), account, ref)
          BY <5>1 DEF Resolves
        <5> QED
          BY <5>2 DEF Conflicts
      <4> QED
        BY <4>1, <4>4 DEF Guarded
    <3>5. CASE SetUsable(h)
      <4>1. account' = [account EXCEPT ![h].usable = ~@] /\ UNCHANGED <<order, config>>
        BY <3>5 DEF SetUsable, steering
      <4>2. \A g \in Handle : account'[g].name = account[g].name
        BY <2>1, <4>1 DEF AccountType
      <4> QED
        BY <2>2, <4>1, <4>2
    <3>6. CASE QuotaMoves(h)
      <4>1. \E bar : account' = [account EXCEPT ![h].bar = bar]
        BY <3>6 DEF QuotaMoves
      <4>2. \A g \in Handle : account'[g].name = account[g].name
        BY <2>1, <4>1 DEF AccountType
      <4>3. UNCHANGED <<order, config>>
        BY <3>6 DEF QuotaMoves, steering
      <4> QED
        BY <2>2, <4>2, <4>3
    <3> QED
      BY <3>1, <3>2, <3>3, <3>4, <3>5, <3>6
  <2>5. ASSUME Steer
        PROVE  Conflicts(config', ToSet(order'), account') \subseteq Conflicts(config, Pooled, account)
    <3>1. CASE \E cfg \in Config : Reload(cfg)
      <4>1. Accepted(config', Pooled, account) /\ UNCHANGED <<order, account>>
        BY <3>1 DEF Reload
      <4> QED
        BY <4>1 DEF Accepted, Pooled
    <3> QED
      BY <2>3, <2>5, <3>1 DEF Steer, Switch, SetPreference, RequestSwitch, ResolvePreference,
                              RequestPreference, ClearPreference
  <2>6. ASSUME NEW x \in Exchange, Proceed(x)
        PROVE  Conflicts(config', ToSet(order'), account') \subseteq Conflicts(config, Pooled, account)
    <3>1. CASE Exhausted(x) \/ Refused401(x)
      <4>1. UNCHANGED <<order, config>>
        BY <3>1 DEF Exhausted, Refused401, steering
      <4>2. \/ account' = account
            \/ \E h : account' = [account EXCEPT ![h].bar = "held"]
            \/ \E h : account' = [account EXCEPT ![h].usable = FALSE]
        BY <3>1 DEF Exhausted, Refused401
      <4>3. \A g \in Handle : account'[g].name = account[g].name
        BY <2>1, <4>2 DEF AccountType
      <4> QED
        BY <2>2, <4>1, <4>3
    <3>2. CASE Select(x) \/ Challenge(x) \/ NobodyServes(x) \/ Relayed(x) \/ AttemptFailed(x)
      BY <2>3, <3>2 DEF Select, Challenge, NobodyServes, Relayed, AttemptFailed, steering
    <3> QED
      BY <2>6, <3>1, <3>2 DEF Proceed
  <2>7. CASE \E x \in Exchange : Begin(x) \/ Leave(x)
    BY <2>3, <2>7 DEF Begin, Leave, steering
  <2>8. CASE \E s \in Session : Reap(s)
    BY <2>3, <2>8 DEF Reap, steering
  <2>9. CASE UNCHANGED vars
    BY <2>3, <2>9 DEF vars
  <2> QED
    BY <2>4, <2>5, <2>6, <2>7, <2>8, <2>9 DEF Next
<1>2. Inv /\ [Next]_vars => [ReferencesStep]_vars
  BY <1>1
<1> QED
  BY <1>2, PoolConsistent, PTL DEF Spec, ReferencesBreakOnlyByLogin
=============================================================================
