--------------------------- MODULE RefreshProofs ---------------------------
(* Theorems of Refresh, for every set of accounts, callers and runners and  *)
(* every floor, margin, lifetime and bound.                                 *)
EXTENDS Refresh, TLAPS

---------------------------------------------------------------------------
(* The inductive invariant. *)

\* An operation is in the registry while a runner works on its account, and no
\* account has two.
SingleFlight ==
  /\ \A r, q \in Runner : \A h \in Account : Active(r, h) /\ Active(q, h) => r = q
  /\ \A r \in Runner : \A h \in Account : Active(r, h) => registry[h].is # "free"

\* An outcome is decided before anybody reads it.
Decided ==
  /\ \A h \in Account : registry[h].is = "published" => registry[h].outcome.is # "undecided"
  /\ \A r \in Runner : runner[r].pc = "finish" => runner[r].outcome.is # "undecided"

Carries(r) == runner[r].pc \in {"call", "publish", "error", "floor"}

\* What a runner carries was minted, and if the pool still holds its refresh
\* token, it still holds its access token.
CarriesPooled ==
  \A r \in Runner : Carries(r) =>
    LET f == runner[r].family
        h == runner[r].acct
    IN  /\ f.refresh <= upstream[h].minted
        /\ pool[h].family.refresh = f.refresh /\ f.refresh # None => pool[h].family.token = f.token

\* A runner that calls or publishes has a refresh token; what it publishes is honoured.
Published(r) == IF runner[r].rotates THEN runner[r].fresh ELSE runner[r].family.refresh
CarriesHonoured ==
  \A r \in Runner :
    /\ runner[r].pc \in {"call", "publish", "floor"} => runner[r].family.refresh # None
    /\ runner[r].pc = "publish" => Published(r) \in upstream[runner[r].acct].honours

\* What the pool holds and what the endpoint honours was minted.
Minted ==
  \A h \in Account : /\ pool[h].family.refresh <= upstream[h].minted
                     /\ \A x \in upstream[h].honours : x <= upstream[h].minted

\* The pool's refresh token is honoured, or the runner that spent it is about to
\* publish its successor.
Honoured ==
  \A h \in Account :
    pool[h].present /\ ~upstream[h].lost /\ pool[h].family.refresh # None
      => \/ pool[h].family.refresh \in upstream[h].honours
         \/ \E r \in Runner : /\ Active(r, h) /\ runner[r].pc = "publish"
                              /\ runner[r].family.refresh = pool[h].family.refresh

Inv == TypeOK /\ SingleFlight /\ Decided /\ CarriesPooled /\ CarriesHonoured /\ Minted /\ Honoured

---------------------------------------------------------------------------
(* Types of what the actions build. *)

LEMMA OutcomeTypes ==
  /\ Ready \in OutcomeType /\ Errored \in OutcomeType /\ Undecided \in OutcomeType
  /\ \A u \in Nat : WaitUntil(u) \in OutcomeType /\ WaitUntil(u).is # "undecided"
  /\ Ready.is # "undecided" /\ Errored.is # "undecided"
BY DEF Ready, Errored, Undecided, WaitUntil, OutcomeType

LEMMA Parameters ==
  /\ Version \subseteq Nat /\ Time \subseteq Nat /\ 0 \in Version /\ 0 \in Time /\ None \notin Nat
  /\ TransientFloor \in Nat /\ SuccessFloor \in Nat /\ Lifetime \in Nat /\ Margin \in Nat
  /\ 1 \in 1 .. Calls
BY ParametersAssumption DEF Version, Time, None

LEMMA PoolFields ==
  ASSUME TypeOK, NEW h \in Account
  PROVE  /\ pool[h] \in PoolType /\ pool[h].present \in BOOLEAN /\ pool[h].family \in Family
         /\ pool[h].errored \in {"no", "rejected", "norefresh", "refused"}
         /\ pool[h].family.refresh \in Version \cup {None} /\ pool[h].family.token \in Version
         /\ pool[h].family.notBefore \in Nat \cup {None} /\ pool[h].family.expires \in Nat
BY DEF TypeOK, PoolType, Family

LEMMA UpstreamFields ==
  ASSUME TypeOK, NEW h \in Account
  PROVE  /\ upstream[h] \in UpstreamType /\ upstream[h].minted \in Version
         /\ upstream[h].honours \in SUBSET Version /\ upstream[h].lost \in BOOLEAN
BY DEF TypeOK, UpstreamType

LEMMA RunnerFields ==
  ASSUME TypeOK, NEW r \in Runner
  PROVE  /\ runner[r] \in RunnerType /\ runner[r].acct \in Account /\ runner[r].family \in Family
         /\ runner[r].outcome \in OutcomeType /\ runner[r].fresh \in Version
         /\ runner[r].call \in 1 .. Calls /\ runner[r].at \in Nat /\ runner[r].rotates \in BOOLEAN
         /\ runner[r].family.refresh \in Version \cup {None} /\ runner[r].family.token \in Version
         /\ runner[r].trigger \in Trigger
<1>1. runner[r] \in RunnerType
  BY DEF TypeOK
<1>2. /\ runner[r].acct \in Account /\ runner[r].family \in Family
      /\ runner[r].outcome \in OutcomeType /\ runner[r].fresh \in Version
      /\ runner[r].call \in 1 .. Calls /\ runner[r].at \in Time /\ runner[r].rotates \in BOOLEAN
      /\ runner[r].trigger \in Trigger
  BY <1>1 DEF RunnerType
<1>3. runner[r].family.refresh \in Version \cup {None} /\ runner[r].family.token \in Version
  BY <1>2 DEF Family
<1> QED
  BY <1>1, <1>2, <1>3, Parameters

LEMMA CallerFields ==
  ASSUME TypeOK, NEW c \in Caller
  PROVE  /\ caller[c] \in CallerType /\ caller[c].acct \in Account /\ caller[c].trigger \in Trigger
         /\ caller[c].refreshed \in BOOLEAN
BY DEF TypeOK, CallerType

LEMMA Knows ==
  ASSUME TypeOK, NEW h \in Account, NEW t \in Trigger, NEW n \in Nat
  PROVE  /\ WithoutRefresh(h, t, n) \in OutcomeType
         /\ WithoutRefresh(h, t, n) # Undecided => WithoutRefresh(h, t, n).is # "undecided"
<1> DEFINE k == WithoutRefresh(h, t, n)
<1>1. pool[h].errored \in {"no", "rejected", "norefresh", "refused"} /\ pool[h].present \in BOOLEAN
  BY PoolFields
<1>2. CASE ~pool[h].present
  <2>1. k = Ready
    BY <1>2 DEF WithoutRefresh
  <2> QED
    BY <2>1, OutcomeTypes
<1>3. CASE pool[h].present /\ pool[h].errored # "no"
  <2>1. k = Errored
    BY <1>3 DEF WithoutRefresh
  <2> QED
    BY <2>1, OutcomeTypes
<1>4. CASE pool[h].present /\ pool[h].errored = "no" /\ h \in ApiKey
  <2>1. k = Ready
    BY <1>4 DEF WithoutRefresh
  <2> QED
    BY <2>1, OutcomeTypes
<1>5. CASE pool[h].present /\ pool[h].errored = "no" /\ h \notin ApiKey
  <2> DEFINE f == pool[h].family
  <2>1. k = IF ~NeedsRefresh(f, t, n) THEN Ready
            ELSE IF ~InTransientFloor(f, n) THEN Undecided
            ELSE IF t = "forced" \/ IsExpired(f, n) THEN WaitUntil(f.notBefore)
            ELSE Ready
    BY <1>5 DEF WithoutRefresh
  <2>2. InTransientFloor(f, n) => f.notBefore \in Nat
    BY PoolFields DEF InTransientFloor, None
  <2>3. InTransientFloor(f, n) => /\ WaitUntil(f.notBefore) \in OutcomeType
                                  /\ WaitUntil(f.notBefore).is # "undecided"
    BY <2>2, OutcomeTypes
  <2> HIDE DEF f
  <2> QED
    BY <2>1, <2>3, OutcomeTypes
<1> QED
  BY <1>1, <1>2, <1>3, <1>4, <1>5

LEMMA FreshCallerType ==
  ASSUME NEW h \in Account, NEW t \in Trigger, NEW place \in CallerPlaces
  PROVE  FreshCaller(h, t, place) \in CallerType
BY Parameters DEF FreshCaller, CallerType

LEMMA ContinuedType ==
  ASSUME TypeOK, NEW c \in Caller, NEW o \in OutcomeType, o.is # "undecided"
  PROVE  Continued(caller[c], o) \in CallerType
<1> DEFINE k == caller[c]
           ends == FreshCaller(k.acct, "proactive", "done")
<1>1. k \in CallerType /\ o.until \in Nat /\ o.is \in {"ready", "errored", "wait"}
  BY CallerFields DEF OutcomeType
<1>2. ends \in CallerType
  BY CallerFields, FreshCallerType DEF Trigger, CallerPlaces
<1>3. /\ [k EXCEPT !.pc = "inject"] \in CallerType
      /\ [k EXCEPT !.pc = "sitout", !.waited = TRUE, !.until = o.until] \in CallerType
  BY <1>1 DEF CallerType, CallerPlaces
<1> HIDE DEF k
<1>4. CASE k.trigger = "startup" \/ o.is = "errored"
  <2>1. Continued(k, o) = ends
    BY <1>4 DEF Continued
  <2> QED
    BY <1>2, <2>1 DEF k
<1>5. CASE k.trigger # "startup" /\ o.is = "ready"
  <2>1. Continued(k, o) = [k EXCEPT !.pc = "inject"]
    BY <1>5 DEF Continued
  <2> QED
    BY <1>3, <2>1 DEF k
<1>6. CASE k.trigger # "startup" /\ o.is = "wait"
  <2>1. \/ Continued(k, o) = ends
        \/ Continued(k, o) = [k EXCEPT !.pc = "sitout", !.waited = TRUE, !.until = o.until]
    BY <1>6 DEF Continued
  <2> QED
    BY <1>2, <1>3, <2>1 DEF k
<1> QED
  BY <1>1, <1>4, <1>5, <1>6

Finished(h, o) == [IdleRunner(h) EXCEPT !.pc = "finish", !.outcome = o]
Started(h, t) == [IdleRunner(h) EXCEPT !.pc = "check", !.trigger = t]

LEMMA IdleRunnerType ==
  ASSUME NEW h \in Account
  PROVE  /\ IdleRunner(h) \in RunnerType /\ IdleRunner(h).pc = "idle" /\ IdleRunner(h).acct = h
         /\ \A o \in OutcomeType :
              /\ Finished(h, o) \in RunnerType /\ Finished(h, o).pc = "finish"
              /\ Finished(h, o).acct = h /\ Finished(h, o).outcome = o
         /\ \A t \in Trigger :
              /\ Started(h, t) \in RunnerType /\ Started(h, t).pc = "check"
              /\ Started(h, t).acct = h
<1>1. NoFamily \in Family
  BY Parameters DEF NoFamily, Family
<1>2. IdleRunner(h) \in RunnerType /\ IdleRunner(h).pc = "idle" /\ IdleRunner(h).acct = h
  BY <1>1, Parameters, OutcomeTypes DEF IdleRunner, RunnerType, Trigger
<1> QED
  BY <1>2 DEF RunnerType, Finished, Started

---------------------------------------------------------------------------
(* Every step preserves the invariant: the callers. *)

LEMMA OnlyCallers ==
  ASSUME Inv, UNCHANGED <<pool, registry, runner, upstream>>, now' \in Time,
         caller' \in [Caller -> CallerType], stopping' \in BOOLEAN
  PROVE  Inv'
<1>1. TypeOK'
  BY DEF Inv, TypeOK
<1>2. SingleFlight' /\ Decided' /\ CarriesPooled' /\ CarriesHonoured' /\ Minted'
  BY DEF Inv, SingleFlight, Active, Decided, CarriesPooled, Carries, CarriesHonoured, Published, Minted
<1>3. Honoured'
  BY DEF Inv, Honoured, Active
<1> QED
  BY <1>1, <1>2, <1>3 DEF Inv

LEMMA CallerStepsType ==
  ASSUME TypeOK, NEW c \in Caller
  PROVE  /\ \A place \in CallerPlaces : CallerSteps(c, place) => caller' \in [Caller -> CallerType]
         /\ CallerEnds(c) => caller' \in [Caller -> CallerType]
<1>1. caller \in [Caller -> CallerType]
  BY DEF TypeOK
<1>2. ASSUME NEW place \in CallerPlaces, CallerSteps(c, place)
      PROVE  caller' \in [Caller -> CallerType]
  BY <1>1, <1>2 DEF CallerSteps, CallerType
<1>3. ASSUME CallerEnds(c)
      PROVE  caller' \in [Caller -> CallerType]
  <2>1. FreshCaller(caller[c].acct, "proactive", "done") \in CallerType
    BY CallerFields, FreshCallerType DEF Trigger, CallerPlaces
  <2>2. caller' = [caller EXCEPT ![c] = FreshCaller(caller[c].acct, "proactive", "done")]
    BY <1>3 DEF CallerEnds
  <2> QED
    BY <1>1, <2>1, <2>2
<1> QED
  BY <1>2, <1>3

LEMMA Unmoved ==
  ASSUME Inv
  PROVE  /\ UNCHANGED now => now' \in Time
         /\ UNCHANGED stopping => stopping' \in BOOLEAN
         /\ UNCHANGED caller => caller' \in [Caller -> CallerType]
         /\ now \in Time /\ now \in Nat
BY Parameters DEF Inv, TypeOK

LEMMA TickInv == ASSUME Inv, Tick PROVE Inv'
<1>1. now' \in Time
  BY ParametersAssumption DEF Tick, Inv, TypeOK, Time
<1> QED
  BY <1>1, OnlyCallers, Unmoved DEF Tick

LEMMA EnsureInv ==
  ASSUME Inv, NEW c \in Caller, Ensure(c)
  PROVE  Inv'
<1> DEFINE known == WithoutRefresh(caller[c].acct, caller[c].trigger, now)
<1>1. known \in OutcomeType /\ (known # Undecided => known.is # "undecided")
  <2>1. TypeOK /\ caller[c].acct \in Account /\ caller[c].trigger \in Trigger /\ now \in Nat
    BY CallerFields, Unmoved DEF Inv
  <2> QED
    BY <2>1, Knows
<1>2. CASE CallerSteps(c, "join")
  <2>1. caller' \in [Caller -> CallerType]
    BY <1>2, CallerStepsType DEF Inv, CallerPlaces
  <2> QED
    BY <2>1, OnlyCallers, Unmoved DEF Ensure
<1>3. CASE known # Undecided /\ caller' = [caller EXCEPT ![c] = Continued(@, known)]
  <2> HIDE DEF known
  <2>1. Continued(caller[c], known) \in CallerType
    BY <1>1, <1>3, ContinuedType DEF Inv
  <2>2. caller' \in [Caller -> CallerType]
    BY <1>3, <2>1 DEF Inv, TypeOK
  <2> QED
    BY <2>2, OnlyCallers, Unmoved DEF Ensure
<1> QED
  BY <1>2, <1>3 DEF Ensure

LEMMA SitOutInv ==
  ASSUME Inv, NEW c \in Caller, SitOut(c)
  PROVE  Inv'
<1>1. caller \in [Caller -> CallerType]
  BY DEF Inv, TypeOK
<1>2. [caller[c] EXCEPT !.pc = "ensure", !.until = 0] \in CallerType
  BY <1>1 DEF CallerType, CallerPlaces
<1>3. caller' \in [Caller -> CallerType]
  BY <1>1, <1>2 DEF SitOut
<1> QED
  BY <1>3, OnlyCallers, Unmoved DEF SitOut

LEMMA InjectInv ==
  ASSUME Inv, NEW c \in Caller, Inject(c)
  PROVE  Inv'
<1>1. caller \in [Caller -> CallerType] /\ pool[caller[c].acct].family.token \in Version
  BY CallerFields, PoolFields DEF Inv, TypeOK
<1>2. Version \subseteq Nat
  BY Parameters
<1>3. CASE CallerEnds(c)
  BY <1>3, CallerStepsType, OnlyCallers, Unmoved DEF Inv, Inject
<1>4. CASE caller' = [caller EXCEPT ![c].pc = "admission", ![c].token = pool[caller[c].acct].family.token]
  <2>1. caller' \in [Caller -> CallerType]
    <3>1. [caller[c] EXCEPT !.pc = "admission", !.token = pool[caller[c].acct].family.token] \in CallerType
      BY <1>1 DEF CallerType, CallerPlaces
    <3> QED
      BY <1>1, <1>4, <3>1
  <2> QED
    BY <2>1, OnlyCallers, Unmoved DEF Inject
<1> QED
  BY <1>3, <1>4 DEF Inject

LEMMA AnswerInv ==
  ASSUME Inv, NEW c \in Caller, Answer(c)
  PROVE  Inv'
<1>1. caller' \in [Caller -> CallerType]
  <2>1. CASE CallerEnds(c)
    BY <2>1, CallerStepsType DEF Inv
  <2>2. CASE CallerSteps(c, "refuse")
    BY <2>2, CallerStepsType DEF Inv, CallerPlaces
  <2>3. CASE caller' = [caller EXCEPT ![c].pc = "ensure", ![c].trigger = "forced",
                                     ![c].refreshed = TRUE, ![c].token = 0]
    <3>1. caller \in [Caller -> CallerType]
      BY DEF Inv, TypeOK
    <3>2. [caller[c] EXCEPT !.pc = "ensure", !.trigger = "forced", !.refreshed = TRUE, !.token = 0]
            \in CallerType
      BY <3>1, Parameters DEF CallerType, CallerPlaces, Trigger
    <3> QED
      BY <2>3, <3>1, <3>2
  <2> QED
    BY <2>1, <2>2, <2>3 DEF Answer
<1> QED
  BY <1>1, OnlyCallers, Unmoved DEF Answer

LEMMA LeaveInv ==
  ASSUME Inv, NEW c \in Caller, Leave(c)
  PROVE  Inv'
BY CallerStepsType, OnlyCallers, Unmoved DEF Leave, Inv

---------------------------------------------------------------------------
(* Every step preserves the invariant: the operator and the provider. *)

LEMMA OnlyHealth ==
  ASSUME Inv, pool' \in [Account -> PoolType],
         \A h \in Account : pool'[h].family = pool[h].family /\ (pool'[h].present => pool[h].present),
         UNCHANGED <<now, registry, runner, upstream, stopping>>, caller' \in [Caller -> CallerType]
  PROVE  Inv'
<1>1. TypeOK'
  BY DEF Inv, TypeOK
<1>2. SingleFlight' /\ Decided' /\ CarriesHonoured'
  BY DEF Inv, SingleFlight, Active, Decided, CarriesHonoured, Published
<1>3. Minted'
  BY DEF Inv, Minted
<1>4. CarriesPooled'
  BY RunnerFields DEF Inv, CarriesPooled, Carries
<1>5. Honoured'
  BY DEF Inv, Honoured, Active
<1> QED
  BY <1>1, <1>2, <1>3, <1>4, <1>5 DEF Inv

LEMMA HealthSet ==
  ASSUME Inv, NEW h \in Account, NEW e \in {"no", "rejected", "norefresh", "refused"},
         pool' = [pool EXCEPT ![h].errored = e]
  PROVE  /\ pool' \in [Account -> PoolType]
         /\ \A g \in Account : pool'[g].family = pool[g].family /\ pool'[g].present = pool[g].present
<1>1. pool \in [Account -> PoolType]
  BY DEF Inv, TypeOK
<1>2. [pool[h] EXCEPT !.errored = e] \in PoolType
  BY <1>1 DEF PoolType
<1>3. pool' = [pool EXCEPT ![h] = [pool[h] EXCEPT !.errored = e]]
  BY <1>1
<1>4. /\ [pool[h] EXCEPT !.errored = e].family = pool[h].family
      /\ [pool[h] EXCEPT !.errored = e].present = pool[h].present
  BY <1>1 DEF PoolType
<1> QED
  BY <1>1, <1>2, <1>3, <1>4

LEMMA RefuseErrorsInv ==
  ASSUME Inv, NEW c \in Caller, RefuseErrors(c)
  PROVE  Inv'
<1> DEFINE h == caller[c].acct
<1>1. h \in Account /\ pool[h].errored \in {"no", "rejected", "norefresh", "refused"}
  BY CallerFields, PoolFields DEF Inv
<1>2. caller' \in [Caller -> CallerType]
  BY CallerStepsType DEF RefuseErrors, Inv
<1>3. CASE UNCHANGED pool
  BY <1>2, <1>3, OnlyCallers, Unmoved DEF RefuseErrors
<1>4. CASE pool' = [pool EXCEPT ![h].errored = IF pool[h].present THEN "refused" ELSE @]
  <2> DEFINE e == IF pool[h].present THEN "refused" ELSE pool[h].errored
  <2>1. e \in {"no", "rejected", "norefresh", "refused"}
    BY <1>1
  <2>2. pool' = [pool EXCEPT ![h].errored = e]
    BY <1>4
  <2> HIDE DEF e, h
  <2>3. /\ pool' \in [Account -> PoolType]
        /\ \A g \in Account : pool'[g].family = pool[g].family /\ pool'[g].present = pool[g].present
    BY <1>1, <2>1, <2>2, HealthSet
  <2> QED
    BY <1>2, <2>3, OnlyHealth DEF RefuseErrors
<1> QED
  BY <1>3, <1>4 DEF RefuseErrors

LEMMA EnableInv ==
  ASSUME Inv, NEW h \in Account, Enable(h)
  PROVE  Inv'
<1>1. /\ pool' \in [Account -> PoolType]
      /\ \A g \in Account : pool'[g].family = pool[g].family /\ pool'[g].present = pool[g].present
  BY HealthSet DEF Enable
<1> QED
  BY <1>1, OnlyHealth, Unmoved DEF Enable

LEMMA RemoveInv ==
  ASSUME Inv, NEW h \in Account, Remove(h)
  PROVE  Inv'
<1>1. pool \in [Account -> PoolType]
  BY DEF Inv, TypeOK
<1> DEFINE gone == [pool[h] EXCEPT !.present = FALSE, !.errored = "no"]
<1>2. gone \in PoolType /\ gone.family = pool[h].family /\ gone.present = FALSE
  BY <1>1 DEF PoolType
<1>3. pool' = [pool EXCEPT ![h] = gone]
  BY <1>1 DEF Remove
<1> HIDE DEF gone
<1>4. /\ pool' \in [Account -> PoolType]
      /\ \A g \in Account : pool'[g].family = pool[g].family /\ (pool'[g].present => pool[g].present)
  BY <1>1, <1>2, <1>3
<1> QED
  BY <1>4, OnlyHealth, Unmoved DEF Remove

LEMMA RevokeTokenInv ==
  ASSUME Inv, NEW h \in Account, RevokeToken(h)
  PROVE  Inv'
<1>1. upstream \in [Account -> UpstreamType]
  BY DEF Inv, TypeOK
<1> DEFINE u == [upstream[h] EXCEPT !.accepts = {}]
<1>2. /\ u \in UpstreamType /\ u.honours = upstream[h].honours /\ u.minted = upstream[h].minted
      /\ u.lost = upstream[h].lost
  BY <1>1 DEF UpstreamType
<1>3. upstream' = [upstream EXCEPT ![h] = u]
  BY <1>1 DEF RevokeToken
<1> HIDE DEF u
<1>4. /\ upstream' \in [Account -> UpstreamType]
      /\ \A g \in Account : /\ upstream'[g].honours = upstream[g].honours
                            /\ upstream'[g].minted = upstream[g].minted
                            /\ upstream'[g].lost = upstream[g].lost
  BY <1>1, <1>2, <1>3
<1>5. UNCHANGED <<now, pool, registry, runner, caller, stopping>>
  BY DEF RevokeToken
<1>6. TypeOK'
  BY <1>4, <1>5 DEF Inv, TypeOK
<1>7. SingleFlight' /\ Decided'
  BY <1>5 DEF Inv, SingleFlight, Active, Decided
<1>8. CarriesPooled' /\ CarriesHonoured' /\ Minted'
  BY <1>4, <1>5, RunnerFields DEF Inv, CarriesPooled, Carries, CarriesHonoured, Published, Minted
<1>9. Honoured'
  BY <1>4, <1>5 DEF Inv, Honoured, Active
<1> QED
  BY <1>6, <1>7, <1>8, <1>9 DEF Inv

\* A credential the operator installs is newer than any that is carried.
LEMMA ReplaceInv ==
  ASSUME Inv, NEW h \in Account, Replace(h)
  PROVE  Inv'
<1> DEFINE v == upstream[h].minted + 1
           u == [honours |-> upstream[h].honours \cup {v}, accepts |-> {v}, minted |-> v, lost |-> FALSE]
<1>1. /\ pool \in [Account -> PoolType] /\ upstream \in [Account -> UpstreamType]
      /\ upstream[h].minted \in Nat /\ now \in Nat
  BY UpstreamFields, Unmoved, Parameters DEF Inv, TypeOK
<1>2. v \in Version /\ v > upstream[h].minted /\ v \in Nat /\ v # None
  BY <1>1, ParametersAssumption DEF Replace, Version, None
<1>3. upstream' = [upstream EXCEPT ![h] = u]
  BY DEF Replace
<1>4. PICK f \in NewFamilies(v, now) :
        pool' = [pool EXCEPT ![h] = [pool[h] EXCEPT !.family = f, !.errored = "no"]]
  BY <1>1 DEF Replace
<1> HIDE DEF v
<1>5. f \in Family /\ f.refresh \in {v, None}
  <2>1. PICK r \in {v, None}, left \in 1 .. Lifetime :
          f = [token |-> v, refresh |-> r, expires |-> now + left, success |-> None, notBefore |-> None]
    BY <1>4 DEF NewFamilies
  <2>2. now + left \in Nat
    BY <1>1, <2>1
  <2> QED
    BY <1>2, <2>1, <2>2 DEF Family
<1>6. u \in UpstreamType /\ u.honours = upstream[h].honours \cup {v} /\ u.minted = v
  BY <1>1, <1>2 DEF UpstreamType
<1> DEFINE a == [pool[h] EXCEPT !.family = f, !.errored = "no"]
<1>7. a \in PoolType /\ a.family = f
  BY <1>1, <1>5 DEF PoolType
<1> HIDE DEF u, a
<1>8. /\ pool' \in [Account -> PoolType] /\ pool'[h].family = f
      /\ upstream' \in [Account -> UpstreamType] /\ upstream'[h] = u
      /\ \A g \in Account \ {h} : pool'[g] = pool[g] /\ upstream'[g] = upstream[g]
  BY <1>1, <1>3, <1>4, <1>6, <1>7 DEF a
<1>9. UNCHANGED <<now, registry, runner, caller, stopping>>
  BY DEF Replace
<1>10. TypeOK'
  BY <1>8, <1>9 DEF Inv, TypeOK
<1>11. SingleFlight' /\ Decided'
  BY <1>9 DEF Inv, SingleFlight, Active, Decided
<1>12. CarriesHonoured'
  BY <1>6, <1>8, <1>9, RunnerFields DEF Inv, CarriesHonoured, Published
<1>13. Minted'
  <2>1. \A g \in Account \ {h} : /\ pool'[g].family.refresh <= upstream'[g].minted
                                 /\ \A x \in upstream'[g].honours : x <= upstream'[g].minted
    BY <1>8 DEF Inv, Minted
  <2>2. pool'[h].family.refresh <= upstream'[h].minted
    BY <1>2, <1>5, <1>6, <1>8 DEF None
  <2>3. ASSUME NEW x \in u.honours PROVE x <= v
    <3>1. x \in Nat /\ (x \in upstream[h].honours \/ x = v)
      BY <1>2, <1>6, UpstreamFields, Parameters DEF Inv
    <3>2. x \in upstream[h].honours => x <= upstream[h].minted
      BY DEF Inv, Minted
    <3> QED
      BY <1>1, <1>2, <3>1, <3>2
  <2> QED
    BY <1>6, <1>8, <2>1, <2>2, <2>3 DEF Minted
<1>14. CarriesPooled'
  <2> SUFFICES ASSUME NEW r \in Runner, Carries(r)
               PROVE  LET k == runner[r].family
                          g == runner[r].acct
                      IN  /\ k.refresh <= upstream'[g].minted
                          /\ pool'[g].family.refresh = k.refresh /\ k.refresh # None
                               => pool'[g].family.token = k.token
    BY <1>9 DEF CarriesPooled, Carries
  <2>1. /\ runner[r].family.refresh <= upstream[runner[r].acct].minted
        /\ pool[runner[r].acct].family.refresh = runner[r].family.refresh
             /\ runner[r].family.refresh # None
             => pool[runner[r].acct].family.token = runner[r].family.token
        /\ runner[r].acct \in Account /\ runner[r].family.refresh \in Version \cup {None}
    BY RunnerFields DEF Inv, CarriesPooled
  <2>2. CASE runner[r].acct = h
    <3> DEFINE k == runner[r].family
    <3>1. k.refresh \in Nat \/ k.refresh = None
      BY <2>1, Parameters
    <3>2. k.refresh <= upstream[h].minted
      BY <2>1, <2>2
    <3>3. upstream'[h].minted = v /\ pool'[h].family.refresh \in {v, None}
      BY <1>5, <1>6, <1>8
    <3> HIDE DEF k
    <3>4. k.refresh < v
      BY <1>1, <1>2, <3>1, <3>2 DEF None
    <3>5. k.refresh <= upstream'[h].minted
      BY <1>2, <3>1, <3>3, <3>4 DEF None
    <3>6. k.refresh # v
      BY <1>2, <3>1, <3>4 DEF None
    <3>7. ~(pool'[h].family.refresh = k.refresh /\ k.refresh # None)
      BY <3>3, <3>6
    <3> QED
      BY <2>2, <3>5, <3>7 DEF k
  <2>3. CASE runner[r].acct # h
    BY <1>8, <2>1, <2>3
  <2> QED
    BY <2>2, <2>3
<1>15. Honoured'
  <2> SUFFICES ASSUME NEW g \in Account, pool'[g].present, ~upstream'[g].lost,
                      pool'[g].family.refresh # None
               PROVE  \/ pool'[g].family.refresh \in upstream'[g].honours
                      \/ \E r \in Runner : /\ Active(r, g) /\ runner[r].pc = "publish"
                                           /\ runner[r].family.refresh = pool'[g].family.refresh
    BY <1>9 DEF Honoured, Active
  <2>1. CASE g = h
    BY <1>5, <1>6, <1>8, <2>1
  <2>2. CASE g # h
    BY <1>8, <2>2 DEF Inv, Honoured
  <2> QED
    BY <2>1, <2>2
<1> QED
  BY <1>10, <1>11, <1>12, <1>13, <1>14, <1>15 DEF Inv

---------------------------------------------------------------------------
(* Every step preserves the invariant: the runners. *)

\* What a working runner may become without leaving its account.
Successor(r, w) ==
  /\ w \in RunnerType /\ w.acct = runner[r].acct
  /\ runner[r].pc # "idle" /\ w.pc # "idle"
  /\ w.pc = "finish" => w.outcome.is # "undecided"

LEMMA RunnerMoves ==
  ASSUME Inv, NEW r \in Runner, NEW w, Successor(r, w), runner' = [runner EXCEPT ![r] = w]
  PROVE  /\ runner' \in [Runner -> RunnerType] /\ runner'[r] = w
         /\ \A q \in Runner \ {r} : runner'[q] = runner[q]
         /\ UNCHANGED registry => SingleFlight' /\ Decided'
<1>1. runner \in [Runner -> RunnerType]
  BY DEF Inv, TypeOK
<1>2. w \in RunnerType
  BY DEF Successor
<1>3. runner' \in [Runner -> RunnerType] /\ runner'[r] = w /\ \A q \in Runner \ {r} : runner'[q] = runner[q]
  BY <1>1, <1>2
<1>4. \A q \in Runner : \A h \in Account : Active(q, h)' <=> Active(q, h)
  BY <1>3 DEF Active, Successor
<1>5. ASSUME UNCHANGED registry PROVE SingleFlight'
  BY <1>4, <1>5 DEF Inv, SingleFlight
<1>6. ASSUME UNCHANGED registry PROVE Decided'
  BY <1>3, <1>6 DEF Inv, Decided, Successor
<1> QED
  BY <1>3, <1>5, <1>6

\* What w carries agrees with the pool and the endpoint.
Agrees(w) ==
  LET h == w.acct
      f == w.family
  IN  /\ w.pc \in {"call", "publish", "error", "floor"} =>
           /\ f.refresh <= upstream[h].minted
           /\ pool[h].family.refresh = f.refresh /\ f.refresh # None => pool[h].family.token = f.token
      /\ w.pc \in {"call", "publish", "floor"} => f.refresh # None

LEMMA OnlyRunner ==
  ASSUME Inv, NEW r \in Runner, NEW w, Successor(r, w), Agrees(w), w.pc # "publish",
         runner' = [runner EXCEPT ![r] = w],
         runner[r].pc = "publish" => ~Unchanged(runner[r].acct, runner[r].family.refresh),
         UNCHANGED <<now, registry, upstream, pool, caller>>, stopping' \in BOOLEAN
  PROVE  Inv'
<1>1. /\ runner' \in [Runner -> RunnerType] /\ runner'[r] = w
      /\ \A q \in Runner \ {r} : runner'[q] = runner[q]
      /\ SingleFlight' /\ Decided'
  BY RunnerMoves
<1>2. TypeOK'
  BY <1>1 DEF Inv, TypeOK
<1>3. CarriesPooled'
  <2> SUFFICES ASSUME NEW q \in Runner, Carries(q)'
               PROVE  LET f == runner'[q].family
                          h == runner'[q].acct
                      IN  /\ f.refresh <= upstream[h].minted
                          /\ pool[h].family.refresh = f.refresh /\ f.refresh # None
                               => pool[h].family.token = f.token
    BY DEF CarriesPooled
  <2>1. CASE q = r
    BY <1>1, <2>1 DEF Agrees, Carries
  <2>2. CASE q # r
    BY <1>1, <2>2 DEF Inv, CarriesPooled, Carries
  <2> QED
    BY <2>1, <2>2
<1>4. CarriesHonoured'
  <2> SUFFICES ASSUME NEW q \in Runner
               PROVE  /\ runner'[q].pc \in {"call", "publish", "floor"} => runner'[q].family.refresh # None
                      /\ runner'[q].pc = "publish" => Published(q)' \in upstream[runner'[q].acct].honours
    BY DEF CarriesHonoured
  <2>1. CASE q = r
    BY <1>1, <2>1 DEF Agrees
  <2>2. CASE q # r
    BY <1>1, <2>2 DEF Inv, CarriesHonoured, Published
  <2> QED
    BY <2>1, <2>2
<1>5. Minted'
  BY DEF Inv, Minted
<1>6. Honoured'
  <2> SUFFICES ASSUME NEW h \in Account, pool[h].present, ~upstream[h].lost,
                      pool[h].family.refresh # None, pool[h].family.refresh \notin upstream[h].honours
               PROVE  \E q \in Runner : /\ Active(q, h)' /\ runner'[q].pc = "publish"
                                        /\ runner'[q].family.refresh = pool[h].family.refresh
    BY DEF Honoured
  <2>1. PICK q \in Runner : /\ Active(q, h) /\ runner[q].pc = "publish"
                            /\ runner[q].family.refresh = pool[h].family.refresh
    BY DEF Inv, Honoured
  <2>2. q # r
    BY <2>1 DEF Active, Unchanged
  <2> QED
    BY <1>1, <2>1, <2>2 DEF Active
<1> QED
  BY <1>1, <1>2, <1>3, <1>4, <1>5, <1>6 DEF Inv

\* A decided runner carries nothing.
LEMMA DecidesIs ==
  ASSUME Inv, NEW r \in Runner, NEW o \in OutcomeType, o.is # "undecided", runner[r].pc # "idle",
         RunnerDecides(r, o)
  PROVE  \E w : /\ Successor(r, w) /\ Agrees(w) /\ w.pc = "finish"
                /\ runner' = [runner EXCEPT ![r] = w]
<1> DEFINE w == Finished(runner[r].acct, o)
<1>1. runner[r].acct \in Account
  BY RunnerFields DEF Inv
<1>2. w \in RunnerType /\ w.pc = "finish" /\ w.acct = runner[r].acct /\ w.outcome = o
  BY <1>1, IdleRunnerType
<1>3. runner' = [runner EXCEPT ![r] = w]
  BY DEF RunnerDecides, Finished
<1> HIDE DEF w
<1> QED
  BY <1>2, <1>3 DEF Successor, Agrees

LEMMA RecheckInv ==
  ASSUME Inv, NEW r \in Runner, Recheck(r)
  PROVE  Inv'
<1> DEFINE known == WithoutRefresh(runner[r].acct, runner[r].trigger, now)
<1>1. known \in OutcomeType /\ (known # Undecided => known.is # "undecided")
  BY Knows, RunnerFields, Unmoved DEF Inv
<1>2. CASE known = Undecided
  <2> DEFINE w == [runner[r] EXCEPT !.pc = "read", !.at = now]
  <2>1. runner[r] \in RunnerType /\ now \in Time /\ runner \in [Runner -> RunnerType]
    BY DEF Inv, TypeOK
  <2>2. w \in RunnerType /\ w.pc = "read" /\ w.acct = runner[r].acct
    BY <2>1 DEF RunnerType
  <2>3. runner' = [runner EXCEPT ![r] = w]
    BY <1>2, <2>1 DEF Recheck
  <2> HIDE DEF w, known
  <2>4. Successor(r, w) /\ Agrees(w)
    BY <2>2 DEF Successor, Agrees, Recheck
  <2> QED
    BY <2>2, <2>3, <2>4, OnlyRunner, Unmoved DEF Recheck
<1>3. CASE known # Undecided
  <2>1. RunnerDecides(r, known) /\ runner[r].pc = "check"
    BY <1>3 DEF Recheck
  <2> HIDE DEF known
  <2>2. PICK w : /\ Successor(r, w) /\ Agrees(w) /\ w.pc = "finish"
                 /\ runner' = [runner EXCEPT ![r] = w]
    BY <1>1, <1>3, <2>1, DecidesIs
  <2> QED
    BY <2>1, <2>2, OnlyRunner, Unmoved DEF Recheck
<1> QED
  BY <1>2, <1>3

LEMMA ReadFamilyInv ==
  ASSUME Inv, NEW r \in Runner, ReadFamily(r)
  PROVE  Inv'
<1> DEFINE h == runner[r].acct
           f == pool[h].family
           p == IF f.refresh = None THEN "error" ELSE "call"
           w == [runner[r] EXCEPT !.pc = p, !.family = f, !.at = 0]
<1>1. /\ runner[r] \in RunnerType /\ runner \in [Runner -> RunnerType] /\ h \in Account
      /\ f \in Family /\ f.refresh <= upstream[h].minted
  BY RunnerFields, PoolFields DEF Inv, TypeOK, Minted
<1>2. CASE RunnerDecides(r, Ready)
  <2>1. PICK x : /\ Successor(r, x) /\ Agrees(x) /\ x.pc = "finish"
                 /\ runner' = [runner EXCEPT ![r] = x]
    BY <1>2, DecidesIs, OutcomeTypes DEF ReadFamily
  <2> QED
    BY <2>1, OnlyRunner, Unmoved DEF ReadFamily
<1>3. CASE runner' = [runner EXCEPT ![r].pc = p, ![r].family = f, ![r].at = 0]
  <2>1. /\ w \in RunnerType /\ w.pc = p /\ w.acct = h /\ w.family = f
        /\ p \in {"error", "call"} /\ (p = "call" => f.refresh # None)
    BY <1>1, Parameters DEF RunnerType
  <2>2. runner' = [runner EXCEPT ![r] = w]
    BY <1>1, <1>3
  <2>3. runner[r].pc = "read"
    BY DEF ReadFamily
  <2> HIDE DEF w, p
  <2>4. Successor(r, w) /\ Agrees(w)
    BY <1>1, <2>1, <2>3 DEF Successor, Agrees
  <2> QED
    BY <2>1, <2>2, <2>3, <2>4, OnlyRunner, Unmoved DEF ReadFamily
<1> QED
  BY <1>2, <1>3 DEF ReadFamily

LEMMA EndpointRejectsInv ==
  ASSUME Inv, NEW r \in Runner, EndpointRejects(r)
  PROVE  Inv'
<1> DEFINE w == [runner[r] EXCEPT !.pc = "error"]
<1>1. runner[r] \in RunnerType /\ runner \in [Runner -> RunnerType]
  BY DEF Inv, TypeOK
<1>2. w \in RunnerType /\ w.pc = "error" /\ w.acct = runner[r].acct /\ w.family = runner[r].family
  BY <1>1 DEF RunnerType
<1>3. runner' = [runner EXCEPT ![r] = w] /\ runner[r].pc = "call"
  BY <1>1 DEF EndpointRejects, RunnerSteps
<1> HIDE DEF w
<1>4. Successor(r, w) /\ Agrees(w)
  BY <1>2, <1>3 DEF Successor, Agrees, Inv, CarriesPooled, Carries
<1> QED
  BY <1>2, <1>3, <1>4, OnlyRunner, Unmoved DEF EndpointRejects

\* What an exchange leaves at the endpoint: the next version, honoured.
LEMMA ExchangedType ==
  ASSUME Inv, NEW h \in Account, NEW sent, NEW rotates \in BOOLEAN, upstream[h].minted < MaxVersion
  PROVE  LET u == Exchanged(h, sent, rotates) IN
         /\ u \in UpstreamType /\ u.minted = upstream[h].minted + 1 /\ u.lost = upstream[h].lost
         /\ u.honours = IF rotates THEN (upstream[h].honours \ {sent}) \cup {upstream[h].minted + 1}
                                   ELSE upstream[h].honours
<1> DEFINE v == upstream[h].minted + 1
           hon == IF rotates THEN (upstream[h].honours \ {sent}) \cup {v} ELSE upstream[h].honours
<1>1. upstream[h] \in UpstreamType /\ upstream[h].honours \in SUBSET Version
  BY UpstreamFields DEF Inv
<1>2. v \in Version
  BY UpstreamFields, ParametersAssumption DEF Inv, Version
<1>3. hon \in SUBSET Version
  BY <1>1, <1>2
<1>4. Exchanged(h, sent, rotates) = [upstream[h] EXCEPT !.minted = v, !.accepts = {v}, !.honours = hon]
  BY DEF Exchanged
<1> HIDE DEF v, hon
<1> DEFINE fresh == {v}
<1>5. fresh \in SUBSET Version
  BY <1>2
<1>6. Exchanged(h, sent, rotates) = [upstream[h] EXCEPT !.minted = v, !.accepts = fresh, !.honours = hon]
  BY <1>4
<1> HIDE DEF fresh
<1>7. /\ Exchanged(h, sent, rotates) \in UpstreamType /\ Exchanged(h, sent, rotates).minted = v
      /\ Exchanged(h, sent, rotates).lost = upstream[h].lost
      /\ Exchanged(h, sent, rotates).honours = hon
  BY <1>1, <1>2, <1>3, <1>5, <1>6 DEF UpstreamType
<1> QED
  BY <1>7 DEF v, hon

LEMMA ExchangedMinted ==
  ASSUME Inv, NEW h \in Account, NEW sent, NEW rotates \in BOOLEAN, upstream[h].minted < MaxVersion,
         NEW x \in Exchanged(h, sent, rotates).honours
  PROVE  x <= Exchanged(h, sent, rotates).minted
<1> DEFINE u == Exchanged(h, sent, rotates)
<1>1. /\ u \in UpstreamType /\ u.minted = upstream[h].minted + 1
      /\ u.honours = IF rotates THEN (upstream[h].honours \ {sent}) \cup {upstream[h].minted + 1}
                                ELSE upstream[h].honours
  BY ExchangedType
<1>2. x \in Nat /\ upstream[h].minted \in Nat
  BY <1>1, UpstreamFields, Parameters DEF Inv, UpstreamType
<1>3. x \in upstream[h].honours => x <= upstream[h].minted
  BY DEF Inv, Minted
<1> QED
  BY <1>1, <1>2, <1>3

\* When one account's endpoint moves forward, the other accounts see nothing.
LEMMA EndpointMoves ==
  ASSUME Inv, NEW h \in Account, NEW u \in UpstreamType, upstream' = [upstream EXCEPT ![h] = u]
  PROVE  /\ upstream' \in [Account -> UpstreamType] /\ upstream'[h] = u
         /\ \A g \in Account \ {h} : upstream'[g] = upstream[g]
BY DEF Inv, TypeOK

LEMMA OnlyEndpoint ==
  ASSUME Inv, NEW r \in Runner, NEW w, Successor(r, w), NEW u \in UpstreamType,
         runner[r].pc \in {"call", "publish"}, runner' = [runner EXCEPT ![r] = w],
         upstream' = [upstream EXCEPT ![runner[r].acct] = u],
         u.minted >= upstream[runner[r].acct].minted, \A x \in u.honours : x <= u.minted,
         \* r alone works on the account, and it either publishes or gives up
         w.family = runner[r].family \/ w.pc = "finish",
         w.pc = "publish" => Published(r)' \in u.honours,
         \/ u.lost
         \/ /\ w.pc = "publish" /\ u.lost = upstream[runner[r].acct].lost
            /\ upstream[runner[r].acct].honours \ u.honours \subseteq {runner[r].family.refresh},
         runner[r].pc = "publish" => u.lost,
         UNCHANGED <<now, registry, pool, caller>>, stopping' \in BOOLEAN
  PROVE  Inv'
<1> DEFINE h == runner[r].acct
<1>1. /\ runner' \in [Runner -> RunnerType] /\ runner'[r] = w
      /\ \A q \in Runner \ {r} : runner'[q] = runner[q]
      /\ SingleFlight' /\ Decided'
  BY RunnerMoves
<1>2. h \in Account /\ upstream[h].minted \in Nat /\ u.minted \in Nat
  BY RunnerFields, UpstreamFields, Parameters DEF Inv, UpstreamType
<1>3. /\ upstream' \in [Account -> UpstreamType] /\ upstream'[h] = u
      /\ \A g \in Account \ {h} : upstream'[g] = upstream[g]
  BY <1>2, EndpointMoves
<1>4. \A q \in Runner : q # r /\ runner[q].pc # "idle" => runner[q].acct # h /\ runner[q].acct \in Account
  BY <1>2, RunnerFields DEF Inv, SingleFlight, Active, Successor
<1>5. TypeOK'
  BY <1>1, <1>3 DEF Inv, TypeOK
<1>6. CarriesPooled'
  <2> SUFFICES ASSUME NEW q \in Runner, Carries(q)'
               PROVE  LET f == runner'[q].family
                          g == runner'[q].acct
                      IN  /\ f.refresh <= upstream'[g].minted
                          /\ pool[g].family.refresh = f.refresh /\ f.refresh # None
                               => pool[g].family.token = f.token
    BY DEF CarriesPooled
  <2>1. CASE q = r
    <3> DEFINE f == runner[r].family
    <3>1. /\ f.refresh <= upstream[h].minted
          /\ pool[h].family.refresh = f.refresh /\ f.refresh # None => pool[h].family.token = f.token
      BY DEF Inv, CarriesPooled, Carries
    <3>2. f.refresh \in Nat \/ f.refresh = -1
      BY RunnerFields, Parameters DEF Inv, None
    <3>3. runner'[q].family = f /\ runner'[q].acct = h
      BY <1>1, <2>1 DEF Carries, Successor
    <3> HIDE DEF f, h
    <3>4. f.refresh <= u.minted
      BY <1>2, <3>1, <3>2 DEF h
    <3> QED
      BY <1>3, <3>1, <3>3, <3>4
  <2>2. CASE q # r
    BY <1>1, <1>3, <1>4, <2>2 DEF Inv, CarriesPooled, Carries
  <2> QED
    BY <2>1, <2>2
<1>7. CarriesHonoured'
  <2> SUFFICES ASSUME NEW q \in Runner
               PROVE  /\ runner'[q].pc \in {"call", "publish", "floor"} => runner'[q].family.refresh # None
                      /\ runner'[q].pc = "publish" => Published(q)' \in upstream'[runner'[q].acct].honours
    BY DEF CarriesHonoured
  <2>1. CASE q = r
    BY <1>1, <1>3, <2>1 DEF Inv, CarriesHonoured, Successor
  <2>2. CASE q # r
    BY <1>1, <1>3, <1>4, <2>2 DEF Inv, CarriesHonoured, Published
  <2> QED
    BY <2>1, <2>2
<1>8. Minted'
  <2>1. \A g \in Account \ {h} : /\ pool[g].family.refresh <= upstream'[g].minted
                                 /\ \A x \in upstream'[g].honours : x <= upstream'[g].minted
    BY <1>3 DEF Inv, Minted
  <2>2. pool[h].family.refresh <= u.minted
    <3>1. pool[h].family.refresh \in Nat \/ pool[h].family.refresh = -1
      BY <1>2, PoolFields, Parameters DEF Inv, None
    <3>2. pool[h].family.refresh <= upstream[h].minted
      BY <1>2 DEF Inv, Minted
    <3> QED
      BY <1>2, <3>1, <3>2
  <2> QED
    BY <1>3, <2>1, <2>2 DEF Minted
<1>9. Honoured'
  <2> SUFFICES ASSUME NEW g \in Account, pool[g].present, ~upstream'[g].lost,
                      pool[g].family.refresh # None, pool[g].family.refresh \notin upstream'[g].honours
               PROVE  \E q \in Runner : /\ Active(q, g)' /\ runner'[q].pc = "publish"
                                        /\ runner'[q].family.refresh = pool[g].family.refresh
    BY DEF Honoured
  <2>1. CASE g # h
    <3>1. PICK q \in Runner : /\ Active(q, g) /\ runner[q].pc = "publish"
                              /\ runner[q].family.refresh = pool[g].family.refresh
      BY <1>3, <2>1 DEF Inv, Honoured
    <3>2. q # r
      BY <2>1, <3>1 DEF Active
    <3> QED
      BY <1>1, <3>1, <3>2 DEF Active
  <2>2. CASE g = h
    <3>1. /\ w.pc = "publish" /\ runner[r].pc = "call" /\ ~upstream[h].lost
          /\ upstream[h].honours \ u.honours \subseteq {runner[r].family.refresh}
      BY <1>3, <2>2
    <3>2. pool[h].family.refresh \in upstream[h].honours
      <4>1. ASSUME NEW q \in Runner, Active(q, h), runner[q].pc = "publish" PROVE FALSE
        BY <1>4, <3>1, <4>1 DEF Active
      <4> QED
        BY <1>2, <2>2, <3>1, <4>1 DEF Inv, Honoured
    <3>3. pool[h].family.refresh = runner[r].family.refresh
      BY <1>3, <2>2, <3>1, <3>2
    <3> QED
      BY <1>1, <2>2, <3>1, <3>3 DEF Active, Successor
  <2> QED
    BY <2>1, <2>2
<1> QED
  BY <1>1, <1>5, <1>6, <1>7, <1>8, <1>9 DEF Inv

\* The runner publishes what the endpoint answered, and nothing was minted in between.
LEMMA EndpointAnswersInv ==
  ASSUME Inv, NEW r \in Runner, EndpointAnswers(r)
  PROVE  Inv'
<1> DEFINE h == runner[r].acct
           sent == runner[r].family.refresh
           v == upstream[h].minted + 1
<1>1. PICK rotates \in BOOLEAN :
        /\ upstream' = [upstream EXCEPT ![h] = Exchanged(h, sent, rotates)]
        /\ runner' = [runner EXCEPT ![r].pc = "publish", ![r].rotates = rotates, ![r].fresh = v]
  BY DEF EndpointAnswers
<1> DEFINE u == Exchanged(h, sent, rotates)
           w == [runner[r] EXCEPT !.pc = "publish", !.rotates = rotates, !.fresh = v]
<1>2. /\ h \in Account /\ runner[r] \in RunnerType /\ runner \in [Runner -> RunnerType]
      /\ upstream[h].minted \in Nat /\ upstream[h].minted < MaxVersion /\ sent \in upstream[h].honours
      /\ runner[r].pc = "call"
  BY RunnerFields, UpstreamFields, Parameters DEF Inv, TypeOK, EndpointAnswers
<1>3. v \in Version /\ v > upstream[h].minted
  BY <1>2, ParametersAssumption DEF Version
<1>4. /\ u \in UpstreamType /\ u.minted = v /\ u.lost = upstream[h].lost
      /\ u.honours = IF rotates THEN (upstream[h].honours \ {sent}) \cup {v} ELSE upstream[h].honours
  BY <1>2, ExchangedType
<1>14. \A x \in u.honours : x <= u.minted
  BY <1>2, ExchangedMinted
<1> HIDE DEF v, u
<1>5. /\ w \in RunnerType /\ w.pc = "publish" /\ w.acct = h /\ w.family = runner[r].family
      /\ w.rotates = rotates /\ w.fresh = v
  BY <1>2, <1>3 DEF RunnerType
<1>6. runner' = [runner EXCEPT ![r] = w]
  BY <1>1, <1>2
<1> HIDE DEF w
<1>7. runner'[r] = w
  BY <1>2, <1>6
<1>8. Published(r)' \in u.honours
  BY <1>2, <1>4, <1>5, <1>7 DEF Published
<1>9. upstream[h].honours \ u.honours \subseteq {sent}
  BY <1>4
<1>10. u.minted >= upstream[h].minted
  BY <1>2, <1>3, <1>4, Parameters
<1>11. Successor(r, w)
  BY <1>2, <1>5 DEF Successor
<1>12. upstream' = [upstream EXCEPT ![h] = u]
  BY <1>1 DEF u
<1>13. UNCHANGED <<now, registry, pool, caller>> /\ stopping' \in BOOLEAN
  BY Unmoved DEF EndpointAnswers
<1> HIDE DEF sent
<1> QED
  BY <1>2, <1>4, <1>5, <1>6, <1>8, <1>9, <1>10, <1>11, <1>12, <1>13, <1>14, OnlyEndpoint DEF sent

LEMMA EndpointFailsInv ==
  ASSUME Inv, NEW r \in Runner, EndpointFails(r)
  PROVE  Inv'
<1> DEFINE h == runner[r].acct
           sent == runner[r].family.refresh
           w == IF runner[r].call < Calls THEN [runner[r] EXCEPT !.call = runner[r].call + 1]
                ELSE [runner[r] EXCEPT !.pc = "floor"]
<1>1. /\ h \in Account /\ runner[r] \in RunnerType /\ runner \in [Runner -> RunnerType]
      /\ upstream[h].minted \in Nat /\ runner[r].pc = "call" /\ runner[r].call \in 1 .. Calls
  BY RunnerFields, UpstreamFields, Parameters DEF Inv, TypeOK, EndpointFails
<1>2. /\ w \in RunnerType /\ w.pc \in {"call", "floor"} /\ w.acct = h /\ w.family = runner[r].family
  <2>1. CASE runner[r].call < Calls
    <3>1. runner[r].call + 1 \in 1 .. Calls
      BY <1>1, <2>1, ParametersAssumption
    <3>2. w = [runner[r] EXCEPT !.call = runner[r].call + 1]
      BY <2>1
    <3> QED
      BY <1>1, <3>1, <3>2 DEF RunnerType
  <2>2. CASE ~(runner[r].call < Calls)
    <3>1. w = [runner[r] EXCEPT !.pc = "floor"]
      BY <2>2
    <3> QED
      BY <1>1, <3>1 DEF RunnerType
  <2> QED
    BY <2>1, <2>2
<1>3. runner' = [runner EXCEPT ![r] = w]
  BY <1>1 DEF EndpointFails
<1> HIDE DEF w
<1>4. Successor(r, w)
  BY <1>1, <1>2 DEF Successor
<1>5. UNCHANGED <<now, registry, pool, caller>> /\ stopping' \in BOOLEAN
  BY Unmoved DEF EndpointFails
<1>6. CASE UNCHANGED upstream
  <2>1. Agrees(w)
    BY <1>1, <1>2 DEF Agrees, Inv, CarriesPooled, Carries, CarriesHonoured
  <2> QED
    BY <1>1, <1>2, <1>3, <1>4, <1>5, <1>6, <2>1, OnlyRunner
<1>7. CASE /\ upstream[h].minted < MaxVersion
           /\ upstream' = [upstream EXCEPT ![h] = [Exchanged(h, sent, TRUE) EXCEPT !.lost = TRUE]]
  <2> DEFINE e == Exchanged(h, sent, TRUE)
             u == [e EXCEPT !.lost = TRUE]
  <2>1. e \in UpstreamType /\ e.minted = upstream[h].minted + 1 /\ \A x \in e.honours : x <= e.minted
    BY <1>1, <1>7, ExchangedType, ExchangedMinted
  <2> HIDE DEF e
  <2>2. /\ u \in UpstreamType /\ u.lost /\ u.minted = upstream[h].minted + 1
        /\ \A x \in u.honours : x <= u.minted
    BY <2>1 DEF UpstreamType
  <2>3. upstream' = [upstream EXCEPT ![h] = u]
    BY <1>7 DEF e
  <2> HIDE DEF u
  <2>4. u.minted >= upstream[h].minted
    BY <1>1, <2>2
  <2> HIDE DEF h
  <2>5. upstream' = [upstream EXCEPT ![runner[r].acct] = u] /\ u.minted >= upstream[runner[r].acct].minted
    BY <2>3, <2>4 DEF h
  <2> QED
    BY <1>1, <1>2, <1>3, <1>4, <1>5, <2>2, <2>5, OnlyEndpoint
<1> QED
  BY <1>6, <1>7 DEF EndpointFails

---------------------------------------------------------------------------
(* The guarded writes. *)

\* The two outcomes of a guarded write that leave the pool alone: it is
\* discarded, or it fails, which stops the server and loses what only the
\* runner had.
Discards(r) ==
  /\ ~Unchanged(runner[r].acct, runner[r].family.refresh)
  /\ RunnerDecides(r, Ready) /\ UNCHANGED <<pool, upstream, stopping>>
WriteFails(r) ==
  /\ Unchanged(runner[r].acct, runner[r].family.refresh) /\ stopping' = TRUE
  /\ upstream' = [upstream EXCEPT ![runner[r].acct].lost = @ \/ runner[r].pc = "publish"]
  /\ RunnerDecides(r, WaitUntil(now + TransientFloor)) /\ UNCHANGED pool

LEMMA NotWrittenInv ==
  ASSUME Inv, NEW r \in Runner, runner[r].pc \in {"publish", "error", "floor"},
         Discards(r) \/ WriteFails(r), UNCHANGED <<now, registry, caller>>
  PROVE  Inv'
<1> DEFINE h == runner[r].acct
           sent == runner[r].family.refresh
           late == WaitUntil(now + TransientFloor)
<1>1. CASE Discards(r)
  <2>1. PICK w : Successor(r, w) /\ Agrees(w) /\ w.pc = "finish" /\ runner' = [runner EXCEPT ![r] = w]
    BY <1>1, DecidesIs, OutcomeTypes DEF Discards
  <2>2. stopping' \in BOOLEAN
    BY <1>1, Unmoved DEF Discards
  <2> QED
    BY <1>1, <2>1, <2>2, OnlyRunner DEF Discards
<1>2. CASE WriteFails(r)
  <2>1. late \in OutcomeType /\ late.is # "undecided"
    BY OutcomeTypes, Unmoved, Parameters
  <2>2. PICK w : Successor(r, w) /\ Agrees(w) /\ w.pc = "finish" /\ runner' = [runner EXCEPT ![r] = w]
    BY <1>2, <2>1, DecidesIs DEF WriteFails, late
  <2>3. UNCHANGED <<now, registry, caller, pool>> /\ stopping' \in BOOLEAN
    BY <1>2 DEF WriteFails
  <2> HIDE DEF late
  <2> DEFINE lost == upstream[h].lost \/ runner[r].pc = "publish"
             u == [upstream[h] EXCEPT !.lost = lost]
  <2>4. /\ h \in Account /\ upstream[h] \in UpstreamType /\ upstream[h].lost \in BOOLEAN
        /\ upstream \in [Account -> UpstreamType] /\ upstream[h].minted \in Nat
    BY RunnerFields, UpstreamFields, Parameters DEF Inv, TypeOK
  <2>5. lost \in BOOLEAN
    OBVIOUS
  <2>6. upstream' = [upstream EXCEPT ![h] = u]
    BY <1>2, <2>4 DEF WriteFails
  <2>7. CASE runner[r].pc = "publish"
    <3>1. lost = TRUE
      BY <2>7
    <3> HIDE DEF lost
    <3>2. /\ u \in UpstreamType /\ u.lost /\ u.minted = upstream[h].minted
          /\ u.honours = upstream[h].honours
      BY <2>4, <3>1 DEF UpstreamType
    <3> HIDE DEF u
    <3>3. u.minted >= upstream[h].minted /\ \A x \in u.honours : x <= u.minted
      BY <2>4, <3>2 DEF Inv, Minted
    <3> QED
      BY <2>2, <2>3, <2>6, <2>7, <3>2, <3>3, OnlyEndpoint
  <2>8. CASE runner[r].pc # "publish"
    <3>1. lost = upstream[h].lost
      BY <2>4, <2>8
    <3> HIDE DEF lost
    <3>2. u = upstream[h]
      BY <2>4, <3>1 DEF UpstreamType
    <3> HIDE DEF u
    <3>3. UNCHANGED upstream
      BY <2>4, <2>6, <3>2
    <3> QED
      BY <2>2, <2>3, <2>8, <3>3, OnlyRunner
  <2> QED
    BY <2>7, <2>8
<1> QED
  BY <1>1, <1>2

\* A write that is made: r decides, and nobody else works on the account.
LEMMA OnlyPool ==
  ASSUME Inv, NEW r \in Runner, NEW w, Successor(r, w), w.pc = "finish", NEW a \in PoolType,
         runner' = [runner EXCEPT ![r] = w], pool' = [pool EXCEPT ![runner[r].acct] = a],
         a.family.refresh <= upstream[runner[r].acct].minted,
         a.present => pool[runner[r].acct].present,
         \/ a.family.refresh \in upstream[runner[r].acct].honours
         \/ a.family.refresh = pool[runner[r].acct].family.refresh /\ runner[r].pc # "publish",
         UNCHANGED <<now, registry, caller, upstream, stopping>>
  PROVE  Inv'
<1> DEFINE h == runner[r].acct
<1>1. /\ runner' \in [Runner -> RunnerType] /\ runner'[r] = w
      /\ \A q \in Runner \ {r} : runner'[q] = runner[q]
      /\ SingleFlight' /\ Decided'
  BY RunnerMoves
<1>2. h \in Account /\ pool \in [Account -> PoolType]
  BY RunnerFields DEF Inv, TypeOK
<1>3. /\ pool' \in [Account -> PoolType] /\ pool'[h] = a
      /\ \A g \in Account \ {h} : pool'[g] = pool[g]
  BY <1>2
<1>4. \A q \in Runner : q # r /\ runner[q].pc # "idle" => runner[q].acct # h /\ runner[q].acct \in Account
  BY <1>2, RunnerFields DEF Inv, SingleFlight, Active, Successor
<1>5. TypeOK'
  BY <1>1, <1>3 DEF Inv, TypeOK
<1>6. CarriesPooled'
  <2> SUFFICES ASSUME NEW q \in Runner, Carries(q)'
               PROVE  LET f == runner'[q].family
                          g == runner'[q].acct
                      IN  /\ f.refresh <= upstream[g].minted
                          /\ pool'[g].family.refresh = f.refresh /\ f.refresh # None
                               => pool'[g].family.token = f.token
    BY DEF CarriesPooled
  <2>1. q # r
    BY <1>1 DEF Carries
  <2> QED
    BY <1>1, <1>3, <1>4, <2>1 DEF Inv, CarriesPooled, Carries
<1>7. CarriesHonoured'
  <2> SUFFICES ASSUME NEW q \in Runner
               PROVE  /\ runner'[q].pc \in {"call", "publish", "floor"} => runner'[q].family.refresh # None
                      /\ runner'[q].pc = "publish" => Published(q)' \in upstream[runner'[q].acct].honours
    BY DEF CarriesHonoured
  <2>1. CASE q = r
    BY <1>1, <2>1
  <2>2. CASE q # r
    BY <1>1, <2>2 DEF Inv, CarriesHonoured, Published
  <2> QED
    BY <2>1, <2>2
<1>8. Minted'
  BY <1>3 DEF Inv, Minted
<1>9. Honoured'
  <2> SUFFICES ASSUME NEW g \in Account, pool'[g].present, ~upstream[g].lost,
                      pool'[g].family.refresh # None, pool'[g].family.refresh \notin upstream[g].honours
               PROVE  \E q \in Runner : /\ Active(q, g)' /\ runner'[q].pc = "publish"
                                        /\ runner'[q].family.refresh = pool'[g].family.refresh
    BY DEF Honoured
  <2>1. CASE g # h
    <3>1. PICK q \in Runner : /\ Active(q, g) /\ runner[q].pc = "publish"
                              /\ runner[q].family.refresh = pool[g].family.refresh
      BY <1>3, <2>1 DEF Inv, Honoured
    <3>2. q # r
      BY <2>1, <3>1 DEF Active
    <3> QED
      BY <1>1, <1>3, <2>1, <3>1, <3>2 DEF Active
  <2>2. CASE g = h
    <3>1. a.family.refresh = pool[h].family.refresh /\ runner[r].pc # "publish" /\ pool[h].present
      BY <1>3, <2>2
    <3>2. PICK q \in Runner : Active(q, h) /\ runner[q].pc = "publish"
      BY <1>2, <1>3, <2>2, <3>1 DEF Inv, Honoured
    <3> QED
      BY <1>4, <3>1, <3>2 DEF Active
  <2> QED
    BY <2>1, <2>2
<1> QED
  BY <1>1, <1>5, <1>6, <1>7, <1>8, <1>9 DEF Inv

\* The three outcomes of a guarded write.
LEMMA GuardedWriteInv ==
  ASSUME Inv, NEW r \in Runner, NEW a \in PoolType, NEW o \in OutcomeType, o.is # "undecided",
         GuardedWrite(r, a, o), runner[r].pc \in {"publish", "error", "floor"},
         a.family.refresh <= upstream[runner[r].acct].minted,
         a.present => pool[runner[r].acct].present,
         \/ a.family.refresh \in upstream[runner[r].acct].honours
         \/ a.family.refresh = pool[runner[r].acct].family.refresh /\ runner[r].pc # "publish"
  PROVE  Inv'
<1>1. UNCHANGED <<now, registry, caller>>
  BY DEF GuardedWrite
<1>2. CASE Discards(r) \/ WriteFails(r)
  BY <1>1, <1>2, NotWrittenInv
<1>3. CASE /\ pool' = [pool EXCEPT ![runner[r].acct] = a] /\ RunnerDecides(r, o)
           /\ UNCHANGED <<upstream, stopping>>
  <2>1. PICK w : Successor(r, w) /\ Agrees(w) /\ w.pc = "finish" /\ runner' = [runner EXCEPT ![r] = w]
    BY <1>3, DecidesIs
  <2> QED
    BY <1>1, <1>3, <2>1, OnlyPool
<1> QED
  BY <1>2, <1>3 DEF GuardedWrite, Discards, WriteFails

LEMMA PublishFamilyInv ==
  ASSUME Inv, NEW r \in Runner, PublishFamily(r)
  PROVE  Inv'
<1> DEFINE h == runner[r].acct
           f == ReplacedBy(runner[r].family, runner[r].fresh, runner[r].rotates, now)
           a == [pool[h] EXCEPT !.family = f]
<1>1. /\ h \in Account /\ pool[h] \in PoolType /\ runner[r].pc = "publish"
      /\ runner[r].family.refresh \in Version \cup {None} /\ runner[r].fresh \in Version
      /\ now \in Nat /\ now + Lifetime \in Nat /\ runner[r].rotates \in BOOLEAN
  BY RunnerFields, PoolFields, Unmoved, Parameters DEF Inv, PublishFamily
<1>2. f.refresh = Published(r) /\ f \in Family
  BY <1>1 DEF ReplacedBy, Published, Family
<1>3. GuardedWrite(r, a, Ready)
  BY DEF PublishFamily
<1> HIDE DEF f
<1>4. a \in PoolType /\ a.family = f /\ a.present = pool[h].present
  BY <1>1, <1>2 DEF PoolType
<1>5. Published(r) \in upstream[h].honours
  BY <1>1 DEF Inv, CarriesHonoured
<1>6. Published(r) <= upstream[h].minted
  BY <1>1, <1>5 DEF Inv, Minted
<1> HIDE DEF a
<1> QED
  BY <1>1, <1>2, <1>3, <1>4, <1>5, <1>6, GuardedWriteInv, OutcomeTypes

LEMMA PersistErroredInv ==
  ASSUME Inv, NEW r \in Runner, PersistErrored(r)
  PROVE  Inv'
<1> DEFINE h == runner[r].acct
           e == IF runner[r].family.refresh = None THEN "norefresh" ELSE "rejected"
           a == [pool[h] EXCEPT !.errored = e]
<1>1. h \in Account /\ pool[h] \in PoolType /\ runner[r].pc = "error"
  BY RunnerFields, PoolFields DEF Inv, PersistErrored
<1>2. GuardedWrite(r, a, Errored)
  BY DEF PersistErrored
<1>3. e \in {"no", "rejected", "norefresh", "refused"}
  OBVIOUS
<1> HIDE DEF e
<1>4. a \in PoolType /\ a.family = pool[h].family /\ a.present = pool[h].present
  BY <1>1, <1>3 DEF PoolType
<1>5. pool[h].family.refresh <= upstream[h].minted
  BY <1>1 DEF Inv, Minted
<1> HIDE DEF a
<1> QED
  BY <1>1, <1>2, <1>4, <1>5, GuardedWriteInv, OutcomeTypes

LEMMA SetFloorInv ==
  ASSUME Inv, NEW r \in Runner, SetFloor(r)
  PROVE  Inv'
<1> DEFINE h == runner[r].acct
           f == [pool[h].family EXCEPT !.notBefore = now + TransientFloor]
           a == [pool[h] EXCEPT !.family = f]
           o == IF IsExpired(runner[r].family, now) THEN WaitUntil(now + TransientFloor) ELSE Ready
<1>1. /\ h \in Account /\ pool[h] \in PoolType /\ pool[h].family \in Family /\ runner[r].pc = "floor"
      /\ now + TransientFloor \in Nat
  BY RunnerFields, PoolFields, Unmoved, Parameters DEF Inv, SetFloor
<1>2. o \in OutcomeType /\ o.is # "undecided"
  BY <1>1, OutcomeTypes
<1>3. [pool[h] EXCEPT !.family.notBefore = now + TransientFloor] = a
  BY <1>1 DEF PoolType
<1>4. GuardedWrite(r, a, o)
  BY <1>3 DEF SetFloor
<1>5. f \in Family /\ f.refresh = pool[h].family.refresh
  BY <1>1 DEF Family
<1> HIDE DEF f, o
<1>6. a \in PoolType /\ a.family = f /\ a.present = pool[h].present
  BY <1>1, <1>5 DEF PoolType
<1>7. pool[h].family.refresh <= upstream[h].minted
  BY <1>1 DEF Inv, Minted
<1> HIDE DEF a
<1> QED
  BY <1>1, <1>2, <1>4, <1>5, <1>6, <1>7, GuardedWriteInv

---------------------------------------------------------------------------
(* The registry: an operation starts when none is there, is published, and leaves. *)

LEMMA PublishInv ==
  ASSUME Inv, NEW r \in Runner, Publish(r)
  PROVE  Inv'
<1> DEFINE h == runner[r].acct
           o == runner[r].outcome
           w == [runner[r] EXCEPT !.pc = "unregister"]
           e == [is |-> "published", outcome |-> o]
<1>1. /\ h \in Account /\ runner[r] \in RunnerType /\ runner \in [Runner -> RunnerType]
      /\ runner[r].pc = "finish" /\ o \in OutcomeType /\ registry \in [Account -> RegistryType]
  BY RunnerFields DEF Inv, TypeOK, Publish
<1>2. o.is # "undecided"
  BY <1>1 DEF Inv, Decided
<1>3. w \in RunnerType /\ w.pc = "unregister" /\ w.acct = h
  BY <1>1 DEF RunnerType
<1>4. runner' = [runner EXCEPT ![r] = w]
  BY <1>1 DEF Publish, RunnerSteps
<1>5. e \in RegistryType /\ e.is = "published" /\ e.outcome = o
  BY <1>1 DEF RegistryType
<1>6. registry' = [registry EXCEPT ![h] = e]
  BY DEF Publish
<1>7. caller' \in [Caller -> CallerType]
  <2>1. \A c \in Caller : caller[c] \in CallerType /\ Continued(caller[c], o) \in CallerType
    BY <1>1, <1>2, CallerFields, ContinuedType DEF Inv
  <2>2. caller' = [c \in Caller |-> IF caller[c].pc = "await" /\ caller[c].acct = h
                                      THEN Continued(caller[c], o) ELSE caller[c]]
    BY DEF Publish
  <2> QED
    BY <2>1, <2>2
<1> HIDE DEF e, w, o
<1>8. Successor(r, w)
  BY <1>1, <1>3 DEF Successor
<1>9. /\ runner' \in [Runner -> RunnerType] /\ runner'[r] = w
      /\ \A q \in Runner \ {r} : runner'[q] = runner[q]
  BY <1>4, <1>8, RunnerMoves
<1>10. /\ registry' \in [Account -> RegistryType] /\ registry'[h] = e
       /\ \A g \in Account \ {h} : registry'[g] = registry[g]
  BY <1>1, <1>5, <1>6
<1>11. UNCHANGED <<now, pool, upstream, stopping>>
  BY DEF Publish
<1>12. TypeOK'
  BY <1>7, <1>9, <1>10, <1>11 DEF Inv, TypeOK
<1>13. SingleFlight'
  <2>1. \A q \in Runner : \A g \in Account : Active(q, g)' <=> Active(q, g)
    BY <1>1, <1>3, <1>9 DEF Active
  <2> QED
    BY <1>5, <1>10, <2>1 DEF Inv, SingleFlight
<1>14. Decided'
  BY <1>2, <1>3, <1>5, <1>9, <1>10 DEF Inv, Decided
<1>15. CarriesPooled' /\ CarriesHonoured' /\ Minted'
  <2>1. \A q \in Runner : runner'[q].pc \in {"call", "publish", "error", "floor"} => runner'[q] = runner[q]
    BY <1>3, <1>9
  <2> QED
    BY <1>11, <2>1 DEF Inv, CarriesPooled, Carries, CarriesHonoured, Published, Minted
<1>16. Honoured'
  <2>1. \A q \in Runner : \A g \in Account : Active(q, g) /\ runner[q].pc = "publish"
                                               => Active(q, g)' /\ runner'[q] = runner[q]
    BY <1>1, <1>9 DEF Active
  <2> QED
    BY <1>11, <2>1 DEF Inv, Honoured
<1> QED
  BY <1>12, <1>13, <1>14, <1>15, <1>16 DEF Inv

LEMMA UnregisterInv ==
  ASSUME Inv, NEW r \in Runner, Unregister(r)
  PROVE  Inv'
<1> DEFINE h == runner[r].acct
           w == IdleRunner(h)
           e == [is |-> "free", outcome |-> Undecided]
<1>1. /\ h \in Account /\ runner \in [Runner -> RunnerType] /\ runner[r].pc = "unregister"
      /\ registry \in [Account -> RegistryType]
  BY RunnerFields DEF Inv, TypeOK, Unregister
<1>2. w \in RunnerType /\ w.pc = "idle" /\ w.acct = h
  BY <1>1, IdleRunnerType
<1>3. e \in RegistryType /\ e.is = "free"
  BY OutcomeTypes DEF RegistryType
<1>4. runner' = [runner EXCEPT ![r] = w] /\ registry' = [registry EXCEPT ![h] = e]
  BY DEF Unregister
<1> HIDE DEF e, w
<1>5. /\ runner' \in [Runner -> RunnerType] /\ runner'[r] = w
      /\ \A q \in Runner \ {r} : runner'[q] = runner[q]
      /\ registry' \in [Account -> RegistryType] /\ registry'[h] = e
      /\ \A g \in Account \ {h} : registry'[g] = registry[g]
  BY <1>1, <1>2, <1>3, <1>4
<1>6. UNCHANGED <<now, pool, caller, upstream, stopping>>
  BY DEF Unregister
<1>7. TypeOK'
  BY <1>5, <1>6 DEF Inv, TypeOK
<1>8. \A q \in Runner : \A g \in Account : Active(q, g)' => q # r /\ Active(q, g) /\ g # h
  <2> SUFFICES ASSUME NEW q \in Runner, NEW g \in Account, Active(q, g)'
               PROVE  q # r /\ Active(q, g) /\ g # h
    OBVIOUS
  <2>1. q # r /\ Active(q, g)
    BY <1>2, <1>5 DEF Active
  <2>2. Active(r, h)
    BY <1>1 DEF Active
  <2> QED
    BY <1>1, <2>1, <2>2 DEF Inv, SingleFlight
<1>9. SingleFlight'
  <2>1. ASSUME NEW q \in Runner, NEW p \in Runner, NEW g \in Account, Active(q, g)', Active(p, g)'
        PROVE  q = p
    BY <1>8, <2>1 DEF Inv, SingleFlight
  <2>2. ASSUME NEW q \in Runner, NEW g \in Account, Active(q, g)'
        PROVE  registry'[g].is # "free"
    <3>1. Active(q, g) /\ g # h
      BY <1>8, <2>2
    <3>2. registry[g].is # "free"
      BY <3>1 DEF Inv, SingleFlight
    <3> QED
      BY <1>5, <3>1, <3>2
  <2> QED
    BY <2>1, <2>2 DEF SingleFlight
<1>10. Decided'
  BY <1>2, <1>3, <1>5 DEF Inv, Decided
<1>11. CarriesPooled' /\ CarriesHonoured' /\ Minted'
  <2>1. \A q \in Runner : runner'[q].pc \in {"call", "publish", "error", "floor"} => runner'[q] = runner[q]
    BY <1>2, <1>5
  <2> QED
    BY <1>6, <2>1 DEF Inv, CarriesPooled, Carries, CarriesHonoured, Published, Minted
<1>12. Honoured'
  <2>1. \A q \in Runner : \A g \in Account : Active(q, g) /\ runner[q].pc = "publish"
                                               => Active(q, g)' /\ runner'[q] = runner[q]
    BY <1>1, <1>5 DEF Active
  <2> QED
    BY <1>6, <2>1 DEF Inv, Honoured
<1> QED
  BY <1>7, <1>9, <1>10, <1>11, <1>12 DEF Inv

LEMMA JoinOrStartInv ==
  ASSUME Inv, NEW c \in Caller, JoinOrStart(c)
  PROVE  Inv'
<1> DEFINE h == caller[c].acct
<1>1. /\ h \in Account /\ registry \in [Account -> RegistryType] /\ runner \in [Runner -> RunnerType]
      /\ caller[c].trigger \in Trigger /\ caller \in [Caller -> CallerType]
  BY CallerFields DEF Inv, TypeOK
<1>2. UNCHANGED <<now, pool, upstream, stopping>>
  BY DEF JoinOrStart
<1>3. CallerSteps(c, "await") => caller' \in [Caller -> CallerType]
  BY CallerStepsType DEF Inv, CallerPlaces
<1>4. CASE CallerSteps(c, "await") /\ UNCHANGED <<registry, runner>>
  BY <1>2, <1>3, <1>4, OnlyCallers, Unmoved
<1>5. CASE /\ registry[h].is = "published"
           /\ caller' = [caller EXCEPT ![c] = Continued(@, registry[h].outcome)]
           /\ UNCHANGED <<registry, runner>>
  <2>1. registry[h].outcome \in OutcomeType /\ registry[h].outcome.is # "undecided"
    BY <1>1, <1>5 DEF RegistryType, Inv, Decided
  <2>2. Continued(caller[c], registry[h].outcome) \in CallerType
    BY <2>1, ContinuedType DEF Inv
  <2>3. caller' \in [Caller -> CallerType]
    BY <1>1, <1>5, <2>2
  <2> QED
    BY <1>2, <1>5, <2>3, OnlyCallers, Unmoved
<1>6. CASE /\ registry[h].is = "free" /\ CallerSteps(c, "await")
           /\ registry' = [registry EXCEPT ![h].is = "running"]
           /\ \E r \in Runner :
                /\ runner[r].pc = "idle"
                /\ runner' = [runner EXCEPT ![r] = [IdleRunner(h) EXCEPT !.pc = "check",
                                                      !.trigger = caller[c].trigger]]
  <2> DEFINE w == Started(h, caller[c].trigger)
             e == [registry[h] EXCEPT !.is = "running"]
  <2>1. PICK r \in Runner : runner[r].pc = "idle" /\ runner' = [runner EXCEPT ![r] = w]
    BY <1>6 DEF Started
  <2>2. w \in RunnerType /\ w.pc = "check" /\ w.acct = h
    BY <1>1, IdleRunnerType
  <2>3. e \in RegistryType /\ e.is = "running"
    BY <1>1 DEF RegistryType
  <2>4. registry' = [registry EXCEPT ![h] = e]
    BY <1>1, <1>6
  <2> HIDE DEF e, w
  <2>5. /\ runner' \in [Runner -> RunnerType] /\ runner'[r] = w
        /\ \A q \in Runner \ {r} : runner'[q] = runner[q]
        /\ registry' \in [Account -> RegistryType] /\ registry'[h] = e
        /\ \A g \in Account \ {h} : registry'[g] = registry[g]
    BY <1>1, <2>1, <2>2, <2>3, <2>4
  <2>6. TypeOK'
    BY <1>2, <1>3, <1>6, <2>5 DEF Inv, TypeOK
  <2>7. \A q \in Runner : ~Active(q, h)
    BY <1>1, <1>6 DEF Inv, SingleFlight
  <2>8. \A q \in Runner : \A g \in Account : Active(q, g)' => \/ q = r /\ g = h
                                                              \/ q # r /\ g # h /\ Active(q, g)
    BY <2>2, <2>5, <2>7 DEF Active
  <2>9. SingleFlight'
    <3>1. ASSUME NEW q \in Runner, NEW p \in Runner, NEW g \in Account, Active(q, g)', Active(p, g)'
          PROVE  q = p
      BY <2>8, <3>1 DEF Inv, SingleFlight
    <3>2. ASSUME NEW q \in Runner, NEW g \in Account, Active(q, g)'
          PROVE  registry'[g].is # "free"
      <4>1. CASE g = h
        BY <2>3, <2>5, <4>1
      <4>2. CASE g # h
        BY <2>5, <2>8, <3>2, <4>2 DEF Inv, SingleFlight
      <4> QED
        BY <4>1, <4>2
    <3> QED
      BY <3>1, <3>2 DEF SingleFlight
  <2>10. Decided'
    BY <2>2, <2>3, <2>5 DEF Inv, Decided
  <2>11. CarriesPooled' /\ CarriesHonoured' /\ Minted'
    <3>1. \A q \in Runner : runner'[q].pc \in {"call", "publish", "error", "floor"} => runner'[q] = runner[q]
      BY <2>2, <2>5
    <3> QED
      BY <1>2, <3>1 DEF Inv, CarriesPooled, Carries, CarriesHonoured, Published, Minted
  <2>12. Honoured'
    <3>1. \A q \in Runner : \A g \in Account : Active(q, g) /\ runner[q].pc = "publish"
                                                 => Active(q, g)' /\ runner'[q] = runner[q]
      BY <2>1, <2>5 DEF Active
    <3> QED
      BY <1>2, <3>1 DEF Inv, Honoured
  <2> QED
    BY <2>6, <2>9, <2>10, <2>11, <2>12 DEF Inv
<1> QED
  BY <1>4, <1>5, <1>6 DEF JoinOrStart

---------------------------------------------------------------------------
(* The theorems. *)

LEMMA InitInv == ASSUME Init PROVE Inv
<1>1. /\ \A h \in Account : \E f \in NewFamilies(0, 0) :
           pool[h] = [present |-> TRUE, family |-> f, errored |-> "no"]
      /\ pool = [h \in Account |-> pool[h]]
  BY DEF Init
<1>2. ASSUME NEW f \in NewFamilies(0, 0) PROVE f \in Family /\ f.refresh \in {0, None}
  <2>1. PICK r \in {0, None}, left \in 1 .. Lifetime :
          f = [token |-> 0, refresh |-> r, expires |-> 0 + left, success |-> None, notBefore |-> None]
    BY <1>2 DEF NewFamilies
  <2>2. 0 + left \in Nat
    BY <2>1, Parameters
  <2> QED
    BY <2>1, <2>2, Parameters DEF Family
<1>3. ASSUME NEW h \in Account
      PROVE  pool[h] \in PoolType /\ pool[h].family.refresh \in {0, None}
  <2>1. PICK f \in NewFamilies(0, 0) : pool[h] = [present |-> TRUE, family |-> f, errored |-> "no"]
    BY <1>1
  <2>2. f \in Family /\ f.refresh \in {0, None}
    BY <1>2
  <2> QED
    BY <2>1, <2>2 DEF PoolType
<1>4. pool \in [Account -> PoolType]
  BY <1>1, <1>3
<1>5. registry \in [Account -> RegistryType] /\ \A h \in Account : registry[h].is = "free"
  BY OutcomeTypes DEF Init, RegistryType
<1>6. runner \in [Runner -> RunnerType] /\ \A r \in Runner : runner[r].pc = "idle"
  BY IdleRunnerType DEF Init
<1>7. caller \in [Caller -> CallerType]
  <2>1. \A h \in Account : \A t \in {"startup", "proactive"} : FreshCaller(h, t, "ensure") \in CallerType
    BY FreshCallerType DEF Trigger, CallerPlaces
  <2> QED
    BY <2>1 DEF Init
<1>8. /\ upstream \in [Account -> UpstreamType]
      /\ \A h \in Account : upstream[h].honours = {0} /\ upstream[h].minted = 0
  BY Parameters DEF Init, UpstreamType
<1>9. TypeOK
  BY <1>4, <1>5, <1>6, <1>7, <1>8, Parameters DEF TypeOK, Init
<1>10. SingleFlight /\ Decided /\ CarriesPooled /\ CarriesHonoured
  BY <1>5, <1>6 DEF SingleFlight, Active, Decided, CarriesPooled, Carries, CarriesHonoured
<1>11. Minted
  BY <1>3, <1>8 DEF Minted, None
<1>12. Honoured
  BY <1>3, <1>8 DEF Honoured
<1> QED
  BY <1>9, <1>10, <1>11, <1>12 DEF Inv

LEMMA StepInv == ASSUME Inv, [Next]_vars PROVE Inv'
<1>1. CASE UNCHANGED vars
  BY <1>1, OnlyCallers, Unmoved DEF vars
<1>2. CASE Tick
  BY <1>2, TickInv
<1>3. ASSUME NEW c \in Caller, CallerNext(c) \/ Leave(c) PROVE Inv'
  BY <1>3, EnsureInv, JoinOrStartInv, SitOutInv, InjectInv, AnswerInv, RefuseErrorsInv, LeaveInv
     DEF CallerNext
<1>4. ASSUME NEW r \in Runner, RunnerNext(r) PROVE Inv'
  BY <1>4, RecheckInv, ReadFamilyInv, EndpointAnswersInv, EndpointRejectsInv, EndpointFailsInv,
     PublishFamilyInv, PersistErroredInv, SetFloorInv, PublishInv, UnregisterInv
     DEF RunnerNext
<1>5. ASSUME NEW h \in Account, Environment(h) PROVE Inv'
  BY <1>5, ReplaceInv, EnableInv, RemoveInv, RevokeTokenInv DEF Environment
<1> QED
  BY <1>1, <1>2, <1>3, <1>4, <1>5 DEF Next

\* Refreshes are coherent: one operation per account (Refreshes::operations),
\* what a runner carries is the pool's family or an older one, and a spent
\* refresh token is replaced by the runner that spent it.
THEOREM RefreshesCoherent == Spec => []Inv
<1>1. Init => Inv
  BY InitInv
<1>2. Inv /\ [Next]_vars => Inv'
  BY StepInv
<1> QED
  BY <1>1, <1>2, PTL DEF Spec

\* Every variable of the refresh engine keeps its type.
THEOREM TypeCorrect == Spec => []TypeOK
<1>1. Inv => TypeOK
  BY DEF Inv
<1> QED
  BY <1>1, RefreshesCoherent, PTL

\* The pool never strands an account on a spent token while nothing was lost on
\* the way and no refresh is between the endpoint and the pool (publish_family,
\* replace_family).
THEOREM FamiliesNotStranded == Spec => []NoStrandedFamily
<1>1. Inv => NoStrandedFamily
  <2> SUFFICES ASSUME Inv, NEW h \in Account, pool[h].present, ~upstream[h].lost,
                      pool[h].family.refresh # None
               PROVE  \/ pool[h].family.refresh \in upstream[h].honours
                      \/ \E r \in Runner : Active(r, h) /\ runner[r].pc = "publish"
    BY DEF NoStrandedFamily
  <2> QED
    BY DEF Inv, Honoured
<1> QED
  BY <1>1, RefreshesCoherent, PTL

\* A runner writes only over the family it read: a credential the operator
\* installed meanwhile is left alone (Stale::FamilyReplaced).
THEOREM InstalledStays == Spec => InstalledWins
<1>1. Inv /\ [Next]_vars => InstalledWinsStep
  <2> SUFFICES ASSUME Inv, [Next]_vars, NEW r \in Runner,
                      runner[r].pc \in {"publish", "error", "floor"}, runner'[r].pc = "finish",
                      runner[r].family.refresh # None,
                      pool'[runner[r].acct] # pool[runner[r].acct]
               PROVE  runner[r].family.token = pool[runner[r].acct].family.token
    BY DEF InstalledWinsStep
  <2>1. runner' # runner /\ pool' # pool
    OBVIOUS
  <2>2. ASSUME NEW q \in Runner, RunnerNext(q)
        PROVE  q = r /\ Unchanged(runner[r].acct, runner[r].family.refresh)
    <3>1. runner \in [Runner -> RunnerType]
      BY DEF Inv, TypeOK
    <3>2. PICK a, o : GuardedWrite(q, a, o)
      BY <2>1, <2>2 DEF RunnerNext, Recheck, ReadFamily, EndpointAnswers, EndpointRejects,
                        EndpointFails, PublishFamily, PersistErrored, SetFloor, Publish, Unregister
    <3>3. Unchanged(runner[q].acct, runner[q].family.refresh) /\ RunnerDecides(q, o)
      BY <2>1, <3>2 DEF GuardedWrite
    <3>4. q = r
      BY <2>1, <3>1, <3>3 DEF RunnerDecides
    <3> QED
      BY <3>3, <3>4
  <2>3. \E q \in Runner : RunnerNext(q)
    BY <2>1 DEF Next, vars, Tick, CallerNext, Ensure, JoinOrStart, SitOut, Inject, Answer, RefuseErrors,
                Leave, Environment, Replace, Enable, Remove, RevokeToken
  <2>4. pool[runner[r].acct].family.refresh = runner[r].family.refresh
    BY <2>2, <2>3 DEF Unchanged
  <2> QED
    BY <2>4 DEF Inv, CarriesPooled, Carries
<1>2. Inv /\ [Next]_vars => [InstalledWinsStep]_vars
  BY <1>1
<1> QED
  BY <1>2, RefreshesCoherent, PTL DEF Spec, InstalledWins
=============================================================================
