------------------------------ MODULE Refresh ------------------------------
(***************************************************************************)
(* OAuth token-family refreshes, from pool/refresh.rs, the guarded family  *)
(* writes of pool/mod.rs, the floors of pool/account.rs, and the part of   *)
(* data_plane/exchange.rs that drives them: refresh before an attempt,     *)
(* inject the credential, wait at admission, send, and on a 401 force one  *)
(* refresh and retry once.                                                 *)
(*                                                                         *)
(* Callers (exchanges, the startup refresh) share one operation per        *)
(* account: the first starts a detached runner, the rest join it and read  *)
(* its published outcome.  No lock is held over the call to the token      *)
(* endpoint, so the operator may replace or remove the account meanwhile.  *)
(*                                                                         *)
(* A credential is a version number; the endpoint honours a refresh token  *)
(* once and answers with the next version.                                 *)
(***************************************************************************)
EXTENDS Integers, FiniteSets

CONSTANTS
  Account,         \* account handles
  ApiKey,          \* those of kind api_key; the others are OAuth
  Caller,          \* exchanges and startup refreshes
  Runner,          \* spawned refresh tasks
  Lifetime,        \* expires_at of a fresh family, from its refresh
  Margin,          \* refresh_margin_seconds
  SuccessFloor,    \* 10 s after a success no forced refresh
  TransientFloor,  \* 30 s after three transient failures no refresh
  InlineWait,      \* longest floor remainder an exchange sits out
  Calls,           \* 3: calls of the token endpoint one refresh makes
  Horizon,         \* bound: the clock stops here
  MaxVersion       \* bound: credentials minted per account

None == -1
Time == 0 .. Horizon
Version == 0 .. MaxVersion
Trigger == {"startup", "proactive", "forced"}

ASSUME ParametersAssumption ==
  /\ ApiKey \subseteq Account
  /\ Lifetime \in Nat /\ Margin \in Nat /\ SuccessFloor \in Nat
  /\ TransientFloor \in Nat \ {0} /\ InlineWait \in Nat /\ Calls \in Nat \ {0}
  /\ Horizon \in Nat /\ MaxVersion \in Nat

VARIABLES
  now,       \* the wall clock
  pool,      \* what the pool holds of each account
  registry,  \* Refreshes.operations: the operation in flight on each account
  runner,    \* the spawned refresh tasks
  caller,    \* where each caller stands and what it carries
  upstream,  \* external: what the provider honours of each account's credentials
  stopping   \* request_stop was called

vars == <<now, pool, registry, runner, caller, upstream, stopping>>

---------------------------------------------------------------------------
(* Families and the rules that decide without a refresh. *)

Family == [token : Version, refresh : Version \cup {None}, expires : Nat,
           success : Nat \cup {None}, notBefore : Nat \cup {None}]

\* What a login or a state file brings: any remaining lifetime, perhaps no
\* refresh token, and no refresh history.
NewFamilies(v, n) ==
  {[token |-> v, refresh |-> r, expires |-> n + left, success |-> None, notBefore |-> None] :
     r \in {v, None}, left \in 1 .. Lifetime}

ExpiresWithin(f, m, n)  == f.expires <= n + m
IsExpired(f, n)         == f.expires <= n
InSuccessFloor(f, n)    == f.success # None /\ f.success <= n /\ n < f.success + SuccessFloor
InTransientFloor(f, n)  == f.notBefore > n

\* Mutant: the rotated refresh token is dropped.
ReplacedByKeeping(old, v, rotates, n) ==
  [token |-> v, refresh |-> old.refresh, expires |-> n + Lifetime, success |-> n, notBefore |-> None]

\* An answer without a refresh token keeps the one that was sent.
ReplacedBy(old, v, rotates, n) ==
  [token |-> v, refresh |-> IF rotates THEN v ELSE old.refresh,
   expires |-> n + Lifetime, success |-> n, notBefore |-> None]

NeedsRefresh(f, trigger, n) ==
  IF trigger = "forced" THEN ~InSuccessFloor(f, n) ELSE ExpiresWithin(f, Margin, n)

Ready == [is |-> "ready", until |-> 0]
Errored == [is |-> "errored", until |-> 0]
WaitUntil(u) == [is |-> "wait", until |-> u]
Undecided == [is |-> "undecided", until |-> 0]
OutcomeType == [is : {"ready", "errored", "wait", "undecided"}, until : Nat]

WithoutRefresh(h, trigger, n) ==
  LET a == pool[h]
      f == a.family
  IN  CASE ~a.present -> Ready
        [] a.present /\ a.errored # "no" -> Errored
        [] a.present /\ a.errored = "no" /\ h \in ApiKey -> Ready
        [] a.present /\ a.errored = "no" /\ h \notin ApiKey ->
             IF ~NeedsRefresh(f, trigger, n) THEN Ready
             ELSE IF ~InTransientFloor(f, n) THEN Undecided
             ELSE IF trigger = "forced" \/ IsExpired(f, n) THEN WaitUntil(f.notBefore)
             ELSE Ready

---------------------------------------------------------------------------
(* State. *)

PoolType == [present : BOOLEAN, family : Family,
             errored : {"no", "rejected", "norefresh", "refused"}]

RegistryType == [is : {"free", "running", "published"}, outcome : OutcomeType]

RunnerType ==
  [pc : {"idle", "check", "read", "call", "publish", "error", "floor", "finish", "unregister"},
   acct : Account, trigger : Trigger, at : Time, family : Family,
   call : 1 .. Calls, fresh : Version, rotates : BOOLEAN, outcome : OutcomeType]

CallerPlaces == {"ensure", "join", "await", "sitout", "inject", "admission", "refuse", "done"}
CallerType ==
  [pc : CallerPlaces, acct : Account, trigger : Trigger, until : Nat,
   token : Version, refreshed : BOOLEAN, waited : BOOLEAN]

\* honours: refresh tokens the endpoint still exchanges; accepts: access tokens
\* a request is served with; minted: the newest version; lost: a reply carrying
\* the only copy of a family never reached the pool.
UpstreamType == [honours : SUBSET Version, accepts : SUBSET Version,
                 minted : Version, lost : BOOLEAN]

NoFamily == [token |-> 0, refresh |-> None, expires |-> 0, success |-> None, notBefore |-> None]

IdleRunner(h) ==
  [pc |-> "idle", acct |-> h, trigger |-> "proactive", at |-> 0, family |-> NoFamily,
   call |-> 1, fresh |-> 0, rotates |-> FALSE, outcome |-> Undecided]

FreshCaller(h, trigger, place) ==
  [pc |-> place, acct |-> h, trigger |-> trigger, until |-> 0, token |-> 0,
   refreshed |-> FALSE, waited |-> FALSE]

\* Every account is healthy, so a caller may have been given any of them.
Init ==
  /\ now = 0
  /\ pool \in [Account -> {[present |-> TRUE, family |-> f, errored |-> "no"] :
                           f \in NewFamilies(0, 0)}]
  /\ registry = [h \in Account |-> [is |-> "free", outcome |-> Undecided]]
  /\ runner \in [Runner -> {IdleRunner(h) : h \in Account}]
  /\ caller \in [Caller -> {FreshCaller(h, t, "ensure") : h \in Account,
                                                               t \in {"startup", "proactive"}}]
  /\ upstream = [h \in Account |-> [honours |-> {0}, accepts |-> {0}, minted |-> 0,
                                    lost |-> FALSE]]
  /\ stopping = FALSE

Tick ==
  /\ now < Horizon
  /\ now' = now + 1
  /\ UNCHANGED <<pool, registry, runner, caller, upstream, stopping>>

---------------------------------------------------------------------------
(* A caller: ensure_fresh and the exchange around it. *)

CallerSteps(c, place) == caller' = [caller EXCEPT ![c].pc = place]
CallerEnds(c) ==
  caller' = [caller EXCEPT ![c] = FreshCaller(@.acct, "proactive", "done")]

(* Where an outcome takes caller k: an exchange attempts, gives up, or sits *)
(* out a short floor once; the refresh at startup ends.                     *)
Continued(k, o) ==
  LET ends == FreshCaller(k.acct, "proactive", "done") IN
  CASE k.trigger = "startup" \/ o.is = "errored" -> ends
    [] k.trigger # "startup" /\ o.is = "ready" -> [k EXCEPT !.pc = "inject"]
    [] k.trigger # "startup" /\ o.is = "wait" ->
         IF k.waited \/ o.until - now > InlineWait THEN ends
         ELSE [k EXCEPT !.pc = "sitout", !.waited = TRUE, !.until = o.until]

Ensure(c) ==
  LET known == WithoutRefresh(caller[c].acct, caller[c].trigger, now) IN
  /\ caller[c].pc = "ensure"
  /\ IF known = Undecided THEN CallerSteps(c, "join")
     ELSE caller' = [caller EXCEPT ![c] = Continued(@, known)]
  /\ UNCHANGED <<now, pool, registry, runner, upstream, stopping>>

(* join_or_start, and the spawn of the runner when it starts. *)
JoinOrStart(c) ==
  LET h == caller[c].acct IN
  /\ caller[c].pc = "join"
  /\ \/ /\ registry[h].is = "running"
        /\ CallerSteps(c, "await")
        /\ UNCHANGED <<registry, runner>>
     \/ /\ registry[h].is = "published"
        /\ caller' = [caller EXCEPT ![c] = Continued(@, registry[h].outcome)]
        /\ UNCHANGED <<registry, runner>>
     \/ /\ registry[h].is = "free"
        /\ CallerSteps(c, "await")
        /\ registry' = [registry EXCEPT ![h].is = "running"]
        /\ \E r \in Runner :
             /\ runner[r].pc = "idle"
             /\ runner' = [runner EXCEPT ![r] = [IdleRunner(h) EXCEPT !.pc = "check",
                                                   !.trigger = caller[c].trigger]]
  /\ UNCHANGED <<now, pool, upstream, stopping>>

SitOut(c) ==
  /\ caller[c].pc = "sitout" /\ caller[c].until <= now
  /\ caller' = [caller EXCEPT ![c].pc = "ensure", ![c].until = 0]
  /\ UNCHANGED <<now, pool, registry, runner, upstream, stopping>>

(* The attempt loop reads the credential, then waits at admission. *)
Inject(c) ==
  LET h == caller[c].acct IN
  /\ caller[c].pc = "inject"
  /\ IF pool[h].present
       THEN caller' = [caller EXCEPT ![c].pc = "admission", ![c].token = pool[h].family.token]
       ELSE CallerEnds(c)
  /\ UNCHANGED <<now, pool, registry, runner, upstream, stopping>>

(* The upstream serves a token it accepts; on a 401 an OAuth account has    *)
(* one forced refresh per exchange.                                         *)
Answer(c) ==
  LET h == caller[c].acct IN
  /\ caller[c].pc = "admission"
  /\ IF caller[c].token \in upstream[h].accepts THEN CallerEnds(c)
     ELSE IF h \notin ApiKey /\ ~caller[c].refreshed
       THEN caller' = [caller EXCEPT ![c].pc = "ensure", ![c].trigger = "forced",
                                     ![c].refreshed = TRUE, ![c].token = 0]
     ELSE CallerSteps(c, "refuse")
  /\ UNCHANGED <<now, pool, registry, runner, upstream, stopping>>

(* Refused401: the account is errored, whatever credential it holds by now; *)
(* a failed write is logged and leaves the pool alone.                      *)
RefuseErrors(c) ==
  LET h == caller[c].acct IN
  /\ caller[c].pc = "refuse"
  /\ \/ pool' = [pool EXCEPT ![h].errored = IF pool[h].present THEN "refused" ELSE @]
     \/ UNCHANGED pool
  /\ CallerEnds(c)
  /\ UNCHANGED <<now, registry, runner, upstream, stopping>>

(* The client leaves; a runner it started goes on. *)
Leave(c) ==
  /\ caller[c].pc # "done"
  /\ CallerEnds(c)
  /\ UNCHANGED <<now, pool, registry, runner, upstream, stopping>>

---------------------------------------------------------------------------
(* A runner. *)

RunnerSteps(r, place) == runner' = [runner EXCEPT ![r].pc = place]
RunnerDecides(r, outcome) ==
  runner' = [runner EXCEPT ![r] = [IdleRunner(@.acct) EXCEPT !.pc = "finish", !.outcome = outcome]]

(* The rules once more: they may have changed since the caller read them.   *)
(* The clock is read here, for the next step too.                           *)
Recheck(r) ==
  LET known == WithoutRefresh(runner[r].acct, runner[r].trigger, now) IN
  /\ runner[r].pc = "check"
  /\ IF known = Undecided
       THEN runner' = [runner EXCEPT ![r].pc = "read", ![r].at = now]
       ELSE RunnerDecides(r, known)
  /\ UNCHANGED <<now, pool, registry, caller, upstream, stopping>>

ReadFamily(r) ==
  LET h == runner[r].acct
      f == pool[h].family
  IN
  /\ runner[r].pc = "read"
  /\ IF ~pool[h].present THEN RunnerDecides(r, Ready)
     ELSE IF f.refresh # None \/ runner[r].trigger = "forced" \/ IsExpired(f, runner[r].at)
       THEN runner' = [runner EXCEPT ![r].pc = IF f.refresh = None THEN "error" ELSE "call",
                                     ![r].family = f, ![r].at = 0]
     ELSE RunnerDecides(r, Ready)
  /\ UNCHANGED <<now, pool, registry, caller, upstream, stopping>>

(* The token endpoint.  A refresh token it honours is spent and replaced;   *)
(* the answer may name no new refresh token, and it may be lost on the way. *)
Exchanged(h, sent, rotates) ==
  LET v == upstream[h].minted + 1 IN
  [upstream[h] EXCEPT !.minted = v, !.accepts = {v},
                      !.honours = IF rotates THEN (@ \ {sent}) \cup {v} ELSE @]

EndpointAnswers(r) ==
  LET h == runner[r].acct IN
  /\ runner[r].pc = "call"
  /\ runner[r].family.refresh \in upstream[h].honours /\ upstream[h].minted < MaxVersion
  /\ \E rotates \in BOOLEAN :
       /\ upstream' = [upstream EXCEPT ![h] = Exchanged(h, runner[r].family.refresh, rotates)]
       /\ runner' = [runner EXCEPT ![r].pc = "publish", ![r].rotates = rotates,
                                   ![r].fresh = upstream[h].minted + 1]
  /\ UNCHANGED <<now, pool, registry, caller, stopping>>

EndpointRejects(r) ==
  /\ runner[r].pc = "call"
  /\ runner[r].family.refresh \notin upstream[runner[r].acct].honours
  /\ RunnerSteps(r, "error")
  /\ UNCHANGED <<now, pool, registry, caller, upstream, stopping>>

\* Up to three calls; the endpoint may have exchanged the token of a lost one.
EndpointFails(r) ==
  LET h == runner[r].acct
      sent == runner[r].family.refresh
  IN
  /\ runner[r].pc = "call"
  /\ \/ UNCHANGED upstream
     \/ /\ sent \in upstream[h].honours /\ upstream[h].minted < MaxVersion
        /\ upstream' = [upstream EXCEPT ![h] = [Exchanged(h, sent, TRUE) EXCEPT !.lost = TRUE]]
  /\ runner' = IF runner[r].call < Calls THEN [runner EXCEPT ![r].call = @ + 1]
               ELSE [runner EXCEPT ![r].pc = "floor"]
  /\ UNCHANGED <<now, pool, registry, caller, stopping>>

\* Mutant: only the account's presence is checked.
UnchangedIfPresent(h, sent) == pool[h].present

(* Each write is conditional on the family being the one the runner sent,   *)
(* and durable before it is visible; a write that fails stops the server.   *)
Unchanged(h, sent) == pool[h].present /\ pool[h].family.refresh = sent

GuardedWrite(r, record, written) ==
  LET h == runner[r].acct IN
  /\ \/ /\ Unchanged(h, runner[r].family.refresh)
        /\ pool' = [pool EXCEPT ![h] = record]
        /\ RunnerDecides(r, written)
        /\ UNCHANGED <<upstream, stopping>>
     \/ /\ ~Unchanged(h, runner[r].family.refresh)
        /\ RunnerDecides(r, Ready)
        /\ UNCHANGED <<pool, upstream, stopping>>
     \/ /\ Unchanged(h, runner[r].family.refresh)
        /\ stopping' = TRUE
        /\ upstream' = [upstream EXCEPT ![h].lost = @ \/ runner[r].pc = "publish"]
        /\ RunnerDecides(r, WaitUntil(now + TransientFloor))
        /\ UNCHANGED pool
  /\ UNCHANGED <<now, registry, caller>>

PublishFamily(r) ==
  LET h == runner[r].acct IN
  /\ runner[r].pc = "publish"
  /\ GuardedWrite(r, [pool[h] EXCEPT !.family =
                        ReplacedBy(runner[r].family, runner[r].fresh, runner[r].rotates, now)],
                  Ready)

PersistErrored(r) ==
  LET h == runner[r].acct IN
  /\ runner[r].pc = "error"
  /\ GuardedWrite(r, [pool[h] EXCEPT !.errored =
                        IF runner[r].family.refresh = None THEN "norefresh" ELSE "rejected"],
                  Errored)

SetFloor(r) ==
  LET h == runner[r].acct IN
  /\ runner[r].pc = "floor"
  /\ GuardedWrite(r, [pool[h] EXCEPT !.family.notBefore = now + TransientFloor],
                  IF IsExpired(runner[r].family, now) THEN WaitUntil(now + TransientFloor)
                                                      ELSE Ready)

\* Mutant: the outcome is stored without waking the callers that joined.
PublishSilently(r) ==
  LET h == runner[r].acct IN
  /\ runner[r].pc = "finish"
  /\ registry' = [registry EXCEPT ![h] = [is |-> "published", outcome |-> runner[r].outcome]]
  /\ RunnerSteps(r, "unregister")
  /\ UNCHANGED <<now, pool, caller, upstream, stopping>>

(* finish: the outcome reaches every caller that joined, then the operation *)
(* leaves the registry.                                                     *)
Publish(r) ==
  LET h == runner[r].acct
      o == runner[r].outcome
  IN
  /\ runner[r].pc = "finish"
  /\ caller' = [c \in Caller |->
                  IF caller[c].pc = "await" /\ caller[c].acct = h
                    THEN Continued(caller[c], o) ELSE caller[c]]
  /\ registry' = [registry EXCEPT ![h] = [is |-> "published", outcome |-> o]]
  /\ RunnerSteps(r, "unregister")
  /\ UNCHANGED <<now, pool, upstream, stopping>>

Unregister(r) ==
  LET h == runner[r].acct IN
  /\ runner[r].pc = "unregister"
  /\ registry' = [registry EXCEPT ![h] = [is |-> "free", outcome |-> Undecided]]
  /\ runner' = [runner EXCEPT ![r] = IdleRunner(h)]
  /\ UNCHANGED <<now, pool, caller, upstream, stopping>>

---------------------------------------------------------------------------
(* The operator and the provider. *)

(* install: a new login or a pasted credential, with no refresh history.    *)
Replace(h) ==
  LET v == upstream[h].minted + 1 IN
  /\ pool[h].present /\ v <= MaxVersion
  /\ \E f \in NewFamilies(v, now) :
       pool' = [pool EXCEPT ![h] = [@ EXCEPT !.family = f,
                                             !.errored = "no"]]
  /\ upstream' = [upstream EXCEPT ![h] = [honours |-> @.honours \cup {v}, accepts |-> {v},
                                          minted |-> v, lost |-> FALSE]]
  /\ UNCHANGED <<now, registry, runner, caller, stopping>>

(* set_enabled(true): the retry path. *)
Enable(h) ==
  /\ pool[h].present /\ pool[h].errored # "no"
  /\ pool' = [pool EXCEPT ![h].errored = "no"]
  /\ UNCHANGED <<now, registry, runner, caller, upstream, stopping>>

Remove(h) ==
  /\ pool[h].present
  /\ pool' = [pool EXCEPT ![h].present = FALSE, ![h].errored = "no"]
  /\ UNCHANGED <<now, registry, runner, caller, upstream, stopping>>

(* The provider stops accepting the access token before its time. *)
RevokeToken(h) ==
  /\ upstream[h].accepts # {}
  /\ upstream' = [upstream EXCEPT ![h].accepts = {}]
  /\ UNCHANGED <<now, pool, registry, runner, caller, stopping>>

---------------------------------------------------------------------------

CallerNext(c) == \/ Ensure(c) \/ JoinOrStart(c) \/ SitOut(c)
                 \/ Inject(c) \/ Answer(c) \/ RefuseErrors(c)
RunnerNext(r) == \/ Recheck(r) \/ ReadFamily(r) \/ EndpointAnswers(r) \/ EndpointRejects(r)
                 \/ EndpointFails(r) \/ PublishFamily(r) \/ PersistErrored(r) \/ SetFloor(r)
                 \/ Publish(r) \/ Unregister(r)
Environment(h) == Replace(h) \/ Enable(h) \/ Remove(h) \/ RevokeToken(h)

Next ==
  \/ Tick
  \/ \E c \in Caller : CallerNext(c) \/ Leave(c)
  \/ \E r \in Runner : RunnerNext(r)
  \/ \E h \in Account : Environment(h)

Spec == Init /\ [][Next]_vars

(* A spawned runner runs to its end: every call is bounded by the refresh   *)
(* deadline and there are at most three.                                    *)
FairSpec == Spec /\ \A r \in Runner : WF_vars(RunnerNext(r))

---------------------------------------------------------------------------
(* Properties. *)

\* Every variable has its type.
TypeOK ==
  /\ now \in Time
  /\ pool \in [Account -> PoolType]
  /\ registry \in [Account -> RegistryType]
  /\ runner \in [Runner -> RunnerType]
  /\ caller \in [Caller -> CallerType]
  /\ upstream \in [Account -> UpstreamType]
  /\ stopping \in BOOLEAN

Active(r, h) == runner[r].pc # "idle" /\ runner[r].acct = h

\* While nothing was lost on the way and no refresh is between the endpoint and
\* the pool, the pool holds a refresh token the endpoint still honours: no
\* interleaving of refreshes, replacements and retries strands the account on a
\* spent token (publish_family, replace_family).
NoStrandedFamily ==
  \A h \in Account :
    \/ ~pool[h].present \/ upstream[h].lost \/ pool[h].family.refresh = None
    \/ \E r \in Runner : Active(r, h) /\ runner[r].pc = "publish"
    \/ pool[h].family.refresh \in upstream[h].honours

\* A refresh of one family never touches the credential the operator installed
\* since it was read: the result is discarded (Stale::FamilyReplaced).
InstalledWinsStep ==
  \A r \in Runner :
    LET h == runner[r].acct IN
    /\ runner[r].pc \in {"publish", "error", "floor"} /\ runner'[r].pc = "finish"
    /\ runner[r].family.refresh # None /\ pool'[h] # pool[h]
    => runner[r].family.token = pool[h].family.token
InstalledWins == [][InstalledWinsStep]_vars

\* Every caller that joined an operation gets its outcome ("a refresh runner
\* publishes before it leaves", await_outcome).
Joined(c) == caller[c].pc = "await"
JoinersAnswered == \A c \in Caller : Joined(c) ~> ~Joined(c)

\* tests/acceptance/acc.rs: "everything refuses to error on -- 403, any 429, a
\* network failure, a transient refresh -- leaves a healthy account healthy": an
\* account in the floor of a refresh that failed transiently is not errored by
\* the exchange that forced it.
TransientRefreshNeverErrors ==
  [][\A c \in Caller :
       LET h == caller[c].acct IN
       caller[c].pc = "refuse" /\ pool[h].errored = "no" /\ InTransientFloor(pool[h].family, now)
         => pool'[h].errored # "refused"]_vars
============================================================================
