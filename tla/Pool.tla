-------------------------------- MODULE Pool --------------------------------
(***************************************************************************)
(* The account pool and everything that points into it: each provider's    *)
(* default account, the operator's route preferences, the sessions bound   *)
(* to accounts, and the running configuration, whose routes and priorities *)
(* name accounts by reference.  Exchanges select from the pool while the   *)
(* operator adds, renames, disables and removes accounts, steers, and      *)
(* reloads the configuration.                                              *)
(*                                                                         *)
(* Translated from pool/mod.rs (select), pool/selection.rs (Pass::run),    *)
(* pool/operations.rs, pool/operator.rs, pool/sessions.rs,                 *)
(* config/references.rs, control/{accounts,selection,reload}.rs and the    *)
(* candidate loop of data_plane/exchange.rs.                               *)
(*                                                                         *)
(* A step is one critical section of the pool lock.  An account's quota    *)
(* buckets are abstracted to the bar they put on it; a request's model to  *)
(* the one route whose pattern matches it.                                 *)
(***************************************************************************)
EXTENDS Integers, Sequences, FiniteSets, SequencesExt

CONSTANTS
  Handle,       \* account handles; a removed one is never used again
  Provider,
  ProviderOf,   \* the provider of each account
  OAuth,        \* the accounts with an OAuth family, which a browser login can bring
  Ref,          \* reference literals: names, emails, UUIDs
  IdentOf,      \* the references an account answers to whatever its name
  RouteKey,     \* route names under case folding
  Spelling,     \* spellings of one folded route name
  Config,       \* candidate configurations
  Session,
  Exchange,
  Request,      \* pending steering requests of the operator
  MaxWaits,     \* bound: waits one exchange's budgets allow
  Bar,          \* the quota bars an instance distinguishes
  Model,        \* the routes its requests match
  Intent,       \* the operator intents its requests carry
  NoHandle, NoSession, NoModel

VARIABLES
  order,     \* Pool.accounts, in the order they were added
  used,      \* handles added so far
  account,   \* what the pool holds of each account
  default,   \* Operator.defaults
  pref,      \* Operator.route_preferences, by exact route name
  config,    \* the configuration in force
  session,   \* Sessions.records
  exchange,  \* the candidate loop of each exchange
  request    \* steering requests between their lookup and their write

vars == <<order, used, account, default, pref, config, session, exchange, request>>
steering == <<default, pref, config, request>>

RouteType == [configured : BOOLEAN, spelling : Spelling, open : BOOLEAN, listed : SUBSET Ref]
ConfigType == [routes : [RouteKey -> RouteType], priorities : Seq(Ref),
               failover : BOOLEAN, distribute : BOOLEAN]

ASSUME ParametersAssumption ==
  /\ IsFiniteSet(Handle) /\ OAuth \subseteq Handle
  /\ Provider # {} /\ RouteKey # {} /\ Spelling # {} /\ IsFiniteSet(Exchange)
  /\ ProviderOf \in [Handle -> Provider] /\ IdentOf \in [Handle -> SUBSET Ref]
  /\ Config \subseteq ConfigType /\ MaxWaits \in Nat
  /\ NoHandle \notin Handle /\ NoSession \notin Session /\ NoModel \notin RouteKey
  /\ "none" \in Bar /\ Bar \subseteq {"none", "over", "held"}
  /\ Model \subseteq RouteKey \cup {NoModel} /\ Intent \subseteq {"none", "pin", "preference"}

---------------------------------------------------------------------------
(* Accounts and references. *)

\* bar: "over" is at the switch threshold, "held" an exhaustion or spend-cap hold.
AccountType == [name : Ref, usable : BOOLEAN, bar : {"none", "over", "held"}]

Pooled == ToSet(order)
PoolOf(p) == {h \in Pooled : ProviderOf[h] = p}

References(acct, h, ref) == ref = acct[h].name \/ ref \in IdentOf[h]
Matches(pool, acct, p, ref) == {h \in pool : ProviderOf[h] = p /\ References(acct, h, ref)}

\* One account per provider at most, and one at least.
Resolves(pool, acct, ref) ==
  /\ \A p \in Provider : Cardinality(Matches(pool, acct, p, ref)) <= 1
  /\ \E p \in Provider : Matches(pool, acct, p, ref) # {}

ConfiguredRefs(cfg) ==
  ToSet(cfg.priorities) \cup
  UNION {cfg.routes[k].listed : k \in {k \in RouteKey : cfg.routes[k].configured /\ ~cfg.routes[k].open}}

Conflicts(cfg, pool, acct) == {ref \in ConfiguredRefs(cfg) : ~Resolves(pool, acct, ref)}

\* No second priority entry reaches an account an earlier one covers.
CoveredOnce(cfg, pool, acct) ==
  \A i, j \in DOMAIN cfg.priorities : \A h \in pool :
    i # j => ~(References(acct, h, cfg.priorities[i]) /\ References(acct, h, cfg.priorities[j]))

Accepted(cfg, pool, acct) == Conflicts(cfg, pool, acct) = {} /\ CoveredOnce(cfg, pool, acct)

\* Mutant: the operation goes through whatever it breaks.
Unguarded(pool, acct) == TRUE

\* guarded: an operation that newly breaks a reference is refused.
Guarded(pool, acct) == Conflicts(config, pool, acct) \subseteq Conflicts(config, Pooled, account)

---------------------------------------------------------------------------
(* Selection: the rules of Pass::run for exchange record x, in order of     *)
(* precedence.                                                              *)

RouteAllows(x, h) ==
  LET r == x.config.routes[x.model] IN
  x.model # NoModel /\ r.configured /\ ~r.open
    => \E ref \in r.listed : References(account, h, ref)

QuotaLets(h, bound) ==
  account[h].usable /\ account[h].bar # "held" /\ (account[h].bar = "over" => bound)

Eligible(x, h, bound) ==
  /\ h \in PoolOf(x.provider) /\ RouteAllows(x, h) /\ h \notin x.exclusion
  /\ QuotaLets(h, bound)

PreferredByRoute(x) ==
  IF x.model # NoModel /\ x.config.routes[x.model].configured
    THEN pref[<<x.model, x.config.routes[x.model].spelling>>]
    ELSE NoHandle

Binding(x) == IF x.session = NoSession THEN NoHandle ELSE session[x.session].bound
HasBound(x) == Binding(x) \in PoolOf(x.provider)
Moves(x) == x.config.failover /\ HasBound(x) /\ ~Eligible(x, Binding(x), TRUE)

\* Mutant: every selection binds.
BindsAlways(x) == x.session # NoSession

Binds(x) == x.session # NoSession /\ (Binding(x) = NoHandle \/ Moves(x))

\* The value of the first priority entry that names the account, else 0; the
\* entries' values fall with their index, so an earlier entry ranks first.
Priority(x, h) ==
  LET naming == {i \in DOMAIN x.config.priorities : References(account, h, x.config.priorities[i])}
  IN  IF naming = {} THEN 0 ELSE Min(naming) - Len(x.config.priorities) - 1
Best(x, hs) == {h \in hs : \A g \in hs : Priority(x, h) <= Priority(x, g)}

EligibleSet(x) == {h \in PoolOf(x.provider) : Eligible(x, h, FALSE)}

\* Mutant: a revalidation is offered to an account that was passed over.
UsableExcludingNobody(x) == {h \in PoolOf(x.provider) : RouteAllows(x, h) /\ account[h].usable}

Usable(x) == {h \in PoolOf(x.provider) : RouteAllows(x, h) /\ h \notin x.exclusion /\ account[h].usable}

Choice(cause, hs) == [cause |-> cause, from |-> hs]
Nobody == Choice("nobody", {})

\* The accounts the rules may answer with; within a tier the weekly reset or the
\* load decides, which is abstracted to any of them.
Answer(x) ==
  CASE x.pin # NoHandle ->
         IF Eligible(x, x.pin, FALSE) THEN Choice("pin", {x.pin}) ELSE Nobody
    [] x.pin = NoHandle /\ Eligible(x, x.preference, FALSE) ->
         Choice("preference", {x.preference})
    [] x.pin = NoHandle /\ ~Eligible(x, x.preference, FALSE)
         /\ Eligible(x, PreferredByRoute(x), FALSE) ->
         Choice("route", {PreferredByRoute(x)})
    [] OTHER ->
         IF HasBound(x) /\ ~Moves(x)
           THEN IF Eligible(x, Binding(x), TRUE) THEN Choice("session", {Binding(x)}) ELSE Nobody
         ELSE IF EligibleSet(x) = {} THEN Nobody
         ELSE IF x.config.distribute /\ Binds(x) THEN Choice("session", Best(x, EligibleSet(x)))
         ELSE IF default[x.provider].handle \in EligibleSet(x)
           THEN Choice("default", {default[x.provider].handle})
         ELSE Choice("ranking", Best(x, EligibleSet(x)))

\* The reason clears without the operator, so the exchange may wait for it.
Clears(x) ==
  /\ Answer(x) = Nobody /\ x.pin = NoHandle
  /\ IF HasBound(x) /\ ~Moves(x)
       THEN RouteAllows(x, Binding(x)) /\ Binding(x) \notin x.exclusion /\ account[Binding(x)].usable
       ELSE Usable(x) # {}

\* An unbound exchange on no exclusive route may be offered one account to
\* challenge; whether the gate is open is Admission's question.
Challengeable(x) ==
  IF Clears(x) /\ Binding(x) = NoHandle
       /\ (x.model = NoModel \/ ~x.config.routes[x.model].configured \/ x.config.routes[x.model].open)
    THEN Best(x, Usable(x)) ELSE {}

\* A default barred for a cause of its own moves; one this request's route or
\* exclusion set passed over stays.
DefaultMoves(x) ==
  LET d == default[x.provider].handle IN d = NoHandle \/ d \notin Pooled \/ ~QuotaLets(d, FALSE)

---------------------------------------------------------------------------
(* State. *)

DefaultType == [handle : Handle \cup {NoHandle}, chosen : BOOLEAN]
NoDefault == [handle |-> NoHandle, chosen |-> FALSE]

SessionType == [bound : Handle \cup {NoHandle}, inFlight : Nat]
UnknownSession == [bound |-> NoHandle, inFlight |-> 0]

ExchangeType ==
  [pc : {"idle", "select", "attempt"}, provider : Provider, model : RouteKey \cup {NoModel},
   session : Session \cup {NoSession}, pin : Handle \cup {NoHandle},
   preference : Handle \cup {NoHandle}, config : Config, exclusion : SUBSET Handle,
   serving : Handle \cup {NoHandle}, waits : 0 .. MaxWaits]

\* An exchange slot between two exchanges.
Ended == [pc |-> "idle", provider |-> CHOOSE p \in Provider : TRUE, model |-> NoModel,
          session |-> NoSession, pin |-> NoHandle, preference |-> NoHandle,
          config |-> CHOOSE c \in Config : TRUE, exclusion |-> {}, serving |-> NoHandle, waits |-> 0]

RequestType == [pc : {"idle", "switch", "prefer"}, handle : Handle \cup {NoHandle},
                key : RouteKey, route : RouteType]
NoRoute == [configured |-> FALSE, spelling |-> CHOOSE n \in Spelling : TRUE, open |-> TRUE, listed |-> {}]
NoRequest == [pc |-> "idle", handle |-> NoHandle, key |-> CHOOSE k \in RouteKey : TRUE, route |-> NoRoute]

\* choose_initial_default: the ranking's winner, else the provider's first.
InitialDefault(p) ==
  IF PoolOf(p) = {} THEN {NoDefault}
  ELSE {[handle |-> h, chosen |-> FALSE] :
          h \in Best([provider |-> p, config |-> config], PoolOf(p))}

\* The configuration a server starts with resolves against its state.
Init ==
  /\ order \in {SetToSeq(hs) : hs \in SUBSET Handle}
  /\ used = Pooled
  /\ account \in [Handle -> {[name |-> n, usable |-> TRUE, bar |-> "none"] : n \in Ref}]
  /\ \A g, h \in Pooled : g # h => account[g].name # account[h].name
  /\ \A h \in Handle \ Pooled : account[h].name = CHOOSE n \in Ref : TRUE
  /\ config \in Config /\ Accepted(config, Pooled, account)
  /\ default \in [Provider -> UNION {InitialDefault(p) : p \in Provider}]
  /\ \A p \in Provider : default[p] \in InitialDefault(p)
  /\ pref = [name \in RouteKey \X Spelling |-> NoHandle]
  /\ session = [s \in Session |-> UnknownSession]
  /\ exchange = [x \in Exchange |-> Ended]
  /\ request = [q \in Request |-> NoRequest]

---------------------------------------------------------------------------
(* The operator's account operations: mutate_pool around guarded. *)

MovedDefault(p, h) == default' = [default EXCEPT ![p] = [handle |-> h, chosen |-> FALSE]]

(* A new account under a name of its own; it is the default if there is none. *)
Named(h, name) == [account EXCEPT ![h] = [name |-> name, usable |-> TRUE, bar |-> "none"]]

Pushed(h, name) ==
  LET p == ProviderOf[h] IN
  /\ h \notin used
  /\ \A g \in Pooled : account[g].name # name
  /\ order' = Append(order, h) /\ used' = used \cup {h} /\ account' = Named(h, name)
  /\ IF default[p].handle = NoHandle THEN MovedDefault(p, h) ELSE UNCHANGED default
  /\ UNCHANGED <<pref, config, session, exchange, request>>

Add(h, name) == Guarded(Pooled \cup {h}, Named(h, name)) /\ Pushed(h, name)

(* A browser login runs Pool::add under mutate_pool without guarded.        *)
LogIn(h, name) == h \in OAuth /\ Pushed(h, name)

Rename(h, name) ==
  LET acct == [account EXCEPT ![h].name = name] IN
  /\ h \in Pooled /\ \A g \in Pooled \ {h} : account[g].name # name
  /\ Guarded(Pooled, acct)
  /\ account' = acct
  /\ UNCHANGED <<order, used, session, exchange>> /\ UNCHANGED steering

(* Disable, or an error only the operator clears; enable clears both. *)
SetUsable(h) ==
  /\ h \in Pooled
  /\ account' = [account EXCEPT ![h].usable = ~@]
  /\ UNCHANGED <<order, used, session, exchange>> /\ UNCHANGED steering

(* Everything that points at the account lets go of it in the same step; a  *)
(* default that leaves is followed by its provider's first account.         *)
FirstOf(p, hs, h) ==
  \E i \in DOMAIN hs : /\ h = hs[i] /\ ProviderOf[h] = p
                        /\ \A j \in 1 .. i - 1 : ProviderOf[hs[j]] # p

RemoveAccount(h) ==
  \E place \in DOMAIN order :
    LET p == ProviderOf[h]
        left == RemoveAt(order, place)
    IN
    /\ order[place] = h /\ Guarded(ToSet(left), account)
    /\ order' = left
    /\ account' = [account EXCEPT ![h] = [name |-> CHOOSE n \in Ref : TRUE, usable |-> TRUE,
                                          bar |-> "none"]]
    /\ session' = [s \in Session |->
                     [session[s] EXCEPT !.bound = IF @ = h THEN NoHandle ELSE @]]
    /\ pref' = [name \in DOMAIN pref |-> IF pref[name] = h THEN NoHandle ELSE pref[name]]
    /\ CASE default[p].handle # h -> UNCHANGED default
         [] default[p].handle = h /\ PoolOf(p) = {h} -> MovedDefault(p, NoHandle)
         [] OTHER -> \E next \in Handle : FirstOf(p, left, next) /\ MovedDefault(p, next)
    /\ UNCHANGED <<used, config, exchange, request>>

---------------------------------------------------------------------------
(* Steering and reload.  A request resolves its account under one lock      *)
(* acquisition and acts under another; the route it names was looked up     *)
(* before its body was read.                                                *)

RequestSwitch(q, h) ==
  /\ request[q].pc = "idle" /\ h \in Pooled
  /\ request' = [request EXCEPT ![q] = [NoRequest EXCEPT !.pc = "switch", !.handle = h]]
  /\ UNCHANGED <<order, used, account, default, pref, config, session, exchange>>

\* Mutant: the account is not looked up again.
SwitchUnchecked(q) ==
  LET h == request[q].handle IN
  /\ request[q].pc = "switch"
  /\ default' = [default EXCEPT ![ProviderOf[h]] = [handle |-> h, chosen |-> TRUE]]
  /\ request' = [request EXCEPT ![q] = NoRequest]
  /\ UNCHANGED <<order, used, account, pref, config, session, exchange>>

Switch(q) ==
  LET h == request[q].handle IN
  /\ request[q].pc = "switch"
  /\ default' = IF h \in Pooled
                  THEN [default EXCEPT ![ProviderOf[h]] = [handle |-> h, chosen |-> TRUE]]
                  ELSE default
  /\ request' = [request EXCEPT ![q] = NoRequest]
  /\ UNCHANGED <<order, used, account, pref, config, session, exchange>>

RequestPreference(q, k) ==
  /\ request[q].pc = "idle" /\ config.routes[k].configured
  /\ request' = [request EXCEPT ![q] = [NoRequest EXCEPT !.pc = "prefer", !.key = k,
                                                         !.route = config.routes[k]]]
  /\ UNCHANGED <<order, used, account, default, pref, config, session, exchange>>

ResolvePreference(q, h) ==
  /\ request[q].pc = "prefer" /\ request[q].handle = NoHandle /\ h \in Pooled
  /\ request' = [request EXCEPT ![q].handle = h]
  /\ UNCHANGED <<order, used, account, default, pref, config, session, exchange>>

\* A route with no account list takes any handle.
SetPreference(q) ==
  LET h == request[q].handle
      r == request[q].route
      listed == r.open \/ (h \in Pooled /\ \E ref \in r.listed : References(account, h, ref))
  IN
  /\ request[q].pc = "prefer" /\ h # NoHandle
  /\ pref' = IF listed THEN [pref EXCEPT ![<<request[q].key, r.spelling>>] = h] ELSE pref
  /\ request' = [request EXCEPT ![q] = NoRequest]
  /\ UNCHANGED <<order, used, account, default, config, session, exchange>>

ClearPreference(k) ==
  /\ config.routes[k].configured
  /\ pref' = [pref EXCEPT ![<<k, config.routes[k].spelling>>] = NoHandle]
  /\ UNCHANGED <<order, used, account, default, config, session, exchange, request>>

(* The check of the candidate's references and its swap see one pool; the   *)
(* preferences of routes it lacks go.                                       *)
Reload(cfg) ==
  /\ cfg # config /\ Accepted(cfg, Pooled, account)
  /\ config' = cfg
  /\ pref' = [name \in DOMAIN pref |->
                IF cfg.routes[name[1]].configured THEN pref[name] ELSE NoHandle]
  /\ UNCHANGED <<order, used, account, default, session, exchange, request>>

---------------------------------------------------------------------------
(* Exchanges. *)

(* The exchange keeps the configuration in force when it begins; its intent *)
(* is resolved and its session counted before anything is selected.         *)
Begin(x) ==
  /\ exchange[x].pc = "idle"
  /\ \E p \in Provider, m \in Model, s \in Session \cup {NoSession}, intent \in Intent :
       \E h \in IF intent = "none" THEN {NoHandle} ELSE PoolOf(p) :
         /\ exchange' = [exchange EXCEPT ![x] =
              [Ended EXCEPT !.pc = "select", !.provider = p, !.model = m, !.session = s,
                            !.pin = IF intent = "pin" THEN h ELSE NoHandle,
                            !.preference = IF intent = "preference" THEN h ELSE NoHandle,
                            !.config = config]]
         /\ session' = IF s = NoSession THEN session
                       ELSE [session EXCEPT ![s].inFlight = @ + 1]
  /\ UNCHANGED <<order, used, account>> /\ UNCHANGED steering

\* Mutant: the record is written without returning the session's count.
EndsUncounted(x) == exchange' = [exchange EXCEPT ![x] = Ended] /\ UNCHANGED session

(* Exchange::write: the record is written and the session's count returned. *)
Ends(x) ==
  LET s == exchange[x].session IN
  /\ exchange' = [exchange EXCEPT ![x] = Ended]
  /\ session' = IF s = NoSession THEN session
                ELSE [session EXCEPT ![s].inFlight = IF @ = 0 THEN 0 ELSE @ - 1]

(* The budget of waits is a selection's own.                                *)
Attempts(x, h) ==
  exchange' = [exchange EXCEPT ![x].pc = "attempt", ![x].serving = h, ![x].waits = 0]

\* Mutant: the account that failed is not excluded.
PassesOverNobody(x) == exchange' = [exchange EXCEPT ![x].pc = "select", ![x].serving = NoHandle]

PassesOver(x) ==
  exchange' = [exchange EXCEPT ![x].pc = "select", ![x].serving = NoHandle,
                               ![x].exclusion = @ \cup {exchange[x].serving}]

Bound(x, h) ==
  LET e == exchange[x] IN
  IF Binds(e) THEN [session EXCEPT ![e.session].bound = h] ELSE session

Select(x) ==
  LET e == exchange[x]
      answer == Answer(e)
  IN
  /\ e.pc = "select" /\ answer # Nobody
  /\ \E h \in answer.from :
       /\ Attempts(x, h)
       /\ session' = Bound(x, h)
       /\ IF answer.cause = "ranking" /\ DefaultMoves(e)
            THEN MovedDefault(e.provider, h) ELSE UNCHANGED default
  /\ UNCHANGED <<order, used, account, pref, config, request>>

Challenge(x) ==
  LET e == exchange[x] IN
  /\ e.pc = "select"
  /\ \E h \in Challengeable(e) : Attempts(x, h)
  /\ UNCHANGED <<order, used, account, session>> /\ UNCHANGED steering

(* Nobody can take it: it waits for a hold's end if its reason clears and   *)
(* the budget lasts, or is refused.                                         *)
NobodyServes(x) ==
  LET e == exchange[x] IN
  /\ e.pc = "select" /\ Answer(e) = Nobody
  /\ \/ Ends(x)
     \/ /\ Clears(e) /\ e.waits < MaxWaits
        /\ exchange' = [exchange EXCEPT ![x].waits = @ + 1] /\ UNCHANGED session
  /\ UNCHANGED <<order, used, account>> /\ UNCHANGED steering

OneCandidate(e) == e.pin # NoHandle \/ e.session # NoSession
FailsOver(e) == e.pin = NoHandle /\ e.config.failover

Relayed(x) ==
  /\ exchange[x].pc = "attempt"
  /\ Ends(x)
  /\ UNCHANGED <<order, used, account>> /\ UNCHANGED steering

(* An exhaustion 429 holds the account; with failover another one is tried. *)
Exhausted(x) ==
  LET h == exchange[x].serving IN
  /\ exchange[x].pc = "attempt" /\ h \in Pooled
  /\ account' = [account EXCEPT ![h].bar = "held"]
  /\ IF FailsOver(exchange[x]) THEN PassesOver(x) /\ UNCHANGED session ELSE Ends(x)
  /\ UNCHANGED <<order, used>> /\ UNCHANGED steering

(* A failure that is no answer tries another account unless the exchange    *)
(* has one candidate; an account gone before its attempt is passed over.    *)
AttemptFailed(x) ==
  LET e == exchange[x] IN
  /\ e.pc = "attempt"
  /\ \/ OneCandidate(e) /\ Ends(x)
     \/ ~OneCandidate(e) /\ PassesOver(x) /\ UNCHANGED session
     \/ e.serving \notin Pooled /\ PassesOver(x) /\ UNCHANGED session
  /\ UNCHANGED <<order, used, account>> /\ UNCHANGED steering

(* A credential the upstream refuses errors the account. *)
Refused401(x) ==
  LET h == exchange[x].serving IN
  /\ exchange[x].pc = "attempt"
  /\ account' = IF h \in Pooled THEN [account EXCEPT ![h].usable = FALSE] ELSE account
  /\ Ends(x)
  /\ UNCHANGED <<order, used>> /\ UNCHANGED steering

Leave(x) ==
  /\ exchange[x].pc # "idle"
  /\ Ends(x)
  /\ UNCHANGED <<order, used, account>> /\ UNCHANGED steering

(* An idle hour forgets a session. *)
Reap(s) ==
  /\ session[s].inFlight = 0 /\ session[s] # UnknownSession
  /\ session' = [session EXCEPT ![s] = UnknownSession]
  /\ UNCHANGED <<order, used, account, exchange>> /\ UNCHANGED steering

(* Answers, probes and resets move the quota. *)
QuotaMoves(h) ==
  /\ h \in Pooled
  /\ \E bar \in Bar \ {account[h].bar} :
       account' = [account EXCEPT ![h].bar = bar]
  /\ UNCHANGED <<order, used, session, exchange>> /\ UNCHANGED steering

---------------------------------------------------------------------------

AccountOperation == \E h \in Handle : \/ \E name \in Ref : Add(h, name) \/ LogIn(h, name) \/ Rename(h, name)
                                      \/ SetUsable(h) \/ RemoveAccount(h) \/ QuotaMoves(h)
Steer ==
  \/ \E q \in Request : \/ Switch(q) \/ SetPreference(q)
                        \/ \E h \in Handle : RequestSwitch(q, h) \/ ResolvePreference(q, h)
                        \/ \E k \in RouteKey : RequestPreference(q, k)
  \/ \E k \in RouteKey : ClearPreference(k)
  \/ \E cfg \in Config : Reload(cfg)
Proceed(x) == \/ Select(x) \/ Challenge(x) \/ NobodyServes(x) \/ Relayed(x)
              \/ Exhausted(x) \/ AttemptFailed(x) \/ Refused401(x)

Next ==
  \/ AccountOperation \/ Steer
  \/ \E x \in Exchange : Begin(x) \/ Proceed(x) \/ Leave(x)
  \/ \E s \in Session : Reap(s)

Spec == Init /\ [][Next]_vars

(* Waits and attempts are bounded by timeouts, so an exchange proceeds. *)
FairSpec == Spec /\ \A x \in Exchange : WF_vars(Proceed(x))

---------------------------------------------------------------------------
(* Properties. *)

\* Every variable has its type, and the pool holds no handle twice.
TypeOK ==
  /\ order \in Seq(Handle) /\ IsInjective(order)
  /\ Pooled \subseteq used /\ used \subseteq Handle
  /\ account \in [Handle -> AccountType]
  /\ default \in [Provider -> DefaultType]
  /\ pref \in [RouteKey \X Spelling -> Handle \cup {NoHandle}]
  /\ config \in Config
  /\ session \in [Session -> SessionType]
  /\ exchange \in [Exchange -> ExchangeType]
  /\ request \in [Request -> RequestType]

\* A provider has a default exactly when it has an account, and the default is
\* one of its own: however switches, ranking moves, adds and removals interleave
\* (switch_default "an account removed since it was resolved moves nothing").
DefaultsExist ==
  \A p \in Provider : IF PoolOf(p) = {} THEN default[p].handle = NoHandle
                      ELSE default[p].handle \in PoolOf(p)

\* No session stays bound to an account that left the pool, an exchange that
\* selected it before included (Sessions::unbind_account); and its count of
\* exchanges in flight is exact through every ending -- answers, failover,
\* refusals and departures (Exchange::write, "written exactly once, on every path").
SessionsExact ==
  \A s \in Session :
    /\ session[s].bound \in Pooled \cup {NoHandle}
    /\ session[s].inFlight = Cardinality({x \in Exchange : exchange[x].session = s})

\* No account operation and no reload leaves a reference of the configuration in
\* force broken that was not broken before: only a browser login, which guarded
\* does not see, adds a conflict (control/accounts.rs guarded, references::introduced).
ReferencesStep ==
  \/ \E h \in Handle, name \in Ref : LogIn(h, name)
  \/ Conflicts(config', ToSet(order'), account') \subseteq Conflicts(config, Pooled, account)
ReferencesBreakOnlyByLogin == [][ReferencesStep]_vars

\* control/accounts.rs:241 "every route and priority reference is resolved against
\* it; an entry the operation newly breaks refuses it": the references of the
\* configuration in force always resolve.
ReferencesResolve == Conflicts(config, Pooled, account) = {}

\* One exchange attempts an account at most once: what was passed over is not
\* chosen again, as a default, a binding or a revalidation either.
NeverTwiceStep ==
  \A x \in Exchange :
    exchange[x].pc = "select" /\ exchange'[x].pc = "attempt"
      => exchange'[x].serving \notin exchange[x].exclusion
NeverTwice == [][NeverTwiceStep]_vars

\* A session moves from one account to another only by an exchange of its own
\* whose configuration fails over: no pin, preference, ranking move or other
\* exchange of the session rebinds it (Pass::run, "binds").
SessionMovesStep ==
  \A s \in Session :
    /\ session[s].bound # NoHandle /\ session'[s].bound # NoHandle
    /\ session'[s].bound # session[s].bound
    => \E x \in Exchange : /\ exchange[x].session = s /\ exchange[x].config.failover
                           /\ exchange[x].pc = "select" /\ exchange'[x].pc = "attempt"
SessionMovesByFailover == [][SessionMovesStep]_vars

\* Every exchange ends: failover, waits for holds and revalidations cannot keep
\* its candidate loop turning while the pool changes under it (exchange.rs, run).
Runs(x) == exchange[x].pc # "idle"
ExchangesEnd == \A x \in Exchange : Runs(x) ~> ~Runs(x)

\* operator.rs:223 "The reload keeps a preference whose route survives -- under
\* case folding": a preference kept for a configured route is the one selection
\* finds for it.
KeptPreferenceInForce ==
  \A name \in DOMAIN pref :
    pref[name] # NoHandle /\ config.routes[name[1]].configured
      => config.routes[name[1]].spelling = name[2]
=============================================================================
