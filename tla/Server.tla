------------------------------- MODULE Server -------------------------------
(***************************************************************************)
(* What the server keeps beside its accounts (Accounts): quota readings,   *)
(* the egress gate, the configuration, the client kits, logins, listeners  *)
(* and the CA.  None shares state with another here, so a behaviour is one *)
(* part's: `part` names the one that runs.                                 *)
(***************************************************************************)
CONSTANTS
  Metered, Asker, Window, Fallback, MaxClock,                       \* Quota
  Exchange, Address, Pinned, MaxReload,                             \* Egress
  Command, Entry, KindOf, RefOf, Account, NoRef, Clash, Verb, MaxEdit, MaxConfigFault, \* ConfigFile
  Machine, Launch, MachineOf, Release, Key, KeyOf, NextOf, NoRelease, NoKey, Torn, OwnClient,
  MaxSwitch, MaxLaunch, MaxKitFault,                                \* Kit
  Flow, Person, Client, MaxEvent, MaxTerm, Operator,                \* Login
  Conn, Secret,                                                     \* Serving
  Follower, Overlap, Validity, MaxCa, MaxTime, MaxCaFault           \* Authority

VARIABLES
  part,  \* the part that runs
  clock, apiKeys, spent, window, bucket, cap, asking, reading,      \* Quota
  mode, replaced, current, state, held, ex,                         \* Egress
  file, serves, running, pool, cmd, refused, quiet, edits, configFaults, \* ConfigFile
  link, serverKey, decided, verifying, tasks, switches, invited, pinned, installed, staged,
  crossed, launch, launches, kitFaults,                             \* Kit
  holder, source, adds, terms, flow, events, driver, connection, late, \* Login
  main, proxy, stop, heard, valid, conn, live, capped,              \* Serving
  now, issued, covers, files, nextCa, up, mem, writing, trust, pin, seen, fresh, lost, dropped,
  caFaults                                                          \* Authority

quotaVars == <<clock, apiKeys, spent, window, bucket, cap, asking, reading>>
egressVars == <<mode, replaced, current, state, held, ex>>
configVars == <<file, serves, running, pool, cmd, refused, quiet, edits, configFaults>>
kitVars == <<link, serverKey, decided, verifying, tasks, switches, invited, pinned, installed, staged,
             crossed, launch, launches, kitFaults>>
loginVars == <<holder, source, adds, terms, flow, events, driver, connection, late>>
servingVars == <<main, proxy, stop, heard, valid, conn, live, capped>>
authorityVars == <<now, issued, covers, files, nextCa, up, mem, writing, trust, pin, seen, fresh, lost,
                   dropped, caFaults>>
serverVars == <<part, quotaVars, egressVars, configVars, kitVars, loginVars, servingVars, authorityVars>>

Quotas == INSTANCE Quota WITH
  Account <- Metered, Request <- Asker, MaxTime <- MaxClock, now <- clock, request <- asking

Gate == INSTANCE Egress

Config == INSTANCE ConfigFile WITH
  NoAccount <- NoRef, MaxFault <- MaxConfigFault, up <- serves, faults <- configFaults

Kits == INSTANCE Kit WITH MaxFault <- MaxKitFault, faults <- kitFaults

Logins == INSTANCE Login WITH Identity <- Person

Listeners == INSTANCE Serving

CA == INSTANCE Authority WITH
  Machine <- Follower, MaxFault <- MaxCaFault, staged <- nextCa, faults <- caFaults

-----------------------------------------------------------------------------
(* A part that does not run has no state. *)

NoVariable == "-"

NoQuota ==
  /\ clock = NoVariable /\ apiKeys = NoVariable /\ spent = NoVariable /\ window = NoVariable
  /\ bucket = NoVariable /\ cap = NoVariable /\ asking = NoVariable /\ reading = NoVariable
NoEgress ==
  /\ mode = NoVariable /\ replaced = NoVariable /\ current = NoVariable /\ state = NoVariable
  /\ held = NoVariable /\ ex = NoVariable
NoConfig ==
  /\ file = NoVariable /\ serves = NoVariable /\ running = NoVariable /\ pool = NoVariable
  /\ cmd = NoVariable /\ refused = NoVariable /\ quiet = NoVariable /\ edits = NoVariable
  /\ configFaults = NoVariable
NoKit ==
  /\ link = NoVariable /\ serverKey = NoVariable /\ decided = NoVariable /\ verifying = NoVariable
  /\ tasks = NoVariable /\ switches = NoVariable /\ invited = NoVariable /\ pinned = NoVariable
  /\ installed = NoVariable /\ staged = NoVariable /\ crossed = NoVariable /\ launch = NoVariable
  /\ launches = NoVariable /\ kitFaults = NoVariable
NoLogin ==
  /\ holder = NoVariable /\ source = NoVariable /\ adds = NoVariable /\ terms = NoVariable
  /\ flow = NoVariable /\ events = NoVariable /\ driver = NoVariable /\ connection = NoVariable
  /\ late = NoVariable
NoServing ==
  /\ main = NoVariable /\ proxy = NoVariable /\ stop = NoVariable /\ heard = NoVariable
  /\ valid = NoVariable /\ conn = NoVariable /\ live = NoVariable /\ capped = NoVariable
NoAuthority ==
  /\ now = NoVariable /\ issued = NoVariable /\ covers = NoVariable /\ files = NoVariable
  /\ nextCa = NoVariable /\ up = NoVariable /\ mem = NoVariable /\ writing = NoVariable
  /\ trust = NoVariable /\ pin = NoVariable /\ seen = NoVariable /\ fresh = NoVariable
  /\ lost = NoVariable /\ dropped = NoVariable /\ caFaults = NoVariable

ServerInit ==
  \/ /\ part = "quota" /\ Quotas!Init
     /\ NoEgress /\ NoConfig /\ NoKit /\ NoLogin /\ NoServing /\ NoAuthority
  \/ /\ part = "egress" /\ Gate!Init
     /\ NoQuota /\ NoConfig /\ NoKit /\ NoLogin /\ NoServing /\ NoAuthority
  \/ /\ part = "config" /\ Config!Init
     /\ NoQuota /\ NoEgress /\ NoKit /\ NoLogin /\ NoServing /\ NoAuthority
  \/ /\ part = "kit" /\ Kits!Init
     /\ NoQuota /\ NoEgress /\ NoConfig /\ NoLogin /\ NoServing /\ NoAuthority
  \/ /\ part = "login" /\ Logins!Init
     /\ NoQuota /\ NoEgress /\ NoConfig /\ NoKit /\ NoServing /\ NoAuthority
  \/ /\ part = "serving" /\ Listeners!Init
     /\ NoQuota /\ NoEgress /\ NoConfig /\ NoKit /\ NoLogin /\ NoAuthority
  \/ /\ part = "authority" /\ CA!Init
     /\ NoQuota /\ NoEgress /\ NoConfig /\ NoKit /\ NoLogin /\ NoServing

ServerNext ==
  \/ /\ part = "quota" /\ Quotas!Next
     /\ UNCHANGED <<part, egressVars, configVars, kitVars, loginVars, servingVars, authorityVars>>
  \/ /\ part = "egress" /\ Gate!Next
     /\ UNCHANGED <<part, quotaVars, configVars, kitVars, loginVars, servingVars, authorityVars>>
  \/ /\ part = "config" /\ Config!Next
     /\ UNCHANGED <<part, quotaVars, egressVars, kitVars, loginVars, servingVars, authorityVars>>
  \/ /\ part = "kit" /\ Kits!Next
     /\ UNCHANGED <<part, quotaVars, egressVars, configVars, loginVars, servingVars, authorityVars>>
  \/ /\ part = "login" /\ Logins!Next
     /\ UNCHANGED <<part, quotaVars, egressVars, configVars, kitVars, servingVars, authorityVars>>
  \/ /\ part = "serving" /\ Listeners!Next
     /\ UNCHANGED <<part, quotaVars, egressVars, configVars, kitVars, loginVars, authorityVars>>
  \/ /\ part = "authority" /\ CA!Next
     /\ UNCHANGED <<part, quotaVars, egressVars, configVars, kitVars, loginVars, servingVars>>

ServerSpec == ServerInit /\ [][ServerNext]_serverVars

-----------------------------------------------------------------------------
(* Properties: each is the component's own, of the part that runs. *)

\* An account is not kept out when the provider would serve it (pool/quota.rs,
\* pool/holds.rs).
HeldNoLongerThanItsWindow == part = "quota" => Quotas!HeldNoLongerThanItsWindow

\* An egress check begun under one policy leaves nothing in a later one
\* (data_plane/egress.rs).
PolicyIsItsOwn == part = "egress" => Gate!PolicyIsItsOwn

\* Commands that ran one after another left a file the server runs by and would
\* start with again (cli/edit.rs, config/reload.rs).
RestartSafe == part = "config" => Config!RestartSafe

\* A machine has only a client its own pinned key signed, or the one it joined
\* with (cli/update.rs, control/client_kit.rs).
AuthenticClient == part = "kit" => Kits!AuthenticClient

\* No login gives an account to another owner (login.rs, control/client_accounts.rs).
OwnersKept == [][part = "login" => Logins!OwnersStep]_serverVars

\* A secret revoked begins no exchange, on a connection however old
\* (mitm/decode.rs, data_plane/mod.rs).
RevocationLands == [][part = "serving" => Listeners!RevocationStep]_serverVars

\* A machine that followed since the newest CA was staged trusts what the proxy
\* presents (mitm/ca.rs, client_ca.rs).
FollowersTrust == part = "authority" => CA!FollowersTrust

\* Whatever a switch of the CA is stopped at, the next start finds one on disk
\* (mitm/ca.rs).
StartFindsCa == part = "authority" => CA!StartFindsCa
=============================================================================
