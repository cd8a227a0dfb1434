------------------------------ MODULE Serving ------------------------------
(***************************************************************************)
(* The listeners of one server process and its end: the base-URL listener  *)
(* (src/src/data_plane/mod.rs), the forward proxy with its tunnels         *)
(* (src/src/mitm/listener.rs, tunnel.rs, tls.rs, decode.rs, absolute.rs),  *)
(* who a request is taken for, the stop request (server.rs) and the way    *)
(* `serve` leaves the process (cli/mod.rs).                                *)
(*                                                                         *)
(* A connection is base-URL or proxy; a proxy connection may become an     *)
(* intercepted tunnel (our TLS, then requests) or a relay of bytes.        *)
(***************************************************************************)
EXTENDS Naturals, FiniteSets

CONSTANTS Conn, Secret

None == "none"

VARIABLES
    main,      \* the main task: "starting", "spawned", "serving", "draining", "exited"
    proxy,     \* the proxy listener's task: "spawned", "serving", "draining", "ended"
    stop,      \* the stop request: None, "signal" or "unwritable"; the first stays
    heard,     \* the tasks whose receiver saw the stop request change
    valid,     \* the secrets the registry resolves
    conn,      \* the connections
    live,      \* the proxy listener's count of connection tasks
    capped     \* the five seconds of the base-URL drain ran out

vars == <<main, proxy, stop, heard, valid, conn, live, capped>>

NoConn == [kind |-> None, pc |-> "none", secret |-> None]

Init ==
    /\ main = "starting"
    /\ proxy = "spawned"
    /\ stop = None
    /\ heard = {}
    /\ valid = Secret
    /\ conn = [c \in Conn |-> NoConn]
    /\ live = 0
    /\ capped = FALSE

Running == main # "exited"
Stopping == stop # None
At(c, pc) == conn[c].pc = pc
Becomes(c, pc) == conn' = [conn EXCEPT ![c].pc = pc]

-----------------------------------------------------------------------------
(* The process *)

\* The tasks are spawned; another thread may run them before this one goes on.
SpawnTasks ==
    /\ main = "starting"
    /\ main' = "spawned"
    /\ UNCHANGED <<proxy, stop, heard, valid, conn, live, capped>>

\* Each serve subscribes to the stop when it is first polled; what was sent
\* before counts as seen.
MainServes ==
    /\ main = "spawned"
    /\ main' = "serving"
    /\ UNCHANGED <<proxy, stop, heard, valid, conn, live, capped>>

ProxyServes ==
    /\ Running /\ main # "starting" /\ proxy = "spawned"
    /\ proxy' = "serving"
    /\ UNCHANGED <<main, stop, heard, valid, conn, live, capped>>

\* SIGTERM, or a state or audit write that failed.  A later request does not
\* modify the value, so it wakes nobody.
RequestStop(why) ==
    /\ Running /\ main # "starting" /\ ~Stopping
    /\ stop' = why
    /\ heard' = {t \in {"main", "proxy"} :
                    \/ t = "main" /\ main = "serving"
                    \/ t = "proxy" /\ proxy = "serving"}
    /\ UNCHANGED <<main, proxy, valid, conn, live, capped>>

\* The base-URL listener stops accepting; hyper closes what is idle, a
\* handshake is given up, and what is in flight goes on.
StopServing ==
    /\ main = "serving" /\ "main" \in heard
    /\ main' = "draining"
    /\ conn' = [c \in Conn |->
                 IF conn[c].kind = "base" /\ conn[c].pc \in {"handshake", "open"}
                 THEN NoConn ELSE conn[c]]
    /\ UNCHANGED <<proxy, stop, heard, valid, live, capped>>

DrainRunsOut ==
    /\ main = "draining" /\ ~capped
    /\ capped' = TRUE
    /\ UNCHANGED <<main, proxy, stop, heard, valid, conn, live>>

BaseDrained == \A c \in Conn : conn[c].kind # "base"

\* Only the base-URL listener is waited for; the runtime's end drops every
\* other task where it stands.
Left ==
    /\ main' = "exited"
    /\ conn' = [c \in Conn |-> NoConn]
    /\ live' = 0
    /\ UNCHANGED <<proxy, stop, heard, valid, capped>>

\* The mutated form: a drain without its cap.
ExitDrained == main = "draining" /\ BaseDrained /\ Left

Exit == main = "draining" /\ (BaseDrained \/ capped) /\ Left

ProxyStops ==
    /\ Running /\ proxy = "serving" /\ "proxy" \in heard
    /\ proxy' = "draining"
    /\ UNCHANGED <<main, stop, heard, valid, conn, live, capped>>

\* No connection task is left, or five seconds went by; nobody waits for this.
ProxyDrained ==
    /\ Running /\ proxy = "draining"
    /\ proxy' = "ended"
    /\ UNCHANGED <<main, stop, heard, valid, conn, live, capped>>

-----------------------------------------------------------------------------
(* Who is asking *)

Authorized(s) == s \in valid

Revoke(s) ==
    /\ Running /\ s \in valid
    /\ valid' = valid \ {s}
    /\ UNCHANGED <<main, proxy, stop, heard, conn, live, capped>>

\* The mutated form: the principal of the CONNECT, for the tunnel's life.
PrincipalThen(c) == conn[c].secret # None

\* Inside an open tunnel the secret of the CONNECT is resolved again.
PrincipalNow(c) == conn[c].secret \in valid

-----------------------------------------------------------------------------
(* The base-URL listener *)

Accept(c) ==
    /\ main = "serving" /\ At(c, "none")
    /\ conn' = [conn EXCEPT ![c] = [NoConn EXCEPT !.kind = "base", !.pc = "handshake"]]
    /\ UNCHANGED <<main, proxy, stop, heard, valid, live, capped>>

\* The handshake's task looks for a stop before it begins; a failed or timed
\* out handshake ends the connection.
Handshaken(c) ==
    /\ Running /\ conn[c].kind = "base" /\ At(c, "handshake")
    /\ IF Stopping THEN conn' = [conn EXCEPT ![c] = NoConn] ELSE Becomes(c, "open")
    /\ UNCHANGED <<main, proxy, stop, heard, valid, live, capped>>

\* A request: the principal before the path, then the stop; refusals leave the
\* connection open.
Dispatch(c, s) ==
    /\ Running /\ conn[c].kind = "base" /\ At(c, "open")
    /\ Authorized(s) /\ ~Stopping
    /\ conn' = [conn EXCEPT ![c].pc = "busy", ![c].secret = s]
    /\ UNCHANGED <<main, proxy, stop, heard, valid, live, capped>>

\* The answer is out.  A draining connection closes behind it.
Answer(c) ==
    /\ Running /\ At(c, "busy")
    /\ conn' = [conn EXCEPT ![c] =
                 IF main = "draining" /\ conn[c].kind = "base" THEN NoConn
                 ELSE [conn[c] EXCEPT !.pc = "open"]]
    /\ UNCHANGED <<main, proxy, stop, heard, valid, live, capped>>

-----------------------------------------------------------------------------
(* The forward proxy *)

AcceptProxy(c) ==
    /\ Running /\ proxy = "serving" /\ At(c, "none")
    /\ conn' = [conn EXCEPT ![c] = [NoConn EXCEPT !.kind = "proxy", !.pc = "connect"]]
    /\ live' = live + 1
    /\ UNCHANGED <<main, proxy, stop, heard, valid, capped>>

\* route_target: the proxy host itself and telemetry are refused.
Routed(target) == target = "elsewhere"

\* The connection's task ends: with the upgrade to a tunnel, or refused.
Upgraded(c, pc, s) ==
    /\ conn' = [conn EXCEPT ![c] = [kind |-> "tunnel", pc |-> pc, secret |-> s]]
    /\ live' = live - 1
Refused(c) == conn' = [conn EXCEPT ![c] = NoConn] /\ live' = live - 1

\* An intercepted name: our own TLS follows the 200, if there is a CA.
Intercepted(c, s) == Upgraded(c, "tls", s) \/ Refused(c)

\* CONNECT with a valid secret: a provider's name is intercepted, another
\* target is dialled if it may be reached.
Connect(c, s, target) ==
    /\ Running /\ conn[c].kind = "proxy" /\ At(c, "connect") /\ Authorized(s)
    /\ \/ target = "provider" /\ Intercepted(c, s)
       \/ /\ Routed(target) /\ UNCHANGED live
          /\ conn' = [conn EXCEPT ![c].pc = "dial", ![c].secret = s]
       \/ target = "itself" /\ Refused(c)
    /\ UNCHANGED <<main, proxy, stop, heard, valid, capped>>

\* Within 30 seconds, directly or through the corporate proxy: the 200 goes
\* out and the bytes are relayed, or the target cannot be reached.
Dialled(c) ==
    /\ Running /\ At(c, "dial")
    /\ Upgraded(c, "relay", conn[c].secret) \/ Refused(c)
    /\ UNCHANGED <<main, proxy, stop, heard, valid, capped>>

\* An absolute-form request is forwarded on the connection itself.
Forward(c, s) ==
    /\ Running /\ conn[c].kind = "proxy" /\ At(c, "connect") /\ Authorized(s)
    /\ conn' = [conn EXCEPT ![c].pc = "forward"]
    /\ UNCHANGED <<main, proxy, stop, heard, valid, live, capped>>

Forwarded(c) ==
    /\ Running /\ At(c, "forward")
    /\ Becomes(c, "connect")
    /\ UNCHANGED <<main, proxy, stop, heard, valid, live, capped>>

TunnelSecured(c) ==
    /\ Running /\ conn[c].kind = "tunnel" /\ At(c, "tls")
    /\ Becomes(c, "open")
    /\ UNCHANGED <<main, proxy, stop, heard, valid, live, capped>>

TunnelRequest(c) ==
    /\ Running /\ conn[c].kind = "tunnel" /\ At(c, "open")
    /\ PrincipalNow(c) /\ ~Stopping
    /\ Becomes(c, "busy")
    /\ UNCHANGED <<main, proxy, stop, heard, valid, live, capped>>

\* The client closes, a handshake fails, a refusal closes the connection, or
\* the graceful shutdown of an idle tunnel session ends it.
Close(c) ==
    /\ Running /\ conn[c].pc \notin {"none", "busy"}
    /\ conn' = [conn EXCEPT ![c] = NoConn]
    /\ live' = IF conn[c].kind = "proxy" THEN live - 1 ELSE live
    /\ UNCHANGED <<main, proxy, stop, heard, valid, capped>>

-----------------------------------------------------------------------------
Next ==
    \/ SpawnTasks \/ MainServes \/ ProxyServes
    \/ \E why \in {"signal", "unwritable"} : RequestStop(why)
    \/ StopServing \/ DrainRunsOut \/ Exit \/ ProxyStops \/ ProxyDrained
    \/ \E s \in Secret : Revoke(s)
    \/ \E c \in Conn :
          \/ Accept(c) \/ Handshaken(c) \/ Answer(c) \/ AcceptProxy(c)
          \/ Dialled(c) \/ Forwarded(c) \/ TunnelSecured(c) \/ TunnelRequest(c) \/ Close(c)
          \/ \E s \in Secret : Dispatch(c, s) \/ Forward(c, s)
          \/ \E s \in Secret, target \in {"provider", "itself", "elsewhere"} : Connect(c, s, target)

\* The runtime polls its tasks and the five seconds pass.  No client promises
\* to finish anything.
MainGoesOn == SpawnTasks \/ MainServes \/ StopServing \/ DrainRunsOut \/ Exit
Fairness == WF_vars(MainGoesOn)
Spec == Init /\ [][Next]_vars
FairSpec == Spec /\ Fairness

-----------------------------------------------------------------------------
\* data_plane/mod.rs 53-54, cli/mod.rs 1030-1055: a stop request the serving
\* task hears ends the process, though no client ever finishes what it began.
Lingers == "main" \in heard /\ Running
StopEnds == Lingers ~> ~Lingers

\* decode.rs 80-92: "a revoke or a rotate lands inside an open tunnel".  A
\* secret revoked begins no exchange, on a connection however old.
RevocationStep ==
    \A c \in Conn : conn[c].pc # "busy" /\ conn'[c].pc = "busy"
        => conn'[c].secret \in valid /\ ~Stopping
RevocationLands == [][RevocationStep]_vars

\* mitm/listener.rs 102-104: "A spawned tunnel relay outlives its connection
\* task under the same count, so the drain covers open tunnels too": the
\* process does not leave an exchange in flight before the five seconds.
DrainLetsFinish ==
    [][main # "exited" /\ main' = "exited" /\ ~capped
           => \A c \in Conn : ~At(c, "busy")]_vars

\* cli/mod.rs 1137-1139: "SIGTERM and SIGINT stop cleanly", whenever they come.
EveryStopEnds == Stopping ~> main = "exited"
=============================================================================
