------------------------------- MODULE MCLive -------------------------------
(***************************************************************************)
(* The components whose promise is that something ends: an exchange's      *)
(* candidate loop (Pool, extended here), the delivery of client kits, the  *)
(* egress gate, serving and its shutdown, the account probes, the          *)
(* connections to the providers.  None shares state with another here, so  *)
(* one run checks them in turn: `part` names the one that runs, and v1,    *)
(* v2, ... are the variables of those that are not Pool.                   *)
(***************************************************************************)
EXTENDS Pool, TLC

CONSTANTS Launches, m1,                 \* Kit
          NoRelease, NoKey, Torn, OwnClient, MaxSwitch, MaxLaunch, MaxFault,
          e1, e2, MaxReload,            \* Egress, Upstream
          c1, c2, s1,                   \* Serving
          a1, a2, a3,                   \* Probe, Pool, Upstream
          Calls, MaxConnections         \* Upstream

VARIABLES
  part,  \* the part that runs
  \* its variables, in the order its module declares them
  v1, v2, v3, v4, v5, v6, v7, v8, v9, v10, v11, v12, v13, v14

NoVariable == "-"
slots == <<v1, v2, v3, v4, v5, v6, v7, v8, v9, v10, v11, v12, v13, v14>>

Exchanges == {e1, e2}

\* Pool: one exchange, on either model, over two accounts that hold or not.
TwoAccounts == {a1, a2}
AllAnthropic == [h \in TwoAccounts |-> "anthropic"]
NoIdent == [h \in TwoAccounts |-> {}]
HaikuOrNone == {NoModel, "haiku"}
Failover == [routes |-> [haiku |-> [configured |-> TRUE, spelling |-> "haiku", open |-> FALSE,
                                    listed |-> {"one"}]],
             priorities |-> <<>>, failover |-> TRUE, distribute |-> TRUE]
Configs == {Failover}

\* Pool, while another part runs.
PoolAside ==
  /\ exchange = [x \in Exchange |-> Ended]
  /\ order = NoVariable /\ used = NoVariable /\ account = NoVariable /\ default = NoVariable
  /\ pref = NoVariable /\ config = NoVariable /\ session = NoVariable /\ request = NoVariable

kitVars == <<v1, v2, v3, v4, v5, v6, v7, v8, v9, v10, v11, v12, v13, v14>>
egressVars == <<v1, v2, v3, v4, v5, v6>>
servingVars == <<v1, v2, v3, v4, v5, v6, v7, v8>>
probeVars == <<v1, v2, v3, v4, v5, v6>>
upstreamVars == <<v1, v2, v3>>

\* Three releases, the second signed by both keys and the third by the next
\* one; the launches of one machine.
KitPart == INSTANCE Kit WITH
  Machine <- {m1}, Launch <- Launches, MachineOf <- [l \in Launches |-> m1],
  Release <- 1..3, Key <- {"old", "new"}, KeyOf <- <<"old", "old", "new">>,
  NextOf <- <<NoKey, "new", NoKey>>,
  link <- v1, serverKey <- v2, decided <- v3, verifying <- v4, tasks <- v5, switches <- v6,
  invited <- v7, pinned <- v8, installed <- v9, staged <- v10, crossed <- v11, launch <- v12,
  launches <- v13, faults <- v14

\* Two exchanges and two addresses, of which one is pinned.
EgressPart == INSTANCE Egress WITH
  Exchange <- Exchanges, Address <- {"home", "away"}, Pinned <- {"home"},
  mode <- v1, replaced <- v2, current <- v3, state <- v4, held <- v5, ex <- v6

\* Two connections of either kind and one client secret.
ServingPart == INSTANCE Serving WITH
  Conn <- {c1, c2}, Secret <- {s1},
  main <- v1, proxy <- v2, stop <- v3, heard <- v4, valid <- v5, conn <- v6, live <- v7, capped <- v8

\* Three accounts, one of them an API key.
ProbePart == INSTANCE Probe WITH
  Account <- {a1, a2, a3}, ApiKey <- {a3},
  schedule <- v1, changed <- v2, heard <- v3, due <- v4, sweep <- v5, dirty <- v6

\* More exchanges than connections, and a token refresh.
UpstreamPart == INSTANCE Upstream WITH
  Exchange <- Exchanges, Account <- {a1, a2}, Timed <- Calls, Untimed <- {},
  exchange <- v1, call <- v2, queue <- v3

-----------------------------------------------------------------------------
LiveInit ==
  \/ /\ part = "pool" /\ Init
     /\ v1 = NoVariable /\ v2 = NoVariable /\ v3 = NoVariable /\ v4 = NoVariable
     /\ v5 = NoVariable /\ v6 = NoVariable /\ v7 = NoVariable /\ v8 = NoVariable
     /\ v9 = NoVariable /\ v10 = NoVariable /\ v11 = NoVariable /\ v12 = NoVariable
     /\ v13 = NoVariable /\ v14 = NoVariable
  \/ /\ part = "kit" /\ KitPart!Init
     /\ PoolAside
  \/ /\ part = "egress" /\ EgressPart!Init
     /\ PoolAside
     /\ v7 = NoVariable /\ v8 = NoVariable /\ v9 = NoVariable /\ v10 = NoVariable
     /\ v11 = NoVariable /\ v12 = NoVariable /\ v13 = NoVariable /\ v14 = NoVariable
  \/ /\ part = "serving" /\ ServingPart!Init
     /\ PoolAside
     /\ v9 = NoVariable /\ v10 = NoVariable /\ v11 = NoVariable /\ v12 = NoVariable
     /\ v13 = NoVariable /\ v14 = NoVariable
  \/ /\ part = "probe" /\ ProbePart!Init
     /\ PoolAside
     /\ v7 = NoVariable /\ v8 = NoVariable /\ v9 = NoVariable /\ v10 = NoVariable
     /\ v11 = NoVariable /\ v12 = NoVariable /\ v13 = NoVariable /\ v14 = NoVariable
  \/ /\ part = "upstream" /\ UpstreamPart!Init
     /\ PoolAside
     /\ v4 = NoVariable /\ v5 = NoVariable /\ v6 = NoVariable /\ v7 = NoVariable
     /\ v8 = NoVariable /\ v9 = NoVariable /\ v10 = NoVariable /\ v11 = NoVariable
     /\ v12 = NoVariable /\ v13 = NoVariable /\ v14 = NoVariable

liveVars == <<part, slots, vars>>

LiveNext ==
  \/ part = "pool" /\ Next /\ UNCHANGED <<part, slots>>
  \/ part = "kit" /\ KitPart!Next /\ UNCHANGED <<part, vars>>
  \/ part = "egress" /\ EgressPart!Next /\ UNCHANGED <<part, v7, v8, v9, v10, v11, v12, v13,
                                                       v14, vars>>
  \/ part = "serving" /\ ServingPart!Next /\ UNCHANGED <<part, v9, v10, v11, v12, v13, v14,
                                                         vars>>
  \/ part = "probe" /\ ProbePart!Next /\ UNCHANGED <<part, v7, v8, v9, v10, v11, v12, v13, v14,
                                                     vars>>
  \/ part = "upstream" /\ UpstreamPart!Next /\ UNCHANGED <<part, v4, v5, v6, v7, v8, v9, v10,
                                                           v11, v12, v13, v14, vars>>

LiveSpec == LiveInit /\ [][LiveNext]_liveVars

\* The fairness of each component, while it runs.
Fairness ==
  /\ WF_kitVars(part = "kit" /\ KitPart!Verify)
  /\ \A l \in Launches : WF_kitVars(part = "kit" /\ KitPart!LaunchStep(l))
  /\ \A e \in Exchanges :
       /\ WF_egressVars(part = "egress" /\ EgressPart!AtGate(e))
       /\ WF_egressVars(part = "egress" /\ EgressPart!BudgetSpent(e))
  /\ WF_servingVars(part = "serving" /\ ServingPart!MainGoesOn)
  /\ WF_probeVars(part = "probe" /\ ProbePart!Sweeps)
  /\ WF_probeVars(part = "probe" /\ ProbePart!Schedules)
  /\ \A x \in Exchange : WF_vars(part = "pool" /\ Proceed(x))
  /\ \A e \in Exchanges : WF_upstreamVars(part = "upstream" /\ UpstreamPart!Progress(e))
  /\ \A c \in Calls :
       /\ WF_upstreamVars(part = "upstream" /\ UpstreamPart!CallGranted(c))
       /\ WF_upstreamVars(part = "upstream" /\ UpstreamPart!Expires(c))

LiveFairSpec == LiveSpec /\ Fairness

-----------------------------------------------------------------------------
\* Each property is the component's own, of the part that runs.
Pending(p, P) == part = p /\ P

LaunchSettles == \A l \in Launches :
  Pending("kit", KitPart!Launching(l)) ~> ~Pending("kit", KitPart!Launching(l))
GateEnds == \A e \in Exchanges :
  Pending("egress", EgressPart!AtTheGate(e)) ~> ~Pending("egress", EgressPart!AtTheGate(e))
StopEnds == Pending("serving", ServingPart!Lingers) ~> ~Pending("serving", ServingPart!Lingers)
SweepsGoOn ==
  <>[]Pending("probe", ProbePart!Probing) /\ <>[][part = "probe" => ProbePart!Unmoved]_slots
    => []<>Pending("probe", ProbePart!Sweeping)
TimedCallsEnd == \A c \in Calls :
  Pending("upstream", UpstreamPart!Calling(c)) ~> ~Pending("upstream", UpstreamPart!Calling(c))
ServedInTurn == \A e \in Exchanges :
  \/ []<>Pending("upstream", UpstreamPart!Waits(e) /\ UpstreamPart!Passing)
  \/ Pending("upstream", UpstreamPart!Waits(e)) ~> ~Pending("upstream", UpstreamPart!Waits(e))
=============================================================================
