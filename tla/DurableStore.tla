---------------------------- MODULE DurableStore ----------------------------
(***************************************************************************)
(* What the state file promises: the registry and the accounts change in   *)
(* single steps, a restart loses nothing that took effect, and a secret is *)
(* disclosed only once the change that made it has taken effect for good.  *)
(* How a server with memory, a file, writers that fail and crashes keeps   *)
(* that promise is Store.                                                  *)
(***************************************************************************)
EXTENDS Registry

CONSTANTS Requests,              \* the registry mutations
          MaxSecret,             \* bound: secrets generated
          MaxCred                \* bound: credentials minted upstream

VARIABLES store,                 \* [reg, cred, errored]: what a restart finds
          told                   \* the secrets a caller was answered with

svars == <<store, told>>

\* A registry mutation takes effect at once, with a fresh secret if it makes
\* one; only the secret of the change itself is new.
Mutate ==
  /\ svars' # svars
  /\ \E req \in Requests, n \in 0 .. MaxSecret :
       /\ Admits(store.reg, req, {})
       /\ IF Discloses(req) = "none" THEN n = 0
          ELSE n # 0 /\ n \notin Held(store.reg) \cup told
       /\ store' = [store EXCEPT !.reg = After(store.reg, req, n)]
       /\ told' \in {told, told \cup ({n} \ {0})}

\* The credential moves on, or its account is set aside until it does.
Renew == /\ \E k \in store.cred + 1 .. MaxCred :
              store' = [store EXCEPT !.cred = k, !.errored = FALSE]
         /\ UNCHANGED told
SetAside == /\ store' = [store EXCEPT !.errored = TRUE]
            /\ UNCHANGED told

Init == /\ store = [reg |-> EmptyRegistry, cred |-> 0, errored |-> FALSE]
        /\ told = {}

Next == Mutate \/ Renew \/ SetAside

Spec == Init /\ [][Next]_svars
============================================================================
