------------------------------- MODULE Egress -------------------------------
(***************************************************************************)
(* The egress guard (src/src/data_plane/egress.rs): an exchange is held    *)
(* while the server's public address is not a pinned one, for at most the  *)
(* hold budget.  An observation is cached, callers that arrive together    *)
(* share one check through the in-flight lock, and a reload that changes   *)
(* the settings replaces the whole policy state.                           *)
(*                                                                         *)
(* A policy is named by its generation; `state[g]` is its PolicyState.     *)
(* An exchange compares the time of the observation it saw before it       *)
(* waited with the one it finds after: `newer` says they differ.           *)
(* Ghosts: an observation carries the generation its check began under.    *)
(***************************************************************************)
EXTENDS Naturals, FiniteSets, TLC

CONSTANTS Exchange, Address, Pinned, MaxReload

Unknown == "unknown"                  \* a failed or timed-out check
None == "none"
Mode == {"auto", "allow-list", "off"}
Generation == 0 .. MaxReload

\* Exchanges are not named like the absence of one.
EgressAssumption == MaxReload \in Nat /\ None \notin Exchange

NoObservation == [address |-> None, fresh |-> FALSE, under |-> 0]

VARIABLES
    mode,        \* data_plane.egress of the configuration in force
    replaced,    \* a reload replaced the configuration; reconfigure is next
    current,     \* Guard.policy: the generation in force
    state,       \* PolicyState by generation: [observed, auto, lock]
    held,        \* Guard.held
    ex           \* the exchanges at the gate

vars == <<mode, replaced, current, state, held, ex>>

NewPolicy == [observed |-> NoObservation, auto |-> None, lock |-> None]

Idle == [pc |-> "idle", mode |-> "off", policy |-> 0, pin |-> FALSE, fresh |-> FALSE,
         newer |-> FALSE, holding |-> FALSE, spent |-> FALSE, answer |-> None]

Init ==
    /\ mode \in Mode
    /\ replaced = FALSE
    /\ current = 0
    /\ state = [g \in Generation |-> NewPolicy]
    /\ held = 0
    /\ ex = [e \in Exchange |-> Idle]

-----------------------------------------------------------------------------
\* The exchange keeps the settings it begins with, and reads the policy only
\* when it reaches the gate, after its body arrived.
Begin(e) ==
    /\ ex[e].pc = "idle"
    /\ ex' = [ex EXCEPT ![e] = [Idle EXCEPT !.pc = "body", !.mode = mode]]
    /\ UNCHANGED <<mode, replaced, current, state, held>>

Enter(e) ==
    /\ ex[e].pc = "body"
    /\ ex' = [ex EXCEPT ![e].pc = IF ex[e].mode = "off" THEN "passed" ELSE "loop",
                        ![e].policy = current]
    /\ UNCHANGED <<mode, replaced, current, state, held>>

PolicyOf(e) == state[ex[e].policy]

\* The head of the loop: the first address observed under `auto` becomes the
\* pin; such a check skips the cache, as the rechecks of a held exchange do.
Look(e) ==
    LET pins == ex[e].mode = "auto" /\ PolicyOf(e).auto = None
    IN  /\ ex[e].pc = "loop"
        /\ ex' = [ex EXCEPT ![e].pc = "read", ![e].pin = pins,
                            ![e].fresh = pins \/ ex[e].holding]
        /\ UNCHANGED <<mode, replaced, current, state, held>>

Pins(e) ==
    IF ex[e].mode = "allow-list" THEN Pinned
    ELSE {PolicyOf(e).auto} \ {None}

Answered(e) ==
    [ex EXCEPT ![e].pc = "decide", ![e].answer = PolicyOf(e).observed.address]

\* observe: the cached observation, or a wait for the in-flight lock.
Read(e) ==
    /\ ex[e].pc = "read"
    /\ ex' = IF ~ex[e].fresh /\ PolicyOf(e).observed.fresh
               THEN Answered(e)
               ELSE [ex EXCEPT ![e].pc = "lock", ![e].newer = FALSE]
    /\ UNCHANGED <<mode, replaced, current, state, held>>

\* The lock's holder looks again: the check it waited behind may have
\* answered its question.
Lock(e) ==
    LET answered == IF ex[e].fresh THEN ex[e].newer ELSE PolicyOf(e).observed.fresh
    IN  /\ ex[e].pc = "lock"
        /\ PolicyOf(e).lock = None
        /\ IF answered
             THEN ex' = Answered(e) /\ UNCHANGED state
             ELSE /\ ex' = [ex EXCEPT ![e].pc = "fetch"]
                  /\ state' = [state EXCEPT ![ex[e].policy].lock = e]
        /\ UNCHANGED <<mode, replaced, current, held>>

Observation(e, address) == [address |-> address, fresh |-> TRUE, under |-> ex[e].policy]

\* Everyone else at this policy now finds another observation than it saw.
Seen(e, g) ==
    [f \in Exchange |-> IF f # e /\ ex[f].policy = g /\ ex[f].pc = "lock"
                       THEN [ex[f] EXCEPT !.newer = TRUE] ELSE ex[f]]

\* The mutated form: the answer lands in whatever policy is in force by now.
FetchedIntoCurrent(e) ==
    /\ ex[e].pc = "fetch"
    /\ \E answer \in Address \cup {Unknown} :
          /\ state' = [state EXCEPT ![current].observed = Observation(e, answer),
                                    ![ex[e].policy].lock = None]
          /\ ex' = [Seen(e, current) EXCEPT ![e].pc = "decide", ![e].answer = answer]
    /\ UNCHANGED <<mode, replaced, current, held>>

\* The check answers whatever the route out is by now, or fails: unknown.
\* It is cached in the exchange's own policy.
Fetched(e) ==
    /\ ex[e].pc = "fetch"
    /\ \E answer \in Address \cup {Unknown} :
          /\ state' = [state EXCEPT ![ex[e].policy].observed = Observation(e, answer),
                                    ![ex[e].policy].lock = None]
          /\ ex' = [Seen(e, ex[e].policy) EXCEPT ![e].pc = "decide", ![e].answer = answer]
    /\ UNCHANGED <<mode, replaced, current, held>>

Ended(all, e, how) == [all EXCEPT ![e] = [Idle EXCEPT !.pc = how]]
Released(e) == IF ex[e].holding THEN held - 1 ELSE held

\* The first observed address is now the pin; whoever was second keeps it.
PinFirst(e) ==
    /\ ex[e].pc = "decide"
    /\ ex[e].pin
    /\ IF ex[e].answer = Unknown
         THEN ex' = Ended(ex, e, "passed") /\ UNCHANGED state
         ELSE /\ ex' = Ended(Seen(e, ex[e].policy), e, "passed")
              /\ state' = [state EXCEPT
                    ![ex[e].policy].auto = IF @ = None THEN ex[e].answer ELSE @,
                    ![ex[e].policy].observed = Observation(e, ex[e].answer)]
    /\ held' = Released(e)
    /\ UNCHANGED <<mode, replaced, current>>

Pass(e) ==
    /\ ex[e].pc = "decide"
    /\ ~ex[e].pin
    /\ ex[e].answer \in Pins(e) \cup {Unknown}
    /\ ex' = Ended(ex, e, "passed")
    /\ held' = Released(e)
    /\ UNCHANGED <<mode, replaced, current, state>>

Wrong(e) == ex[e].pc = "decide" /\ ~ex[e].pin /\ ex[e].answer \notin Pins(e) \cup {Unknown}

\* The mutated form: the budget is never looked at.
HoldOn(e) ==
    /\ Wrong(e)
    /\ held' = IF ex[e].holding THEN held ELSE held + 1
    /\ ex' = [ex EXCEPT ![e].pc = "sleep", ![e].holding = TRUE]
    /\ UNCHANGED <<mode, replaced, current, state>>

Hold(e) ==
    /\ Wrong(e)
    /\ ~ex[e].spent
    /\ held' = IF ex[e].holding THEN held ELSE held + 1
    /\ ex' = [ex EXCEPT ![e].pc = "sleep", ![e].holding = TRUE]
    /\ UNCHANGED <<mode, replaced, current, state>>

Refuse(e) ==
    /\ Wrong(e)
    /\ ex[e].spent
    /\ ex' = Ended(ex, e, "refused")
    /\ held' = Released(e)
    /\ UNCHANGED <<mode, replaced, current, state>>

Wake(e) ==
    /\ ex[e].pc = "sleep"
    /\ ex' = [ex EXCEPT ![e].pc = "loop"]
    /\ UNCHANGED <<mode, replaced, current, state, held>>

BudgetSpent(e) ==
    /\ ex[e].pc \in {"loop", "read", "lock", "fetch", "decide", "sleep"}
    /\ ~ex[e].spent
    /\ ex' = [ex EXCEPT ![e].spent = TRUE]
    /\ UNCHANGED <<mode, replaced, current, state, held>>

\* A client that leaves drops its future at an await: its hold and the
\* in-flight lock go with it.
Leave(e) ==
    /\ ex[e].pc \in {"lock", "fetch", "sleep"}
    /\ ex' = Ended(ex, e, "left")
    /\ held' = Released(e)
    /\ state' = IF ex[e].pc = "fetch" THEN [state EXCEPT ![ex[e].policy].lock = None] ELSE state
    /\ UNCHANGED <<mode, replaced, current>>

-----------------------------------------------------------------------------
\* cache_seconds pass.
Expire(g) ==
    /\ state[g].observed.fresh
    /\ state' = [state EXCEPT ![g].observed.fresh = FALSE]
    /\ UNCHANGED <<mode, replaced, current, held, ex>>

\* A reload replaces the configuration and then, when the egress settings
\* changed, the policy; exchanges run between the two.
Reload ==
    /\ ~replaced
    /\ current < MaxReload
    /\ mode' \in Mode
    /\ replaced' = TRUE
    /\ UNCHANGED <<current, state, held, ex>>

Reconfigure ==
    /\ replaced
    /\ current' = current + 1
    /\ replaced' = FALSE
    /\ UNCHANGED <<mode, state, held, ex>>

AtGate(e) ==
    \/ Enter(e) \/ Look(e) \/ Read(e) \/ Lock(e) \/ Fetched(e) \/ PinFirst(e)
    \/ Pass(e) \/ Hold(e) \/ Refuse(e) \/ Wake(e)

Next ==
    \/ \E e \in Exchange : Begin(e) \/ AtGate(e) \/ BudgetSpent(e) \/ Leave(e)
    \/ Reload \/ Reconfigure
    \/ \E g \in Generation : Expire(g)

\* The runtime polls a woken task and its timers fire; a check ends within its
\* two deadlines.  Nobody promises that the address returns.
Fairness == \A e \in Exchange : WF_vars(AtGate(e)) /\ WF_vars(BudgetSpent(e))
Spec == Init /\ [][Next]_vars
FairSpec == Spec /\ Fairness

-----------------------------------------------------------------------------
TypeOK ==
    /\ mode \in Mode /\ replaced \in BOOLEAN /\ current \in Generation
    /\ held \in 0 .. Cardinality(Exchange)
    /\ \A g \in Generation : state[g].lock \in Exchange \cup {None}

\* egress.rs 56-59, 155-157: "A changed live policy starts with no cached
\* observation or automatic pin."  A check begun under one policy never leaves
\* its answer, or a pin, in a later one, however long it was in flight.
PolicyIsItsOwn ==
    \A g \in Generation :
        /\ state[g].observed.address # None => state[g].observed.under = g
        /\ g > current => state[g] = NewPolicy

\* egress.rs 251-254: an exchange is held "at most hold_seconds": every gate
\* ends, whatever the address does and whoever holds the in-flight lock.
AtTheGate(e) == ex[e].pc \in {"loop", "read", "lock", "fetch", "decide", "sleep"}
GateEnds == \A e \in Exchange : AtTheGate(e) ~> ~AtTheGate(e)
=============================================================================
