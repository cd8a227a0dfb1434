-------------------------------- MODULE Login --------------------------------
(***************************************************************************)
(* Browser logins: the table of started flows, the driver task of each,    *)
(* the loopback callback the server answers for an operator's flow, and    *)
(* the one pool mutation a flow ends in, from login.rs, the login handlers *)
(* of control/mod.rs and control/client_accounts.rs, and Pool::add and     *)
(* relogin.                                                                *)
(*                                                                         *)
(* A handler looks at a flow's state and sends its event under the lock;   *)
(* the driver takes events, and moves the state, on its own.  A paste or a *)
(* callback is "code" (a code, with this flow's state value if it carries  *)
(* one), "refused", or "other" (neither).                                  *)
(***************************************************************************)
EXTENDS Naturals, Sequences

CONSTANTS Flow, Identity,
          Client,        \* the clients that log in accounts of their own
          MaxEvent,      \* bound: events waiting in a flow's channel
          MaxTerm,       \* bound: changes of the clients' terms
          Operator       \* the owner of the pool's other accounts

Paste == {"code", "refused", "other"}
Owner == Client \cup {Operator}
Absent == "absent"
NoConnection == "none"

\* No flow and no owner is named like the absence of one.
LoginAssumption == Absent \notin Flow \cup Owner

VARIABLES
  holder,     \* per identity: whose account the pool holds for it, or Absent
  source,     \* per identity: the flow whose token family the account has
  adds,       \* the clients whose invite adds accounts
  terms,
  flow,       \* Logins: the operation a handler sees
  events,     \* the channel to its driver
  driver,     \* what its driver does
  connection, \* the callback connection being answered
  late        \* flows whose expires_at passed

pool == <<holder, source>>
registry == <<adds, terms>>
vars == <<pool, registry, flow, events, driver, connection, late>>

NoFlow == [state |-> "unknown"]
Idle == [pc |-> "none", listens |-> FALSE, identity |-> Absent, adds |-> FALSE]

Init ==
  /\ holder \in [Identity -> Owner \cup {Absent}] /\ source = [i \in Identity |-> Absent]
  /\ adds \in SUBSET Client /\ terms = 0
  /\ flow = [f \in Flow |-> NoFlow] /\ events = [f \in Flow |-> <<>>]
  /\ driver = [f \in Flow |-> Idle] /\ connection = [f \in Flow |-> NoConnection]
  /\ late = {}

Awaiting(f) == flow[f].state = "awaiting"
Ended(f) == flow[f].state \in {"succeeded", "failed", "cancelled"}
Drives(f, pc) == driver[f].pc = pc
Goto(f, pc) == driver' = [driver EXCEPT ![f].pc = pc]

----------------------------------------------------------------------------
(* The handlers. *)

OwnsAny(c) == \E i \in Identity : holder[i] = c

\* The operator's flow listens for its callback, unless the port is taken.
Started(f, owner) ==
  /\ flow[f] = NoFlow
  /\ \E listens \in IF owner = Operator THEN BOOLEAN ELSE {FALSE} :
       driver' = [driver EXCEPT ![f] = [Idle EXCEPT !.pc = "wait", !.listens = listens]]
  /\ flow' = [flow EXCEPT ![f] = [state |-> "awaiting", owner |-> owner, account |-> Absent]]
  /\ UNCHANGED <<pool, registry, events, connection, late>>

\* login_start: a client that may add none has one to log in again.
Start(f, owner) == (owner # Operator => owner \in adds \/ OwnsAny(owner)) /\ Started(f, owner)

\* submit and cancel: only an awaiting flow admits an event.
Send(f, event) ==
  /\ Awaiting(f) /\ Len(events[f]) < MaxEvent
  /\ events' = [events EXCEPT ![f] = Append(@, event)]
  /\ UNCHANGED <<pool, registry, flow, driver, connection, late>>

Submit(f) == \E paste \in Paste : Send(f, paste)
Cancel(f) == Send(f, "cancel")

\* sweep: an ended operation is forgotten after an hour.
Sweep(f) ==
  /\ Ended(f)
  /\ flow' = [flow EXCEPT ![f] = NoFlow]
  /\ source' = [i \in Identity |-> IF source[i] = f THEN Absent ELSE source[i]]
  /\ UNCHANGED <<holder, registry, events, driver, connection, late>>

----------------------------------------------------------------------------
(* The driver. *)

\* The flow is decided, and the listener closed.
Leaves(f, pc) == driver' = [driver EXCEPT ![f] = [Idle EXCEPT !.pc = pc]]

\* What a paste does to the flow, where the driver waits.
Takes(f, paste) ==
  CASE paste = "code" -> Leaves(f, "took")
    [] paste = "refused" -> Leaves(f, "failed")
    [] paste = "cancel" -> Leaves(f, "cancelled")
    [] OTHER -> Goto(f, "wait")

Receive(f) ==
  /\ Drives(f, "wait") /\ events[f] # <<>>
  /\ Takes(f, Head(events[f])) /\ events' = [events EXCEPT ![f] = Tail(@)]
  /\ UNCHANGED <<pool, registry, flow, connection, late>>

\* A connection to the callback's port: the driver answers it, and does nothing
\* else until the browser has sent its request or gone.
Accept(f) ==
  /\ Drives(f, "wait") /\ driver[f].listens
  /\ Goto(f, "answer") /\ connection' = [connection EXCEPT ![f] = "open"]
  /\ UNCHANGED <<pool, registry, flow, events, late>>

\* external: the browser sends a request; one that closes sent nothing of use.
Browser(f) ==
  /\ connection[f] = "open"
  /\ \E sent \in Paste : connection' = [connection EXCEPT ![f] = sent]
  /\ UNCHANGED <<pool, registry, flow, events, driver, late>>

AnswerCallback(f) ==
  /\ Drives(f, "answer") /\ connection[f] \notin {NoConnection, "open"}
  /\ Takes(f, connection[f])
  /\ connection' = [connection EXCEPT ![f] = NoConnection]
  /\ UNCHANGED <<pool, registry, flow, events, late>>

Expires(f) ==
  /\ Drives(f, "wait") /\ f \in late
  /\ Leaves(f, "failed")
  /\ UNCHANGED <<pool, registry, flow, events, connection, late>>

\* complete: the state moves first.
Exchanging(f) ==
  /\ Drives(f, "took") /\ flow' = [flow EXCEPT ![f].state = "exchanging"]
  /\ Goto(f, "exchange")
  /\ UNCHANGED <<pool, registry, events, connection, late>>

\* external: the provider's code exchange and profile lookup.
Exchanged(f) ==
  /\ Drives(f, "exchange")
  /\ \/ \E i \in Identity :
          driver' = [driver EXCEPT ![f].pc = "terms", ![f].identity = i]
     \/ Goto(f, "failed")
  /\ UNCHANGED <<pool, registry, flow, events, connection, late>>

\* The registry is read, then the pool is changed under its own lock.
ReadTerms(f) ==
  /\ Drives(f, "terms")
  /\ driver' = [driver EXCEPT ![f].pc = "pool",
                              ![f].adds = flow[f].owner = Operator \/ flow[f].owner \in adds]
  /\ UNCHANGED <<pool, registry, flow, events, connection, late>>

\* add, or relogin when the client adds none: a client takes no account that is
\* not its own.  Another name of the identity, a name already taken and a state
\* file that cannot be written refuse it too.
Accepts(f, i) ==
  /\ holder[i] = Absent => driver[f].adds
  /\ holder[i] # Absent /\ flow[f].owner # Operator => holder[i] = flow[f].owner

\* Mutant: the flow's owner becomes the account's.
HolderOfFlow(f, i) == flow[f].owner

\* An identity the pool holds keeps its owner.
HolderAfter(f, i) == IF holder[i] = Absent THEN flow[f].owner ELSE holder[i]

MutatePool(f) ==
  LET i == driver[f].identity IN
  /\ Drives(f, "pool")
  /\ \/ /\ Accepts(f, i)
        /\ holder' = [holder EXCEPT ![i] = HolderAfter(f, i)]
        /\ source' = [source EXCEPT ![i] = f]
        /\ Goto(f, "succeeded")
     \/ Goto(f, "failed") /\ UNCHANGED pool
  /\ UNCHANGED <<registry, flow, events, connection, late>>

Finish(f) ==
  flow' = [flow EXCEPT ![f].state = driver[f].pc,
                       ![f].account = IF Drives(f, "succeeded") THEN driver[f].identity ELSE Absent]

Ends(f) ==
  /\ driver[f].pc \in {"succeeded", "failed", "cancelled"}
  /\ Finish(f)
  /\ events' = [events EXCEPT ![f] = <<>>] /\ driver' = [driver EXCEPT ![f] = Idle]
  /\ late' = late \ {f}
  /\ UNCHANGED <<pool, registry, connection>>

----------------------------------------------------------------------------
(* What else happens. *)

\* The operator removes an account.
RemoveAccount(i) ==
  /\ holder[i] # Absent
  /\ holder' = [holder EXCEPT ![i] = Absent] /\ source' = [source EXCEPT ![i] = Absent]
  /\ UNCHANGED <<registry, flow, events, driver, connection, late>>

\* The operator invites a client anew, under other terms.
Reissue(c) ==
  /\ terms < MaxTerm /\ terms' = terms + 1
  /\ adds' = IF c \in adds THEN adds \ {c} ELSE adds \cup {c}
  /\ UNCHANGED <<pool, flow, events, driver, connection, late>>

TimePasses(f) ==
  /\ driver[f].pc \in {"wait", "answer"} /\ f \notin late /\ late' = late \cup {f}
  /\ UNCHANGED <<pool, registry, flow, events, driver, connection>>

\* Every step of a driver that waits for nobody outside.
DriverStep(f) ==
  \/ Receive(f) \/ AnswerCallback(f) \/ Expires(f) \/ Exchanging(f) \/ Exchanged(f)
  \/ ReadTerms(f) \/ MutatePool(f) \/ Ends(f)

Next ==
  \/ \E f \in Flow :
       \/ \E owner \in Owner : Start(f, owner)
       \/ Submit(f) \/ Cancel(f) \/ Sweep(f) \/ Accept(f) \/ Browser(f)
       \/ DriverStep(f) \/ TimePasses(f)
  \/ \E i \in Identity : RemoveAccount(i)
  \/ \E c \in Client : Reissue(c)

Spec == Init /\ [][Next]_vars

\* A driver runs, and its select! chooses fairly among what is ready; nobody
\* makes a browser send its request.
FairSpec == Spec /\ \A f \in Flow : WF_vars(DriverStep(f)) /\ SF_vars(Expires(f))

----------------------------------------------------------------------------
(* Properties. *)

\* An account never changes hands: a login into an identity the pool holds,
\* whoever starts it and whatever is removed or invited meanwhile, leaves it
\* with its owner, and a client's login reaches no other owner's account.
OwnersStep ==
  \A i \in Identity :
    /\ holder[i] # Absent /\ holder'[i] # Absent => holder'[i] = holder[i]
    /\ source'[i] # source[i] /\ source'[i] # Absent
         => flow[source'[i]].owner \in {holder'[i], Operator}
OwnersKept == [][OwnersStep]_vars

\* login.rs: "a moved wall clock ends a flow at its printed expiry".
ExpiryEnds == \A f \in Flow : (f \in late /\ Awaiting(f)) ~> ~Awaiting(f)
=============================================================================
