------------------------------ MODULE Upstream ------------------------------
(***************************************************************************)
(* The connections to the upstreams (data_plane/upstream.rs) and who holds *)
(* them: every request to a provider takes a permit of one semaphore, and  *)
(* an answer keeps it with its body (data_plane/exchange.rs,               *)
(* data_plane/relay.rs).                                                   *)
(*                                                                         *)
(* A permit is released where its holder is dropped, so the permits in use *)
(* are read off what the holders are doing.  Which account is chosen, and  *)
(* admission, are Pool's and Admission's.                                  *)
(***************************************************************************)
EXTENDS Naturals, Sequences, FiniteSets, SequencesExt

CONSTANTS Exchange, Account,
          Timed, Untimed,     \* other calls: under a deadline of their own, or not
          MaxConnections      \* data_plane.max_connections

Call == Timed \cup Untimed

VARIABLES
  exchange,   \* what each exchange is doing
  call,       \* what each other call is doing
  queue       \* those waiting for a permit, in the order they asked

vars == <<exchange, call, queue>>

Idle == [pc |-> "idle"]

Init ==
  /\ exchange = [e \in Exchange |-> Idle]
  /\ call = [c \in Call |-> "idle"] /\ queue = <<>>

\* Permits in use: by the attempt that was sent, by an answer passed over, by
\* another call.
InUse ==
  {<<e, "attempt">> : e \in {x \in Exchange : exchange[x].pc \in {"await", "collect", "relay"}}}
  \cup {<<e, "passed over">> : e \in {x \in Exchange : exchange[x] # Idle /\ exchange[x].passed}}
  \cup {<<c, "call">> : c \in {x \in Call : call[x] = "await"}}

Free == Cardinality(InUse) < MaxConnections

Goes(e, pc) == exchange' = [exchange EXCEPT ![e].pc = pc]
Ends(e) == exchange' = [exchange EXCEPT ![e] = Idle]
Asks(x) == queue' = Append(queue, x)
Gone(x) == queue' = Remove(queue, x)

\* Retries: a candidate has each of them once.
Retries(e, retry, pc) ==
  /\ retry \notin exchange[e].used
  /\ exchange' = [exchange EXCEPT ![e].pc = pc, ![e].used = @ \cup {retry}]

\* The next account, with all its retries; passed: an answer is passed over,
\* permit and all, in place of the one passed over before.  After the last
\* account that answer is relayed, if there is one.
TriesNext(e, passed) ==
  \E a \in exchange[e].left :
    LET left == exchange[e].left \ {a} IN
      \/ /\ left # {} /\ Asks(e)
         /\ exchange' = [exchange EXCEPT ![e] =
              [pc |-> "send", left |-> left, passed |-> passed, used |-> {}]]
      \/ /\ left = {} /\ UNCHANGED queue
         /\ IF passed THEN exchange' = [exchange EXCEPT ![e].pc = "relay", ![e].passed = FALSE] ELSE Ends(e)

----------------------------------------------------------------------------
(* Exchanges. *)

\* A client's request, and the account of its first attempt.
Begin(e) ==
  /\ exchange[e] = Idle
  /\ exchange' = [exchange EXCEPT ![e] =
       [pc |-> "send", left |-> Account, passed |-> FALSE, used |-> {}]]
  /\ Asks(e) /\ UNCHANGED call

\* send: the permit, first come first served and under no deadline.
Granted(e) ==
  /\ queue # <<>> /\ Head(queue) = e /\ e \in Exchange /\ Free
  /\ Goes(e, "await") /\ queue' = Tail(queue) /\ UNCHANGED call

\* The headers of an answer.
Answered(e, answer) ==
  /\ exchange[e].pc = "await" /\ UNCHANGED <<call, queue>>
  /\ Goes(e, IF answer = "429" THEN "collect" ELSE "relay")

\* A 401: the permit goes, one forced refresh, one retry.
Refused(e) ==
  /\ exchange[e].pc = "await" /\ UNCHANGED <<call, queue>>
  /\ Retries(e, "refresh", "refresh") \/ ("refresh" \in exchange[e].used /\ Ends(e))

\* The refresh is over: the newest credential, or none and the exchange ends.
Refreshed(e) ==
  /\ exchange[e].pc = "refresh" /\ UNCHANGED call
  /\ \/ Goes(e, "send") /\ Asks(e)
     \/ Ends(e) /\ UNCHANGED queue

\* No headers before the first-byte deadline, or the connection fails: once
\* more on a fresh connection.
Unanswered(e) ==
  /\ exchange[e].pc = "await" /\ UNCHANGED call
  /\ \/ Retries(e, "network", "send") /\ Asks(e)
     \/ "network" \in exchange[e].used /\ Ends(e) /\ UNCHANGED queue

\* Another failure: the next account, unless the exchange has one candidate.
Fails(e) ==
  /\ exchange[e].pc = "await" /\ UNCHANGED call
  /\ TriesNext(e, exchange[e].passed) \/ (Ends(e) /\ UNCHANGED queue)

\* The 429 was read.  Exhaustion passes it over where the exchange may fail
\* over; a throttle is waited for once; else it is relayed.
Collected(e) ==
  /\ exchange[e].pc = "collect" /\ UNCHANGED call
  /\ \/ TriesNext(e, TRUE)
     \/ Retries(e, "throttle", "send") /\ Asks(e)
     \/ Goes(e, "relay") /\ UNCHANGED queue

\* Mutant: an idle body is waited for.
RelayEndsNever(e) == FALSE /\ UNCHANGED vars

\* The body ends, fails, or is idle for too long.
RelayEnds(e) == exchange[e].pc = "relay" /\ Ends(e) /\ UNCHANGED <<call, queue>>

\* The client goes away: the exchange is dropped with all it holds.
HangsUp(e) == exchange[e] # Idle /\ Ends(e) /\ Gone(e) /\ UNCHANGED call

----------------------------------------------------------------------------
(* Other calls: a token refresh, a code exchange, a profile or usage lookup, *)
(* the public upstream of the auxiliary listener.                            *)

CallBegins(c) ==
  /\ call[c] = "idle" /\ call' = [call EXCEPT ![c] = "wait"] /\ Asks(c) /\ UNCHANGED exchange

CallGranted(c) ==
  /\ queue # <<>> /\ Head(queue) = c /\ c \in Call /\ Free
  /\ call' = [call EXCEPT ![c] = "await"] /\ queue' = Tail(queue) /\ UNCHANGED exchange

CallEnds(c) ==
  /\ call[c] = "await" /\ call' = [call EXCEPT ![c] = "idle"] /\ UNCHANGED <<exchange, queue>>

\* Mutant: the deadline starts when the request is on its way.
ExpiresOnTheWire(c) ==
  /\ call[c] = "await" /\ call' = [call EXCEPT ![c] = "idle"] /\ Gone(c) /\ UNCHANGED exchange

\* The deadline, over the wait for a permit too.
Expires(c) ==
  /\ call[c] # "idle" /\ call' = [call EXCEPT ![c] = "idle"] /\ Gone(c) /\ UNCHANGED exchange

Next ==
  \/ \E e \in Exchange :
       \/ Begin(e) \/ Granted(e) \/ Refused(e) \/ Refreshed(e) \/ Unanswered(e)
       \/ Fails(e) \/ Collected(e) \/ RelayEnds(e) \/ HangsUp(e)
       \/ \E answer \in {"429", "served"} : Answered(e, answer)
  \/ \E c \in Call : CallBegins(c) \/ CallGranted(c) \/ CallEnds(c)
  \/ \E c \in Timed : Expires(c)

\* The runtime grants permits and fires the deadlines: the first byte's, the
\* idle body's, the calls' own.  A provider ends the 429 it began, a client
\* reads its answer (an idle body is noticed when it asks for more), and a
\* refresh is Refresh's to end.  No client has to hang up.
Progress(e) == Granted(e) \/ Unanswered(e) \/ RelayEnds(e) \/ Refreshed(e) \/ Collected(e)
Fairness ==
  /\ \A e \in Exchange : WF_vars(Progress(e))
  /\ \A c \in Call : WF_vars(CallGranted(c))
  /\ \A c \in Timed : WF_vars(Expires(c))

FairSpec == Init /\ [][Next]_vars /\ Fairness

----------------------------------------------------------------------------
(* Properties. *)

Waits(e) == exchange[e].pc = "send"
Passing == \E e \in Exchange : exchange[e] # Idle /\ exchange[e].passed

\* A call with a deadline ends even when no permit comes free: a token refresh
\* does not hang behind exchanges that hold every connection.
Calling(c) == call[c] # "idle"
TimedCallsEnd == \A c \in Timed : Calling(c) ~> ~Calling(c)

\* While no answer is passed over, every attempt gets its connection, however
\* slowly the bodies of the others come.
ServedInTurn == \A e \in Exchange : []<>(Waits(e) /\ Passing) \/ (Waits(e) ~> ~Waits(e))

\* "One attempt under the first-byte deadline": an attempt to be sent is sent
\* or given up.
AttemptsEnd == \A e \in Exchange : Waits(e) ~> ~Waits(e)
=============================================================================
