------------------------------- MODULE Quota -------------------------------
(***************************************************************************)
(* An account's quota (pool/quota.rs, pool/holds.rs and the providers'     *)
(* readings).                                                              *)
(*                                                                         *)
(* One bucket per account governs every request here.  What the provider   *)
(* knows is outside: `spent` and `window` are the truth, and an answer or  *)
(* a usage reading carries the truth of the moment it was produced, which  *)
(* need not be the moment it arrives.  Throttle holds are Admission's.     *)
(***************************************************************************)
EXTENDS Naturals, FiniteSets

CONSTANTS Account, Request,
          Window, Fallback,  \* ticks of a window, and of a hold without a reset
          MaxTime            \* bound: the clock

\* Both are lengths of time.
QuotaAssumption == Window \in Nat /\ Fallback \in Nat

VARIABLES
  now,
  apiKeys,         \* the accounts with an API key; the others are subscriptions
  spent, window,   \* per account, at the provider: used up, and when it resets
  bucket,          \* per account, what the pool believes
  cap,             \* the end of the hold of the accounts' organisation
  request,         \* per request: its account, and the answer on its way
  reading          \* the usage reading on its way

truth == <<spent, window, apiKeys>>
vars == <<now, truth, bucket, cap, request, reading>>

Later(s, t) == IF s > t THEN s ELSE t

\* `Bucket::unknown`: nothing observed, no hold (0 is no time).
Unknown == [util |-> "none", status |-> "none", reset |-> 0, hold |-> 0]

NoFacts   == [util |-> "none", status |-> "none", reset |-> 0]
NoReading == [pc |-> "none"]
NoAsking  == [pc |-> "idle"]

Init ==
  /\ now = 0 /\ apiKeys \in SUBSET Account
  /\ spent = [a \in Account |-> FALSE] /\ window = [a \in Account |-> Window]
  /\ bucket = [a \in Account |-> Unknown] /\ cap = 0
  /\ request = [r \in Request |-> NoAsking]
  /\ reading = NoReading

----------------------------------------------------------------------------
(* The provider: outside the program. *)

Tick == now < MaxTime /\ now' = now + 1 /\ UNCHANGED <<truth, bucket, cap, request, reading>>

Spend(a) ==
  /\ ~spent[a] /\ spent' = [spent EXCEPT ![a] = TRUE]
  /\ UNCHANGED <<now, window, apiKeys, bucket, cap, request, reading>>

WindowEnds(a) ==
  /\ window[a] <= now
  /\ spent' = [spent EXCEPT ![a] = FALSE] /\ window' = [window EXCEPT ![a] = now + Window]
  /\ UNCHANGED <<now, apiKeys, bucket, cap, request, reading>>

----------------------------------------------------------------------------
(* Readings. *)

Used(a) == IF spent[a] THEN "full" ELSE "low"

\* observe_headers: a subscription's utilisation, status and reset; the
\* counters of an API key, whose reset counts only when it is to come.
Headers(a) ==
  [util |-> Used(a),
   status |-> IF a \in apiKeys THEN "none" ELSE IF spent[a] THEN "rejected" ELSE "allowed",
   reset |-> window[a]]

\* observe_usage: no status.
Usage(a) == [util |-> Used(a), status |-> "none", reset |-> window[a]]

Or(fresh, stored, none) == IF fresh # none THEN fresh ELSE stored

\* apply: a field that is not there leaves the older one; capacity seen clears
\* the hold.  Readings are stamped with the time they arrive, so none is older
\* than what the bucket has.
Applied(b, f, api) ==
  LET util == Or(f.util, b.util, "none") IN
    [util   |-> util,
     status |-> Or(f.status, b.status, "none"),
     reset  |-> IF api /\ f.reset # 0 /\ f.reset <= now THEN 0 ELSE Or(f.reset, b.reset, 0),
     hold   |-> IF util = "low" THEN 0 ELSE b.hold]

\* classify: the fresh fact, else the stored one, says the bucket is exhausted.
Exhausts(b, f, api) ==
  \/ Or(f.util, b.util, "none") = "full"
  \/ ~api /\ Or(f.status, b.status, "none") = "rejected"

\* Mutant: a running hold is lengthened by the fallback.
FallenOnTop(hold) == IF hold > now THEN hold + Fallback ELSE now + Fallback

\* exhaustion_fallback_seconds, extended only.
Fallen(hold) == Later(hold, now + Fallback)

\* hold_exhausted: until the reset to come, else the fallback.
HeldExhausted(b) == [b EXCEPT !.hold = IF b.reset > now THEN b.reset ELSE Fallen(b.hold)]

\* expire: at its reset, or at the end of a hold without one.
Expired(b) ==
  IF (b.reset # 0 /\ b.reset <= now) \/ (b.reset = 0 /\ b.hold # 0 /\ b.hold <= now) THEN Unknown ELSE b

\* What an answer leaves of the organisation's hold: a revalidation that was
\* not throttled ends it.
CapAfter(r) == IF request[r].challenge THEN 0 ELSE cap

----------------------------------------------------------------------------
(* Requests. *)

\* quota_bar, over the buckets as they expire before any selection.
Barred(a) == cap > now \/ Expired(bucket[a]).hold > now

\* A request for an account that is not barred, or the challenge of a hold.
Ask(r, a) ==
  /\ request[r] = NoAsking
  /\ bucket' = [b \in Account |-> Expired(bucket[b])]
  /\ request' = [request EXCEPT ![r] =
       [pc |-> "sent", account |-> a, challenge |-> Barred(a), answer |-> "none", facts |-> NoFacts, past |-> FALSE]]
  /\ cap' = (IF cap <= now THEN 0 ELSE cap)
  /\ UNCHANGED <<now, truth, reading>>

\* The provider answers: served, out of quota, a burst throttle without facts,
\* or the organisation's cap.  `past`: a usage reading made before it is still
\* on its way.
AnswerIs(r, answer) ==
  /\ request[r].pc = "sent"
  /\ LET a == request[r].account IN
     /\ answer = "ok" => ~spent[a]
     /\ answer = "out" => spent[a]
     /\ request' = [request EXCEPT ![r] =
          [@ EXCEPT !.pc = "answered", !.answer = answer,
                    !.facts = IF answer \in {"ok", "out"} THEN Headers(a) ELSE NoFacts,
                    !.past = reading # NoReading /\ reading.at = a]]
  /\ UNCHANGED <<now, truth, bucket, cap, reading>>

Answered(r, answer) == request[r].pc = "answered" /\ request[r].answer = answer
Closed(r) == request' = [request EXCEPT ![r] = NoAsking] /\ UNCHANGED <<now, truth>>

\* A success teaches the account; a challenge that succeeds ends its holds.
Served(r) ==
  /\ Answered(r, "ok") /\ Closed(r) /\ cap' = CapAfter(r) /\ UNCHANGED reading
  /\ LET a == request[r].account
         b == Applied(bucket[a], request[r].facts, a \in apiKeys)
     IN bucket' = [bucket EXCEPT ![a] = IF request[r].challenge /\ b.hold > now THEN Unknown ELSE b]

\* record_429: exhaustion applies the facts and holds the bucket, a throttle
\* leaves it as it is.
Rejected(r) ==
  /\ Answered(r, "out") \/ Answered(r, "burst")
  /\ Closed(r) /\ UNCHANGED cap
  /\ LET a == request[r].account
         f == request[r].facts
         exhausts == Exhausts(bucket[a], f, a \in apiKeys)
     IN /\ bucket' = (IF exhausts
             THEN [bucket EXCEPT ![a] = HeldExhausted(Applied(@, f, a \in apiKeys))] ELSE bucket)
        /\ reading' = (IF exhausts /\ request[r].past /\ reading # NoReading
                       THEN [reading EXCEPT !.older = TRUE] ELSE reading)

Capped(r) ==
  /\ Answered(r, "cap") /\ Closed(r) /\ cap' = Fallen(cap) /\ UNCHANGED <<bucket, reading>>

\* A dropped connection: nothing is learnt.
Dropped(r) ==
  /\ request[r] # NoAsking /\ Closed(r) /\ UNCHANGED <<bucket, cap, reading>>

----------------------------------------------------------------------------
(* Usage readings: Probe's sweeps make one at a time. *)

Read(a) ==
  /\ reading = NoReading /\ a \notin apiKeys
  /\ reading' = [pc |-> "read", at |-> a, facts |-> Usage(a), older |-> FALSE]
  /\ request' = [r \in Request |-> IF request[r] = NoAsking THEN NoAsking
                                   ELSE [request[r] EXCEPT !.past = FALSE]]
  /\ UNCHANGED <<now, truth, bucket, cap>>

\* observe_usage; or the deadline passed, or the account left the pool.
Learn ==
  /\ reading # NoReading /\ reading' = NoReading /\ UNCHANGED <<now, truth, request, cap>>
  /\ \/ bucket' = [bucket EXCEPT ![reading.at] = Applied(@, reading.facts, FALSE)]
     \/ UNCHANGED bucket

Next ==
  \/ Tick
  \/ \E a \in Account : Spend(a) \/ WindowEnds(a)
  \/ \E r \in Request, a \in Account : Ask(r, a)
  \/ \E r \in Request, answer \in {"ok", "out", "burst", "cap"} : AnswerIs(r, answer)
  \/ \E r \in Request : Served(r) \/ Rejected(r) \/ Capped(r) \/ Dropped(r)
  \/ \E a \in Account : Read(a)
  \/ Learn

Spec == Init /\ [][Next]_vars

----------------------------------------------------------------------------
(* Properties. *)

\* A hold never outlasts both the provider's window and the fallback counted
\* from now, however late the answers it was taken from arrive: an account is
\* not kept out when the provider would serve it.
HeldNoLongerThanItsWindow ==
  \A a \in Account : bucket[a].hold <= Later(window[a], now + Fallback)

\* "Older observations are ignored": a usage reading made before a rejection
\* does not end the hold of that rejection.
OlderStep ==
  reading # NoReading /\ reading' = NoReading =>
    (reading.older /\ bucket[reading.at].hold > now => bucket'[reading.at].hold > now)
OlderIsIgnored == [][OlderStep]_vars
=============================================================================
