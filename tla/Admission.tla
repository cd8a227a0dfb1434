----------------------------- MODULE Admission -----------------------------
(***************************************************************************)
(* Admission pacing: how attempts of concurrent exchanges are let through  *)
(* to one upstream account.  Translated from pool/ramp.rs, the throttle    *)
(* part of pool/holds.rs, and the attempt loop of data_plane/exchange.rs   *)
(* (attempt_candidate, admit, Slot).                                       *)
(*                                                                         *)
(* An account's Admission record carries a throttle hold (no attempt is    *)
(* admitted while it runs), a ramp (a cap on attempts in flight that grows *)
(* until its window passes) and the number of slots held.  An attempt      *)
(* polls admission, holds a slot while its request is in flight, and may   *)
(* retry within three one-shot budgets.  One waiting attempt at a time may *)
(* be released under a hold as the revalidation request; its non-429 ends  *)
(* the hold.                                                               *)
(*                                                                         *)
(* Time is whole units (a unit stands for a second).  A task reads the     *)
(* clock, then takes the pool lock, then -- when paused -- takes it again: *)
(* each is a step of its own, so any other task may run in between.        *)
(***************************************************************************)
EXTENDS Integers, FiniteSets

CONSTANTS
  Account,     \* account handles; a handle is never reused
  Task,        \* candidate runs: one attempt_candidate call each
  Policy,      \* ramp policies an exchange's configuration snapshot may hold
  RetryAfter,  \* clamped retry-after values of a throttle 429
  Absorb,      \* throttle_absorb_seconds
  Floor,       \* revalidation_floor_seconds
  Interval,    \* revalidation_interval_seconds
  Horizon      \* bound: the clock stops here

None == -1
Time == 0 .. Horizon
PolicyType == [enabled : BOOLEAN, initial : Nat \ {0}, step : Nat \ {0},
               interval : Nat \ {0}, window : Nat \ {0}]

ASSUME ParametersAssumption ==
  /\ IsFiniteSet(Task)
  /\ Policy # {} /\ Policy \subseteq PolicyType
  /\ RetryAfter \subseteq Nat \ {0}
  /\ Absorb \in Nat /\ Floor \in Nat /\ Interval \in Nat /\ Horizon \in Nat

VARIABLES
  now,     \* the wall clock
  pooled,  \* accounts in the pool
  adm,     \* Admission record of each account (absent = the default record)
  gate,    \* next_revalidation, 0 when never set
  pc,      \* where each candidate run stands
  task,    \* what each candidate run carries
  paused   \* history: when the last throttle hold of an account ends or ended

vars == <<now, pooled, adm, gate, pc, task, paused>>

---------------------------------------------------------------------------
(* Ramps. *)

Ramp == [start : Time \cup {None}, policy : Policy]
NoRamp == [start |-> None, policy |-> CHOOSE p \in Policy : TRUE]

StartedRamp(p, s) == IF p.enabled THEN [start |-> s, policy |-> p] ELSE NoRamp

Elapsed(r, n) == IF n > r.start THEN n - r.start ELSE 0
Lifted(r, n)  == Elapsed(r, n) >= r.policy.window
Cap(r, n)     == r.policy.initial + r.policy.step * (Elapsed(r, n) \div r.policy.interval)
Limited(r, n) == r # NoRamp /\ ~Lifted(r, n)

---------------------------------------------------------------------------
(* The Admission record and its transition. *)

AdmissionType == [hold : Time \cup {None}, last429 : Time \cup {None},
                  ramp : Ramp, slots : Nat]
DefaultAdmission == [hold |-> None, last429 |-> None, ramp |-> NoRamp, slots |-> 0]

HoldRuns(a, n) == a.hold > n

\* Mutant: the pause ends without a ramp.
EndPauseUnramped(a, p, n) ==
  IF a.hold # None /\ a.hold <= n THEN [a EXCEPT !.hold = None, !.ramp = NoRamp] ELSE a

\* A hold that has ended becomes a fresh ramp begun at its end.
EndPause(a, p, n) ==
  IF a.hold # None /\ a.hold <= n
    THEN [a EXCEPT !.hold = None, !.ramp = StartedRamp(p, a.hold)]
    ELSE a

DropLifted(a, n) ==
  IF a.ramp # NoRamp /\ Lifted(a.ramp, n) THEN [a EXCEPT !.ramp = NoRamp] ELSE a

Settle(a, p, n) == DropLifted(EndPause(a, p, n), n)

\* Mutant: the latest 429 decides, shorter or not.
HoldThrottleLatest(a, until) == [a EXCEPT !.hold = until, !.ramp = NoRamp]

\* Extended only; a running ramp gives way to the one at the hold's end.
HoldThrottle(a, until) ==
  IF a.hold = None \/ until > a.hold
    THEN [a EXCEPT !.hold = until, !.ramp = NoRamp]
    ELSE a

ClearThrottleHold(a, p, n) ==
  IF HoldRuns(a, n) THEN Settle([a EXCEPT !.hold = n], p, n) ELSE a

StartRamp(a, p, n) == IF p.enabled THEN [a EXCEPT !.ramp = StartedRamp(p, n)] ELSE a

TakeSlot(a) == [a EXCEPT !.slots = @ + 1]

ReleaseSlot(a) == [a EXCEPT !.slots = IF @ = 0 THEN 0 ELSE @ - 1]

---------------------------------------------------------------------------
(* Candidate runs. *)

Waiting == {"inject", "poll", "ask", "askpaused"}
Places == Waiting \cup {"idle", "sent", "got429", "served", "refresh", "done"}

TaskType == [acct : Account, policy : Policy, at : Time, revalidated : BOOLEAN,
             network : BOOLEAN, throttle : BOOLEAN, refresh : BOOLEAN, attempts : Nat]

FreshTask(h, p) ==
  [acct |-> h, policy |-> p, at |-> 0, revalidated |-> FALSE,
   network |-> FALSE, throttle |-> FALSE, refresh |-> FALSE, attempts |-> 0]

\* The run is over; its locals go with its future.
Ends(t) ==
  /\ pc' = [pc EXCEPT ![t] = "done"]
  /\ task' = [task EXCEPT ![t] = FreshTask(@.acct, @.policy)]

Moves(t, place) ==
  /\ pc' = [pc EXCEPT ![t] = place]
  /\ UNCHANGED task

InFlight(h) == {t \in Task : pc[t] = "sent" /\ task[t].acct = h}

Init ==
  /\ now = 0
  /\ pooled = Account
  /\ adm = [h \in Account |-> DefaultAdmission]
  /\ gate = 0
  /\ pc = [t \in Task |-> "idle"]
  /\ task \in [Task -> {FreshTask(h, p) : h \in Account, p \in Policy}]
  /\ paused = [h \in Account |-> None]

Tick ==
  /\ now < Horizon
  /\ now' = now + 1
  /\ UNCHANGED <<pooled, adm, gate, pc, task, paused>>

(* Selection chose task[t].acct for the exchange: by any rule that moves    *)
(* nothing, by a ranking that moves the default and starts its ramp, or as  *)
(* the revalidation candidate, which spends the server-wide gate.           *)
Chosen(t) ==
  /\ pc[t] = "idle" /\ task[t].acct \in pooled
  /\ Moves(t, "inject")
  /\ UNCHANGED <<now, pooled, adm, gate, paused>>

ChosenByRanking(t) ==
  LET h == task[t].acct IN
  /\ pc[t] = "idle" /\ h \in pooled
  /\ Moves(t, "inject")
  /\ adm' = [adm EXCEPT ![h] = StartRamp(@, task[t].policy, now)]
  /\ UNCHANGED <<now, pooled, gate, paused>>

ChosenForRevalidation(t) ==
  LET h == task[t].acct IN
  /\ pc[t] = "idle" /\ h \in pooled
  /\ gate <= now
  /\ HoldRuns(adm[h], now) =>
       adm[h].last429 # None /\ now - adm[h].last429 >= Floor
  /\ gate' = now + Interval
  /\ pc' = [pc EXCEPT ![t] = "inject"]
  /\ task' = [task EXCEPT ![t].revalidated = TRUE]
  /\ UNCHANGED <<now, pooled, adm, paused>>

(* The top of the attempt loop reads the account for its credential. *)
Inject(t) ==
  /\ pc[t] = "inject"
  /\ IF task[t].acct \in pooled THEN Moves(t, "poll") ELSE Ends(t)
  /\ UNCHANGED <<now, pooled, adm, gate, paused>>

(* One turn of the admission wait: the clock is read before the lock. *)
ReadClock(t) ==
  /\ pc[t] = "poll"
  /\ pc' = [pc EXCEPT ![t] = "ask"]
  /\ task' = [task EXCEPT ![t].at = now]
  /\ UNCHANGED <<now, pooled, adm, gate, paused>>

Admit(t) ==
  LET h == task[t].acct
      n == task[t].at
      a == Settle(adm[h], task[t].policy, n)
  IN
  /\ pc[t] = "ask"
  /\ \/ /\ HoldRuns(a, n)
        /\ adm' = [adm EXCEPT ![h] = a]
        /\ Moves(t, "askpaused")
     \/ /\ ~HoldRuns(a, n) /\ Limited(a.ramp, n) /\ a.slots >= Cap(a.ramp, n)
        /\ adm' = [adm EXCEPT ![h] = a]
        /\ pc' = [pc EXCEPT ![t] = "poll"]
        /\ task' = [task EXCEPT ![t].at = 0]
     \/ /\ ~HoldRuns(a, n) /\ (Limited(a.ramp, n) => a.slots < Cap(a.ramp, n))
        /\ adm' = [adm EXCEPT ![h] = TakeSlot(a)]
        /\ pc' = [pc EXCEPT ![t] = "sent"]
        /\ task' = [task EXCEPT ![t].at = 0, ![t].attempts = @ + 1]
  /\ UNCHANGED <<now, pooled, gate, paused>>

(* release_waiting_revalidation, under a second acquisition of the lock but *)
(* with the clock read before the first one.                                *)
MayRevalidate(h, n) ==
  /\ gate <= n
  /\ HoldRuns(adm[h], n)
  /\ ~(adm[h].last429 # None /\ n - adm[h].last429 < Floor)

ReleaseAsRevalidation(t) ==
  LET h == task[t].acct
      n == task[t].at
  IN
  /\ pc[t] = "askpaused" /\ MayRevalidate(h, n)
  /\ gate' = n + Interval
  /\ adm' = [adm EXCEPT ![h] = TakeSlot(@)]
  /\ pc' = [pc EXCEPT ![t] = "sent"]
  /\ task' = [task EXCEPT ![t].at = 0, ![t].attempts = @ + 1, ![t].revalidated = TRUE]
  /\ UNCHANGED <<now, pooled, paused>>

\* Mutant: a waiter the gate turned down is not polled again.
KeepWaitingParked(t) ==
  /\ pc[t] = "askpaused" /\ ~MayRevalidate(task[t].acct, task[t].at)
  /\ UNCHANGED vars

KeepWaiting(t) ==
  /\ pc[t] = "askpaused" /\ ~MayRevalidate(task[t].acct, task[t].at)
  /\ pc' = [pc EXCEPT ![t] = "poll"]
  /\ task' = [task EXCEPT ![t].at = 0]
  /\ UNCHANGED <<now, pooled, adm, gate, paused>>

---------------------------------------------------------------------------
(* The answer: the slot is released when headers arrive or the send fails. *)

SlotReleased(t) ==
  /\ pc[t] = "sent"
  /\ adm' = [adm EXCEPT ![task[t].acct] = ReleaseSlot(@)]
  /\ UNCHANGED <<now, pooled, gate, paused>>

NetworkFailure(t) ==
  /\ SlotReleased(t)
  /\ IF task[t].network
       THEN Ends(t)
       ELSE /\ pc' = [pc EXCEPT ![t] = "inject"]
            /\ task' = [task EXCEPT ![t].network = TRUE]

OtherFailure(t) == SlotReleased(t) /\ Ends(t)

\* An OAuth account has one forced refresh; an API key has none.
Unauthorized(t) ==
  /\ SlotReleased(t)
  /\ \/ /\ ~task[t].refresh
        /\ pc' = [pc EXCEPT ![t] = "refresh"]
        /\ task' = [task EXCEPT ![t].refresh = TRUE]
     \/ Ends(t)

Answered(t) == SlotReleased(t) /\ Moves(t, "served")

TooManyRequests(t) == SlotReleased(t) /\ Moves(t, "got429")

Refreshed(t) ==
  /\ pc[t] = "refresh"
  /\ Moves(t, "inject") \/ Ends(t)
  /\ UNCHANGED <<now, pooled, adm, gate, paused>>

(* record_429 on a throttle: an account that left the pool sets no hold. *)
Throttled(t) ==
  LET h == task[t].acct IN
  /\ pc[t] = "got429"
  /\ \E s \in RetryAfter :
       /\ now + s <= Horizon
       /\ IF h \in pooled
            THEN /\ adm' = [adm EXCEPT ![h] = [HoldThrottle(@, now + s) EXCEPT !.last429 = now]]
                 /\ paused' = [paused EXCEPT ![h] = IF now + s > @ THEN now + s ELSE @]
            ELSE UNCHANGED <<adm, paused>>
       /\ IF s <= Absorb /\ ~task[t].throttle
            THEN /\ pc' = [pc EXCEPT ![t] = "inject"]
                 /\ task' = [task EXCEPT ![t].throttle = TRUE]
            ELSE Ends(t)
  /\ UNCHANGED <<now, pooled, gate>>

(* record_429 on an exhaustion: quota holds only, and the floor's anchor. *)
Exhausted(t) ==
  LET h == task[t].acct IN
  /\ pc[t] = "got429" /\ h \in pooled
  /\ adm' = [adm EXCEPT ![h].last429 = now]
  /\ Ends(t)
  /\ UNCHANGED <<now, pooled, gate, paused>>

(* The exchange, on a non-429: a revalidation's answer ends the pause. *)
Serve(t) ==
  LET h == task[t].acct IN
  /\ pc[t] = "served"
  /\ Ends(t)
  /\ IF task[t].revalidated
       THEN /\ adm' = [adm EXCEPT ![h] = ClearThrottleHold(@, task[t].policy, now)]
            /\ paused' = [paused EXCEPT ![h] = IF HoldRuns(adm[h], now) THEN now ELSE @]
       ELSE UNCHANGED <<adm, paused>>
  /\ UNCHANGED <<now, pooled, gate>>

\* Mutant: the slot is not tied to the future that took it.
LeaveKeepingSlot(t) ==
  /\ pc[t] \notin {"idle", "done"}
  /\ Ends(t)
  /\ UNCHANGED <<now, pooled, adm, gate, paused>>

(* The client leaves: the exchange's future is dropped, with its slot. *)
Leave(t) ==
  /\ pc[t] \notin {"idle", "done"}
  /\ Ends(t)
  /\ adm' = [adm EXCEPT ![task[t].acct] = IF pc[t] = "sent" THEN ReleaseSlot(@) ELSE @]
  /\ UNCHANGED <<now, pooled, gate, paused>>

(* The operator removes an account; its admission state goes with it. *)
Remove(h) ==
  /\ h \in pooled
  /\ pooled' = pooled \ {h}
  /\ adm' = [adm EXCEPT ![h] = DefaultAdmission]
  /\ paused' = [paused EXCEPT ![h] = None]
  /\ UNCHANGED <<now, gate, pc, task>>

---------------------------------------------------------------------------

Start(t) == Chosen(t) \/ ChosenByRanking(t) \/ ChosenForRevalidation(t)
Wait(t) == Inject(t) \/ ReadClock(t) \/ Admit(t) \/ ReleaseAsRevalidation(t) \/ KeepWaiting(t)
Response(t) == \/ NetworkFailure(t) \/ OtherFailure(t) \/ Unauthorized(t)
               \/ Answered(t) \/ TooManyRequests(t)
Settlement(t) == Refreshed(t) \/ Throttled(t) \/ Exhausted(t) \/ Serve(t)

Next ==
  \/ Tick
  \/ \E t \in Task : Start(t) \/ Wait(t) \/ Response(t) \/ Settlement(t) \/ Leave(t)
  \/ \E h \in Account : Remove(h)

Spec == Init /\ [][Next]_vars

(* The runtime polls every waiting task at least every 100 ms, the upstream *)
(* answers or the first-byte timeout fails the send, and time passes.       *)
Progress(t) == Wait(t) \/ Response(t) \/ Settlement(t)
FairSpec == Spec /\ WF_vars(Tick) /\ \A t \in Task : WF_vars(Progress(t))

---------------------------------------------------------------------------
(* Properties. *)

\* Every variable has its type: a slot count never goes below zero, a hold,
\* ramp start and 429 time are clock values (the struct Admission, pool/mod.rs).
TypeOK ==
  /\ now \in Time
  /\ pooled \subseteq Account
  /\ adm \in [Account -> AdmissionType]
  /\ gate \in Nat
  /\ pc \in [Task -> Places]
  /\ task \in [Task -> TaskType]
  /\ paused \in [Account -> Time \cup {None}]

\* No slot leaks and none is returned twice: on every pooled account the
\* count is exactly the attempts between admission and their response headers,
\* through every retry, cancellation and failure (struct Slot, exchange.rs).
SlotsExact == \A h \in pooled : adm[h].slots = Cardinality(InFlight(h))

\* One candidate is never attempted more than four times: the first attempt
\* and one retry each for network, throttle and refresh (struct Retries).
AtMostFourAttempts == \A t \in Task : task[t].attempts <= 4

\* The strengthening it rests on: a run has been attempted once for each budget
\* it has spent, and once more from its admission until it spends another.
One(spent) == IF spent THEN 1 ELSE 0
Attempted == {"sent", "got429", "served"}
Allowed(r, place) ==
  One(r.network) + One(r.throttle) + One(r.refresh) + One(place \in Attempted)
AttemptsInv == \A t \in Task : task[t].attempts <= Allowed(task[t], pc[t])

\* The strengthening the next property rests on: a reading of the clock is never
\* ahead of it, and the hold the account carries is the one last promised.
PauseInv ==
  /\ \A t \in Task : task[t].at <= now
  /\ \A h \in pooled : adm[h].hold # None \/ paused[h] > now => adm[h].hold = paused[h]

\* Task t is let through by admission in this step, not as the revalidation
\* request.
AdmittedOrdinarily(t) == pc[t] = "ask" /\ pc'[t] = "sent"

\* While the account's throttle hold runs nobody is admitted except as the
\* revalidation request, however old the clock reading a waiter acts on
\* (Pool::admit, "a throttle hold pauses admission on the account").
PausePausesStep ==
  \A t \in Task : AdmittedOrdinarily(t) /\ task[t].acct \in pooled
    => paused[task[t].acct] <= now
PausePauses == [][PausePausesStep]_vars

\* After a pause, admission is paced from the pause's end whoever notices the
\* end and whenever: an attempt let through inside the window finds fewer in
\* flight than a ramp begun at the end allows (Admission::settle).
PausePacedStep ==
  \A t \in Task : \A p \in Policy :
    LET h == task[t].acct
        r == StartedRamp(p, paused[h])
    IN  /\ AdmittedOrdinarily(t)
        /\ h \in pooled /\ paused[h] # None /\ Policy = {p}
        /\ Limited(r, now)
        => adm'[h].slots <= Cap(r, now)
PausePaced == [][PausePacedStep]_vars

\* A waiting attempt always gets out of admission: the hold ends, the ramp
\* grows or a slot frees up (admit, exchange.rs).
Waits(t) == pc[t] \in Waiting
WaitEnds == \A t \in Task : Waits(t) ~> ~Waits(t)

\* ramp.rs:1 "A ranking move starts a ramp on the new default -- a concurrency
\* cap that grows by a step every interval until the window passes": a ramp in
\* force gives way only to a throttle hold or to a ramp begun no earlier.
RampLastsItsWindow ==
  [][\A h \in pooled \cap pooled' :
       Limited(adm[h].ramp, now) /\ ~HoldRuns(adm[h], now)
         => \/ HoldRuns(adm'[h], now)
            \/ adm'[h].ramp.start >= adm[h].ramp.start]_vars
============================================================================
