------------------------------- MODULE Probe -------------------------------
(***************************************************************************)
(* The usage sweeps (pool/probe.rs): one at a time, started by the         *)
(* schedule or by the operator, asking one account after the other.  What  *)
(* a reading does to an account's bucket is Quota's Read and Learn.        *)
(***************************************************************************)
EXTENDS Naturals, FiniteSets

CONSTANTS Account, ApiKey    \* the accounts, those with an API key among them

VARIABLES
  schedule,        \* the probe settings: off, or one of two intervals
  changed, heard,  \* the scheduler's watch has an unseen change; what it took for enabled
  due,             \* its deadline: none, later or now
  sweep,           \* the sweep that runs
  dirty            \* a reading was applied: the file is to be written

vars == <<schedule, changed, heard, due, sweep, dirty>>

NoSweep == [pc |-> "idle"]

Init ==
  /\ schedule \in {"off", "short"} /\ changed = FALSE /\ heard = (schedule # "off")
  /\ due = (IF heard THEN "now" ELSE "none") /\ sweep = NoSweep /\ dirty = FALSE

----------------------------------------------------------------------------
(* A sweep. *)

\* begin, trigger: refused while one runs.  API-key accounts are passed over.
Started == IF sweep = NoSweep THEN [pc |-> "next", left |-> Account \ ApiKey] ELSE sweep

Unscheduled == UNCHANGED <<schedule, changed, heard, due>>

Operator == sweep = NoSweep /\ sweep' = Started /\ UNCHANGED dirty /\ Unscheduled

Goes(pc) == sweep' = [sweep EXCEPT !.pc = pc]
Leaves == sweep' = [pc |-> "next", left |-> sweep.left]

\* The next account; after the last the slot is free.
NextAccount ==
  /\ sweep.pc = "next" /\ Unscheduled /\ UNCHANGED dirty
  /\ IF sweep.left = {} THEN sweep' = NoSweep
     ELSE \E a \in sweep.left :
       sweep' = [pc |-> "ready", left |-> sweep.left \ {a}, at |-> a, forced |-> FALSE]

\* ready_to_probe: the credential is fresh, or the account is not asked.
Ready == sweep.pc = "ready" /\ (Goes("fetch") \/ Leaves) /\ Unscheduled /\ UNCHANGED dirty

\* The provider's usage arrives, it refuses the credential (which is refreshed
\* once), or it fails; an account that has left the pool meanwhile is not taught.
Read ==
  /\ sweep.pc = "fetch" /\ Unscheduled
  /\ \/ Leaves /\ dirty' = TRUE
     \/ Leaves /\ UNCHANGED dirty
     \/ ~sweep.forced /\ sweep' = [sweep EXCEPT !.pc = "ready", !.forced = TRUE] /\ UNCHANGED dirty

\* probe_oauth: the deadline, over the refreshes and the readings.
TimesOut == sweep.pc \in {"ready", "fetch"} /\ Leaves /\ Unscheduled /\ UNCHANGED dirty

Flushed == dirty /\ dirty' = FALSE /\ UNCHANGED sweep /\ Unscheduled

----------------------------------------------------------------------------
(* The schedule. *)

\* reconfigure: a reload with the same settings wakes nobody.
Reload(s) ==
  /\ s # schedule /\ schedule' = s /\ changed' = TRUE
  /\ UNCHANGED <<heard, due, sweep>> /\ UNCHANGED dirty

IntervalPasses == due = "later" /\ due' = "now" /\ UNCHANGED <<schedule, changed, heard, sweep>> /\ UNCHANGED dirty

\* Mutant: a tick that finds a sweep running is the last one.
DueUnlessBusy ==
  /\ due = "now" /\ sweep' = Started /\ heard' = (schedule # "off")
  /\ due' = (IF schedule # "off" /\ sweep = NoSweep THEN "later" ELSE "none")
  /\ UNCHANGED <<schedule, changed>> /\ UNCHANGED dirty

\* The scheduler's deadline: a running sweep makes the tick a no-op.
Due ==
  /\ due = "now" /\ sweep' = Started /\ heard' = (schedule # "off")
  /\ due' = (IF schedule # "off" THEN "later" ELSE "none")
  /\ UNCHANGED <<schedule, changed>> /\ UNCHANGED dirty

\* A change: at once when it was off, an interval from now when it was on.
Hears ==
  /\ changed /\ changed' = FALSE /\ heard' = (schedule # "off")
  /\ due' = (IF schedule = "off" THEN "none" ELSE IF heard THEN "later" ELSE "now")
  /\ UNCHANGED <<schedule, sweep>> /\ UNCHANGED dirty

Next ==
  \/ Operator \/ NextAccount \/ Ready \/ Read \/ TimesOut \/ Flushed
  \/ \E s \in {"off", "short", "long"} : Reload(s)
  \/ IntervalPasses \/ Due \/ Hears

\* The deadline's timer, the interval's timer and the two tasks; never the
\* provider, the token endpoint or the operator.
Sweeps == NextAccount \/ TimesOut
Schedules == IntervalPasses \/ Due \/ Hears
Fairness == WF_vars(Sweeps) /\ WF_vars(Schedules)

FairSpec == Init /\ [][Next]_vars /\ Fairness

----------------------------------------------------------------------------
(* Properties. *)

Sweeping == sweep # NoSweep
Probing == schedule # "off"
Unmoved == UNCHANGED schedule

\* While probing stays on and the operator leaves it alone, sweeps go on:
\* whatever the provider and the token endpoint leave unanswered, and those
\* refused because one was running notwithstanding.
SweepsGoOn == <>[]Probing /\ <>[][Unmoved]_vars => []<>Sweeping
=============================================================================
