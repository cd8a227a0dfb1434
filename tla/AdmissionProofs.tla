-------------------------- MODULE AdmissionProofs --------------------------
(* Theorems of Admission, for every set of accounts, candidate runs and    *)
(* ramp policies and every setting.                                        *)
EXTENDS Admission, FiniteSetTheorems, TLAPS

---------------------------------------------------------------------------
(* What the operators on an Admission record return. *)

\* The record that stands for "no ramp" is of the ramps' type.
LEMMA NoRampType == NoRamp \in Ramp
<1>1. PICK q \in Policy : TRUE
  BY ParametersAssumption
<1>2. (CHOOSE p \in Policy : TRUE) \in Policy
  BY <1>1
<1> QED
  BY <1>2 DEF NoRamp, Ramp

\* A ramp that starts at a clock value is of the ramps' type.
LEMMA StartedRampType ==
  ASSUME NEW p \in Policy, NEW s \in Time
  PROVE  StartedRamp(p, s) \in Ramp
BY NoRampType DEF StartedRamp, Ramp

\* The record of an account nobody has used yet has the record's type.
LEMMA DefaultType == DefaultAdmission \in AdmissionType
BY NoRampType DEF DefaultAdmission, AdmissionType

\* Settling keeps the type and the slots; it never makes a hold run longer,
\* and a hold that is left runs.
LEMMA SettleType ==
  ASSUME NEW a \in AdmissionType, NEW p \in Policy, NEW n \in Time
  PROVE  /\ Settle(a, p, n) \in AdmissionType
         /\ Settle(a, p, n).slots = a.slots
         /\ Settle(a, p, n).last429 = a.last429
         /\ Settle(a, p, n).hold = IF a.hold # None /\ a.hold <= n THEN None ELSE a.hold
<1> DEFINE b == EndPause(a, p, n)
<1>1. /\ b \in AdmissionType /\ b.slots = a.slots /\ b.last429 = a.last429
      /\ b.hold = IF a.hold # None /\ a.hold <= n THEN None ELSE a.hold
  <2>1. CASE a.hold # None /\ a.hold <= n
    <3>1. StartedRamp(p, a.hold) \in Ramp
      BY <2>1, StartedRampType DEF AdmissionType
    <3>2. b = [a EXCEPT !.hold = None, !.ramp = StartedRamp(p, a.hold)]
      BY <2>1 DEF EndPause
    <3> QED
      BY <2>1, <3>1, <3>2 DEF AdmissionType
  <2>2. CASE ~(a.hold # None /\ a.hold <= n)
    BY <2>2 DEF EndPause
  <2> QED
    BY <2>1, <2>2
<1> HIDE DEF b
<1>2. DropLifted(b, n) \in {b, [b EXCEPT !.ramp = NoRamp]}
  BY DEF DropLifted
<1>3. Settle(a, p, n) = DropLifted(b, n)
  BY DEF Settle, b
<1> QED
  BY <1>1, <1>2, <1>3, NoRampType DEF AdmissionType

\* A hold is extended only.
LEMMA HoldThrottleType ==
  ASSUME NEW a \in AdmissionType, NEW u \in Time
  PROVE  /\ HoldThrottle(a, u) \in AdmissionType
         /\ HoldThrottle(a, u).slots = a.slots
         /\ HoldThrottle(a, u).hold = IF u > a.hold THEN u ELSE a.hold
<1>1. a.hold = None \/ a.hold \in Nat
  BY ParametersAssumption DEF AdmissionType, Time
<1>2. u \in Nat /\ None < u
  BY ParametersAssumption DEF Time, None
<1>3. CASE a.hold = None \/ u > a.hold
  <2>1. HoldThrottle(a, u) = [a EXCEPT !.hold = u, !.ramp = NoRamp]
    BY <1>3 DEF HoldThrottle
  <2>2. u > a.hold
    BY <1>2, <1>3
  <2> QED
    BY <2>1, <2>2, NoRampType DEF AdmissionType
<1>4. CASE ~(a.hold = None \/ u > a.hold)
  BY <1>4 DEF HoldThrottle
<1> QED
  BY <1>3, <1>4

\* Ending a pause early leaves no hold behind.
LEMMA ClearType ==
  ASSUME NEW a \in AdmissionType, NEW p \in Policy, NEW n \in Time
  PROVE  /\ ClearThrottleHold(a, p, n) \in AdmissionType
         /\ ClearThrottleHold(a, p, n).slots = a.slots
         /\ ClearThrottleHold(a, p, n).hold = IF a.hold > n THEN None ELSE a.hold
<1>1. CASE HoldRuns(a, n)
  <2> DEFINE b == [a EXCEPT !.hold = n]
  <2>1. b \in AdmissionType /\ b.slots = a.slots /\ b.hold = n
    BY DEF AdmissionType
  <2>2. ClearThrottleHold(a, p, n) = Settle(b, p, n)
    BY <1>1 DEF ClearThrottleHold
  <2>3. n # None /\ n <= n
    BY DEF Time, None, ParametersAssumption
  <2> HIDE DEF b
  <2> QED
    BY <1>1, <2>1, <2>2, <2>3, SettleType DEF HoldRuns
<1>2. CASE ~HoldRuns(a, n)
  BY <1>2 DEF ClearThrottleHold, HoldRuns
<1> QED
  BY <1>1, <1>2

\* A ranking's ramp leaves the hold and the slots alone.
LEMMA StartRampType ==
  ASSUME NEW a \in AdmissionType, NEW p \in Policy, NEW n \in Time
  PROVE  /\ StartRamp(a, p, n) \in AdmissionType
         /\ StartRamp(a, p, n).slots = a.slots
         /\ StartRamp(a, p, n).hold = a.hold
BY StartedRampType DEF StartRamp, AdmissionType

\* Taking and releasing a slot change the count alone.
LEMMA SlotType ==
  ASSUME NEW a \in AdmissionType
  PROVE  /\ TakeSlot(a) \in AdmissionType /\ TakeSlot(a).slots = a.slots + 1
         /\ TakeSlot(a).hold = a.hold
         /\ ReleaseSlot(a) \in AdmissionType /\ ReleaseSlot(a).hold = a.hold
         /\ ReleaseSlot(a).slots = IF a.slots = 0 THEN 0 ELSE a.slots - 1
BY DEF TakeSlot, ReleaseSlot, AdmissionType

\* A run's locals, as it starts and once it has ended, have their type.
LEMMA FreshType ==
  ASSUME NEW h \in Account, NEW p \in Policy
  PROVE  FreshTask(h, p) \in TaskType
BY ParametersAssumption DEF FreshTask, TaskType, Time

---------------------------------------------------------------------------
(* Type correctness. *)

\* The initial state has the right types.
LEMMA TypeInit == Init => TypeOK
<1> SUFFICES ASSUME Init PROVE TypeOK
  OBVIOUS
<1>1. task \in [Task -> TaskType]
  BY FreshType DEF Init
<1>2. adm \in [Account -> AdmissionType]
  BY DefaultType DEF Init
<1> QED
  BY <1>1, <1>2, ParametersAssumption DEF Init, TypeOK, Time, Places, Waiting

\* Places and locals a step may leave a run in.
LEMMA EndsType ==
  ASSUME TypeOK, NEW t \in Task, Ends(t)
  PROVE  pc' \in [Task -> Places] /\ task' \in [Task -> TaskType]
<1>1. FreshTask(task[t].acct, task[t].policy) \in TaskType
  BY FreshType DEF TypeOK, TaskType
<1> QED
  BY <1>1 DEF TypeOK, Ends, Places, Waiting

LEMMA MovesType ==
  ASSUME TypeOK, NEW t \in Task, NEW place \in Places, Moves(t, place)
  PROVE  pc' \in [Task -> Places] /\ task' \in [Task -> TaskType]
BY DEF TypeOK, Moves

\* The record, policy, handle and clock reading a run refers to.
LEMMA RunType ==
  ASSUME TypeOK, NEW t \in Task
  PROVE  /\ task[t] \in TaskType
         /\ task[t].acct \in Account /\ task[t].policy \in Policy /\ task[t].at \in Time
         /\ adm[task[t].acct] \in AdmissionType
         /\ task[t].attempts \in Nat
BY DEF TypeOK, TaskType

\* Headers or a failed send: the record keeps its type.
LEMMA SlotReleasedType ==
  ASSUME TypeOK, NEW t \in Task, SlotReleased(t)
  PROVE  /\ adm' \in [Account -> AdmissionType]
         /\ UNCHANGED <<now, pooled, gate, paused>>
BY RunType, SlotType DEF SlotReleased, TypeOK

\* Every step keeps the types.
LEMMA TypeNext == TypeOK /\ [Next]_vars => TypeOK'
<1> SUFFICES ASSUME TypeOK, [Next]_vars PROVE TypeOK'
  OBVIOUS
<1> USE ParametersAssumption
<1>1. CASE Tick
  BY <1>1 DEF Tick, TypeOK, Time
<1>2. ASSUME NEW t \in Task, Start(t) PROVE TypeOK'
  <2>1. CASE Chosen(t)
    BY <2>1, MovesType DEF Chosen, TypeOK, Places, Waiting
  <2>2. CASE ChosenByRanking(t)
    <3>1. StartRamp(adm[task[t].acct], task[t].policy, now) \in AdmissionType
      BY RunType, StartRampType DEF TypeOK
    <3>2. adm' \in [Account -> AdmissionType]
      BY <2>2, <3>1 DEF ChosenByRanking, TypeOK
    <3>3. pc' \in [Task -> Places] /\ task' \in [Task -> TaskType]
      BY <2>2, MovesType DEF ChosenByRanking, Places, Waiting
    <3> QED
      BY <2>2, <3>2, <3>3 DEF ChosenByRanking, TypeOK
  <2>3. CASE ChosenForRevalidation(t)
    <3>2. task' \in [Task -> TaskType]
      <4>1. task' = [task EXCEPT ![t] = [@ EXCEPT !.revalidated = TRUE]]
        BY <2>3 DEF ChosenForRevalidation
      <4>2. [task[t] EXCEPT !.revalidated = TRUE] \in TaskType
        BY RunType DEF TaskType
      <4> QED
        BY <4>1, <4>2 DEF TypeOK
    <3>3. gate' \in Nat
      BY <2>3 DEF ChosenForRevalidation, TypeOK, Time
    <3> QED
      BY <2>3, <3>2, <3>3 DEF ChosenForRevalidation, TypeOK, Places, Waiting
  <2> QED
    BY <1>2, <2>1, <2>2, <2>3 DEF Start
<1>3. ASSUME NEW t \in Task, Wait(t) PROVE TypeOK'
  <2>1. CASE Inject(t)
    BY <2>1, EndsType, MovesType DEF Inject, TypeOK, Places, Waiting
  <2>2. CASE ReadClock(t)
    <3>1. task' \in [Task -> TaskType]
      BY <2>2, RunType DEF ReadClock, TypeOK, TaskType
    <3> QED
      BY <2>2, <3>1 DEF ReadClock, TypeOK, Places, Waiting
  <2>3. CASE Admit(t)
    <3> DEFINE a == Settle(adm[task[t].acct], task[t].policy, task[t].at)
    <3>1. a \in AdmissionType /\ TakeSlot(a) \in AdmissionType
      BY RunType, SettleType, SlotType
    <3>2. adm' \in {[adm EXCEPT ![task[t].acct] = a], [adm EXCEPT ![task[t].acct] = TakeSlot(a)]}
      BY <2>3 DEF Admit
    <3> HIDE DEF a
    <3>3. adm' \in [Account -> AdmissionType]
      BY <3>1, <3>2 DEF TypeOK
    <3>4. pc' \in [Task -> Places]
      BY <2>3 DEF Admit, Moves, TypeOK, Places, Waiting
    <3>5. 0 \in Time
      BY DEF Time
    <3>6. task' \in [Task -> TaskType]
      BY <2>3, <3>5, RunType DEF Admit, Moves, TypeOK, TaskType
    <3> QED
      BY <2>3, <3>3, <3>4, <3>6 DEF Admit, TypeOK
  <2>4. CASE ReleaseAsRevalidation(t)
    <3>2. 0 \in Time
      BY DEF Time
    <3>3. task' \in [Task -> TaskType]
      BY <2>4, <3>2, RunType DEF ReleaseAsRevalidation, TypeOK, TaskType
    <3>4. adm' \in [Account -> AdmissionType]
      BY <2>4, RunType, SlotType DEF ReleaseAsRevalidation, TypeOK
    <3>5. gate' \in Nat
      BY <2>4, RunType DEF ReleaseAsRevalidation, Time
    <3> QED
      BY <2>4, <3>3, <3>4, <3>5 DEF ReleaseAsRevalidation, TypeOK, Places, Waiting
  <2>5. CASE KeepWaiting(t)
    <3>1. 0 \in Time
      BY DEF Time
    <3>2. task' \in [Task -> TaskType]
      BY <2>5, <3>1, RunType DEF KeepWaiting, TypeOK, TaskType
    <3> QED
      BY <2>5, <3>2 DEF KeepWaiting, TypeOK, Places, Waiting
  <2> QED
    BY <1>3, <2>1, <2>2, <2>3, <2>4, <2>5 DEF Wait
<1>4. ASSUME NEW t \in Task, Response(t) PROVE TypeOK'
  <2>1. SlotReleased(t)
    BY <1>4 DEF Response, NetworkFailure, OtherFailure, Unauthorized, Answered, TooManyRequests
  <2>2. pc' \in [Task -> Places] /\ task' \in [Task -> TaskType]
    <3>1. CASE NetworkFailure(t)
      <4>1. [task[t] EXCEPT !.network = TRUE] \in TaskType
        BY RunType DEF TaskType
      <4> QED
        BY <3>1, <4>1, EndsType DEF NetworkFailure, TypeOK, Places, Waiting
    <3>2. CASE OtherFailure(t)
      BY <3>2, EndsType DEF OtherFailure
    <3>3. CASE Unauthorized(t)
      <4>1. [task[t] EXCEPT !.refresh = TRUE] \in TaskType
        BY RunType DEF TaskType
      <4> QED
        BY <3>3, <4>1, EndsType DEF Unauthorized, TypeOK, Places, Waiting
    <3>4. CASE Answered(t)
      BY <3>4, MovesType DEF Answered, Places
    <3>5. CASE TooManyRequests(t)
      BY <3>5, MovesType DEF TooManyRequests, Places
    <3> QED
      BY <1>4, <3>1, <3>2, <3>3, <3>4, <3>5 DEF Response
  <2> QED
    BY <2>1, <2>2, SlotReleasedType DEF TypeOK
<1>5. ASSUME NEW t \in Task, Settlement(t) PROVE TypeOK'
  <2>1. CASE Refreshed(t)
    BY <2>1, EndsType, MovesType DEF Refreshed, TypeOK, Places, Waiting
  <2>2. CASE Throttled(t)
    <3>1. PICK s \in RetryAfter :
            /\ now + s <= Horizon
            /\ IF task[t].acct \in pooled
                 THEN /\ adm' = [adm EXCEPT ![task[t].acct] =
                                  [HoldThrottle(@, now + s) EXCEPT !.last429 = now]]
                      /\ paused' = [paused EXCEPT ![task[t].acct] =
                                      IF now + s > @ THEN now + s ELSE @]
                 ELSE UNCHANGED <<adm, paused>>
            /\ IF s <= Absorb /\ ~task[t].throttle
                 THEN /\ pc' = [pc EXCEPT ![t] = "inject"]
                      /\ task' = [task EXCEPT ![t].throttle = TRUE]
                 ELSE Ends(t)
      BY <2>2 DEF Throttled
    <3>2. now + s \in Time /\ now \in Time
      BY <3>1 DEF TypeOK, Time
    <3>3. HoldThrottle(adm[task[t].acct], now + s) \in AdmissionType
      BY <3>2, RunType, HoldThrottleType
    <3>4. [HoldThrottle(adm[task[t].acct], now + s) EXCEPT !.last429 = now] \in AdmissionType
      BY <3>2, <3>3 DEF AdmissionType
    <3>5. adm' \in [Account -> AdmissionType] /\ paused' \in [Account -> Time \cup {None}]
      BY <3>1, <3>2, <3>4 DEF TypeOK
    <3>6. pc' \in [Task -> Places] /\ task' \in [Task -> TaskType]
      <4>1. [task[t] EXCEPT !.throttle = TRUE] \in TaskType
        BY RunType DEF TaskType
      <4> QED
        BY <3>1, <4>1, EndsType DEF TypeOK, Places, Waiting
    <3> QED
      BY <2>2, <3>5, <3>6 DEF Throttled, TypeOK
  <2>3. CASE Exhausted(t)
    <3>1. adm' \in [Account -> AdmissionType]
      <4>1. [adm[task[t].acct] EXCEPT !.last429 = now] \in AdmissionType
        BY RunType DEF TypeOK, AdmissionType
      <4> QED
        BY <2>3, <4>1 DEF Exhausted, TypeOK
    <3> QED
      BY <2>3, <3>1, EndsType DEF Exhausted, TypeOK
  <2>4. CASE Serve(t)
    <3>1. adm' \in [Account -> AdmissionType]
      <4>1. now \in Time
        BY DEF TypeOK
      <4>2. ClearThrottleHold(adm[task[t].acct], task[t].policy, now) \in AdmissionType
        BY <4>1, RunType, ClearType
      <4> QED
        BY <2>4, <4>2 DEF Serve, TypeOK
    <3>2. paused' \in [Account -> Time \cup {None}]
      BY <2>4, RunType DEF Serve, TypeOK
    <3> QED
      BY <2>4, <3>1, <3>2, EndsType DEF Serve, TypeOK
  <2> QED
    BY <1>5, <2>1, <2>2, <2>3, <2>4 DEF Settlement
<1>6. ASSUME NEW t \in Task, Leave(t) PROVE TypeOK'
  <2>1. adm' \in [Account -> AdmissionType]
    BY <1>6, RunType, SlotType DEF Leave, TypeOK
  <2> QED
    BY <1>6, <2>1, EndsType DEF Leave, TypeOK
<1>7. ASSUME NEW h \in Account, Remove(h) PROVE TypeOK'
  BY <1>7, DefaultType DEF Remove, TypeOK
<1>8. CASE UNCHANGED vars
  BY <1>8 DEF vars, TypeOK
<1> QED
  BY <1>1, <1>2, <1>3, <1>4, <1>5, <1>6, <1>7, <1>8 DEF Next

\* Every variable keeps its type whatever the instance: no slot count goes
\* below zero, no hold or ramp leaves the clock's range (struct Admission).
THEOREM TypeCorrect == Spec => []TypeOK
BY TypeInit, TypeNext, PTL DEF Spec

---------------------------------------------------------------------------
(* Slot accounting.  The invariant is inductive with the types: a slot is  *)
(* taken and given back in the step that changes the set of attempts in    *)
(* flight, and a removal resets a count nobody then relies on.             *)

\* The attempts in flight on an account are finitely many.
LEMMA FlightFinite ==
  ASSUME NEW h PROVE IsFiniteSet(InFlight(h)) /\ Cardinality(InFlight(h)) \in Nat
BY ParametersAssumption, FS_Subset, FS_CardinalityType DEF InFlight

\* A run that is sent joins the attempts in flight on its account alone.
LEMMA FlightGrows ==
  ASSUME TypeOK, NEW t \in Task, pc[t] # "sent", pc' = [pc EXCEPT ![t] = "sent"],
         \A x \in Task : task'[x].acct = task[x].acct, NEW h
  PROVE  Cardinality(InFlight(h)') =
           Cardinality(InFlight(h)) + (IF h = task[t].acct THEN 1 ELSE 0)
<1>1. CASE h = task[t].acct
  <2>1. InFlight(h)' = InFlight(h) \cup {t} /\ t \notin InFlight(h)
    BY <1>1 DEF InFlight, TypeOK
  <2> QED
    BY <1>1, <2>1, FlightFinite, FS_AddElement
<1>2. CASE h # task[t].acct
  <2>1. InFlight(h)' = InFlight(h)
    BY <1>2 DEF InFlight, TypeOK
  <2> QED
    BY <1>2, <2>1, FlightFinite
<1> QED
  BY <1>1, <1>2

\* A run that is no longer sent leaves the attempts in flight on its account.
LEMMA FlightShrinks ==
  ASSUME TypeOK, NEW t \in Task, pc[t] = "sent",
         NEW q, q # "sent", pc' = [pc EXCEPT ![t] = q],
         \A x \in Task : task'[x].acct = task[x].acct, NEW h
  PROVE  Cardinality(InFlight(h)') =
           Cardinality(InFlight(h)) - (IF h = task[t].acct THEN 1 ELSE 0)
<1>1. CASE h = task[t].acct
  <2>1. InFlight(h)' = InFlight(h) \ {t} /\ t \in InFlight(h)
    BY <1>1 DEF InFlight, TypeOK
  <2> QED
    BY <1>1, <2>1, FlightFinite, FS_RemoveElement
<1>2. CASE h # task[t].acct
  <2>1. InFlight(h)' = InFlight(h)
    BY <1>2 DEF InFlight, TypeOK
  <2> QED
    BY <1>2, <2>1, FlightFinite
<1> QED
  BY <1>1, <1>2

\* Moves between places other than "sent" leave the attempts in flight alone.
LEMMA FlightStays ==
  ASSUME TypeOK, NEW t \in Task, pc[t] # "sent",
         NEW q, q # "sent", pc' = [pc EXCEPT ![t] = q],
         \A x \in Task : task'[x].acct = task[x].acct, NEW h
  PROVE  InFlight(h)' = InFlight(h)
BY DEF InFlight, TypeOK

\* No step changes the account of a run.
LEMMA AccountFixed ==
  ASSUME TypeOK, [Next]_vars
  PROVE  \A x \in Task : task'[x].acct = task[x].acct
<1>1. CASE Tick
  BY <1>1 DEF Tick
<1>2. ASSUME NEW t \in Task, Ends(t) PROVE \A x \in Task : task'[x].acct = task[x].acct
  BY <1>2 DEF Ends, FreshTask, TypeOK
<1>3. ASSUME NEW t \in Task, NEW q, Moves(t, q)
      PROVE  \A x \in Task : task'[x].acct = task[x].acct
  BY <1>3 DEF Moves
<1>4. ASSUME NEW t \in Task, Start(t) PROVE \A x \in Task : task'[x].acct = task[x].acct
  BY <1>3, <1>4 DEF Start, Chosen, ChosenByRanking, ChosenForRevalidation, TypeOK, TaskType
<1>5. ASSUME NEW t \in Task, Wait(t) PROVE \A x \in Task : task'[x].acct = task[x].acct
  <2>1. CASE Inject(t)
    BY <1>2, <1>3, <2>1 DEF Inject
  <2>2. CASE ReadClock(t) \/ KeepWaiting(t) \/ ReleaseAsRevalidation(t)
    BY <2>2 DEF ReadClock, KeepWaiting, ReleaseAsRevalidation, TypeOK, TaskType
  <2>3. CASE Admit(t)
    <3>1. \/ UNCHANGED task
          \/ task' = [task EXCEPT ![t].at = 0]
          \/ task' = [task EXCEPT ![t].at = 0, ![t].attempts = @ + 1]
      BY <2>3 DEF Admit, Moves
    <3> QED
      BY <3>1 DEF TypeOK, TaskType
  <2> QED
    BY <1>5, <2>1, <2>2, <2>3 DEF Wait
<1>6. ASSUME NEW t \in Task, Response(t) PROVE \A x \in Task : task'[x].acct = task[x].acct
  BY <1>2, <1>3, <1>6 DEF Response, NetworkFailure, OtherFailure, Unauthorized, Answered,
                          TooManyRequests, TypeOK, TaskType
<1>7. ASSUME NEW t \in Task, Settlement(t) PROVE \A x \in Task : task'[x].acct = task[x].acct
  <2>1. CASE Refreshed(t) \/ Exhausted(t) \/ Serve(t)
    BY <1>2, <1>3, <2>1 DEF Refreshed, Exhausted, Serve
  <2>2. CASE Throttled(t)
    <3>1. task' = [task EXCEPT ![t].throttle = TRUE] \/ Ends(t)
      BY <2>2 DEF Throttled
    <3> QED
      BY <1>2, <3>1 DEF TypeOK, TaskType
  <2> QED
    BY <1>7, <2>1, <2>2 DEF Settlement
<1>8. ASSUME NEW t \in Task, Leave(t) PROVE \A x \in Task : task'[x].acct = task[x].acct
  BY <1>2, <1>8 DEF Leave
<1>9. ASSUME NEW h \in Account, Remove(h) PROVE \A x \in Task : task'[x].acct = task[x].acct
  BY <1>9 DEF Remove
<1>10. CASE UNCHANGED vars
  BY <1>10 DEF vars
<1> QED
  BY <1>1, <1>4, <1>5, <1>6, <1>7, <1>8, <1>9, <1>10 DEF Next

\* Every step that changes who is in flight on a pooled account changes its
\* slot count by as much.
LEMMA SlotsNext == TypeOK /\ SlotsExact /\ [Next]_vars => SlotsExact'
<1> SUFFICES ASSUME TypeOK, SlotsExact, [Next]_vars, NEW h \in pooled'
             PROVE  adm'[h].slots = Cardinality(InFlight(h)')
  BY DEF SlotsExact
<1>a. \A x \in Task : task'[x].acct = task[x].acct
  BY AccountFixed
<1>b. h \in pooled /\ h \in Account
  BY DEF Next, vars, TypeOK, Tick, Start, Chosen, ChosenByRanking, ChosenForRevalidation,
         Wait, Inject, ReadClock, Admit, ReleaseAsRevalidation, KeepWaiting,
         Response, SlotReleased, NetworkFailure, OtherFailure, Unauthorized, Answered,
         TooManyRequests, Settlement, Refreshed, Throttled, Exhausted, Serve, Leave, Remove
<1>c. adm[h].slots = Cardinality(InFlight(h)) /\ adm[h] \in AdmissionType
  BY <1>b DEF SlotsExact, TypeOK
<1>d. ASSUME adm'[h].slots = adm[h].slots, InFlight(h)' = InFlight(h)
      PROVE  adm'[h].slots = Cardinality(InFlight(h)')
  BY <1>c, <1>d
<1>e. \A t \in Task : Ends(t) => pc' = [pc EXCEPT ![t] = "done"]
  BY DEF Ends
<1>f. \A t \in Task : \A q : Moves(t, q) => pc' = [pc EXCEPT ![t] = q]
  BY DEF Moves
<1>1. CASE Tick \/ UNCHANGED vars
  BY <1>1, <1>d DEF Tick, vars, InFlight
<1>2. ASSUME NEW t \in Task, Start(t) PROVE adm'[h].slots = Cardinality(InFlight(h)')
  <2>1. pc[t] = "idle" /\ pc' = [pc EXCEPT ![t] = "inject"]
    BY <1>2, <1>f DEF Start, Chosen, ChosenByRanking, ChosenForRevalidation
  <2>2. InFlight(h)' = InFlight(h)
    BY <2>1, <1>a, FlightStays
  <2>3. StartRamp(adm[task[t].acct], task[t].policy, now).slots = adm[task[t].acct].slots
    BY RunType, StartRampType DEF TypeOK
  <2>4. adm'[h].slots = adm[h].slots
    BY <1>2, <1>b, <2>3 DEF Start, Chosen, ChosenByRanking, ChosenForRevalidation, TypeOK
  <2> QED
    BY <1>d, <2>2, <2>4
<1>3. ASSUME NEW t \in Task, Wait(t) PROVE adm'[h].slots = Cardinality(InFlight(h)')
  <2>1. CASE Inject(t)
    <3>1. InFlight(h)' = InFlight(h)
      BY <2>1, <1>a, <1>e, <1>f, FlightStays DEF Inject
    <3> QED
      BY <2>1, <3>1, <1>d DEF Inject
  <2>2. CASE ReadClock(t) \/ KeepWaiting(t)
    <3>1. InFlight(h)' = InFlight(h)
      BY <2>2, <1>a, FlightStays DEF ReadClock, KeepWaiting
    <3> QED
      BY <2>2, <3>1, <1>d DEF ReadClock, KeepWaiting
  <2>3. CASE Admit(t)
    <3> DEFINE a == Settle(adm[task[t].acct], task[t].policy, task[t].at)
    <3>1. a.slots = adm[task[t].acct].slots /\ TakeSlot(a).slots = a.slots + 1
      BY RunType, SettleType, SlotType
    <3>2. \/ /\ adm' = [adm EXCEPT ![task[t].acct] = a]
             /\ pc' = [pc EXCEPT ![t] = "askpaused"] \/ pc' = [pc EXCEPT ![t] = "poll"]
          \/ /\ adm' = [adm EXCEPT ![task[t].acct] = TakeSlot(a)]
             /\ pc' = [pc EXCEPT ![t] = "sent"]
      BY <2>3, <1>f DEF Admit
    <3>3. pc[t] # "sent"
      BY <2>3 DEF Admit
    <3> HIDE DEF a
    <3>4. CASE /\ adm' = [adm EXCEPT ![task[t].acct] = a]
               /\ pc' = [pc EXCEPT ![t] = "askpaused"] \/ pc' = [pc EXCEPT ![t] = "poll"]
      <4>1. InFlight(h)' = InFlight(h)
        BY <3>3, <3>4, <1>a, FlightStays
      <4>2. adm'[h].slots = adm[h].slots
        BY <3>1, <3>4, <1>b DEF TypeOK
      <4> QED
        BY <1>d, <4>1, <4>2
    <3>5. CASE /\ adm' = [adm EXCEPT ![task[t].acct] = TakeSlot(a)]
               /\ pc' = [pc EXCEPT ![t] = "sent"]
      <4>1. Cardinality(InFlight(h)') =
              Cardinality(InFlight(h)) + (IF h = task[t].acct THEN 1 ELSE 0)
        BY <3>3, <3>5, <1>a, FlightGrows
      <4>2. adm'[h].slots = adm[h].slots + (IF h = task[t].acct THEN 1 ELSE 0)
        BY <3>1, <3>5, <1>b, <1>c DEF TypeOK, AdmissionType
      <4> QED
        BY <1>c, <4>1, <4>2
    <3> QED
      BY <3>2, <3>4, <3>5
  <2>4. CASE ReleaseAsRevalidation(t)
    <3>1. /\ pc[t] # "sent" /\ pc' = [pc EXCEPT ![t] = "sent"]
          /\ adm' = [adm EXCEPT ![task[t].acct] = TakeSlot(@)]
      BY <2>4 DEF ReleaseAsRevalidation
    <3>2. Cardinality(InFlight(h)') =
            Cardinality(InFlight(h)) + (IF h = task[t].acct THEN 1 ELSE 0)
      BY <3>1, <1>a, FlightGrows
    <3>3. adm'[h].slots = adm[h].slots + (IF h = task[t].acct THEN 1 ELSE 0)
      <4>1. TakeSlot(adm[task[t].acct]).slots = adm[task[t].acct].slots + 1
        BY RunType, SlotType
      <4> QED
        BY <3>1, <4>1, <1>b, <1>c DEF TypeOK, AdmissionType
    <3> QED
      BY <1>c, <3>2, <3>3
  <2> QED
    BY <1>3, <2>1, <2>2, <2>3, <2>4 DEF Wait
<1>g. ASSUME NEW t \in Task, pc[t] = "sent", NEW q, q # "sent", pc' = [pc EXCEPT ![t] = q],
             adm' = [adm EXCEPT ![task[t].acct] = ReleaseSlot(@)]
      PROVE  adm'[h].slots = Cardinality(InFlight(h)')
  <2>1. Cardinality(InFlight(h)') =
          Cardinality(InFlight(h)) - (IF h = task[t].acct THEN 1 ELSE 0)
    BY <1>g, <1>a, FlightShrinks
  <2>2. h = task[t].acct => adm[h].slots > 0
    <3>1. h = task[t].acct => InFlight(h) # {}
      BY <1>g DEF InFlight
    <3>2. Cardinality(InFlight(h)) # 0 \/ InFlight(h) = {}
      BY FlightFinite, FS_EmptySet
    <3> QED
      BY <3>1, <3>2, <1>c DEF AdmissionType
  <2>3. adm'[h].slots = adm[h].slots - (IF h = task[t].acct THEN 1 ELSE 0)
    <3>1. ReleaseSlot(adm[task[t].acct]).slots =
            IF adm[task[t].acct].slots = 0 THEN 0 ELSE adm[task[t].acct].slots - 1
      BY RunType, SlotType
    <3> QED
      BY <1>g, <2>2, <3>1, <1>b, <1>c DEF TypeOK, AdmissionType
  <2> QED
    BY <1>c, <2>1, <2>3
<1>4. ASSUME NEW t \in Task, Response(t) PROVE adm'[h].slots = Cardinality(InFlight(h)')
  <2>1. pc[t] = "sent" /\ adm' = [adm EXCEPT ![task[t].acct] = ReleaseSlot(@)]
    BY <1>4 DEF Response, SlotReleased, NetworkFailure, OtherFailure, Unauthorized, Answered,
                TooManyRequests
  <2>2. PICK q : q # "sent" /\ pc' = [pc EXCEPT ![t] = q]
    BY <1>4, <1>e, <1>f DEF Response, NetworkFailure, OtherFailure, Unauthorized, Answered,
                            TooManyRequests
  <2> QED
    BY <2>1, <2>2, <1>g
<1>5. ASSUME NEW t \in Task, Settlement(t) PROVE adm'[h].slots = Cardinality(InFlight(h)')
  <2>1. pc[t] # "sent"
    BY <1>5 DEF Settlement, Refreshed, Throttled, Exhausted, Serve
  <2>2. PICK q : q # "sent" /\ pc' = [pc EXCEPT ![t] = q]
    BY <1>5, <1>e, <1>f DEF Settlement, Refreshed, Throttled, Exhausted, Serve
  <2>3. InFlight(h)' = InFlight(h)
    BY <2>1, <2>2, <1>a, FlightStays
  <2>4. adm'[h].slots = adm[h].slots
    <3>1. CASE Refreshed(t)
      BY <3>1 DEF Refreshed
    <3>2. CASE Throttled(t)
      <4>1. PICK s \in RetryAfter :
              /\ now + s <= Horizon
              /\ \/ UNCHANGED adm
                 \/ adm' = [adm EXCEPT ![task[t].acct] =
                              [HoldThrottle(@, now + s) EXCEPT !.last429 = now]]
        BY <3>2 DEF Throttled
      <4>2. now + s \in Time
        BY <4>1, ParametersAssumption DEF TypeOK, Time
      <4>3. /\ HoldThrottle(adm[task[t].acct], now + s) \in AdmissionType
            /\ HoldThrottle(adm[task[t].acct], now + s).slots = adm[task[t].acct].slots
        BY <4>2, RunType, HoldThrottleType
      <4>4. [HoldThrottle(adm[task[t].acct], now + s) EXCEPT !.last429 = now].slots
              = adm[task[t].acct].slots
        BY <4>3 DEF AdmissionType
      <4> QED
        BY <4>1, <4>4, <1>b DEF TypeOK
    <3>3. CASE Exhausted(t)
      BY <3>3, <1>b, RunType DEF Exhausted, TypeOK, AdmissionType
    <3>4. CASE Serve(t)
      <4>1. ClearThrottleHold(adm[task[t].acct], task[t].policy, now).slots
              = adm[task[t].acct].slots
        BY RunType, ClearType DEF TypeOK
      <4> QED
        BY <3>4, <4>1, <1>b DEF Serve, TypeOK
    <3> QED
      BY <1>5, <3>1, <3>2, <3>3, <3>4 DEF Settlement
  <2> QED
    BY <1>d, <2>3, <2>4
<1>6. ASSUME NEW t \in Task, Leave(t) PROVE adm'[h].slots = Cardinality(InFlight(h)')
  <2>1. CASE pc[t] = "sent"
    BY <1>6, <2>1, <1>e, <1>g DEF Leave
  <2>2. CASE pc[t] # "sent"
    <3>1. InFlight(h)' = InFlight(h)
      BY <1>6, <2>2, <1>a, <1>e, FlightStays DEF Leave
    <3>2. adm'[h] = adm[h]
      BY <1>6, <2>2, <1>b DEF Leave, TypeOK
    <3> QED
      BY <1>d, <3>1, <3>2
  <2> QED
    BY <2>1, <2>2
<1>7. ASSUME NEW k \in Account, Remove(k) PROVE adm'[h].slots = Cardinality(InFlight(h)')
  <2>1. adm'[h] = adm[h]
    BY <1>7, <1>b DEF Remove, TypeOK
  <2>2. InFlight(h)' = InFlight(h)
    BY <1>7 DEF Remove, InFlight
  <2> QED
    BY <1>d, <2>1, <2>2
<1> QED
  BY <1>1, <1>2, <1>3, <1>4, <1>5, <1>6, <1>7 DEF Next

\* The slots of a pooled account are exactly its attempts in flight, for any
\* number of accounts and of concurrent exchanges (struct Slot, exchange.rs).
THEOREM SlotAccounting == Spec => []SlotsExact
<1>1. Init => SlotsExact
  <2> SUFFICES ASSUME Init, NEW h \in pooled PROVE adm[h].slots = Cardinality(InFlight(h))
    BY DEF SlotsExact
  <2>1. InFlight(h) = {} /\ adm[h].slots = 0
    BY DEF Init, InFlight, DefaultAdmission
  <2> QED
    BY <2>1, FS_EmptySet
<1> QED
  BY <1>1, TypeCorrect, SlotsNext, PTL DEF Spec

---------------------------------------------------------------------------
(* Pauses.  A waiter acts on a clock reading that may be old, and the hold *)
(* it finds may have been set, extended, settled or cleared since: what    *)
(* keeps it out is that readings lag and that a promised hold stays.       *)

\* The pooled accounts of the next state are pooled now.
LEMMA PoolShrinks ==
  ASSUME [Next]_vars, NEW h \in pooled' PROVE h \in pooled
BY DEF Next, vars, Tick, Start, Chosen, ChosenByRanking, ChosenForRevalidation,
       Wait, Inject, ReadClock, Admit, ReleaseAsRevalidation, KeepWaiting,
       Response, SlotReleased, NetworkFailure, OtherFailure, Unauthorized, Answered,
       TooManyRequests, Settlement, Refreshed, Throttled, Exhausted, Serve, Leave, Remove

\* The clock stands still or moves on by one.
LEMMA ClockSteps ==
  ASSUME [Next]_vars PROVE now' = now \/ now' = now + 1
BY DEF Next, vars, Tick, Start, Chosen, ChosenByRanking, ChosenForRevalidation,
       Wait, Inject, ReadClock, Admit, ReleaseAsRevalidation, KeepWaiting,
       Response, SlotReleased, NetworkFailure, OtherFailure, Unauthorized, Answered,
       TooManyRequests, Settlement, Refreshed, Throttled, Exhausted, Serve, Leave, Remove

\* No step leaves a run with a clock reading ahead of the clock.
LEMMA ReadingsLag ==
  ASSUME TypeOK, PauseInv, [Next]_vars, NEW x \in Task
  PROVE  task'[x].at <= now'
<1>1. task[x].at <= now /\ 0 <= now /\ now \in Nat /\ task[x].at \in Nat
  BY ParametersAssumption, RunType DEF PauseInv, TypeOK, Time
<1>2. now' = now \/ now' = now + 1
  BY ClockSteps
<1>3. ASSUME NEW t \in Task, Ends(t) PROVE task'[x].at \in {task[x].at, 0}
  BY <1>3 DEF Ends, FreshTask, TypeOK
<1>4. ASSUME NEW t \in Task, NEW q, Moves(t, q) PROVE task'[x].at = task[x].at
  BY <1>4 DEF Moves
<1>5. task'[x].at \in {task[x].at, 0, now}
  <2>1. CASE Tick \/ UNCHANGED vars
    BY <2>1 DEF Tick, vars
  <2>2. ASSUME NEW t \in Task, Start(t) PROVE task'[x].at \in {task[x].at, 0, now}
    BY <2>2, <1>4 DEF Start, Chosen, ChosenByRanking, ChosenForRevalidation, TypeOK, TaskType
  <2>3. ASSUME NEW t \in Task, Wait(t) PROVE task'[x].at \in {task[x].at, 0, now}
    <3>1. CASE Inject(t)
      BY <3>1, <1>3, <1>4 DEF Inject
    <3>2. CASE ReadClock(t) \/ KeepWaiting(t) \/ ReleaseAsRevalidation(t)
      BY <3>2 DEF ReadClock, KeepWaiting, ReleaseAsRevalidation, TypeOK, TaskType
    <3>3. CASE Admit(t)
      <4>1. \/ UNCHANGED task
            \/ task' = [task EXCEPT ![t].at = 0]
            \/ task' = [task EXCEPT ![t].at = 0, ![t].attempts = @ + 1]
        BY <3>3 DEF Admit, Moves
      <4> QED
        BY <4>1 DEF TypeOK, TaskType
    <3> QED
      BY <2>3, <3>1, <3>2, <3>3 DEF Wait
  <2>4. ASSUME NEW t \in Task, Response(t) PROVE task'[x].at \in {task[x].at, 0, now}
    <3>1. \/ task' = [task EXCEPT ![t].network = TRUE]
          \/ task' = [task EXCEPT ![t].refresh = TRUE]
          \/ UNCHANGED task
          \/ Ends(t)
      BY <2>4 DEF Response, NetworkFailure, OtherFailure, Unauthorized, Answered,
                  TooManyRequests, Moves
    <3> QED
      BY <3>1, <1>3 DEF TypeOK, TaskType
  <2>5. ASSUME NEW t \in Task, Settlement(t) PROVE task'[x].at \in {task[x].at, 0, now}
    <3>1. \/ task' = [task EXCEPT ![t].throttle = TRUE]
          \/ UNCHANGED task
          \/ Ends(t)
      BY <2>5 DEF Settlement, Refreshed, Throttled, Exhausted, Serve, Moves
    <3> QED
      BY <3>1, <1>3 DEF TypeOK, TaskType
  <2>6. ASSUME NEW t \in Task, Leave(t) PROVE task'[x].at \in {task[x].at, 0, now}
    BY <2>6, <1>3 DEF Leave
  <2>7. ASSUME NEW h \in Account, Remove(h) PROVE task'[x].at \in {task[x].at, 0, now}
    BY <2>7 DEF Remove
  <2> QED
    BY <2>1, <2>2, <2>3, <2>4, <2>5, <2>6, <2>7 DEF Next
<1> QED
  BY <1>1, <1>2, <1>5

\* What a pooled account's hold and its promised end become in one step.
HoldStep(h) ==
  \/ adm'[h].hold = adm[h].hold /\ paused'[h] = paused[h]
  \/ /\ adm'[h].hold = (IF adm[h].hold # None /\ adm[h].hold <= now THEN None ELSE adm[h].hold)
     /\ paused'[h] = paused[h]
  \/ \E u \in Time :
       /\ u > now
       /\ adm'[h].hold = (IF u > adm[h].hold THEN u ELSE adm[h].hold)
       /\ paused'[h] = (IF u > paused[h] THEN u ELSE paused[h])
  \/ /\ adm'[h].hold = (IF adm[h].hold > now THEN None ELSE adm[h].hold)
     /\ paused'[h] = (IF adm[h].hold > now THEN now ELSE paused[h])

\* Each such change keeps the hold and the promise together.
LEMMA HoldStepKeeps ==
  ASSUME TypeOK, PauseInv, NEW h \in pooled, HoldStep(h), now' >= now, now' \in Nat
  PROVE  adm'[h].hold # None \/ paused'[h] > now' => adm'[h].hold = paused'[h]
<1>1. /\ adm[h].hold \in Nat \/ adm[h].hold = -1
      /\ paused[h] \in Nat \/ paused[h] = -1
      /\ now \in Nat
  BY ParametersAssumption DEF TypeOK, AdmissionType, Time, None
<1>2. adm[h].hold # -1 \/ paused[h] > now => adm[h].hold = paused[h]
  BY DEF PauseInv, None
<1> QED
  BY <1>1, <1>2, ParametersAssumption DEF HoldStep, None, Time

\* No step breaks the strengthening.
LEMMA PauseNext == TypeOK /\ PauseInv /\ [Next]_vars => PauseInv'
<1> SUFFICES ASSUME TypeOK, PauseInv, [Next]_vars PROVE PauseInv'
  OBVIOUS
<1>1. \A x \in Task : task'[x].at <= now'
  BY ReadingsLag
<1>2. ASSUME NEW h \in pooled'
      PROVE  adm'[h].hold # None \/ paused'[h] > now' => adm'[h].hold = paused'[h]
  <2>1. h \in pooled /\ h \in Account
    BY PoolShrinks DEF TypeOK
  <2>2. now' >= now /\ now' \in Nat
    BY ClockSteps, ParametersAssumption DEF TypeOK, Time
  <2>3. HoldStep(h)
    <3>1. CASE Tick \/ UNCHANGED vars
      BY <3>1 DEF Tick, vars, HoldStep
    <3>2. ASSUME NEW t \in Task, Start(t) PROVE HoldStep(h)
      <4>1. StartRamp(adm[task[t].acct], task[t].policy, now).hold = adm[task[t].acct].hold
        BY RunType, StartRampType DEF TypeOK
      <4> QED
        BY <3>2, <4>1, <2>1 DEF Start, Chosen, ChosenByRanking, ChosenForRevalidation, TypeOK,
                                HoldStep
    <3>3. ASSUME NEW t \in Task, Wait(t) PROVE HoldStep(h)
      <4>1. CASE Inject(t) \/ ReadClock(t) \/ KeepWaiting(t)
        BY <4>1 DEF Inject, ReadClock, KeepWaiting, HoldStep
      <4>2. CASE Admit(t)
        <5> DEFINE a == Settle(adm[task[t].acct], task[t].policy, task[t].at)
                   b == adm[task[t].acct]
        <5>1. /\ a.hold = IF b.hold # None /\ b.hold <= task[t].at THEN None ELSE b.hold
              /\ TakeSlot(a).hold = a.hold
          BY RunType, SettleType, SlotType
        <5>2. b.hold <= task[t].at => b.hold <= now
          BY RunType, ParametersAssumption DEF PauseInv, TypeOK, Time, AdmissionType, None
        <5>3. /\ adm' = [adm EXCEPT ![task[t].acct] = a] \/ adm' = [adm EXCEPT ![task[t].acct] = TakeSlot(a)]
              /\ UNCHANGED paused
          BY <4>2 DEF Admit
        <5> HIDE DEF a
        <5> QED
          BY <5>1, <5>2, <5>3, <2>1 DEF HoldStep, TypeOK
      <4>3. CASE ReleaseAsRevalidation(t)
        <5>1. TakeSlot(adm[task[t].acct]).hold = adm[task[t].acct].hold
          BY RunType, SlotType
        <5> QED
          BY <4>3, <5>1, <2>1 DEF ReleaseAsRevalidation, HoldStep, TypeOK
      <4> QED
        BY <3>3, <4>1, <4>2, <4>3 DEF Wait
    <3>4. ASSUME NEW t \in Task, Response(t) PROVE HoldStep(h)
      <4>1. ReleaseSlot(adm[task[t].acct]).hold = adm[task[t].acct].hold
        BY RunType, SlotType
      <4>2. SlotReleased(t)
        BY <3>4 DEF Response, NetworkFailure, OtherFailure, Unauthorized, Answered, TooManyRequests
      <4> QED
        BY <4>1, <4>2, <2>1 DEF SlotReleased, HoldStep, TypeOK
    <3>5. ASSUME NEW t \in Task, Settlement(t) PROVE HoldStep(h)
      <4>1. CASE Refreshed(t)
        BY <4>1 DEF Refreshed, HoldStep
      <4>2. CASE Throttled(t)
        <5>1. PICK s \in RetryAfter :
                /\ now + s <= Horizon
                /\ \/ UNCHANGED <<adm, paused>>
                   \/ /\ adm' = [adm EXCEPT ![task[t].acct] =
                                   [HoldThrottle(@, now + s) EXCEPT !.last429 = now]]
                      /\ paused' = [paused EXCEPT ![task[t].acct] =
                                      IF now + s > @ THEN now + s ELSE @]
          BY <4>2 DEF Throttled
        <5>2. now + s \in Time /\ now + s > now
          BY <5>1, ParametersAssumption DEF TypeOK, Time
        <5> DEFINE u == now + s
                   b == adm[task[t].acct]
        <5>3. /\ HoldThrottle(b, u) \in AdmissionType
              /\ HoldThrottle(b, u).hold = IF u > b.hold THEN u ELSE b.hold
          BY <5>2, RunType, HoldThrottleType
        <5>4. [HoldThrottle(b, u) EXCEPT !.last429 = now].hold = IF u > b.hold THEN u ELSE b.hold
          BY <5>3 DEF AdmissionType
        <5>5. CASE UNCHANGED <<adm, paused>>
          BY <5>5 DEF HoldStep
        <5>6. CASE h # task[t].acct
          BY <5>1, <5>6, <2>1 DEF HoldStep, TypeOK
        <5>7. CASE /\ h = task[t].acct
                   /\ adm' = [adm EXCEPT ![task[t].acct] =
                                   [HoldThrottle(@, now + s) EXCEPT !.last429 = now]]
                   /\ paused' = [paused EXCEPT ![task[t].acct] =
                                      IF now + s > @ THEN now + s ELSE @]
          <6>1. adm'[h].hold = IF u > adm[h].hold THEN u ELSE adm[h].hold
            BY <5>7, <5>4, <2>1 DEF TypeOK
          <6>2. paused'[h] = IF u > paused[h] THEN u ELSE paused[h]
            BY <5>7, <2>1 DEF TypeOK
          <6> QED
            BY <5>2, <6>1, <6>2 DEF HoldStep
        <5> QED
          BY <5>1, <5>5, <5>6, <5>7
      <4>3. CASE Exhausted(t)
        BY <4>3, <2>1, RunType DEF Exhausted, HoldStep, TypeOK, AdmissionType
      <4>4. CASE Serve(t)
        <5> DEFINE b == adm[task[t].acct]
        <5>1. ClearThrottleHold(b, task[t].policy, now).hold = IF b.hold > now THEN None ELSE b.hold
          BY RunType, ClearType DEF TypeOK
        <5> QED
          BY <4>4, <5>1, <2>1 DEF Serve, HoldRuns, HoldStep, TypeOK
      <4> QED
        BY <3>5, <4>1, <4>2, <4>3, <4>4 DEF Settlement
    <3>6. ASSUME NEW t \in Task, Leave(t) PROVE HoldStep(h)
      <4>1. ReleaseSlot(adm[task[t].acct]).hold = adm[task[t].acct].hold
        BY RunType, SlotType
      <4> QED
        BY <3>6, <4>1, <2>1 DEF Leave, HoldStep, TypeOK
    <3>7. ASSUME NEW k \in Account, Remove(k) PROVE HoldStep(h)
      BY <3>7, <2>1 DEF Remove, HoldStep, TypeOK
    <3> QED
      BY <3>1, <3>2, <3>3, <3>4, <3>5, <3>6, <3>7 DEF Next
  <2> QED
    BY <2>1, <2>2, <2>3, HoldStepKeeps
<1> QED
  BY <1>1, <1>2 DEF PauseInv

\* The strengthening holds in every reachable state.
THEOREM PromiseKept == Spec => []PauseInv
<1>1. Init => PauseInv
  BY DEF Init, PauseInv, FreshTask, DefaultAdmission, None
<1> QED
  BY <1>1, TypeCorrect, PauseNext, PTL DEF Spec

\* Only Admit lets an ordinary attempt through.
LEMMA AdmittedByAdmit ==
  ASSUME TypeOK, Next, NEW t \in Task, AdmittedOrdinarily(t)
  PROVE  Admit(t)
<1>1. pc[t] = "ask" /\ pc'[t] = "sent"
  BY DEF AdmittedOrdinarily
<1>2. PICK u \in Task : Start(u) \/ Wait(u) \/ Response(u) \/ Settlement(u) \/ Leave(u)
  BY <1>1 DEF Next, Tick, Remove
<1>3. \E q : pc' = [pc EXCEPT ![u] = q]
  BY <1>2 DEF Start, Chosen, ChosenByRanking, ChosenForRevalidation,
         Wait, Inject, ReadClock, Admit, ReleaseAsRevalidation, KeepWaiting,
         Response, NetworkFailure, OtherFailure, Unauthorized, Answered, TooManyRequests,
         Settlement, Refreshed, Throttled, Exhausted, Serve, Leave, Ends, Moves
<1>4. u = t
  BY <1>1, <1>3 DEF TypeOK
<1>5. ~Start(t) /\ ~Response(t) /\ ~Settlement(t)
  BY <1>1 DEF Start, Chosen, ChosenByRanking, ChosenForRevalidation, Response, SlotReleased,
         NetworkFailure, OtherFailure, Unauthorized, Answered, TooManyRequests,
         Settlement, Refreshed, Throttled, Exhausted, Serve
<1>6. ~Leave(t)
  BY <1>1 DEF Leave, Ends, TypeOK
<1> QED
  BY <1>1, <1>2, <1>4, <1>5, <1>6 DEF Wait, Inject, ReadClock, ReleaseAsRevalidation, KeepWaiting

\* A hold that was promised keeps the attempt out: the reading it acts on lags.
LEMMA PausesStep == TypeOK /\ PauseInv /\ [Next]_vars => [PausePausesStep]_vars
<1> SUFFICES ASSUME TypeOK, PauseInv, Next, NEW t \in Task,
                    AdmittedOrdinarily(t), task[t].acct \in pooled,
                    ~(paused[task[t].acct] <= now)
             PROVE  FALSE
  BY DEF PausePausesStep
<1> DEFINE h == task[t].acct
           n == task[t].at
           a == Settle(adm[h], task[t].policy, n)
<1>1. /\ adm[h].hold = paused[h] /\ paused[h] > now /\ n <= now
      /\ now \in Nat /\ n \in Nat /\ n \in Time /\ adm[h].hold > n
  BY RunType, ParametersAssumption DEF PauseInv, TypeOK, Time, None
<1>2. Admit(t)
  BY AdmittedByAdmit
<1>3. a.hold > n
  <2>1. a.hold = IF adm[h].hold # None /\ adm[h].hold <= n THEN None ELSE adm[h].hold
    BY RunType, SettleType
  <2>2. adm[h].hold \in Int /\ n \in Int
    BY RunType DEF AdmissionType, Time, None
  <2> HIDE DEF a
  <2> QED
    BY <1>1, <2>1, <2>2
<1>4. pc' # [pc EXCEPT ![t] = "askpaused"] /\ pc' # [pc EXCEPT ![t] = "poll"]
  BY DEF AdmittedOrdinarily, TypeOK
<1> QED
  BY <1>2, <1>3, <1>4 DEF Admit, HoldRuns, Moves

\* A running throttle hold keeps every ordinary attempt out, whatever the
\* interleaving and however old the waiter's clock reading (Pool::admit).
THEOREM PauseHolds == Spec => PausePauses
BY PausesStep, TypeCorrect, PromiseKept, PTL DEF Spec, PausePauses

---------------------------------------------------------------------------
(* The retry budgets. *)

\* A run that ends, and one that moves on with its locals, stays within what
\* its budgets allow.
LEMMA EndsAllowed ==
  ASSUME TypeOK, NEW t \in Task, Ends(t)
  PROVE  task'[t].attempts <= Allowed(task'[t], pc'[t])
<1>1. task'[t] = FreshTask(task[t].acct, task[t].policy) /\ pc'[t] = "done"
  BY DEF Ends, TypeOK
<1> QED
  BY <1>1 DEF FreshTask, Allowed, One, Attempted

LEMMA MovesAllowed ==
  ASSUME TypeOK, NEW t \in Task, NEW q, Moves(t, q),
         task[t].attempts <= Allowed(task[t], pc[t]),
         pc[t] \in Attempted => q \in Attempted
  PROVE  task'[t].attempts <= Allowed(task'[t], pc'[t])
<1>1. task'[t] = task[t] /\ pc'[t] = q /\ task[t].attempts \in Nat
  BY RunType DEF Moves, TypeOK
<1>2. One(pc[t] \in Attempted) <= One(q \in Attempted)
  BY DEF One
<1>3. /\ One(task[t].network) \in Nat /\ One(task[t].throttle) \in Nat
      /\ One(task[t].refresh) \in Nat
      /\ One(pc[t] \in Attempted) \in Nat /\ One(q \in Attempted) \in Nat
  BY DEF One
<1> QED
  BY <1>1, <1>2, <1>3 DEF Allowed

\* A step of one run leaves the others' locals and places alone.
LEMMA OthersStand ==
  ASSUME TypeOK, NEW t \in Task,
         Start(t) \/ Wait(t) \/ Response(t) \/ Settlement(t) \/ Leave(t),
         NEW x \in Task, x # t
  PROVE  task'[x] = task[x] /\ pc'[x] = pc[x]
<1>1. ASSUME Ends(t) \/ \E q : Moves(t, q) PROVE task'[x] = task[x] /\ pc'[x] = pc[x]
  BY <1>1 DEF Ends, Moves, TypeOK
<1>2. CASE Start(t)
  BY <1>1, <1>2 DEF Start, Chosen, ChosenByRanking, ChosenForRevalidation, TypeOK
<1>3. CASE Wait(t)
  BY <1>1, <1>3 DEF Wait, Inject, ReadClock, Admit, ReleaseAsRevalidation, KeepWaiting, TypeOK
<1>4. CASE Response(t)
  BY <1>1, <1>4 DEF Response, NetworkFailure, OtherFailure, Unauthorized, Answered,
                    TooManyRequests, TypeOK
<1>5. CASE Settlement(t)
  BY <1>1, <1>5 DEF Settlement, Refreshed, Throttled, Exhausted, Serve, TypeOK
<1>6. CASE Leave(t)
  BY <1>1, <1>6 DEF Leave
<1> QED
  BY <1>2, <1>3, <1>4, <1>5, <1>6

\* An attempt is made only after a budget is spent, and no budget twice.
LEMMA AttemptsNext == TypeOK /\ AttemptsInv /\ [Next]_vars => AttemptsInv'
<1> SUFFICES ASSUME TypeOK, AttemptsInv, [Next]_vars, NEW x \in Task
             PROVE  task'[x].attempts <= Allowed(task'[x], pc'[x])
  BY DEF AttemptsInv
<1>1. /\ task[x].attempts <= Allowed(task[x], pc[x])
      /\ task[x].attempts \in Nat /\ task[x] \in TaskType
  BY RunType DEF AttemptsInv
<1>2. CASE UNCHANGED <<task, pc>>
  BY <1>1, <1>2
<1>3. ASSUME NEW t \in Task, x # t,
             Start(t) \/ Wait(t) \/ Response(t) \/ Settlement(t) \/ Leave(t)
      PROVE  task'[x].attempts <= Allowed(task'[x], pc'[x])
  BY <1>1, <1>3, OthersStand
<1>4. CASE Start(x)
  <2>1. pc[x] = "idle" /\ pc'[x] = "inject"
    BY <1>4 DEF Start, Chosen, ChosenByRanking, ChosenForRevalidation, Moves, TypeOK
  <2>2. task' \in {task, [task EXCEPT ![x].revalidated = TRUE]}
    BY <1>4 DEF Start, Chosen, ChosenByRanking, ChosenForRevalidation, Moves
  <2> QED
    BY <1>1, <2>1, <2>2 DEF Allowed, One, Attempted, TypeOK, TaskType
<1>5. CASE Wait(x)
  <2>1. CASE Inject(x)
    BY <1>1, <2>1, EndsAllowed, MovesAllowed DEF Inject, Attempted
  <2>2. CASE ReadClock(x) \/ KeepWaiting(x)
    BY <1>1, <2>2 DEF ReadClock, KeepWaiting, Allowed, One, Attempted, TypeOK, TaskType
  <2>3. CASE ReleaseAsRevalidation(x)
    BY <1>1, <2>3 DEF ReleaseAsRevalidation, Allowed, One, Attempted, TypeOK, TaskType
  <2>4. CASE Admit(x)
    <3>1. pc[x] = "ask"
      BY <2>4 DEF Admit
    <3>2. \/ pc'[x] = "askpaused" /\ task' = task
          \/ pc'[x] = "poll" /\ task' = [task EXCEPT ![x].at = 0]
          \/ /\ pc'[x] = "sent"
             /\ task' = [task EXCEPT ![x].at = 0, ![x].attempts = @ + 1]
      BY <2>4 DEF Admit, Moves, TypeOK
    <3> QED
      BY <1>1, <3>1, <3>2 DEF Allowed, One, Attempted, TypeOK, TaskType
  <2> QED
    BY <1>5, <2>1, <2>2, <2>3, <2>4 DEF Wait
<1>6. CASE Response(x)
  <2>1. pc[x] = "sent"
    BY <1>6 DEF Response, SlotReleased, NetworkFailure, OtherFailure, Unauthorized,
                Answered, TooManyRequests
  <2>2. \/ Ends(x)
        \/ Moves(x, "served") \/ Moves(x, "got429")
        \/ /\ ~task[x].network /\ pc'[x] = "inject"
           /\ task' = [task EXCEPT ![x].network = TRUE]
        \/ /\ ~task[x].refresh /\ pc'[x] = "refresh"
           /\ task' = [task EXCEPT ![x].refresh = TRUE]
    BY <1>6 DEF Response, NetworkFailure, OtherFailure, Unauthorized, Answered,
                TooManyRequests, TypeOK
  <2> QED
    BY <1>1, <2>1, <2>2, EndsAllowed, MovesAllowed DEF Allowed, One, Attempted, TypeOK, TaskType
<1>7. CASE Settlement(x)
  <2>1. CASE Refreshed(x)
    BY <1>1, <2>1, EndsAllowed, MovesAllowed DEF Refreshed, Attempted
  <2>2. CASE Throttled(x)
    <3>1. pc[x] = "got429"
      BY <2>2 DEF Throttled
    <3>2. \/ Ends(x)
          \/ /\ ~task[x].throttle /\ pc'[x] = "inject"
             /\ task' = [task EXCEPT ![x].throttle = TRUE]
      BY <2>2 DEF Throttled, TypeOK
    <3> QED
      BY <1>1, <3>1, <3>2, EndsAllowed DEF Allowed, One, Attempted, TypeOK, TaskType
  <2>3. CASE Exhausted(x) \/ Serve(x)
    BY <2>3, EndsAllowed DEF Exhausted, Serve
  <2> QED
    BY <1>7, <2>1, <2>2, <2>3 DEF Settlement
<1>8. CASE Leave(x)
  BY <1>8, EndsAllowed DEF Leave
<1> QED
  BY <1>2, <1>3, <1>4, <1>5, <1>6, <1>7, <1>8 DEF Next, Tick, Remove, vars

\* No account is attempted more than four times for one candidate run, whatever
\* the upstream answers and in whatever order (attempt_candidate).
THEOREM AttemptsBounded == Spec => []AtMostFourAttempts
<1>1. Init => AttemptsInv
  BY DEF Init, AttemptsInv, FreshTask, Allowed, One, Attempted
<1>2. TypeOK /\ AttemptsInv => AtMostFourAttempts
  BY RunType DEF AttemptsInv, AtMostFourAttempts, Allowed, One
<1> QED
  BY <1>1, <1>2, TypeCorrect, AttemptsNext, PTL DEF Spec

---------------------------------------------------------------------------
(* Pacing.  After a pause the account carries a ramp begun at the pause's  *)
(* end or later: settling makes one of the hold, a ranking only moves its  *)
(* start forward, and a reading of the clock that lags lifts it no sooner. *)

\* The strengthening, for the single policy p in force.
PacedInv ==
  \A p \in Policy : \A h \in pooled :
    /\ Policy = {p} /\ p.enabled
    /\ paused[h] # None /\ now < paused[h] + p.window
    => \/ adm[h].hold # None
       \/ adm[h].ramp # NoRamp /\ adm[h].ramp.start >= paused[h]

\* A ramp that counts: its policy is p and it started no earlier than s.
Since(r, p, s) == r \in Ramp /\ r # NoRamp /\ r.policy = p /\ r.start >= s /\ r.start \in Nat

LEMMA PolicyFields ==
  ASSUME NEW p \in Policy
  PROVE  /\ p.enabled \in BOOLEAN /\ p.initial \in Nat /\ p.step \in Nat
         /\ p.interval \in Nat \ {0} /\ p.window \in Nat \ {0}
BY ParametersAssumption DEF PolicyType

\* Inside the window of a ramp begun at s, no ramp begun since is lifted.
LEMMA NotLifted ==
  ASSUME NEW p \in Policy, NEW s \in Nat, NEW n \in Nat, NEW m \in Nat, n <= m, m < s + p.window,
         NEW r, Since(r, p, s)
  PROVE  ~Lifted(r, n)
<1>1. p.window \in Nat /\ p.window > 0 /\ r.policy = p /\ r.start >= s /\ r.start \in Nat
  BY PolicyFields DEF Since
<1>2. CASE n > r.start
  <2>1. Elapsed(r, n) = n - r.start
    BY <1>2 DEF Elapsed
  <2>2. ~(n - r.start >= p.window)
    BY <1>1
  <2> QED
    BY <1>1, <2>1, <2>2 DEF Lifted
<1>3. CASE ~(n > r.start)
  <2>1. Elapsed(r, n) = 0
    BY <1>3 DEF Elapsed
  <2> QED
    BY <1>1, <2>1 DEF Lifted
<1> QED
  BY <1>2, <1>3

\* Settling inside the window leaves the hold, or a ramp that counts.
LEMMA SettlePaces ==
  ASSUME NEW p \in Policy, p.enabled, NEW a \in AdmissionType, NEW s \in Nat, NEW n \in Time,
         NEW m \in Nat, n <= m, m < s + p.window,
         a.hold # None => a.hold = s,
         a.hold # None \/ Since(a.ramp, p, s)
  PROVE  Settle(a, p, n).hold # None \/ Since(Settle(a, p, n).ramp, p, s)
<1> DEFINE b == EndPause(a, p, n)
<1>1. n \in Nat /\ a.ramp \in Ramp
  BY ParametersAssumption DEF Time, AdmissionType
<1>2. b \in AdmissionType /\ (b.hold # None \/ Since(b.ramp, p, s))
  <2>1. CASE a.hold # None /\ a.hold <= n
    <3> DEFINE r == StartedRamp(p, a.hold)
    <3>1. a.hold = s /\ a.hold \in Time
      BY <2>1 DEF AdmissionType
    <3>2. r \in Ramp
      BY <3>1, StartedRampType
    <3>3. r = [start |-> s, policy |-> p]
      BY <3>1 DEF StartedRamp
    <3>4. r # NoRamp /\ r.policy = p /\ r.start = s
      BY <3>3 DEF NoRamp, None
    <3>5. b = [a EXCEPT !.hold = None, !.ramp = r]
      BY <2>1 DEF EndPause
    <3> HIDE DEF r
    <3>6. b \in AdmissionType /\ b.ramp = r
      BY <3>2, <3>5 DEF AdmissionType
    <3> QED
      BY <3>2, <3>4, <3>6 DEF Since
  <2>2. CASE ~(a.hold # None /\ a.hold <= n)
    BY <2>2 DEF EndPause
  <2> QED
    BY <2>1, <2>2
<1> HIDE DEF b
<1>3. Settle(a, p, n) = DropLifted(b, n)
  BY DEF Settle, b
<1>4. CASE Since(b.ramp, p, s)
  <2>1. ~Lifted(b.ramp, n)
    BY <1>1, <1>4, NotLifted
  <2>2. DropLifted(b, n) = b
    BY <2>1 DEF DropLifted
  <2> QED
    BY <1>3, <1>4, <2>2
<1>5. CASE b.hold # None
  <2>1. DropLifted(b, n).hold = b.hold
    BY <1>2, NoRampType DEF DropLifted, AdmissionType
  <2> QED
    BY <1>3, <1>5, <2>1
<1> QED
  BY <1>2, <1>4, <1>5

\* What the strengthening says of one account now.
LEMMA PacedNow ==
  ASSUME TypeOK, PauseInv, PacedInv, NEW p \in Policy, Policy = {p}, p.enabled, NEW h \in pooled,
         paused[h] # None, now < paused[h] + p.window
  PROVE  /\ paused[h] \in Nat /\ now \in Nat /\ adm[h] \in AdmissionType
         /\ adm[h].hold # None => adm[h].hold = paused[h]
         /\ adm[h].hold = None => paused[h] <= now
         /\ adm[h].hold # None \/ Since(adm[h].ramp, p, paused[h])
<1>1. h \in Account
  BY DEF TypeOK
<1>2. paused[h] \in Nat /\ now \in Nat /\ adm[h] \in AdmissionType /\ adm[h].ramp \in Ramp
  BY <1>1, ParametersAssumption DEF TypeOK, Time, AdmissionType
<1>3. adm[h].hold # None \/ paused[h] > now => adm[h].hold = paused[h]
  BY DEF PauseInv
<1>4. adm[h].hold # None \/ (adm[h].ramp # NoRamp /\ adm[h].ramp.start >= paused[h])
  BY DEF PacedInv
<1>5. adm[h].ramp.policy = p /\ (adm[h].ramp.start \in Nat \/ adm[h].ramp.start = -1)
  BY <1>2, ParametersAssumption DEF Ramp, Time, None
<1>6. adm[h].ramp.start >= paused[h] => adm[h].ramp.start \in Nat
  BY <1>2, <1>5
<1> QED
  BY <1>2, <1>3, <1>4, <1>5, <1>6 DEF Since, None

\* Taking or giving back a slot leaves the ramp alone.
LEMMA SlotRamp ==
  ASSUME NEW a \in AdmissionType
  PROVE  TakeSlot(a).ramp = a.ramp /\ ReleaseSlot(a).ramp = a.ramp
BY DEF TakeSlot, ReleaseSlot, AdmissionType

\* No step breaks the strengthening.
LEMMA PacedNext == TypeOK /\ PauseInv /\ PacedInv /\ [Next]_vars => PacedInv'
<1> SUFFICES ASSUME TypeOK, PauseInv, PacedInv, [Next]_vars, NEW p \in Policy, NEW h \in pooled',
                    Policy = {p}, p.enabled, paused'[h] # None, now' < paused'[h] + p.window
             PROVE  adm'[h].hold # None \/ (adm'[h].ramp # NoRamp /\ adm'[h].ramp.start >= paused'[h])
  BY DEF PacedInv
<1> DEFINE Paced == adm'[h].hold # None \/ (adm'[h].ramp # NoRamp /\ adm'[h].ramp.start >= paused'[h])
<1>1. h \in pooled /\ h \in Account /\ adm[h] \in AdmissionType
  BY PoolShrinks DEF TypeOK
<1>2. now \in Nat /\ now \in Time /\ (now' = now \/ now' = now + 1) /\ p.window \in Nat
      /\ (paused[h] \in Nat \/ paused[h] = -1)
  BY <1>1, ClockSteps, PolicyFields, ParametersAssumption DEF TypeOK, Time, None
<1>3. ASSUME paused'[h] = paused[h]
      PROVE  /\ paused[h] \in Nat
             /\ now < paused[h] + p.window
             /\ adm[h].hold # None => adm[h].hold = paused[h]
             /\ adm[h].hold = None => paused[h] <= now
             /\ adm[h].hold # None \/ Since(adm[h].ramp, p, paused[h])
  <2>1. now < paused[h] + p.window /\ paused[h] # None
    BY <1>2, <1>3 DEF None
  <2> QED
    BY <1>1, <2>1, PacedNow
<1>4. ASSUME adm'[h].hold = adm[h].hold, adm'[h].ramp = adm[h].ramp, paused'[h] = paused[h]
      PROVE  Paced
  BY <1>3, <1>4 DEF Since
<1>5. CASE Tick \/ UNCHANGED vars
  BY <1>4, <1>5 DEF Tick, vars
<1>6. ASSUME NEW t \in Task, Start(t) PROVE Paced
  <2> DEFINE r == StartedRamp(p, now)
  <2>1. paused'[h] = paused[h]
    BY <1>6 DEF Start, Chosen, ChosenByRanking, ChosenForRevalidation
  <2>2. adm'[h] = adm[h] \/ adm'[h] = [adm[h] EXCEPT !.ramp = r]
    <3>1. task[t].policy = p
      BY RunType
    <3> QED
      BY <1>1, <1>6, <3>1 DEF Start, Chosen, ChosenByRanking, ChosenForRevalidation, StartRamp, TypeOK
  <2>3. r # NoRamp /\ r.start = now
    <3>1. now # None
      BY <1>2 DEF None
    <3>2. r = [start |-> now, policy |-> p]
      BY DEF StartedRamp
    <3> QED
      BY <3>1, <3>2 DEF NoRamp
  <2> HIDE DEF r
  <2>4. CASE adm'[h] = [adm[h] EXCEPT !.ramp = r]
    <3>1. adm'[h].hold = adm[h].hold /\ adm'[h].ramp = r
      BY <1>1, <2>4 DEF AdmissionType
    <3>2. adm[h].hold = None => now >= paused[h]
      BY <1>2, <1>3, <2>1
    <3> QED
      BY <2>1, <2>3, <3>1, <3>2
  <2> QED
    BY <1>4, <2>1, <2>2, <2>4
<1>7. ASSUME NEW t \in Task, Wait(t) PROVE Paced
  <2>1. CASE Inject(t) \/ ReadClock(t) \/ KeepWaiting(t)
    BY <1>4, <2>1 DEF Inject, ReadClock, KeepWaiting
  <2>2. CASE Admit(t)
    <3> DEFINE b == adm[task[t].acct]
               a == Settle(b, task[t].policy, task[t].at)
    <3>1. /\ UNCHANGED paused
          /\ \/ adm' = [adm EXCEPT ![task[t].acct] = a]
             \/ adm' = [adm EXCEPT ![task[t].acct] = TakeSlot(a)]
      BY <2>2 DEF Admit
    <3>2. a \in AdmissionType /\ TakeSlot(a).hold = a.hold /\ TakeSlot(a).ramp = a.ramp
      BY RunType, SettleType, SlotType, SlotRamp
    <3>3. CASE h # task[t].acct
      BY <1>1, <1>4, <3>1, <3>3 DEF TypeOK
    <3>4. CASE h = task[t].acct
      <4>1. task[t].policy = p /\ task[t].at \in Time /\ task[t].at <= now
        BY RunType DEF PauseInv
      <4>2. a.hold # None \/ Since(a.ramp, p, paused[h])
        BY <1>1, <1>2, <1>3, <3>1, <3>4, <4>1, SettlePaces
      <4> HIDE DEF a
      <4>3. adm'[h].hold = a.hold /\ adm'[h].ramp = a.ramp
        BY <1>1, <3>1, <3>2, <3>4 DEF TypeOK
      <4> QED
        BY <3>1, <4>2, <4>3 DEF Since
    <3> QED
      BY <3>3, <3>4
  <2>3. CASE ReleaseAsRevalidation(t)
    <3>1. TakeSlot(adm[h]).hold = adm[h].hold /\ TakeSlot(adm[h]).ramp = adm[h].ramp
      BY <1>1, SlotType, SlotRamp
    <3> QED
      BY <1>1, <1>4, <2>3, <3>1 DEF ReleaseAsRevalidation, TypeOK
  <2> QED
    BY <1>7, <2>1, <2>2, <2>3 DEF Wait
<1>8. ReleaseSlot(adm[h]).hold = adm[h].hold /\ ReleaseSlot(adm[h]).ramp = adm[h].ramp
  BY <1>1, SlotType, SlotRamp
<1>9. ASSUME NEW t \in Task, Response(t) PROVE Paced
  <2>1. SlotReleased(t)
    BY <1>9 DEF Response, NetworkFailure, OtherFailure, Unauthorized, Answered, TooManyRequests
  <2> QED
    BY <1>1, <1>4, <1>8, <2>1 DEF SlotReleased, TypeOK
<1>10. ASSUME NEW t \in Task, Settlement(t) PROVE Paced
  <2>1. CASE Refreshed(t)
    BY <1>4, <2>1 DEF Refreshed
  <2>2. CASE Throttled(t)
    <3>1. PICK s \in RetryAfter :
            /\ now + s <= Horizon
            /\ \/ UNCHANGED <<adm, paused>>
               \/ /\ adm' = [adm EXCEPT ![task[t].acct] = [HoldThrottle(@, now + s) EXCEPT !.last429 = now]]
                  /\ paused' = [paused EXCEPT ![task[t].acct] = IF now + s > @ THEN now + s ELSE @]
      BY <2>2 DEF Throttled
    <3> DEFINE u == now + s
    <3>2. u \in Time /\ u # None
      BY <1>2, <3>1, ParametersAssumption DEF Time, None
    <3> HIDE DEF u
    <3>3. CASE UNCHANGED <<adm, paused>> \/ h # task[t].acct
      BY <1>1, <1>4, <3>1, <3>3 DEF TypeOK
    <3>4. CASE /\ h = task[t].acct
               /\ adm' = [adm EXCEPT ![task[t].acct] = [HoldThrottle(@, u) EXCEPT !.last429 = now]]
      <4>1. /\ HoldThrottle(adm[h], u) \in AdmissionType
            /\ HoldThrottle(adm[h], u).hold = IF u > adm[h].hold THEN u ELSE adm[h].hold
        BY <1>1, <3>2, HoldThrottleType
      <4>2. adm[h].hold = None => u > adm[h].hold
        BY <3>2, ParametersAssumption DEF Time, None
      <4>3. adm'[h].hold = HoldThrottle(adm[h], u).hold
        BY <1>1, <3>4, <4>1 DEF TypeOK, AdmissionType
      <4> QED
        BY <3>2, <4>1, <4>2, <4>3
    <3> QED
      BY <3>1, <3>3, <3>4 DEF u
  <2>3. CASE Exhausted(t)
    <3>1. adm'[h] = adm[h] \/ adm'[h] = [adm[h] EXCEPT !.last429 = now]
      BY <1>1, <2>3 DEF Exhausted, TypeOK
    <3>2. adm'[h].hold = adm[h].hold /\ adm'[h].ramp = adm[h].ramp
      BY <1>1, <3>1 DEF AdmissionType
    <3> QED
      BY <1>4, <2>3, <3>2 DEF Exhausted
  <2>4. CASE Serve(t)
    <3>1. CASE UNCHANGED <<adm, paused>> \/ h # task[t].acct
      BY <1>1, <1>4, <2>4, <3>1 DEF Serve, TypeOK
    <3>2. CASE /\ h = task[t].acct
               /\ adm' = [adm EXCEPT ![h] = ClearThrottleHold(@, task[t].policy, now)]
               /\ paused' = [paused EXCEPT ![h] = IF HoldRuns(adm[h], now) THEN now ELSE @]
      <4>1. task[t].policy = p
        BY RunType
      <4>2. CASE HoldRuns(adm[h], now)
        <5> DEFINE b == [adm[h] EXCEPT !.hold = now]
                   a == Settle(b, p, now)
        <5>1. b \in AdmissionType /\ b.hold = now
          BY <1>1, <1>2 DEF AdmissionType
        <5>2. adm'[h] = a /\ paused'[h] = now
          BY <1>1, <3>2, <4>1, <4>2 DEF ClearThrottleHold, TypeOK
        <5>3. now # None /\ now <= now /\ now < now + p.window
          BY <1>2, PolicyFields DEF None
        <5> HIDE DEF b
        <5>4. a.hold # None \/ Since(a.ramp, p, now)
          BY <1>2, <5>1, <5>3, SettlePaces
        <5> HIDE DEF a
        <5> QED
          BY <5>2, <5>4 DEF Since
      <4>3. CASE ~HoldRuns(adm[h], now)
        BY <1>1, <1>4, <3>2, <4>3 DEF ClearThrottleHold, TypeOK
      <4> QED
        BY <4>2, <4>3
    <3> QED
      BY <2>4, <3>1, <3>2 DEF Serve
  <2> QED
    BY <1>10, <2>1, <2>2, <2>3, <2>4 DEF Settlement
<1>11. ASSUME NEW t \in Task, Leave(t) PROVE Paced
  BY <1>1, <1>4, <1>8, <1>11 DEF Leave, TypeOK
<1>12. ASSUME NEW k \in Account, Remove(k) PROVE Paced
  BY <1>1, <1>4, <1>12 DEF Remove, TypeOK
<1> QED
  BY <1>5, <1>6, <1>7, <1>9, <1>10, <1>11, <1>12 DEF Next

\* The strengthening holds in every reachable state.
THEOREM PacedFromTheEnd == Spec => []PacedInv
<1>1. Init => PacedInv
  BY DEF Init, PacedInv, None
<1> QED
  BY <1>1, TypeCorrect, PromiseKept, PacedNext, PTL DEF Spec

LEMMA DivisionGrows ==
  ASSUME NEW x \in Nat, NEW y \in Nat, x <= y, NEW i \in Nat, i > 0
  PROVE  x \div i \in Nat /\ y \div i \in Nat /\ x \div i <= y \div i
OBVIOUS

\* A later start and an earlier reading allow no more attempts.
LEMMA CapGrows ==
  ASSUME NEW p \in Policy, NEW s \in Nat, NEW n \in Nat, NEW m \in Nat, n <= m, s <= m,
         NEW r, Since(r, p, s), NEW q, q = [start |-> s, policy |-> p]
  PROVE  Cap(r, n) \in Nat /\ Cap(q, m) \in Nat /\ Cap(r, n) <= Cap(q, m)
<1> DEFINE i == p.interval
           x == Elapsed(r, n)
           y == Elapsed(q, m)
<1>1. /\ p.initial \in Nat /\ p.step \in Nat /\ i \in Nat /\ i > 0
      /\ r.policy = p /\ r.start \in Nat /\ r.start >= s /\ q.policy = p /\ q.start = s
  BY PolicyFields DEF Since
<1>2. x \in Nat /\ y \in Nat /\ x <= y
  BY <1>1 DEF Elapsed
<1> DEFINE dx == x \div i
           dy == y \div i
<1> HIDE DEF x, y, i
<1>3. dx \in Nat /\ dy \in Nat /\ dx <= dy
  BY <1>1, <1>2, DivisionGrows
<1> HIDE DEF dx, dy
<1>4. p.step * dx \in Nat /\ p.step * dy \in Nat /\ p.step * dx <= p.step * dy
  BY <1>1, <1>3
<1>5. Cap(r, n) = p.initial + p.step * dx /\ Cap(q, m) = p.initial + p.step * dy
  BY <1>1 DEF Cap, dx, dy, x, y, i
<1> QED
  BY <1>1, <1>4, <1>5

\* After a pause an attempt let through inside the window finds no more in
\* flight than a ramp begun at the pause's end allows by now, whoever noticed
\* the end and however old its clock reading (Admission::settle).
THEOREM PauseIsPaced == Spec => PausePaced
<1>1. TypeOK /\ PauseInv /\ PacedInv /\ [Next]_vars => [PausePacedStep]_vars
  <2> SUFFICES ASSUME TypeOK, PauseInv, PacedInv, Next, NEW t \in Task, NEW p \in Policy,
                      AdmittedOrdinarily(t), task[t].acct \in pooled, paused[task[t].acct] # None,
                      Policy = {p}, Limited(StartedRamp(p, paused[task[t].acct]), now)
               PROVE  adm'[task[t].acct].slots <= Cap(StartedRamp(p, paused[task[t].acct]), now)
    BY DEF PausePacedStep
  <2> DEFINE h == task[t].acct
             n == task[t].at
             s == paused[h]
             q == StartedRamp(p, s)
             a == Settle(adm[h], task[t].policy, n)
  <2>1. /\ task[t].policy = p /\ h \in Account /\ n \in Time /\ n \in Nat /\ n <= now /\ now \in Nat
        /\ s \in Nat /\ adm[h] \in AdmissionType
    BY RunType, ParametersAssumption DEF PauseInv, TypeOK, Time, None
  <2>2. p.enabled /\ q = [start |-> s, policy |-> p] /\ ~Lifted(q, now)
    BY DEF Limited, StartedRamp
  <2>3. Admit(t)
    BY AdmittedByAdmit
  <2>4. s <= now
    BY PausesStep DEF PausePausesStep, AdmittedOrdinarily, vars
  <2>5. now < s + p.window
    <3>1. Elapsed(q, now) = now - s
      BY <2>1, <2>2, <2>4 DEF Elapsed
    <3> QED
      BY <2>1, <2>2, <3>1, PolicyFields DEF Lifted
  <2>6. /\ a \in AdmissionType /\ a.slots = adm[h].slots /\ a.slots \in Nat
        /\ TakeSlot(a).slots = a.slots + 1
    BY <2>1, SettleType, SlotType DEF AdmissionType
  <2>7. a.hold # None \/ Since(a.ramp, p, s)
    <3>1. /\ adm[h].hold # None => adm[h].hold = s
          /\ adm[h].hold # None \/ Since(adm[h].ramp, p, s)
      BY <2>2, <2>5, PacedNow
    <3> QED
      BY <2>1, <2>2, <2>5, <3>1, SettlePaces
  <2>8. pc' # [pc EXCEPT ![t] = "askpaused"] /\ pc' # [pc EXCEPT ![t] = "poll"]
    BY DEF AdmittedOrdinarily, TypeOK
  <2>9. /\ ~HoldRuns(a, n) /\ (Limited(a.ramp, n) => a.slots < Cap(a.ramp, n))
        /\ adm' = [adm EXCEPT ![h] = TakeSlot(a)]
    BY <2>3, <2>8 DEF Admit, Moves
  <2>10. a.hold = None
    <3>1. a.hold = IF adm[h].hold # None /\ adm[h].hold <= n THEN None ELSE adm[h].hold
      BY <2>1, SettleType
    <3>2. adm[h].hold \in Int /\ n \in Int
      BY <2>1, ParametersAssumption DEF AdmissionType, Time, None
    <3> HIDE DEF a
    <3> QED
      BY <2>9, <3>1, <3>2 DEF HoldRuns
  <2> HIDE DEF a
  <2>11. Since(a.ramp, p, s) /\ Limited(a.ramp, n)
    BY <2>1, <2>5, <2>7, <2>10, NotLifted DEF Since, Limited
  <2>12. a.slots < Cap(a.ramp, n) /\ Cap(a.ramp, n) \in Nat /\ Cap(q, now) \in Nat
         /\ Cap(a.ramp, n) <= Cap(q, now)
    BY <2>1, <2>2, <2>4, <2>9, <2>11, CapGrows
  <2>13. adm'[h].slots = a.slots + 1
    BY <2>1, <2>6, <2>9 DEF TypeOK
  <2> HIDE DEF h, q
  <2> QED
    BY <2>6, <2>12, <2>13 DEF h, q, s
<1> QED
  BY <1>1, TypeCorrect, PromiseKept, PacedFromTheEnd, PTL DEF Spec, PausePaced
=============================================================================
