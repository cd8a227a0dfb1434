----------------------------- MODULE MCCallers -----------------------------
(***************************************************************************)
(* What an exchange waits for before it sends: admission (Admission,       *)
(* extended here) and a refresh of its account's tokens.  The two share no *)
(* state here, so one run checks them in turn: `part` names the one that   *)
(* runs, and v1, v2, ... are the variables of the refresh.                 *)
(***************************************************************************)
EXTENDS MCAdmission

VARIABLES part, v1, v2, v3, v4, v5, v6, v7

NoVariable == "-"
slots == <<v1, v2, v3, v4, v5, v6, v7>>

\* Two exchanges of one account and one refresh task.
RefreshPart == INSTANCE Refresh WITH
  ApiKey <- {}, Caller <- Task, Runner <- {"runner"}, Lifetime <- 1, Margin <- 1,
  SuccessFloor <- 1, TransientFloor <- 1, InlineWait <- 1, Calls <- 1, Horizon <- 1, MaxVersion <- 1,
  now <- v1, pool <- v2, registry <- v3, runner <- v4, caller <- v5, upstream <- v6, stopping <- v7

----------------------------------------------------------------------------
CallersInit ==
  /\ Init
  /\ \/ part = "refresh" /\ RefreshPart!Init
     \/ /\ part = "admission"
        /\ v1 = NoVariable /\ v2 = NoVariable /\ v3 = NoVariable /\ v4 = NoVariable
        /\ v5 = NoVariable /\ v6 = NoVariable /\ v7 = NoVariable

CallersNext ==
  \/ part = "admission" /\ Next /\ UNCHANGED <<part, slots>>
  \/ part = "refresh" /\ RefreshPart!Next /\ UNCHANGED <<part, vars>>

\* The fairness of each component, while it runs.
CallersSpec ==
  /\ CallersInit /\ [][CallersNext]_<<part, slots, vars>>
  /\ WF_vars(part = "admission" /\ Tick)
  /\ \A t \in Task : WF_vars(part = "admission" /\ Progress(t))
  /\ WF_slots(part = "refresh" /\ RefreshPart!RunnerNext("runner"))

----------------------------------------------------------------------------
\* Admission's WaitEnds and Refresh's JoinersAnswered, of the part that runs and
\* of one exchange: nothing tells the two apart.  Neither wait of an exchange
\* is for ever: it gets out of admission (admit, exchange.rs), and when it
\* joined a refresh it is answered (refresh_inline, refresh.rs).
Held == \/ part = "admission" /\ Waits(t1)
        \/ part = "refresh" /\ RefreshPart!Joined(t1)
WaitsEnd == Held ~> ~Held
=============================================================================
