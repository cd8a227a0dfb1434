------------------------------ MODULE MCServer ------------------------------
(***************************************************************************)
(* What the server does between its callers and its files: the accounts    *)
(* (Accounts) and the parts of Server, both extended here.  They share no  *)
(* state, so one run checks them in turn.                                  *)
(***************************************************************************)
EXTENDS Accounts, Server, Sequences, TLC

CONSTANTS i1, i2, i3,
          Actors    \* two of whatever overlaps: neither differs from the other

\* Accounts: an import beside logins; three identities that share an email,
\* two of one provider, with named organisations, and one of the other.
Identities == {i1, i2, i3}
OneEmail == [i \in Identities |-> "e"]
Organisations == i1 :> "one" @@ i2 :> "two" @@ i3 :> NoFact
OrganisationIds == i1 :> "u1" @@ i2 :> "u2" @@ i3 :> NoFact
Providers == i1 :> "anthropic" @@ i2 :> "anthropic" @@ i3 :> "codex"
TwoNames == {<<"e", "two">>, <<"joe", NoFact>>}

\* ConfigFile: a key only a restart moves, a blocked pattern that clashes with
\* a route, two priorities of one account, a key that does not exist and a
\* value out of range.
Entries == {"listen", "pattern", "route", "first", "second", "typo", "huge"}
KindOfEntry == [listen |-> "restart", pattern |-> "block", route |-> "route",
                first |-> "priority", second |-> "priority", typo |-> "unknown", huge |-> "bad"]
RefOfEntry == [e \in Entries |-> IF e \in {"route", "first", "second"} THEN "a" ELSE NoRef]
OneClash == {{"pattern", "route"}}

\* Kit: three releases, the second signed by both keys and the third by the
\* next one; one machine.
Releases == 1 .. 3
SignedBy == <<"old", "old", "new">>
ThenSignedBy == <<NoKey, "new", NoKey>>
OneMachine == [l \in Actors |-> "m"]

Symmetry == Permutations(Actors)

-----------------------------------------------------------------------------
MCInit ==
  \/ /\ part = "accounts" /\ Init
     /\ NoQuota /\ NoEgress /\ NoConfig /\ NoKit /\ NoLogin /\ NoServing /\ NoAuthority
  \/ ServerInit /\ Init /\ managed = i1

MCNext ==
  \/ part = "accounts" /\ Next /\ UNCHANGED serverVars
  \/ ServerNext /\ UNCHANGED vars

MCSpec == MCInit /\ [][MCNext]_<<serverVars, vars>>

ASSUME QuotasAssumption == Quotas!QuotaAssumption
ASSUME GateAssumption == Gate!EgressAssumption
ASSUME ConfigAssumption == Config!ConfigFileAssumption
ASSUME KitsAssumption == Kits!KitAssumption
ASSUME LoginsAssumption == Logins!LoginAssumption
ASSUME CAAssumption == CA!AuthorityAssumption
=============================================================================
