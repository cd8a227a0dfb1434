------------------------------ MODULE MCHosts ------------------------------
(***************************************************************************)
(* What is on disks: the state file (Store) and the parts of Hosts, both   *)
(* extended here.  They share no state, so one run checks them in turn.    *)
(***************************************************************************)
EXTENDS Store, Hosts, Sequences, TLC

CONSTANTS m1, e1, e2, k1, k2,
          Twins     \* two processes, two configurations: neither differs from the other

OneClient == {m1}
Ops == [op : {"issue", "reissue"}, id : Client, noAccount : {FALSE}]
       \cup [op : {"rotate", "revoke"}, id : Client]
       \cup [op : {"claim"}, id : Client, code : 1 .. MaxSecret]
       \cup [op : {"setop", "rmop"}, id : {"operator"}]
Symmetry == Permutations(Twins)

\* Release: two editions of one version, one whose manifest names the next key,
\* and a misbuilt one.
Editions == {e1, e2}
OneVersion == [e \in Editions |-> 1]
FirstKey == [e \in Editions |-> k1]
NextKey == [e \in Editions |-> IF e = e1 THEN k2 ELSE NoKey]

\* Deploy: two releases, the newer of which may not answer, and a clone's build
\* of the older one.
Release1 == [n |-> 1, local |-> FALSE]
Release2 == [n |-> 2, local |-> FALSE]
Selectable == {Release1, Release2, [Release1 EXCEPT !.local = TRUE]}
NewerOne == {Release2}

-----------------------------------------------------------------------------
MCInit ==
  \/ /\ part = "store" /\ Init
     /\ NoReleases /\ NoProfile /\ NoMachine /\ NoDeployment /\ NoLogs
  \/ HostsInit /\ Init

MCNext ==
  \/ part = "store" /\ Next /\ UNCHANGED hostsVars
  \/ HostsNext /\ UNCHANGED vars

MCSpec == MCInit /\ [][MCNext]_<<hostsVars, vars>>

ASSUME MachinesAssumption == Machines!MachineAssumption
ASSUME ProfileAssumption == Profile!DesktopAssumption
ASSUME ReleasesAssumption == Releases!ReleaseAssumption
ASSUME LogsAssumption == Logs!LogFileAssumption
=============================================================================
