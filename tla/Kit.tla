-------------------------------- MODULE Kit --------------------------------
(***************************************************************************)
(* The client kit: the server's offer of it (control/client_kit.rs), the   *)
(* signing keys (bundle.rs, deploy/release.rs), the join that pins a key    *)
(* and the launches that follow the server's client (cli/update.rs).        *)
(*                                                                         *)
(* A release stands for its kit and for the digest of the client in it.    *)
(* A kit verifies under one key, an overlap release names the next one.    *)
(* Replacing the executable is one step here; Machine has its steps.        *)
(***************************************************************************)
EXTENDS Naturals, FiniteSets

CONSTANTS Machine, Launch,
          MachineOf,     \* the machine of each launch
          Release, Key,
          KeyOf, NextOf, \* the key each release is signed with, and the next one it names
          NoRelease, NoKey, Torn, OwnClient,
          MaxSwitch, MaxLaunch, MaxFault   \* bounds

\* A launch is of one machine, a release is signed with one key.
KitAssumption ==
  /\ MachineOf \in [Launch -> Machine]
  /\ KeyOf \in [Release -> Key] /\ NextOf \in [Release -> Key \cup {NoKey}]

VARIABLES
  link,       \* the release `current` names: the file at clients.kit_file
  serverKey,  \* release.pub of the server's host
  decided,    \* Verdicts.decided: the file the verdict is about, and the offer
  verifying,  \* Verdicts.verifying
  tasks,      \* verifications in the background
  switches,   \* selections and restarts so far
  invited,    \* the key in each machine's invite
  pinned,     \* release.pub of each machine; NoKey before its join
  installed,  \* the client on each machine
  staged,     \* client-kit.zip.partial of each machine
  crossed,    \* two downloads of the machine wrote the staged file at once
  launch,     \* what each `jaynshare claude` or `status` is doing
  launches, faults

serverVars  == <<link, serverKey, decided, verifying, tasks, switches>>
machineVars == <<invited, pinned, installed, staged, crossed>>
launchVars  == <<launch, launches, faults>>
vars        == <<serverVars, machineVars, launchVars>>

NoVerdict == [of |-> NoRelease, offer |-> NoRelease, made |-> FALSE]
NoLaunch  == [pc |-> "none"]
Fresh     == [pc |-> "status", wanted |-> NoRelease, kit |-> NoRelease, old |-> NoRelease]

Init ==
  /\ link \in Release \cup {NoRelease} /\ serverKey \in Key
  /\ link # NoRelease => KeyOf[link] = serverKey
  /\ decided = NoVerdict /\ verifying = NoRelease /\ tasks = {}
  /\ switches = 0
  /\ invited = [m \in Machine |-> NoKey] /\ pinned = [m \in Machine |-> NoKey]
  /\ installed = [m \in Machine |-> NoRelease] /\ staged = [m \in Machine |-> NoRelease]
  /\ crossed = [m \in Machine |-> FALSE]
  /\ launch = [l \in Launch |-> NoLaunch] /\ launches = 0 /\ faults = 0

----------------------------------------------------------------------------
(* Signatures. *)

\* verify_kit_zip: the signature is by the key, the sums and the members agree.
Verifies(kit, key) == kit \in Release /\ KeyOf[kit] = key

\* verify_signature with --key-id: the release verifies under the active key
\* and names the next one, which signed it too.
AdmitKey(r) ==
  /\ Verifies(r, serverKey) /\ NextOf[r] # NoKey /\ serverKey' = NextOf[r]
  /\ UNCHANGED <<link, decided, verifying, tasks, switches, machineVars, launchVars>>

----------------------------------------------------------------------------
(* The server. *)

\* An update selects a release while the server runs, and a rollback selects
\* the one before; the restart is a step of its own, and can fail.
Switch(r) ==
  /\ switches < MaxSwitch /\ switches' = switches + 1 /\ r # link /\ link' = r
  /\ UNCHANGED <<serverKey, decided, verifying, tasks, machineVars, launchVars>>

Restart ==
  /\ switches < MaxSwitch /\ switches' = switches + 1
  /\ decided' = NoVerdict /\ verifying' = NoRelease /\ tasks' = {}
  /\ UNCHANGED <<link, serverKey, machineVars, launchVars>>

\* offer: the verdict on the file as it is, or none; a file without a verdict
\* is verified off the request path.
Settled == decided.made /\ decided.of = link
Offer == IF Settled THEN decided.offer ELSE NoRelease
Asked ==
  IF Settled THEN UNCHANGED <<decided, verifying, tasks>>
  ELSE IF link = NoRelease
    THEN decided' = [NoVerdict EXCEPT !.made = TRUE] /\ UNCHANGED <<verifying, tasks>>
  ELSE IF verifying = link THEN UNCHANGED <<decided, verifying, tasks>>
  ELSE /\ verifying' = link /\ UNCHANGED decided
       /\ tasks' = tasks \cup {[of |-> link, pc |-> "read", kit |-> NoRelease, key |-> NoKey]}

\* read_offer: the key, then the kit that is at the path by now.
VerifyRead(t) ==
  /\ t.pc = "read"
  /\ tasks' = (tasks \ {t}) \cup {[t EXCEPT !.pc = "decide", !.kit = link, !.key = serverKey]}
  /\ UNCHANGED <<link, serverKey, decided, verifying, switches, machineVars, launchVars>>

VerifyDecides(t) ==
  /\ t.pc = "decide" /\ tasks' = tasks \ {t}
  /\ decided' = [of |-> t.of, made |-> TRUE,
                 offer |-> IF Verifies(t.kit, t.key) THEN t.kit ELSE NoRelease]
  /\ verifying' = (IF verifying = t.of THEN NoRelease ELSE verifying)
  /\ UNCHANGED <<link, serverKey, switches, machineVars, launchVars>>

----------------------------------------------------------------------------
(* A machine joins. *)

\* server_facts: the invite names the key the server verifies its kit with.
Invite(m) ==
  /\ invited[m] = NoKey /\ invited' = [invited EXCEPT ![m] = serverKey]
  /\ UNCHANGED <<serverVars, pinned, installed, staged, crossed, launchVars>>

\* settled_offer: a download asks, and waits until there is a verdict.
AskAgain ==
  /\ ~Settled /\ verifying # link /\ Asked
  /\ UNCHANGED <<link, serverKey, switches>>

\* server_client, install: the server's client under the invite's key, or the
\* joining executable when there is no offer.  A kit of another key ends the
\* join, and the spent invite with it: that machine stays as it is.
Join(m) ==
  /\ invited[m] # NoKey /\ pinned[m] = NoKey
  /\ UNCHANGED <<invited, staged, crossed, launchVars>>
  /\ \/ AskAgain /\ UNCHANGED <<pinned, installed>>
     \/ /\ Settled /\ Offer = NoRelease /\ UNCHANGED serverVars
        /\ pinned' = [pinned EXCEPT ![m] = invited[m]]
        /\ installed' = [installed EXCEPT ![m] = OwnClient]
     \/ /\ Settled /\ Offer # NoRelease /\ Verifies(link, invited[m]) /\ UNCHANGED serverVars
        /\ pinned' = [pinned EXCEPT ![m] = invited[m]]
        /\ installed' = [installed EXCEPT ![m] = link]

----------------------------------------------------------------------------
(* A launch follows the server's client. *)

At(l, pc) == launch[l].pc = pc
Goto(l, pc) == launch' = [launch EXCEPT ![l].pc = pc]
Cleans(l) == launch' = [launch EXCEPT ![l] = [Fresh EXCEPT !.pc = "clean"]]
Ends(l) == launch' = [launch EXCEPT ![l] = NoLaunch]
Fault == faults < MaxFault /\ faults' = faults + 1
Downloading(m) == {l \in Launch : MachineOf[l] = m /\ At(l, "downloading")}

Begin(l) ==
  /\ At(l, "none") /\ pinned[MachineOf[l]] # NoKey
  /\ launches < MaxLaunch /\ launches' = launches + 1
  /\ launch' = [launch EXCEPT ![l] = Fresh]
  /\ UNCHANGED <<serverVars, machineVars, faults>>

\* behind: whether another client is offered than the installed file is.
Behind(m, wanted) == wanted # NoRelease /\ installed[m] # wanted

\* The snapshot with the offer there is, compared with the installed file as
\* the answer arrives; asking starts a verification.
Status(l) ==
  /\ At(l, "status") /\ Asked
  /\ IF Behind(MachineOf[l], Offer)
     THEN launch' = [launch EXCEPT ![l].pc = "download", ![l].wanted = Offer]
     ELSE Ends(l)
  /\ UNCHANGED <<link, serverKey, switches, machineVars, launches, faults>>

\* The kit file is opened at the server and the staged one truncated here; a
\* second download of the machine opens the same staged file.
OpenDownload(l) ==
  LET m == MachineOf[l] IN
  /\ At(l, "download") /\ UNCHANGED <<invited, pinned, installed, launches, faults>>
  /\ \/ AskAgain /\ UNCHANGED <<staged, crossed, launch>>
     \/ /\ Settled /\ Offer # NoRelease /\ UNCHANGED serverVars
        /\ launch' = [launch EXCEPT ![l].pc = "downloading", ![l].kit = link]
        /\ staged' = [staged EXCEPT ![m] = Torn]
        /\ crossed' = [crossed EXCEPT ![m] = Downloading(m) # {}]
     \/ /\ Settled /\ Offer = NoRelease /\ UNCHANGED serverVars
        /\ Cleans(l) /\ UNCHANGED <<staged, crossed>>

CloseDownload(l) ==
  LET m == MachineOf[l] IN
  /\ At(l, "downloading") /\ launch' = [launch EXCEPT ![l].pc = "install", ![l].kit = NoRelease]
  /\ \E kit \in {launch[l].kit} \cup (IF crossed[m] THEN {Torn} ELSE {}) :
       staged' = [staged EXCEPT ![m] = kit]
  /\ UNCHANGED <<serverVars, invited, pinned, installed, crossed, launches, faults>>

\* Mutant: the kit verifies when the server's host would take it.
InstallByServerKey(l) ==
  LET m == MachineOf[l] IN
  /\ At(l, "install")
  /\ UNCHANGED <<serverVars, invited, pinned, staged, crossed, launches, faults>>
  /\ IF Verifies(staged[m], serverKey)
     THEN /\ launch' = [launch EXCEPT ![l].pc = "check", ![l].old = installed[m]]
          /\ installed' = [installed EXCEPT ![m] = staged[m]]
     ELSE Cleans(l) /\ UNCHANGED installed

\* install: the staged kit under this machine's key, whoever staged it.
Install(l) ==
  LET m == MachineOf[l] IN
  /\ At(l, "install")
  /\ UNCHANGED <<serverVars, invited, pinned, staged, crossed, launches, faults>>
  /\ IF Verifies(staged[m], pinned[m])
     THEN /\ launch' = [launch EXCEPT ![l].pc = "check", ![l].old = installed[m]]
          /\ installed' = [installed EXCEPT ![m] = staged[m]]
     ELSE Cleans(l) /\ UNCHANGED installed

\* Mutant: this process runs anew whatever was installed.
RerunAlways(l) ==
  LET m == MachineOf[l] IN
  /\ At(l, "check") /\ staged' = [staged EXCEPT ![m] = NoRelease]
  /\ launch' = [launch EXCEPT ![l] = Fresh]
  /\ UNCHANGED <<serverVars, invited, pinned, installed, crossed, launches, faults>>

\* The status check passes, the staged kit goes, and this process runs anew as
\* the installed client if that is the announced one.
Rerun(l) ==
  LET m == MachineOf[l] IN
  /\ At(l, "check") /\ staged' = [staged EXCEPT ![m] = NoRelease]
  /\ launch' = [launch EXCEPT ![l] =
       IF installed[m] = launch[l].wanted
       THEN Fresh
       ELSE NoLaunch]
  /\ UNCHANGED <<serverVars, invited, pinned, installed, crossed, launches, faults>>

\* The status check fails: what was installed before comes back.
CheckFails(l) ==
  /\ At(l, "check") /\ Fault /\ Cleans(l)
  /\ installed' = [installed EXCEPT ![MachineOf[l]] = launch[l].old]
  /\ UNCHANGED <<serverVars, invited, pinned, staged, crossed, launches>>

\* Not updated: the staged kit goes and the launch carries on.
CarryOn(l) ==
  /\ At(l, "clean") /\ Ends(l) /\ staged' = [staged EXCEPT ![MachineOf[l]] = NoRelease]
  /\ UNCHANGED <<serverVars, invited, pinned, installed, crossed, launches, faults>>

\* A call that fails, or the process ended.
Broken(l) ==
  /\ launch[l] # NoLaunch /\ Fault
  /\ \/ At(l, "status") /\ Ends(l)
     \/ launch[l].pc \in {"download", "downloading"} /\ Cleans(l)
     \/ Ends(l)
  /\ UNCHANGED <<serverVars, machineVars, launches>>

----------------------------------------------------------------------------
LaunchStep(l) ==
  \/ Status(l) \/ OpenDownload(l) \/ CloseDownload(l)
  \/ Install(l) \/ Rerun(l) \/ CarryOn(l)

Verify == \E t \in tasks : VerifyRead(t) \/ VerifyDecides(t)

Next ==
  \/ \E r \in Release : AdmitKey(r) \/ Switch(r)
  \/ Restart \/ Verify
  \/ \E m \in Machine : Invite(m) \/ Join(m)
  \/ \E l \in Launch : Begin(l) \/ LaunchStep(l) \/ CheckFails(l) \/ Broken(l)

Spec == Init /\ [][Next]_vars

\* The server's blocking tasks run, and a started launch goes on.
Fairness == WF_vars(Verify) /\ \A l \in Launch : WF_vars(LaunchStep(l))
FairSpec == Spec /\ Fairness

----------------------------------------------------------------------------
(* Properties. *)

\* docs/security-and-privacy.md:98 and cli/update.rs: whatever a server offers,
\* whichever key its host has moved to, and whoever else downloads at the same
\* time, a machine has only a client its own pinned key signed, or the one it
\* joined with.
AuthenticClient ==
  \A m \in Machine : pinned[m] # NoKey =>
    installed[m] = OwnClient \/ Verifies(installed[m], pinned[m])

\* cli/update.rs:250: a server whose kit is not the one it announces (a link
\* switched under a verification) never keeps a launch downloading for ever.
Launching(l) == launch[l] # NoLaunch
LaunchSettles == \A l \in Launch : Launching(l) ~> ~Launching(l)

\* deploy/README-server.md:73 "Every client follows on its next `jaynshare claude`":
\* no launch is told that there is nothing to follow by a server whose kit is
\* another client, signed by the key both of them have.
FollowsAtOnce ==
  [][\A l \in Launch :
       LET key == pinned[MachineOf[l]] IN
       At(l, "status") /\ launch'[l] = NoLaunch /\ faults' = faults /\ key = serverKey
       /\ Verifies(link, key) => installed[MachineOf[l]] = link]_vars
=============================================================================
