------------------------------- MODULE Deploy -------------------------------
(***************************************************************************)
(* The server on its host: install, update and its rollback, uninstall,    *)
(* purge, prune, the nightly update and the service verbs, from            *)
(* deploy/native.rs, deploy/auto_update.rs and deploy/systemd.rs.          *)
(*                                                                         *)
(* A job is one run of a `jaynshare server` verb.  A job is not atomic: it *)
(* can be killed between any two steps, each step that calls the operating *)
(* system or systemd can fail, and the server it manages keeps writing its *)
(* state meanwhile.  The code takes no lock; with one job in Job the verbs *)
(* run one after another.                                                  *)
(***************************************************************************)
EXTENDS Naturals, FiniteSets

CONSTANTS Job,
          Version,     \* records [n, local]: a release, or a clone's build of it
          Broken,      \* the versions whose server does not answer the status check
          Config,      \* the contents of a configuration
          MaxStart,    \* bound: jobs started
          MaxWrite,    \* bound: writes of the service's state
          MaxFault     \* bound: kills, reboots and failed steps

NoVersion == [n |-> 0, local |-> FALSE]
None == "none"
Idle == [op |-> None]

VARIABLES
  releases, current, command,  \* /opt/jaynshare/releases, current, /usr/local/bin/jaynshare
  unit, enabled,               \* the unit file, and whether systemd starts it at boot
  serving,                     \* the version whose executable the service runs
  account,                     \* the service account: none, group, user, ready (it has its home)
  config, state,               \* the service's configuration and state root
  record,                      \* origin.json: none, release or build
  timer,                       \* the nightly update's units
  job, snapshot,               \* per job: where it is, its .rollback-<pid>
  starts, writes, faults

links == <<current, command>>
manager == <<unit, enabled, serving>>
data == <<config, state>>
host == <<releases, links, manager, account, data, record, timer>>
vars == <<host, job, snapshot, starts, writes, faults>>

Fault == faults < MaxFault /\ faults' = faults + 1

Init ==
  /\ releases = {} /\ current = NoVersion /\ command = FALSE
  /\ unit = FALSE /\ enabled = FALSE /\ serving = NoVersion
  /\ account = "none" /\ config = None /\ state = 0 /\ record = None /\ timer = FALSE
  /\ job = [j \in Job |-> Idle] /\ snapshot = [j \in Job |-> <<>>]
  /\ starts = 0 /\ writes = 0 /\ faults = 0

----------------------------------------------------------------------------
(* Versions.  A build's digest is build metadata, which precedence ignores. *)

Lower(v, w) == v.n < w.n

\* Mutant: the selected release is one of those counted.
PrunedCurrentToo(keep) ==
  {v \in releases : Cardinality({w \in releases : Lower(v, w) \/ (v.n = w.n /\ w.local)}) >= keep}

\* prune_selection: past the newest `keep` of the others, names breaking ties.
Pruned(keep) ==
  LET others == releases \ {current}
      Before(w, v) == Lower(v, w) \/ (v.n = w.n /\ ~w.local /\ v.local)
  IN {v \in others : Cardinality({w \in others : Before(w, v)}) >= keep}

----------------------------------------------------------------------------
(* The start of a job: the gates that refuse before anything is written.    *)

Started(j, r) ==
  /\ job[j] = Idle /\ starts < MaxStart
  /\ starts' = starts + 1 /\ job' = [job EXCEPT ![j] = r]
  /\ UNCHANGED <<host, snapshot, writes, faults>>

Payload(pc, v, origin, supplied) ==
  [op |-> "transaction", pc |-> pc, version |-> v, origin |-> origin, supplied |-> supplied,
   prior |-> None, failed |-> FALSE, took |-> FALSE]

\* install: a build is refused while the nightly update is on, and a release
\* lower than the installed one.  It supplies a configuration, or one is
\* generated when there is none.
Install(j) ==
  \E v \in Version, origin \in {None, "release", "build"}, supplied \in Config \cup {None} :
    /\ v.local <=> origin = "build"
    /\ origin = "build" => ~timer
    /\ ~Lower(v, current)
    /\ supplied = None => config # None
    /\ Started(j, Payload("account", v, origin, supplied))

\* update, by a person or by the nightly unit: a named release, or what the
\* recorded origin offers.  Being on it already is nothing to do, or a conflict.
Update(j) ==
  \E v \in Version, named \in BOOLEAN, downgrade \in BOOLEAN :
    /\ current # NoVersion /\ v # current /\ config # None
    /\ v.local <=> (~named /\ record = "build")
    /\ downgrade \/ ~Lower(v, current)
    /\ Started(j, Payload("account", v, IF v.local THEN "build" ELSE "release", None))

\* uninstall, and with `purge` confirmed.
Uninstall(j) ==
  \E purge \in BOOLEAN : Started(j, [op |-> "uninstall", pc |-> "stop", purge |-> purge])

\* `server auto-update on`: nothing installed, or a build, is refused.
AutoUpdateOn ==
  /\ current # NoVersion /\ record # "build" /\ timer' = TRUE
  /\ UNCHANGED <<releases, links, manager, account, data, record, job, snapshot, starts, writes, faults>>

AutoUpdateOff ==
  /\ timer' = FALSE
  /\ UNCHANGED <<releases, links, manager, account, data, record, job, snapshot, starts, writes, faults>>

Prune ==
  \E keep \in 0 .. 1 :
    /\ releases' = releases \ Pruned(keep)
    /\ UNCHANGED <<links, manager, account, data, record, timer, job, snapshot, starts, writes, faults>>

----------------------------------------------------------------------------
(* The steps of a job. *)

At(j, op, pc) == job[j].op = op /\ job[j].pc = pc
Goto(j, pc) == job' = [job EXCEPT ![j].pc = pc]
Ends(j) == job' = [job EXCEPT ![j] = Idle]
Kept == UNCHANGED <<snapshot, starts, writes>>

\* service_account: reuse it, or create the group, the user and its home.  One
\* left without a home is reused as it is.
NextAccount == [none |-> "group", group |-> "user", user |-> "user", ready |-> "ready"]
Account(j) ==
  /\ At(j, "transaction", "account") /\ Kept
  /\ \/ account \in {"user", "ready"} /\ Goto(j, "stage") /\ UNCHANGED <<account, faults>>
     \/ account \in {"none", "group"} /\ account' = NextAccount[account]
        /\ Goto(j, IF account = "group" THEN "home" ELSE "account") /\ UNCHANGED faults
     \/ Fault /\ Ends(j) /\ UNCHANGED account
  /\ UNCHANGED <<releases, links, manager, data, record, timer>>

Home(j) ==
  /\ At(j, "transaction", "home") /\ Kept
  /\ \/ account' = "ready" /\ Goto(j, "stage") /\ UNCHANGED faults
     \/ Fault /\ Ends(j) /\ UNCHANGED account
  /\ UNCHANGED <<releases, links, manager, data, record, timer>>

\* stage: filled beside, then renamed into place or found there with the same
\* bytes; a failure removes what it filled.  Then everything the transaction may
\* have to undo is recorded.
Stage(j) ==
  /\ At(j, "transaction", "stage") /\ Kept
  /\ \/ /\ releases' = releases \cup {job[j].version}
        /\ \E active \in IF serving = NoVersion THEN {FALSE} ELSE {TRUE} \cup {serving \notin Broken} :
             job' = [job EXCEPT ![j].pc = "config",
                                ![j].prior = [current |-> current, command |-> command, unit |-> unit,
                                              active |-> active, config |-> config # None]]
        /\ UNCHANGED faults
     \/ Fault /\ Ends(j) /\ UNCHANGED releases
  /\ UNCHANGED <<links, manager, account, data, record, timer>>

\* select_configuration and copy_configuration: copied only where there is none.
Select(j) == IF config = None THEN job[j].supplied ELSE config

CopyConfiguration(j) ==
  /\ At(j, "transaction", "config") /\ Kept
  /\ \/ /\ job[j].supplied = None /\ config # None
        /\ Goto(j, "unit") /\ UNCHANGED <<config, faults>>
     \/ /\ job[j].supplied # None /\ config' = Select(j)
        /\ IF config' = job[j].supplied THEN Goto(j, "unit") ELSE Ends(j)
        /\ UNCHANGED faults
     \/ /\ job[j].supplied = None /\ config = None
        /\ Ends(j) /\ UNCHANGED <<config, faults>>
     \/ Fault /\ Ends(j) /\ UNCHANGED config
  /\ UNCHANGED <<releases, links, manager, account, state, record, timer>>

\* Before selection a failure ends the job; what was written stays.
WriteUnit(j) ==
  /\ At(j, "transaction", "unit") /\ Kept
  /\ \/ unit' = TRUE /\ Goto(j, "current") /\ UNCHANGED faults
     \/ Fault /\ Ends(j) /\ UNCHANGED unit
  /\ UNCHANGED <<releases, links, enabled, serving, account, data, record, timer>>

SelectCurrent(j) ==
  /\ At(j, "transaction", "current") /\ Kept
  /\ \/ current' = job[j].version /\ Goto(j, "command") /\ UNCHANGED faults
     \/ Fault /\ Goto(j, "undo stop") /\ UNCHANGED current
  /\ UNCHANGED <<releases, command, manager, account, data, record, timer>>

SelectCommand(j) ==
  /\ At(j, "transaction", "command") /\ Kept
  /\ \/ command' = TRUE /\ Goto(j, "snapshot") /\ UNCHANGED faults
     \/ Fault /\ Goto(j, "undo stop") /\ UNCHANGED command
  /\ UNCHANGED <<releases, current, manager, account, data, record, timer>>

Snapshot(j) ==
  /\ At(j, "transaction", "snapshot") /\ UNCHANGED <<host, starts, writes>>
  /\ \/ /\ snapshot' = [snapshot EXCEPT ![j] = <<state>>]
        /\ job' = [job EXCEPT ![j].pc = "enable", ![j].took = TRUE] /\ UNCHANGED faults
     \/ Fault /\ Goto(j, "undo stop") /\ UNCHANGED snapshot

\* daemon-reload and enable.
Enable(j) ==
  /\ At(j, "transaction", "enable") /\ Kept
  /\ \/ enabled' = TRUE /\ Goto(j, "start") /\ UNCHANGED faults
     \/ Fault /\ Goto(j, "undo stop") /\ UNCHANGED enabled
  /\ UNCHANGED <<releases, links, unit, serving, account, data, record, timer>>

\* What systemd runs: ExecStart names the selected executable.
Executable == IF unit /\ current \in releases THEN current ELSE NoVersion
Answers == serving # NoVersion /\ serving \notin Broken /\ account = "ready"

\* A restart runs the new executable; so does a start, unless a server runs.
StartService(j) ==
  /\ At(j, "transaction", "start") /\ Kept
  /\ \/ /\ serving' = (IF job[j].prior.active \/ serving \in Broken \cup {NoVersion}
                       THEN Executable ELSE serving)
        /\ Goto(j, "status") /\ UNCHANGED faults
     \/ Fault /\ Goto(j, "undo stop") /\ serving' \in {serving, NoVersion}
  /\ UNCHANGED <<releases, links, unit, enabled, account, data, record, timer>>

Status(j) ==
  /\ At(j, "transaction", "status") /\ UNCHANGED <<host, starts, writes>>
  /\ \/ /\ Answers /\ Goto(j, "record")
        /\ snapshot' = [snapshot EXCEPT ![j] = <<>>] /\ UNCHANGED faults
     \/ ~Answers /\ Goto(j, "undo stop") /\ UNCHANGED <<snapshot, faults>>
     \/ Fault /\ Goto(j, "undo stop") /\ UNCHANGED snapshot

\* A release directory keeps the recorded origin.
RecordOrigin(j) ==
  /\ At(j, "transaction", "record") /\ Kept /\ Ends(j)
  /\ \/ record' = (IF job[j].origin = None THEN record ELSE job[j].origin) /\ UNCHANGED faults
     \/ Fault /\ UNCHANGED record
  /\ UNCHANGED <<releases, links, manager, account, data, timer>>

----------------------------------------------------------------------------
(* The rollback: every step is tried, and one failed step never stops the rest. *)

Undoes(j, pc, next) == At(j, "transaction", pc) /\ Goto(j, next) /\ UNCHANGED faults
UndoFails(j, pc, next) ==
  /\ At(j, "transaction", pc) /\ Fault
  /\ job' = [job EXCEPT ![j].pc = next, ![j].failed = TRUE]

UndoStop(j) ==
  /\ Kept
  /\ \/ Undoes(j, "undo stop", "undo links") /\ serving' = NoVersion
     \/ UndoFails(j, "undo stop", "undo links") /\ UNCHANGED serving
  /\ UNCHANGED <<releases, links, unit, enabled, account, data, record, timer>>

\* Mutant: only the selection is restored.
UndoCurrentOnly(j) ==
  /\ Kept
  /\ \/ Undoes(j, "undo links", "undo unit") /\ current' = job[j].prior.current /\ UNCHANGED command
     \/ UndoFails(j, "undo links", "undo unit") /\ UNCHANGED links
  /\ UNCHANGED <<releases, manager, account, data, record, timer>>

\* restore_links: the first that fails leaves the second.
UndoLinks(j) ==
  /\ Kept
  /\ \/ /\ Undoes(j, "undo links", "undo unit")
        /\ current' = job[j].prior.current /\ command' = job[j].prior.command
     \/ /\ UndoFails(j, "undo links", "undo unit")
        /\ current' \in {current, job[j].prior.current} /\ UNCHANGED command
  /\ UNCHANGED <<releases, manager, account, data, record, timer>>

UndoUnit(j) ==
  /\ Kept
  /\ \/ Undoes(j, "undo unit", "undo state") /\ unit' = job[j].prior.unit
     \/ UndoFails(j, "undo unit", "undo state") /\ unit' \in {unit, job[j].prior.unit}
  /\ UNCHANGED <<releases, links, enabled, serving, account, data, record, timer>>

\* restore_state: the state root is removed, then copied back; then the
\* snapshot goes.
UndoState(j) ==
  LET next == IF job[j].prior.config THEN "undo start" ELSE "undo config" IN
  /\ UNCHANGED <<releases, links, manager, account, config, record, timer, starts, writes>>
  /\ \/ /\ Undoes(j, "undo state", next)
        /\ state' = (IF snapshot[j] = <<>> THEN state ELSE snapshot[j][1])
        /\ snapshot' = [snapshot EXCEPT ![j] = <<>>]
     \/ /\ UndoFails(j, "undo state", next) /\ snapshot[j] # <<>>
        /\ state' \in {0, snapshot[j][1]} /\ UNCHANGED snapshot

UndoConfiguration(j) ==
  /\ Kept
  /\ \/ Undoes(j, "undo config", "undo start") /\ config' = None
     \/ UndoFails(j, "undo config", "undo start") /\ UNCHANGED config
  /\ UNCHANGED <<releases, links, manager, account, state, record, timer>>

\* A stopped unit stays stopped.
UndoStart(j) ==
  /\ Kept
  /\ \/ /\ Undoes(j, "undo start", "undo status")
        /\ serving' = (IF job[j].prior.active /\ serving = NoVersion THEN Executable ELSE serving)
     \/ UndoFails(j, "undo start", "undo status") /\ job[j].prior.active /\ UNCHANGED serving
  /\ UNCHANGED <<releases, links, unit, enabled, account, data, record, timer>>

UndoStatus(j) ==
  /\ Kept /\ UNCHANGED <<host, faults>>
  /\ At(j, "transaction", "undo status")
  /\ job' = [job EXCEPT ![j].pc = "rolled back", ![j].failed = @ \/ (job[j].prior.active /\ ~Answers)]

\* The result of the rollback; a good one removes what is left of the snapshot.
RolledBack(j) ==
  /\ At(j, "transaction", "rolled back") /\ Ends(j)
  /\ snapshot' = [snapshot EXCEPT ![j] = <<>>]
  /\ UNCHANGED <<host, starts, writes, faults>>

----------------------------------------------------------------------------
(* Uninstall. *)

\* stop_and_disable: a unit whose file is gone is already down.
UninstallStep(j, pc, next) == At(j, "uninstall", pc) /\ Goto(j, next) /\ UNCHANGED faults
UninstallFails(j) ==
  /\ job[j].op = "uninstall" /\ Fault /\ Ends(j)
  /\ UNCHANGED host /\ Kept

StopAndDisable(j) ==
  /\ Kept
  /\ \/ ~unit /\ UninstallStep(j, "stop", "timer") /\ UNCHANGED manager
     \/ unit /\ UninstallStep(j, "stop", "disable") /\ serving' = NoVersion /\ UNCHANGED <<unit, enabled>>
     \/ UninstallStep(j, "disable", "timer") /\ enabled' = FALSE /\ UNCHANGED <<unit, serving>>
  /\ UNCHANGED <<releases, links, account, data, record, timer>>

RemoveTimer(j) ==
  /\ UninstallStep(j, "timer", IF job[j].purge THEN "purge root" ELSE "unit") /\ Kept
  /\ timer' = FALSE
  /\ UNCHANGED <<releases, links, manager, account, data, record>>

\* The preserving uninstall keeps every release, the selection and the data.
Preserve(j) ==
  /\ Kept
  /\ \/ UninstallStep(j, "unit", "link") /\ unit' = FALSE /\ UNCHANGED command
     \/ UninstallStep(j, "link", "done") /\ command' = FALSE /\ UNCHANGED unit
  /\ UNCHANGED <<releases, current, enabled, serving, account, data, record, timer>>

\* The purge paths, one after another.
PurgeRoot(j) ==
  /\ UninstallStep(j, "purge root", "purge files") /\ Kept
  /\ releases' = {} /\ current' = NoVersion /\ record' = None
  /\ UNCHANGED <<command, manager, account, data, timer>>

PurgeFiles(j) ==
  /\ UninstallStep(j, "purge files", "purge data") /\ Kept
  /\ command' = FALSE /\ unit' = FALSE
  /\ UNCHANGED <<releases, current, enabled, serving, account, data, record, timer>>

PurgeData(j) ==
  /\ UninstallStep(j, "purge data", "done") /\ Kept
  /\ config' = None /\ state' = 0
  /\ UNCHANGED <<releases, links, manager, account, record, timer>>

Uninstalled(j) ==
  /\ At(j, "uninstall", "done") /\ Ends(j)
  /\ UNCHANGED <<host, snapshot, starts, writes, faults>>

----------------------------------------------------------------------------
(* The service and its host. *)

\* service start, stop and restart.
Service ==
  /\ serving' \in {NoVersion, Executable,
                   IF serving = NoVersion \/ serving \in Broken THEN Executable ELSE serving}
  /\ UNCHANGED <<releases, links, unit, enabled, account, data, record, timer, job, snapshot, starts,
                 writes, faults>>

\* service install and service remove.
ServiceUnit ==
  /\ \/ unit' = TRUE /\ enabled' = TRUE /\ UNCHANGED serving
     \/ unit /\ unit' = FALSE /\ enabled' = FALSE /\ serving' = NoVersion
  /\ UNCHANGED <<releases, links, account, data, record, timer, job, snapshot, starts, writes, faults>>

\* A running server writes its state: a rotated credential, a registration.
ServerWrites ==
  /\ Answers /\ writes < MaxWrite
  /\ writes' = writes + 1 /\ state' = writes'
  /\ UNCHANGED <<releases, links, manager, account, config, record, timer, job, snapshot, starts, faults>>

Kill(j) ==
  /\ job[j] # Idle /\ Fault /\ Ends(j)
  /\ snapshot' = [snapshot EXCEPT ![j] = <<>>]
  /\ UNCHANGED <<host, starts, writes>>

Reboot ==
  /\ Fault /\ job' = [j \in Job |-> Idle] /\ snapshot' = [j \in Job |-> <<>>]
  /\ serving' = IF enabled THEN Executable ELSE NoVersion
  /\ UNCHANGED <<releases, links, unit, enabled, account, data, record, timer, starts, writes>>

\* The verbs that are one step run between jobs.
Alone == \A j \in Job : job[j] = Idle

Next ==
  \/ \E j \in Job :
       \/ Install(j) \/ Update(j) \/ Uninstall(j)
       \/ Account(j) \/ Home(j) \/ Stage(j) \/ CopyConfiguration(j) \/ WriteUnit(j)
       \/ SelectCurrent(j) \/ SelectCommand(j) \/ Snapshot(j) \/ Enable(j) \/ StartService(j)
       \/ Status(j) \/ RecordOrigin(j)
       \/ UndoStop(j) \/ UndoLinks(j) \/ UndoUnit(j) \/ UndoState(j) \/ UndoConfiguration(j)
       \/ UndoStart(j) \/ UndoStatus(j) \/ RolledBack(j)
       \/ StopAndDisable(j) \/ RemoveTimer(j) \/ Preserve(j)
       \/ PurgeRoot(j) \/ PurgeFiles(j) \/ PurgeData(j) \/ Uninstalled(j) \/ UninstallFails(j)
       \/ Kill(j)
  \/ Alone /\ AutoUpdateOn
  \/ Alone /\ AutoUpdateOff
  \/ Alone /\ Prune
  \/ Alone /\ Service
  \/ Alone /\ ServiceUnit
  \/ ServerWrites \/ Reboot

Spec == Init /\ [][Next]_vars

----------------------------------------------------------------------------
(* Properties. *)

\* The selection never dangles: whatever step of whatever verb was the last, the
\* release that `current` names is on disk, so that the unit can start after it.
SelectionStands == current # NoVersion => current \in releases

\* A rollback that reports success put back what the transaction found: the
\* selection, the command link, the unit, the state it had snapshotted, no
\* configuration of its own, and a server running if one ran and answers.
RollbackRestores ==
  \A j \in Job : At(j, "transaction", "rolled back") /\ ~job[j].failed =>
    LET p == job[j].prior IN
      /\ current = p.current /\ command = p.command /\ unit = p.unit
      /\ (config # None) <=> p.config
      /\ IF p.active THEN serving = p.current ELSE serving = NoVersion

\* "A failed rollback keeps the snapshot for the operator."
SnapshotKept ==
  \A j \in Job : At(j, "transaction", "rolled back") /\ job[j].failed /\ job[j].took => snapshot[j] # <<>>
=============================================================================
