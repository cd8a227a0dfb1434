------------------------------- MODULE Hosts -------------------------------
(***************************************************************************)
(* What is on disks, the engineers' and the server host's, beside the      *)
(* state file (Store): the release directories, an enrolled machine, its   *)
(* Desktop app, the deployment, the logs.  None shares state with another  *)
(* here, so a behaviour is one part's: `part` names the one that runs.     *)
(***************************************************************************)
CONSTANTS
  Job, Dir, Edition, Version, VersionOf, Key, NoKey, KeyOf, NextOf, Malformed, Absent, Torn,
  MaxUpload, MaxJob,                                                \* Release
  Mode, Entry, MaxId, MaxPick, MaxAppFault,                         \* Desktop
  Process, Enrolled, Me, MaxIssued, MaxVersion, MaxEdit, MaxMachineFault, \* Machine
  ServerJob, ServerVersion, Broken, Config, MaxStart, MaxWrite, MaxServerFault, \* Deploy
  Room, Retained, Count, MaxRecord, MaxLogFault                     \* LogFile

VARIABLES
  part,  \* the part that runs
  host, dirs, active, job, staged, uploads, jobs,                   \* Release
  record, mode, applied, entry, gateway, running, moved, cmd, ids, picks, appFaults, user, \* Desktop
  reg, issued, kit, exe, replacement, files, secret, settings, backup, run, left,
  machineFaults,                                                    \* Machine
  releases, current, command, unit, enabled, serving, account, config, state, serverRecord,
  timer, serverJob, snapshot, starts, writes, serverFaults,         \* Deploy
  name, content, appender, begun, written, reader, printed, logFaults \* LogFile

releaseVars == <<host, dirs, active, job, staged, uploads, jobs>>
profileVars == <<record, mode, applied, entry, gateway, running, moved, cmd, ids, picks, appFaults,
                 user>>
machineVars == <<reg, issued, kit, exe, replacement, files, secret, settings, backup, run, left,
                 machineFaults>>
serverVars == <<releases, current, command, unit, enabled, serving, account, config, state,
                serverRecord, timer, serverJob, snapshot, starts, writes, serverFaults>>
logVars == <<name, content, appender, begun, written, reader, printed, logFaults>>
hostsVars == <<part, releaseVars, profileVars, machineVars, serverVars, logVars>>

Releases == INSTANCE Release

Profile == INSTANCE Desktop WITH MaxFault <- MaxAppFault, faults <- appFaults

Machines == INSTANCE Machine WITH
  Client <- Enrolled, MaxSecret <- MaxIssued, MaxFault <- MaxMachineFault,
  secrets <- issued, staged <- replacement, faults <- machineFaults

Deployment == INSTANCE Deploy WITH
  Job <- ServerJob, Version <- ServerVersion, MaxFault <- MaxServerFault,
  record <- serverRecord, job <- serverJob, faults <- serverFaults

Logs == INSTANCE LogFile WITH MaxFault <- MaxLogFault, writer <- appender, faults <- logFaults

-----------------------------------------------------------------------------
(* A part that does not run has no state. *)

NoVariable == "-"

NoReleases ==
  /\ host = NoVariable /\ dirs = NoVariable /\ active = NoVariable /\ job = NoVariable
  /\ staged = NoVariable /\ uploads = NoVariable /\ jobs = NoVariable
NoProfile ==
  /\ record = NoVariable /\ mode = NoVariable /\ applied = NoVariable /\ entry = NoVariable
  /\ gateway = NoVariable /\ running = NoVariable /\ moved = NoVariable /\ cmd = NoVariable
  /\ ids = NoVariable /\ picks = NoVariable /\ appFaults = NoVariable /\ user = NoVariable
NoMachine ==
  /\ reg = NoVariable /\ issued = NoVariable /\ kit = NoVariable /\ exe = NoVariable
  /\ replacement = NoVariable /\ files = NoVariable /\ secret = NoVariable
  /\ settings = NoVariable /\ backup = NoVariable /\ run = NoVariable /\ left = NoVariable
  /\ machineFaults = NoVariable
NoDeployment ==
  /\ releases = NoVariable /\ current = NoVariable /\ command = NoVariable /\ unit = NoVariable
  /\ enabled = NoVariable /\ serving = NoVariable /\ account = NoVariable /\ config = NoVariable
  /\ state = NoVariable /\ serverRecord = NoVariable /\ timer = NoVariable
  /\ serverJob = NoVariable /\ snapshot = NoVariable /\ starts = NoVariable
  /\ writes = NoVariable /\ serverFaults = NoVariable
NoLogs ==
  /\ name = NoVariable /\ content = NoVariable /\ appender = NoVariable /\ begun = NoVariable
  /\ written = NoVariable /\ reader = NoVariable /\ printed = NoVariable
  /\ logFaults = NoVariable

HostsInit ==
  \/ part = "release" /\ Releases!Init /\ NoProfile /\ NoMachine /\ NoDeployment /\ NoLogs
  \/ part = "desktop" /\ Profile!Init /\ NoReleases /\ NoMachine /\ NoDeployment /\ NoLogs
  \/ part = "machine" /\ Machines!Init /\ NoReleases /\ NoProfile /\ NoDeployment /\ NoLogs
  \/ part = "deploy" /\ Deployment!Init /\ NoReleases /\ NoProfile /\ NoMachine /\ NoLogs
  \/ part = "log" /\ Logs!Init /\ NoReleases /\ NoProfile /\ NoMachine /\ NoDeployment

HostsNext ==
  \/ /\ part = "release" /\ Releases!Next
     /\ UNCHANGED <<part, profileVars, machineVars, serverVars, logVars>>
  \/ /\ part = "desktop" /\ Profile!Next
     /\ UNCHANGED <<part, releaseVars, machineVars, serverVars, logVars>>
  \/ /\ part = "machine" /\ Machines!Next
     /\ UNCHANGED <<part, releaseVars, profileVars, serverVars, logVars>>
  \/ /\ part = "deploy" /\ Deployment!Next
     /\ UNCHANGED <<part, releaseVars, profileVars, machineVars, logVars>>
  \/ /\ part = "log" /\ Logs!Next
     /\ UNCHANGED <<part, releaseVars, profileVars, machineVars, serverVars>>

HostsSpec == HostsInit /\ [][HostsNext]_hostsVars

-----------------------------------------------------------------------------
(* Properties: each is the component's own, of the part that runs. *)

\* An installation the commands accept has its executable and its CA, unless an
\* uninstall reported what it could not remove (cli/join.rs, cli/update.rs, cli/uninstall.rs).
CompleteWorks == part = "machine" => Machines!CompleteWorks

\* Without a record the app's mode and entry are what the person last chose
\* (desktop/).
ChoiceReturns == part = "desktop" => Profile!ChoiceReturns

\* The release that `current` names is on disk (deploy/native.rs).
SelectionStands == part = "deploy" => Deployment!SelectionStands

\* A rollback that reports success put back what the transaction found
\* (deploy/native.rs).
RollbackRestores == part = "deploy" => Deployment!RollbackRestores

\* What an install stages of its own download is one edition, signed with the
\* key active when it was verified (deploy/release.rs).
StagedIsOneEdition == part = "release" => Releases!StagedIsOneEdition

\* A follower prints records in the order they were appended and none twice
\* (cli/tail.rs).
PrintedInOrder == part = "log" => Logs!PrintedInOrder

\* An uninstall never brings old settings back over what the engineer wrote
\* since (cli/uninstall.rs).
UninstallKeepsEdits == [][part = "machine" => Machines!UninstallStep]_hostsVars
=============================================================================
