------------------------------- MODULE Desktop -------------------------------
(***************************************************************************)
(* The Claude Desktop companion: the profile it borrows, its recovery      *)
(* record and its adapter, from desktop/mod.rs, config.rs, app.rs and      *)
(* transport.rs.                                                           *)
(*                                                                         *)
(* A setup writes the record, then the gateway file, then the library's    *)
(* _meta.json, then the app's configuration; a restore writes them back in *)
(* the order below and removes the record last.  Each write can fail and   *)
(* the command can be killed between any two.  The person picks another    *)
(* mode or library entry in the app at any time, and edits or deletes the  *)
(* gateway file.                                                           *)
(*                                                                         *)
(* An installation's id is a number never reused; the choices of a field   *)
(* are the person's values and ours ("3p", or the installation's id).      *)
(***************************************************************************)
EXTENDS Naturals

CONSTANTS Mode, Entry, \* the values the person picks for the two fields, none included
          MaxId,       \* bound: integrations set up
          MaxPick,     \* bound: the person's picks and edits
          MaxFault     \* bound: kills and failed writes

\* What the person picks is none of ours: "3p" is what a setup writes, and an
\* installation's id is new.
DesktopAssumption ==
  /\ MaxId \in Nat /\ "3p" \notin Mode /\ Entry \cap (1 .. MaxId) = {}

NoId == 0
NoRecord == [id |-> NoId]
NoGateway == [id |-> NoId, whole |-> FALSE]

VARIABLES
  record,      \* desktop.json
  mode,        \* deploymentMode of claude_desktop_config.json
  applied,     \* appliedId of configLibrary/_meta.json
  entry,       \* the id of our entry in _meta.json, NoId for none
  gateway,     \* the gateway file: whose key it holds, and whether all fields are ours
  running,     \* whether the app runs
  moved,       \* the enrolment changed since the record was written
  cmd,         \* the command that holds desktop.lock
  ids, picks, faults,
  user         \* what the person last chose for the two fields

profile == <<mode, applied, entry, gateway>>
vars == <<record, profile, running, moved, cmd, ids, picks, faults, user>>

NoCommand == [verb |-> "none"]

Init ==
  /\ record = NoRecord /\ mode \in Mode /\ applied \in Entry
  /\ entry = NoId /\ gateway = NoGateway
  /\ running \in BOOLEAN /\ moved = FALSE /\ cmd = NoCommand
  /\ ids = 0 /\ picks = 0 /\ faults = 0
  /\ user = [mode |-> mode, applied |-> applied]

Go(pc) == cmd' = [cmd EXCEPT !.pc = pc]
At(verb, pc) == cmd.verb = verb /\ cmd.pc = pc
Ends == cmd' = NoCommand
Fault == faults < MaxFault /\ faults' = faults + 1

\* The four parts of the profile are the record's.
Installed(r) == r.id # NoId /\ mode = "3p" /\ applied = r.id /\ entry = r.id
                /\ gateway = [id |-> r.id, whole |-> TRUE]

\* Another installation's entry is refused: its restore would undo this one.
Documents(id) == entry \in {NoId, id}

----------------------------------------------------------------------------
(* run *)

\* The lock is taken; the app must be closed for a setup and for a new enrolment.
Run ==
  /\ cmd = NoCommand
  /\ ~Installed(record) \/ moved => ~running
  /\ record = NoRecord => Documents(NoId) /\ ids < MaxId
  /\ cmd' = [verb |-> "run", pc |-> "record", installed |-> Installed(record)]
  /\ UNCHANGED <<record, profile, running, moved, ids, picks, faults, user>>

\* The record, with the values the fields hold before it, is saved first.
\* Mutant: it is made anew from the fields as they are now.
SaveRecordAnew ==
  /\ At("run", "record") /\ ids < MaxId
  /\ record' = [id |-> ids + 1, mode |-> mode, applied |-> applied] /\ ids' = ids + 1
  /\ moved' = FALSE /\ Go("gateway")
  /\ UNCHANGED <<profile, running, picks, faults, user>>

SaveRecord ==
  /\ At("run", "record")
  /\ IF record = NoRecord
     THEN /\ record' = [id |-> ids + 1, mode |-> mode, applied |-> applied]
          /\ ids' = ids + 1
     ELSE UNCHANGED <<record, ids>>
  /\ moved' = FALSE
  /\ Go(IF cmd.installed THEN "serve" ELSE "gateway")
  /\ UNCHANGED <<profile, running, picks, faults, user>>

\* install refuses what the person changed: an edited gateway file, or a field
\* that holds neither its value from before nor ours.
MayInstall ==
  /\ Documents(record.id)
  /\ gateway.id = record.id => gateway.whole
  /\ mode \in {record.mode, "3p"} /\ applied \in {record.applied, record.id}

InstallRefused ==
  /\ At("run", "gateway") /\ ~MayInstall /\ Ends
  /\ UNCHANGED <<record, profile, running, moved, ids, picks, faults, user>>

InstallGateway ==
  /\ At("run", "gateway") /\ MayInstall
  /\ gateway' = [id |-> record.id, whole |-> TRUE]
  /\ Go("meta")
  /\ UNCHANGED <<record, mode, applied, entry, running, moved, ids, picks, faults, user>>

InstallMeta ==
  /\ At("run", "meta")
  /\ applied' = record.id /\ entry' = record.id /\ Go("config")
  /\ UNCHANGED <<record, mode, gateway, running, moved, ids, picks, faults, user>>

InstallConfig ==
  /\ At("run", "config") /\ mode' = "3p" /\ Go("serve")
  /\ UNCHANGED <<record, applied, entry, gateway, running, moved, ids, picks, faults, user>>

\* serve opens the app and answers it until it is stopped or the app changes.
ServeOpens ==
  /\ At("run", "serve") /\ ~running /\ running' = TRUE
  /\ UNCHANGED <<record, profile, moved, cmd, ids, picks, faults, user>>

ServeEnds ==
  /\ At("run", "serve") /\ Ends
  /\ UNCHANGED <<record, profile, running, moved, ids, picks, faults, user>>

----------------------------------------------------------------------------
(* restore, also the first step of uninstall *)

\* The lock is taken again after the record was seen; the app must be closed.
Restore ==
  /\ cmd = NoCommand /\ record # NoRecord /\ ~running
  /\ cmd' = [verb |-> "restore", pc |-> "gateway", mode |-> mode, applied |-> applied, entry |-> entry]
  /\ UNCHANGED <<record, profile, running, moved, ids, picks, faults, user>>

\* A field that still holds our value gets the one from before.
RestoreField(current, ours, before) == IF current = ours THEN before ELSE current

\* Our fields leave the gateway file; its key leaves an edited one too.
RestoreGateway ==
  /\ At("restore", "gateway")
  /\ gateway' = IF gateway.id = record.id THEN NoGateway ELSE gateway
  /\ Go("config")
  /\ UNCHANGED <<record, mode, applied, entry, running, moved, ids, picks, faults, user>>

\* The documents were read at the start.
RestoreConfig ==
  /\ At("restore", "config")
  /\ mode' = RestoreField(cmd.mode, "3p", record.mode) /\ Go("meta")
  /\ UNCHANGED <<record, applied, entry, gateway, running, moved, ids, picks, faults, user>>

RestoreMeta ==
  /\ At("restore", "meta")
  /\ applied' = RestoreField(cmd.applied, record.id, record.applied)
  /\ entry' = IF cmd.entry = record.id THEN NoId ELSE cmd.entry
  /\ Go("record")
  /\ UNCHANGED <<record, mode, gateway, running, moved, ids, picks, faults, user>>

RemoveRecord ==
  /\ At("restore", "record") /\ record' = NoRecord /\ moved' = FALSE /\ Ends
  /\ UNCHANGED <<profile, running, ids, picks, faults, user>>

----------------------------------------------------------------------------
(* What else happens. *)

\* The command is killed, or a write fails: the lock goes with the process.
Stop ==
  /\ cmd # NoCommand /\ Fault /\ Ends
  /\ UNCHANGED <<record, profile, running, moved, ids, picks, user>>

\* The app is not started within the few writes of a command that found it closed.
AppStarts ==
  /\ ~running /\ (cmd = NoCommand \/ At("run", "serve")) /\ running' = TRUE
  /\ UNCHANGED <<record, profile, moved, cmd, ids, picks, faults, user>>

AppQuits ==
  /\ running /\ running' = FALSE
  /\ UNCHANGED <<record, profile, moved, cmd, ids, picks, faults, user>>

Pick == running /\ picks < MaxPick /\ picks' = picks + 1

\* The person picks another mode, or another library entry.
PickMode(v) ==
  /\ Pick /\ v # mode /\ mode' = v /\ user' = [user EXCEPT !.mode = v]
  /\ UNCHANGED <<record, applied, entry, gateway, running, moved, cmd, ids, faults>>

PickEntry(v) ==
  /\ Pick /\ v # applied /\ applied' = v /\ user' = [user EXCEPT !.applied = v]
  /\ UNCHANGED <<record, mode, entry, gateway, running, moved, cmd, ids, faults>>

EditGateway ==
  /\ Pick /\ gateway.whole /\ gateway' = [gateway EXCEPT !.whole = FALSE]
  /\ UNCHANGED <<record, mode, applied, entry, running, moved, cmd, ids, faults, user>>

\* The machine is enrolled anew while no adapter runs (Machine).
Enrol ==
  /\ cmd = NoCommand /\ record # NoRecord /\ ~moved /\ moved' = TRUE
  /\ UNCHANGED <<record, profile, running, cmd, ids, picks, faults, user>>

Next ==
  \/ Run \/ SaveRecord \/ InstallRefused \/ InstallGateway \/ InstallMeta \/ InstallConfig
  \/ ServeOpens \/ ServeEnds
  \/ Restore \/ RestoreGateway \/ RestoreConfig \/ RestoreMeta \/ RemoveRecord
  \/ Stop \/ AppStarts \/ AppQuits \/ EditGateway \/ Enrol
  \/ \E v \in Mode : PickMode(v)
  \/ \E v \in Entry : PickEntry(v)

Spec == Init /\ [][Next]_vars

----------------------------------------------------------------------------
(* Properties. *)

\* Without a record the two fields are what the person last chose, whatever
\* setups, restores and kills came before.
ChoiceReturns ==
  record = NoRecord => mode = user.mode /\ applied = user.applied
=============================================================================
