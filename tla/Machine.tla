------------------------------- MODULE Machine -------------------------------
(***************************************************************************)
(* A client machine: join, update (and the following of the server, which  *)
(* runs the same steps) and uninstall, from cli/join.rs, cli/update.rs,    *)
(* cli/uninstall.rs, client.rs, client_kit.rs and settings.rs.             *)
(*                                                                         *)
(* Each command is a process that writes files one at a time and can be    *)
(* killed between any two.  Several run at once: every `claude` and every  *)
(* `status` follows its server.  The engineer edits the settings file when *)
(* he likes.  The server is its registry: Store shows that it keeps what   *)
(* it answered.                                                            *)
(*                                                                         *)
(* An executable is its version, the processes still writing its bytes,    *)
(* and whether its bytes are damaged; 0 is no file.                        *)
(***************************************************************************)
EXTENDS Registry, FiniteSets

CONSTANTS Process,       \* the processes that run commands
          Me,            \* the client id of this machine's invites
          MaxSecret,     \* bound: codes and secrets generated
          MaxVersion,    \* bound: client versions
          MaxEdit,       \* bound: the engineer's edits of the settings
          MaxFault       \* bound: kills, failed writes, lost exchanges

MachineAssumption ==
  /\ Me \in Client
  /\ MaxSecret \in Nat /\ MaxVersion \in Nat \ {0} /\ MaxEdit \in Nat /\ MaxFault \in Nat

NoFile == [v |-> 0, open |-> {}, torn |-> FALSE]
NoSettings == [form |-> "absent", ours |-> FALSE, mine |-> 0]
NoPlan == [new |-> NoSettings, backup |-> NoSettings]
Idle == [verb |-> "none"]

VARIABLES
  reg, secrets,   \* the server's registry, and the secrets it generated
  kit,            \* the client the server offers; 0 for none
  exe, staged,    \* the installed executable and its sibling `.new`
  files,          \* which of dir, client.toml, ca.pem, release.pub and link exist
  secret,         \* the content of client-secret; 0 for no file
  settings,       \* Claude Code's settings file: our entries, the engineer's edit
  backup,         \* settings.json.jaynshare-backup
  run,            \* what each process is doing
  left,           \* an uninstall reported a file it could not remove
  faults

host == <<exe, staged, files, secret>>
claude == <<settings, backup>>
remote == <<reg, secrets, kit>>
vars == <<remote, host, claude, run, left, faults>>

Init ==
  /\ reg = EmptyRegistry /\ secrets = 0 /\ kit = 0
  /\ exe = NoFile /\ staged = NoFile /\ files = {} /\ secret = 0
  /\ settings \in {NoSettings, [form |-> "ok", ours |-> FALSE, mine |-> 0]}
  /\ backup = NoSettings
  /\ run = [p \in Process |-> Idle] /\ left = FALSE /\ faults = 0

At(p, pc) == run[p].verb # "none" /\ run[p].pc = pc
Go(p, pc) == run' = [run EXCEPT ![p].pc = pc]
Ends(p) == run' = [run EXCEPT ![p] = Idle]
Fault == faults < MaxFault /\ faults' = faults + 1

\* read_installation: client.toml, then client-secret; else exit 11.
Complete == "toml" \in files /\ secret # 0

----------------------------------------------------------------------------
(* settings.rs: a change is planned from the file, and committed later. *)

\* Our entries are in the file already, or are added to it; the original is
\* backed up unless a backup exists.
PlanInstall ==
  IF settings.ours THEN NoPlan
  ELSE [new |-> [settings EXCEPT !.form = "ok", !.ours = TRUE],
        backup |-> IF settings.form = "ok" /\ backup = NoSettings THEN settings ELSE NoSettings]

CommitBackup(p) ==
  /\ backup' = IF run[p].plan.backup # NoSettings /\ backup = NoSettings
               THEN run[p].plan.backup ELSE backup

\* Mutant: the backup is put back whatever was edited since.
RestoreAlways ==
  /\ settings' = IF backup # NoSettings THEN backup ELSE [settings EXCEPT !.ours = FALSE]
  /\ backup' = NoSettings

\* plan_uninstall, commit and remove_backup: our entries go; a backup equal to
\* the result is written back, byte for byte, and dropped.
RemoveEntries ==
  /\ settings' = [settings EXCEPT !.ours = FALSE]
  /\ backup' = IF settings.ours /\ backup = settings' THEN NoSettings ELSE backup

----------------------------------------------------------------------------
(* join *)

\* The engineer joins and uninstalls, one at a time; updates run by themselves.
NoneJoins == \A p \in Process : run[p].verb \notin {"join", "uninstall"}

\* Refused, and nothing changed, on an installation or a settings file that
\* is not JSON.
Join(p, code) ==
  /\ run[p] = Idle /\ NoneJoins
  /\ code \in 1 .. secrets
  /\ "toml" \notin files /\ settings.form # "bad"
  /\ run' = [run EXCEPT ![p] = [verb |-> "join", pc |-> "claim", code |-> code,
                                secret |-> 0, v |-> 0, plan |-> PlanInstall]]
  /\ UNCHANGED <<remote, host, claude, left, faults>>

\* remove_staged: the executable and the whole client directory.
RemoveStaged ==
  /\ exe' = NoFile /\ files' = files \ {"dir", "toml", "ca"} /\ secret' = 0

\* Every refusal after the claim.
Spent(p) == RemoveStaged /\ Ends(p)

\* Refused (a code that is spent, late or replaced), or not reached: nothing changes.
ClaimRefused(p) ==
  /\ At(p, "claim") /\ Ends(p)
  /\ \/ ~MayClaim(reg, Me, run[p].code, {}) /\ UNCHANGED faults
     \/ Fault
  /\ UNCHANGED <<remote, host, claude, left>>

\* Claimed; the answer arrives whole, or names no proxy or CA, or is lost.
ClaimGranted(p) ==
  /\ At(p, "claim") /\ MayClaim(reg, Me, run[p].code, {}) /\ secrets < MaxSecret
  /\ reg' = Claim(reg, Me, secrets + 1) /\ secrets' = secrets + 1
  /\ \/ /\ run' = [run EXCEPT ![p].pc = "kit", ![p].secret = secrets + 1]
        /\ UNCHANGED <<host, faults>>
     \/ Fault /\ Spent(p) /\ UNCHANGED staged
     \/ Fault /\ Ends(p) /\ UNCHANGED host
  /\ UNCHANGED <<kit, claude, left>>

\* server_client: the server's kit, this executable (version 1) when it offers
\* none; a kit that does not arrive or does not verify is a refusal.
FetchClient(p) ==
  /\ At(p, "kit") /\ run[p].verb = "join"
  /\ \/ /\ run' = [run EXCEPT ![p].pc = "open", ![p].v = IF kit = 0 THEN 1 ELSE kit]
        /\ files' = files \cup {"dir"}
        /\ UNCHANGED <<exe, secret, faults>>
     \/ Fault /\ Spent(p)
  /\ UNCHANGED <<remote, staged, claude, left>>

\* Mutant: the secret before the files it needs.
InstallSecretFirst(p) ==
  \/ At(p, "toml") /\ secret' = run[p].secret /\ Go(p, "ca") /\ UNCHANGED <<files>>
  \/ At(p, "ca") /\ files' = files \cup {"toml"} /\ Go(p, "secret") /\ UNCHANGED secret
  \/ At(p, "secret") /\ files' = files \cup {"ca"} /\ Go(p, "key") /\ UNCHANGED secret
  \/ At(p, "key") /\ files' = files \cup {"key"} /\ Go(p, "backup") /\ UNCHANGED secret

\* install, after the executable: client.toml, ca.pem, the secret, the key.
InstallFiles(p) ==
  \/ At(p, "toml") /\ files' = files \cup {"dir", "toml"} /\ Go(p, "ca") /\ UNCHANGED secret
  \/ At(p, "ca") /\ files' = files \cup {"ca"} /\ Go(p, "secret") /\ UNCHANGED secret
  \/ At(p, "secret") /\ secret' = run[p].secret /\ Go(p, "key") /\ UNCHANGED files
  \/ At(p, "key") /\ files' = files \cup {"key"} /\ Go(p, "backup") /\ UNCHANGED secret

InstallStep(p) == InstallFiles(p) /\ UNCHANGED <<remote, exe, staged, claude, left, faults>>

\* One of these writes fails.
InstallFails(p) ==
  /\ run[p].verb = "join" /\ run[p].pc \in {"open", "close", "rename", "toml", "ca", "secret", "key"}
  /\ Fault /\ Spent(p)
  /\ staged' = [staged EXCEPT !.torn = @ \/ p \in staged.open, !.open = @ \ {p}]
  /\ UNCHANGED <<remote, claude, left>>

\* The link, and the check, which only reports.
Link(p) ==
  /\ At(p, "check") /\ run[p].verb = "join"
  /\ files' = files \cup {"link"} /\ Ends(p)
  /\ UNCHANGED <<remote, exe, staged, secret, claude, left, faults>>

----------------------------------------------------------------------------
(* replace_atomically: bytes to `.new`, then a rename.  Another process may *)
(* have `.new` open, or have renamed it.                                    *)

OpenStaged(p) ==
  /\ run[p].verb # "none" /\ run[p].pc \in {"open", "reopen"}
  /\ LET old == run[p].pc = "reopen"
         v == IF old THEN run[p].before ELSE run[p].v IN
       /\ staged' = [v |-> v, open |-> staged.open \cup {p},
                     torn |-> staged.open # {} /\ staged.v # v]
       /\ Go(p, IF old THEN "reclose" ELSE "close")
  /\ UNCHANGED <<remote, exe, files, secret, claude, left, faults>>

CloseStaged(p) ==
  /\ run[p].verb # "none" /\ run[p].pc \in {"close", "reclose"}
  /\ staged' = [staged EXCEPT !.open = @ \ {p}]
  /\ exe' = [exe EXCEPT !.open = @ \ {p}]
  /\ Go(p, IF run[p].pc = "close" THEN "rename" ELSE "rerename")
  /\ UNCHANGED <<remote, files, secret, claude, left, faults>>

RenameStaged(p) ==
  /\ run[p].verb # "none" /\ run[p].pc \in {"rename", "rerename"} /\ staged # NoFile
  /\ exe' = staged /\ staged' = NoFile
  /\ Go(p, IF run[p].pc = "rerename" THEN "unset"
           ELSE IF run[p].verb = "join" THEN "toml" ELSE "backup")
  /\ UNCHANGED <<remote, files, secret, claude, left, faults>>

\* Another process renamed it away, or the write fails: an update returns, a
\* failed restore is ignored.
ReplaceFails(p) ==
  /\ run[p].verb = "update"
  /\ \/ run[p].pc \in {"rename", "rerename"} /\ staged = NoFile /\ UNCHANGED faults
     \/ run[p].pc \in {"open", "rename", "reopen", "rerename"} /\ Fault
  /\ IF run[p].pc \in {"open", "rename"} THEN Ends(p) ELSE Go(p, "unset")
  /\ UNCHANGED <<remote, host, claude, left>>

----------------------------------------------------------------------------
(* update, and following the server *)

\* A process runs the installed executable and the server offers another: the
\* kit is fetched and verified, the old bytes are kept and the settings planned.
\* A fetch that fails, and a pinned key that is missing, change nothing.
Update(p) ==
  /\ run[p] = Idle /\ Complete /\ "key" \in files
  /\ kit # 0 /\ exe.v # 0 /\ exe.v # kit
  /\ settings.form # "bad"
  /\ run' = [run EXCEPT ![p] = [verb |-> "update", pc |-> "open", v |-> kit,
       before |-> exe.v, old |-> settings, plan |-> PlanInstall]]
  /\ UNCHANGED <<remote, host, claude, left, faults>>

\* The commit of the settings: the backup, then the file.
SettingsBackup(p) ==
  /\ At(p, "backup")
  /\ CommitBackup(p)
  /\ Go(p, "settings")
  /\ UNCHANGED <<remote, host, settings, left, faults>>

SettingsCommit(p) ==
  /\ At(p, "settings")
  /\ settings' = IF run[p].plan = NoPlan THEN settings ELSE run[p].plan.new
  /\ Go(p, "check")
  /\ UNCHANGED <<remote, host, backup, left, faults>>

\* A join warns and goes on; an update returns, the new executable in place.
SettingsFail(p) ==
  /\ run[p].verb # "none" /\ run[p].pc \in {"backup", "settings"} /\ run[p].plan # NoPlan
  /\ Fault
  /\ IF run[p].verb = "join" THEN Go(p, "check") ELSE Ends(p)
  /\ UNCHANGED <<remote, host, claude, left>>

\* The status check with this machine's secret.
CheckPasses(p) ==
  /\ At(p, "check") /\ run[p].verb = "update" /\ Ends(p)
  /\ secret # 0 /\ reg.clients[Me].verifier = Verifier("secret", secret)
  /\ UNCHANGED <<remote, host, claude, left, faults>>

RollBack(p) == Go(p, "reopen")

\* It fails: the old executable, then the old settings bytes, are put back.
CheckFails(p) ==
  /\ At(p, "check") /\ run[p].verb = "update"
  /\ \/ reg.clients[Me].verifier # Verifier("secret", secret) /\ UNCHANGED faults
     \/ Fault
  /\ RollBack(p)
  /\ UNCHANGED <<remote, host, claude, left>>

RestoreSettings(p) ==
  /\ At(p, "unset")
  /\ settings' = run[p].old
  /\ Ends(p)
  /\ UNCHANGED <<remote, host, backup, left, faults>>

----------------------------------------------------------------------------
(* uninstall *)

\* Refused on an installation that is not complete.  The Desktop profile is
\* restored first (Desktop), and a restore that fails ends the command.
Uninstall(p) ==
  /\ run[p] = Idle /\ NoneJoins /\ Complete
  /\ run' = [run EXCEPT ![p] = [verb |-> "uninstall", pc |-> "entries", i |-> 1]]
  /\ UNCHANGED <<remote, host, claude, left, faults>>

\* The settings entries; a file that is not JSON or cannot be written is skipped.
UninstallSettings(p) ==
  /\ At(p, "entries") /\ Go(p, "remove")
  /\ \/ settings.form # "bad" /\ RemoveEntries /\ UNCHANGED faults
     \/ settings.form = "bad" /\ UNCHANGED <<claude, faults>>
     \/ settings.form # "bad" /\ Fault /\ UNCHANGED claude
  /\ UNCHANGED <<remote, host, left>>

Removed(i) == <<"link", "secret", "toml", "ca", "exe">>[i]

\* The files, one at a time; a failure is reported and the rest still goes.
\* The directory goes when it is empty.
UninstallRemove(p) ==
  /\ At(p, "remove")
  /\ LET f == Removed(run[p].i) IN
       \/ /\ exe' = IF f = "exe" THEN NoFile ELSE exe
          /\ secret' = IF f = "secret" THEN 0 ELSE secret
          /\ files' = IF f = "exe" /\ files \cap {"toml", "ca"} = {} /\ secret = 0
                      THEN files \ {"dir"} ELSE files \ {f}
          /\ UNCHANGED <<left, faults>>
       \/ Fault /\ left' = TRUE /\ UNCHANGED <<exe, secret, files>>
  /\ run' = [run EXCEPT ![p] = IF @.i = 5 THEN Idle ELSE [@ EXCEPT !.i = run[p].i + 1]]
  /\ UNCHANGED <<remote, staged, claude>>

----------------------------------------------------------------------------
(* What else happens. *)

\* A command is killed: what it was writing stays half written.
Kill(p) ==
  /\ run[p] # Idle /\ Fault /\ Ends(p)
  /\ staged' = [staged EXCEPT !.torn = @ \/ p \in staged.open, !.open = @ \ {p}]
  /\ exe' = [exe EXCEPT !.torn = @ \/ p \in exe.open, !.open = @ \ {p}]
  /\ UNCHANGED <<remote, files, secret, claude, left>>

\* The engineer, or Claude Code, writes the settings file, which may take our
\* entries out or leave it unreadable.
Edit(form, ours) ==
  /\ settings.mine < MaxEdit
  /\ ours => settings.ours
  /\ settings' = [form |-> form, ours |-> ours, mine |-> settings.mine + 1]
  /\ UNCHANGED <<remote, host, backup, run, left, faults>>

\* external: the operator.
Operator(req) ==
  /\ Admits(reg, req, {})
  /\ Discloses(req) # "none" => secrets < MaxSecret
  /\ reg' = After(reg, req, secrets + 1)
  /\ secrets' = IF Discloses(req) = "none" THEN secrets ELSE secrets + 1
  /\ UNCHANGED <<kit, host, claude, run, left, faults>>

\* The server is upgraded, to a version that may offer no client before it does.
NewKit(v) ==
  /\ v > kit /\ kit' = v
  /\ UNCHANGED <<reg, secrets, host, claude, run, left, faults>>

KitRequests == [op : {"issue", "reissue"}, id : {Me}, noAccount : {FALSE}]
               \cup [op : {"revoke"}, id : {Me}]

CommandStep(p) ==
  \/ ClaimRefused(p) \/ ClaimGranted(p) \/ FetchClient(p)
  \/ InstallStep(p) \/ InstallFails(p) \/ Link(p)
  \/ OpenStaged(p) \/ CloseStaged(p) \/ RenameStaged(p) \/ ReplaceFails(p)
  \/ SettingsBackup(p) \/ SettingsCommit(p) \/ SettingsFail(p)
  \/ CheckPasses(p) \/ CheckFails(p) \/ RestoreSettings(p)
  \/ UninstallSettings(p) \/ UninstallRemove(p)

Next ==
  \/ \E p \in Process :
       \/ \E code \in 1 .. MaxSecret : Join(p, code)
       \/ Update(p) \/ Uninstall(p) \/ CommandStep(p) \/ Kill(p)
  \/ \E form \in {"ok", "bad"}, ours \in BOOLEAN : Edit(form, ours)
  \/ \E req \in KitRequests : Operator(req)
  \/ \E v \in 1 .. MaxVersion : NewKit(v)

Spec == Init /\ [][Next]_vars

----------------------------------------------------------------------------
(* Properties. *)

Executables == [v : 0 .. MaxVersion, open : SUBSET Process, torn : BOOLEAN]
SettingsFiles == [form : {"absent", "ok", "bad"}, ours : BOOLEAN, mine : 0 .. MaxEdit]

\* Every variable holds a value the program can hold.
TypeOK ==
  /\ {exe, staged} \subseteq Executables
  /\ files \subseteq {"dir", "toml", "ca", "key", "link"}
  /\ secret \in 0 .. secrets /\ kit \in 0 .. MaxVersion
  /\ {settings, backup} \subseteq SettingsFiles
  /\ \A p \in Process : run[p].verb \in {"none", "join", "update", "uninstall"}

\* An installation the commands accept has its executable and its CA: a join
\* killed anywhere, or failing anywhere, and an uninstall stopped halfway,
\* leave an installation that works or one that is not accepted.  Only an
\* uninstall that reported what it could not remove may leave less.
CompleteWorks == Complete /\ ~left => exe.v # 0 /\ "ca" \in files

\* An uninstall never brings old settings back over what the engineer wrote
\* since, whatever the backup holds.
UninstallStep ==
  \A p \in Process : run[p].verb = "uninstall" /\ run[p].pc = "entries" /\ run'[p] # run[p]
    => settings'.mine = settings.mine
UninstallKeepsEdits == [][UninstallStep]_vars

\* replace_atomically: "the old file stands until the replacement is complete".
ExecutableWhole == exe.open = {} /\ ~exe.torn

\* A refusal of join names the way out: uninstall; so an enrolled machine that
\* runs nothing can be uninstalled.
NeverStuck == "toml" \in files /\ (\A p \in Process : run[p] = Idle) /\ ~left => Complete
=============================================================================
