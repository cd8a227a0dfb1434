------------------------------ MODULE Release ------------------------------
(***************************************************************************)
(* A release on its way from the release host to the version directory:    *)
(* the fetch, the verification and what an install stages (deploy/         *)
(* release.rs, bundle.rs and the first half of deploy/native.rs).          *)
(*                                                                         *)
(* An edition is one signed build of a version.  The host serves a release *)
(* file by file, so a publisher who uploads an edition, or replaces one,   *)
(* can be met half-way; a file stands for the edition it belongs to.  The  *)
(* bytes are read once to verify them and again to stage them.             *)
(***************************************************************************)
EXTENDS Naturals, Sequences

CONSTANTS Job, Dir,
          Edition, Version,
          VersionOf,        \* the version an edition is a build of
          Key, NoKey,
          KeyOf, NextOf,    \* the key an edition is signed with, and the next one it names
          Malformed,        \* editions whose manifest breaks the layout of a release
          Absent, Torn,     \* a file that is not there, and one cut short
          MaxUpload, MaxJob \* bounds: files published, jobs started

ReleaseAssumption ==
  /\ VersionOf \in [Edition -> Version] /\ KeyOf \in [Edition -> Key]
  /\ {Absent, Torn} \cap Edition = {} /\ Absent \notin Dir

File == {"release.json", "release.json.minisig", "SHA256SUMS", "archive", "kit"}

\* fetch: the files in the order it asks for them.
Order == <<"release.json", "release.json.minisig", "SHA256SUMS", "archive", "kit">>

\* What a directory of a release can hold beside them: the next key's public
\* file and its signature, which fetch never asks for, and a foreign file.
Beside == {"overlap", "other"}
Empty  == [f \in File \cup Beside |-> Absent]
Idle   == [pc |-> "idle"]
Nothing == [archive |-> Absent, kit |-> Absent, under |-> NoKey, own |-> TRUE]

VARIABLES
  host,     \* the release host: per version, the edition each file is of
  dirs,     \* the operator's release directories
  active,   \* the active key: release.pub, or the embedded one
  job,      \* what each command is doing
  staged,   \* what the last install of each job put in the version directory
  uploads, jobs

vars == <<host, dirs, active, job, staged, uploads, jobs>>

Whole(e) == [f \in File |-> e]

Init ==
  /\ host \in {[v \in Version |-> [f \in File |-> Absent]]}
              \cup {[v \in Version |-> IF v = VersionOf[e] THEN Whole(e) ELSE [f \in File |-> Absent]]
                      : e \in Edition}
  /\ dirs = [d \in Dir |-> Empty] /\ active \in Key
  /\ job = [j \in Job |-> Idle] /\ staged = [j \in Job |-> Nothing]
  /\ uploads = 0 /\ jobs = 0

----------------------------------------------------------------------------
(* Verification, over the bytes read. *)

\* verify_release_signature: the key ids agree and the signature covers the
\* exact bytes.
SignedBy(e, signature, key) == e \in Edition /\ signature = e /\ KeyOf[e] = key

\* The signature file named by the key, else the release's.
Signed(files, key) == SignedBy(files["release.json"], files["release.json.minisig"], key)

\* parse, and the layout: canonical, one archive per target, one kit, three
\* bootstraps, each with the name of its version.
LaidOut(files) == files["release.json"] \notin Malformed

\* SHA256SUMS has the digest the manifest gives and names its artifacts.
SumsAgree(files) == files["SHA256SUMS"] = files["release.json"]

\* No file but the release's; the overlap's two are.
Listed(files) == files["other"] = Absent

\* Mutant: only the lengths and digests of the sums are compared, not the files.
MatchesNothing(files) == TRUE

\* Each artifact that is there has its length and digest; one that is not is
\* passed over.
Matches(files) == \A f \in {"archive", "kit"} : files[f] \in {Absent, files["release.json"]}

\* verify_manifest, with the signature before it.
Verified(files, key) ==
  Signed(files, key) /\ LaidOut(files) /\ SumsAgree(files) /\ Listed(files) /\ Matches(files)

\* verify_kit_zip: a kit carries a manifest of its own, its sums and members.
KitVerified(kit, key) == SignedBy(kit, kit, key)

\* next_key_check: the manifest names the key, whose own file verifies it.
NextChecked(files, next) ==
  /\ NextOf[files["release.json"]] = next /\ next # NoKey
  /\ files["overlap"] = files["release.json"]

----------------------------------------------------------------------------
(* The release host and the operator's directories (outside the program). *)

Publish(e, f) ==
  /\ uploads < MaxUpload /\ host[VersionOf[e]][f] # e
  /\ host' = [host EXCEPT ![VersionOf[e]][f] = e] /\ uploads' = uploads + 1
  /\ UNCHANGED <<dirs, active, job, staged, jobs>>

\* A copied release: whole, with an archive cut short, or with a file added.
Copy(d, e) ==
  /\ dirs[d] = Empty
  /\ \E f \in {"release.json", "archive", "other", "overlap"} :
       dirs' = [dirs EXCEPT ![d] = [g \in File \cup Beside |->
                  IF g = f THEN (IF f \in {"archive", "other"} THEN Torn ELSE e)
                  ELSE IF g \in File THEN e ELSE Absent]]
  /\ UNCHANGED <<host, active, job, staged, uploads, jobs>>

Clear(d) ==
  /\ dirs[d] # Empty /\ dirs' = [dirs EXCEPT ![d] = Empty]
  /\ UNCHANGED <<host, active, job, staged, uploads, jobs>>

----------------------------------------------------------------------------
(* Commands. *)

Begins(j, r) ==
  /\ job[j] = Idle /\ jobs < MaxJob /\ jobs' = jobs + 1
  /\ job' = [job EXCEPT ![j] = r]
  /\ UNCHANGED <<host, dirs, active, staged, uploads>>

Ends(j) == job' = [job EXCEPT ![j] = Idle]
At(j, pc) == job[j].pc = pc

\* `release fetch <version> --out d`: refused when d holds files.
Fetch(j, d, v) ==
  /\ dirs[d] = Empty
  /\ Begins(j, [pc |-> "download", source |-> "out", at |-> d, version |-> v, next |-> 1, files |-> Empty])

\* install or update of a published release, the newest or a named one: it is
\* fetched into a scratch directory of this process alone.
FetchForInstall(j, v) ==
  Begins(j, [pc |-> "download", source |-> "scratch", at |-> Absent, version |-> v, next |-> 1, files |-> Empty])

\* install of the release in d.
FromDirectory(j, d) ==
  Begins(j, [pc |-> "verify", source |-> "directory", at |-> d, version |-> Absent, next |-> 1, files |-> dirs[d]])

\* install of a clone's build: with the given kit, or the official one.
FromBuild(j, v) ==
  \/ \E kit \in Edition \cup {Torn} :
       Begins(j, [pc |-> "kit", source |-> "build", at |-> Absent, version |-> v, next |-> 1,
                  files |-> [Empty EXCEPT !["kit"] = kit]])
  \/ Begins(j, [pc |-> "fetch kit", source |-> "build", at |-> Absent, version |-> v, next |-> 1, files |-> Empty])

\* The next file, at the host or not, reached or not.  What was written to
\* the operator's directory stays there; the scratch goes with its job.
Download(j) ==
  /\ At(j, "download")
  /\ LET r == job[j]
         f == Order[r.next]
         found == host[r.version][f]
     IN \/ /\ found # Absent
           /\ job' = [job EXCEPT ![j].files[f] = found,
                                 ![j].next = r.next + 1,
                                 ![j].pc = IF r.next = Len(Order) THEN "verify" ELSE "download"]
           /\ dirs' = IF r.source = "out" THEN [dirs EXCEPT ![r.at][f] = found] ELSE dirs
        \/ Ends(j) /\ UNCHANGED dirs
  /\ UNCHANGED <<host, active, staged, uploads, jobs>>

\* fetch_client_kit.
DownloadKit(j) ==
  /\ At(j, "fetch kit")
  /\ LET found == host[job[j].version]["kit"] IN
       \/ found # Absent /\ job' = [job EXCEPT ![j].pc = "kit", ![j].files["kit"] = found]
       \/ Ends(j)
  /\ UNCHANGED <<host, dirs, active, staged, uploads, jobs>>

\* verify: of an operator's directory as it is by now, of a scratch as it was
\* fetched.  `release fetch` ends with the verdict.
Verify(j) ==
  /\ At(j, "verify")
  /\ LET r == job[j]
         files == IF r.at = Absent THEN r.files ELSE dirs[r.at]
     IN IF Verified(files, active) /\ r.source # "out"
          THEN job' = [job EXCEPT ![j].pc = "stage", ![j].next = active,
                                  ![j].version = VersionOf[files["release.json"]]]
          ELSE Ends(j)
  /\ UNCHANGED <<host, dirs, active, staged, uploads, jobs>>

VerifyKit(j) ==
  /\ At(j, "kit")
  /\ IF KitVerified(job[j].files["kit"], active)
       THEN job' = [job EXCEPT ![j].pc = "stage", ![j].next = active]
       ELSE Ends(j)
  /\ UNCHANGED <<host, dirs, active, staged, uploads, jobs>>

\* fill_staging reads the files again, after the gates and the questions of
\* the install: an operator's directory as it is by then.  Without its archive
\* nothing is staged, without a kit the release has none.
Stage(j) ==
  /\ At(j, "stage") /\ Ends(j)
  /\ LET r == job[j]
         files == IF r.at = Absent THEN r.files ELSE dirs[r.at]
         named(f) == files[f] # Absent /\ (files[f] \in Edition => VersionOf[files[f]] = r.version)
     IN IF r.source = "build" \/ (named("archive") /\ files["archive"] # Torn)
          THEN staged' = [staged EXCEPT ![j] =
                 [archive |-> IF r.source = "build" THEN Absent ELSE files["archive"],
                  kit |-> IF r.source = "build" \/ named("kit") THEN files["kit"] ELSE Absent,
                  under |-> r.next, own |-> r.at = Absent]]
          ELSE UNCHANGED staged
  /\ UNCHANGED <<host, dirs, active, uploads, jobs>>

\* A kill, or a gate of the install that refuses.
Stops(j) ==
  /\ job[j] # Idle /\ Ends(j) /\ UNCHANGED <<host, dirs, active, staged, uploads, jobs>>

\* `release verify d --key-id k`: the next key is admitted with the signature,
\* before the rest of the verification, and whatever that says.
AdmitKey(d, k) ==
  /\ Signed(dirs[d], active) /\ NextChecked(dirs[d], k) /\ active' = k
  /\ UNCHANGED <<host, dirs, job, staged, uploads, jobs>>

Next ==
  \/ \E e \in Edition, f \in File : Publish(e, f)
  \/ \E d \in Dir, e \in Edition : Copy(d, e)
  \/ \E d \in Dir : Clear(d)
  \/ \E j \in Job, d \in Dir, v \in Version : Fetch(j, d, v)
  \/ \E j \in Job, v \in Version : FetchForInstall(j, v) \/ FromBuild(j, v)
  \/ \E j \in Job, d \in Dir : FromDirectory(j, d)
  \/ \E j \in Job : Download(j) \/ DownloadKit(j) \/ Verify(j) \/ VerifyKit(j) \/ Stage(j) \/ Stops(j)
  \/ \E d \in Dir, k \in Key : AdmitKey(d, k)

Spec == Init /\ [][Next]_vars

----------------------------------------------------------------------------
(* Properties. *)

\* What an install stages from a scratch of its own is one edition, signed with
\* the key active when it was verified, however the publisher's uploads fell
\* between its downloads: a release half replaced is refused.  (A directory the
\* operator changes between the verification and the staging is not: see the
\* README.)
StagedIsOneEdition ==
  \A j \in Job : LET s == staged[j] IN s.own =>
    /\ \A part \in {s.archive, s.kit} \ {Absent} : part \in Edition /\ KeyOf[part] = s.under
    /\ s.archive # Absent => s.kit \in {Absent, s.archive}
=============================================================================
