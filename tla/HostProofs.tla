----------------------------- MODULE HostProofs -----------------------------
(* Theorems of what is on disks, the engineers' and the server host's, each  *)
(* component by itself and for every value of its constants: releases on     *)
(* their way, the Claude Desktop profile, an enrolled machine, the server on *)
(* its host, and a log that is followed.                                     *)
EXTENDS Hosts, Integers, FiniteSetTheorems, SequenceTheorems, TLAPS

---------------------------------------------------------------------------
(* Release: what an install stages. *)

Places == 1 .. 5
Bytes == Edition \cup {Absent, Torn}
DirType == [Releases!File \cup Releases!Beside -> Bytes]
Sources == {"out", "scratch", "directory", "build"}
AskingType ==
  [pc : {"download", "fetch kit"}, source : Sources, at : Dir \cup {Absent},
   version : Version, next : Places, files : DirType]
CheckingType ==
  [pc : {"verify", "kit"}, source : Sources, at : Dir \cup {Absent},
   version : Version \cup {Absent}, next : Nat, files : DirType]
StagingType ==
  [pc : {"stage"}, source : Sources, at : Dir \cup {Absent}, version : Version \cup {Absent},
   next : Key, files : DirType]
JobType == {Releases!Idle} \cup AskingType \cup CheckingType \cup StagingType

ReleaseTypes ==
  /\ host \in [Version -> [Releases!File -> Bytes]]
  /\ dirs \in [Dir -> DirType] /\ active \in Key
  /\ job \in [Job -> JobType]
  /\ staged \in [Job -> [archive : Bytes, kit : Bytes, under : Key \cup {NoKey}, own : BOOLEAN]]

\* Nothing is staged of a scratch that was not verified, nor of a build whose
\* kit was not; and a build fetches nothing but its kit.
Vetted ==
  \A j \in Job : LET r == job[j] IN
    /\ r.pc \in {"download", "verify"} => r.source # "build"
    /\ r.pc \in {"fetch kit", "kit"} => r.source = "build"
    /\ r.pc = "stage" /\ r.at = Absent =>
         IF r.source = "build" THEN Releases!KitVerified(r.files["kit"], r.next)
         ELSE Releases!Verified(r.files, r.next)

ReleaseInv == ReleaseTypes /\ Vetted /\ Releases!StagedIsOneEdition

\* No job has begun.
LEMMA ReleaseInit == ASSUME Releases!ReleaseAssumption PROVE Releases!Init => ReleaseInv
<1> SUFFICES ASSUME Releases!Init PROVE ReleaseInv
  OBVIOUS
<1>1. Releases!Empty \in DirType
  BY DEF Releases!Empty, DirType, Bytes
<1>2. host \in [Version -> [Releases!File -> Bytes]]
  BY DEF Releases!Init, Releases!Whole, Bytes
<1>3. ReleaseTypes
  BY <1>1, <1>2 DEF Releases!Init, ReleaseTypes, Releases!Nothing, Bytes, JobType
<1>4. Vetted
  BY DEF Releases!Init, Vetted, Releases!Idle
<1>5. Releases!StagedIsOneEdition
  BY DEF Releases!Init, Releases!StagedIsOneEdition, Releases!Nothing
<1> QED
  BY <1>3, <1>4, <1>5 DEF ReleaseInv

\* Files it asks for.
LEMMA Asked == \A n \in Places : Releases!Order[n] \in Releases!File
BY DEF Places, Releases!Order, Releases!File

\* It asks for five.
LEMMA OrderLen == Len(Releases!Order) = 5
BY DEF Releases!Order

\* Where a job is tells what it keeps.
LEMMA JobKeeps ==
  ASSUME NEW r \in JobType
  PROVE  /\ r.pc \in {"download", "fetch kit"} => r \in AskingType
         /\ r.pc \in {"verify", "kit"} => r \in CheckingType
         /\ r.pc = "stage" => r \in StagingType
<1>1. ASSUME r = Releases!Idle PROVE r.pc = "idle"
  BY <1>1 DEF Releases!Idle
<1>2. ASSUME r \in AskingType PROVE r.pc \in {"download", "fetch kit"}
  BY <1>2 DEF AskingType
<1>3. ASSUME r \in CheckingType PROVE r.pc \in {"verify", "kit"}
  BY <1>3 DEF CheckingType
<1>4. ASSUME r \in StagingType PROVE r.pc = "stage"
  BY <1>4 DEF StagingType
<1> QED
  BY <1>1, <1>2, <1>3, <1>4 DEF JobType

\* The parts of the invariant about one job.
LEMMA JobOf ==
  ASSUME ReleaseInv, NEW j \in Job
  PROVE  /\ job[j] \in JobType
         /\ job[j].pc \in {"download", "verify"} => job[j].source # "build"
         /\ job[j].pc \in {"fetch kit", "kit"} => job[j].source = "build"
BY DEF ReleaseInv, ReleaseTypes, Vetted

\* What changes no job and stages nothing.
LEMMA HostSteps ==
  ASSUME Releases!ReleaseAssumption, ReleaseInv, UNCHANGED <<job, staged>>,
         host' \in [Version -> [Releases!File -> Bytes]], dirs' \in [Dir -> DirType], active' \in Key
  PROVE  ReleaseInv'
BY DEF ReleaseInv, ReleaseTypes, Vetted, Releases!StagedIsOneEdition, Releases!KitVerified,
   Releases!Verified, Releases!Signed, Releases!SignedBy, Releases!LaidOut, Releases!SumsAgree,
   Releases!Listed, Releases!Matches

\* A job takes a step to r, and nothing is staged.
LEMMA JobSteps ==
  ASSUME Releases!ReleaseAssumption, ReleaseInv, UNCHANGED <<host, active, staged>>,
         dirs' \in [Dir -> DirType], NEW j \in Job, NEW r,
         r \in JobType,
         job' = [job EXCEPT ![j] = r],
         r.pc \in {"download", "verify"} => r.source # "build",
         r.pc \in {"fetch kit", "kit"} => r.source = "build",
         r.pc = "stage" /\ r.at = Absent =>
           IF r.source = "build" THEN Releases!KitVerified(r.files["kit"], r.next)
           ELSE Releases!Verified(r.files, r.next)
  PROVE  ReleaseInv'
<1>1. ReleaseTypes'
  BY DEF ReleaseInv, ReleaseTypes
<1>2. \A k \in Job : job'[k] = IF k = j THEN r ELSE job[k]
  BY DEF ReleaseInv, ReleaseTypes
<1>3. Vetted'
  <2> SUFFICES ASSUME NEW k \in Job
               PROVE  LET q == job'[k] IN
                 /\ q.pc \in {"download", "verify"} => q.source # "build"
                 /\ q.pc \in {"fetch kit", "kit"} => q.source = "build"
                 /\ q.pc = "stage" /\ q.at = Absent =>
                      IF q.source = "build" THEN Releases!KitVerified(q.files["kit"], q.next)
                      ELSE Releases!Verified(q.files, q.next)
    BY DEF Vetted, Releases!KitVerified, Releases!Verified, Releases!Signed, Releases!SignedBy,
       Releases!LaidOut, Releases!SumsAgree, Releases!Listed, Releases!Matches
  <2>1. CASE k = j
    BY <1>2, <2>1
  <2>2. CASE k # j
    BY <1>2, <2>2 DEF ReleaseInv, Vetted
  <2> QED
    BY <2>1, <2>2
<1>4. Releases!StagedIsOneEdition'
  BY DEF ReleaseInv, Releases!StagedIsOneEdition
<1> QED
  BY <1>1, <1>3, <1>4 DEF ReleaseInv

\* The next file: it is of the edition the host has by now.
LEMMA DownloadSteps ==
  ASSUME Releases!ReleaseAssumption, ReleaseInv, NEW j \in Job, Releases!Download(j)
  PROVE  ReleaseInv'
<1> DEFINE r == job[j]
           f == Releases!Order[r.next]
           found == host[r.version][f]
<1>1. r \in AskingType /\ r.pc = "download" /\ r.source # "build"
  BY JobOf, JobKeeps DEF Releases!Download, Releases!At
<1>2. f \in Releases!File /\ f \in Releases!File \cup Releases!Beside /\ found \in Bytes
  <2>1. r.next \in Places /\ r.version \in Version
    BY <1>1 DEF AskingType
  <2> QED
    BY <2>1, Asked DEF ReleaseInv, ReleaseTypes
<1>3. CASE Releases!Ends(j) /\ UNCHANGED dirs
  BY <1>3, JobSteps DEF Releases!Download, Releases!Ends, Releases!Idle, ReleaseInv, ReleaseTypes, JobType
<1>4. CASE /\ found # Absent
           /\ job' = [job EXCEPT ![j].files[f] = found,
                                 ![j].next = r.next + 1,
                                 ![j].pc = IF r.next = Len(Releases!Order) THEN "verify" ELSE "download"]
           /\ dirs' = IF r.source = "out" THEN [dirs EXCEPT ![r.at][f] = found] ELSE dirs
  <2> DEFINE x == [r.files EXCEPT ![f] = found]
             q == [r EXCEPT !.files = x, !.next = r.next + 1, !.pc = IF r.next = 5 THEN "verify" ELSE "download"]
  <2>1. x \in DirType
    BY <1>1, <1>2 DEF AskingType, DirType
  <2>2. q \in AskingType \cup CheckingType /\ q.pc \in {"download", "verify"} /\ q.source # "build"
    <3> HIDE DEF x
    <3>1. r.next \in Places /\ Places \subseteq Nat
      <4>1. r.next \in Places
        BY <1>1 DEF AskingType
      <4> QED
        BY <4>1 DEF Places
    <3>2. CASE r.next = 5
      <4>1. q = [r EXCEPT !.files = x, !.next = 6, !.pc = "verify"]
        BY <3>2
      <4> HIDE DEF q
      <4> QED
        BY <1>1, <2>1, <3>1, <4>1 DEF AskingType, CheckingType
    <3>3. CASE r.next # 5
      <4>1. r.next + 1 \in Places
        BY <3>1, <3>3 DEF Places
      <4>2. q = [r EXCEPT !.files = x, !.next = r.next + 1, !.pc = "download"]
        BY <3>3
      <4> HIDE DEF q
      <4> QED
        BY <1>1, <2>1, <4>1, <4>2 DEF AskingType
    <3> QED
      BY <3>2, <3>3
  <2>3. job' = [job EXCEPT ![j] = q]
    BY <1>4, OrderLen DEF ReleaseInv, ReleaseTypes
  <2>4. dirs' \in [Dir -> DirType]
    BY <1>1, <1>2, <1>4 DEF ReleaseInv, ReleaseTypes, DirType
  <2>5. UNCHANGED <<host, active, staged>>
    BY DEF Releases!Download
  <2> HIDE DEF q
  <2> QED
    BY <2>2, <2>3, <2>4, <2>5, JobSteps DEF JobType
<1> QED
  BY <1>3, <1>4 DEF Releases!Download

\* A command begins.
LEMMA BeginSteps ==
  ASSUME Releases!ReleaseAssumption, ReleaseInv, NEW j \in Job,
         \/ \E d \in Dir, v \in Version : Releases!Fetch(j, d, v)
         \/ \E v \in Version : Releases!FetchForInstall(j, v) \/ Releases!FromBuild(j, v)
         \/ \E d \in Dir : Releases!FromDirectory(j, d)
  PROVE  ReleaseInv'
<1>1. Releases!Empty \in DirType /\ \A b \in Bytes : [Releases!Empty EXCEPT !["kit"] = b] \in DirType
  BY DEF Releases!Empty, DirType, Bytes
<1> DEFINE Begun(r) == /\ Releases!Begins(j, r) /\ r \in AskingType \cup CheckingType
                       /\ r.pc # "stage" /\ (r.pc \in {"download", "verify"} => r.source # "build")
                       /\ (r.pc \in {"fetch kit", "kit"} => r.source = "build")
<1>2. PICK r : Begun(r)
  <2> DEFINE Asks(pc, source, at, v, found) ==
        [pc |-> pc, source |-> source, at |-> at, version |-> v, next |-> 1, files |-> found]
  <2>1. ASSUME NEW source \in Sources \ {"build"}, NEW at \in Dir \cup {Absent}, NEW v \in Version,
               Releases!Begins(j, Asks("download", source, at, v, Releases!Empty))
        PROVE  \E r : Begun(r)
    <3>1. Asks("download", source, at, v, Releases!Empty) \in AskingType
      BY <1>1 DEF AskingType, Places
    <3>2. Begun(Asks("download", source, at, v, Releases!Empty))
      BY <2>1, <3>1
    <3> QED
      BY <3>2
  <2>2. ASSUME NEW v \in Version, Releases!FromBuild(j, v)
        PROVE  \E r : Begun(r)
    <3>1. ASSUME NEW offered \in Edition \cup {Torn},
                 Releases!Begins(j, Asks("kit", "build", Absent, v, [Releases!Empty EXCEPT !["kit"] = offered]))
          PROVE  \E r : Begun(r)
      <4>1. Asks("kit", "build", Absent, v, [Releases!Empty EXCEPT !["kit"] = offered]) \in CheckingType
        BY <1>1 DEF CheckingType, Sources, Bytes
      <4>2. Begun(Asks("kit", "build", Absent, v, [Releases!Empty EXCEPT !["kit"] = offered]))
        BY <3>1, <4>1
      <4> QED
        BY <4>2
    <3>2. ASSUME Releases!Begins(j, Asks("fetch kit", "build", Absent, v, Releases!Empty))
          PROVE  \E r : Begun(r)
      <4>1. Asks("fetch kit", "build", Absent, v, Releases!Empty) \in AskingType
        BY <1>1 DEF AskingType, Sources, Places
      <4>2. Begun(Asks("fetch kit", "build", Absent, v, Releases!Empty))
        BY <3>2, <4>1
      <4> QED
        BY <4>2
    <3> QED
      BY <2>2, <3>1, <3>2 DEF Releases!FromBuild
  <2>3. ASSUME NEW d \in Dir, Releases!FromDirectory(j, d)
        PROVE  \E r : Begun(r)
    <3>1. Asks("verify", "directory", d, Absent, dirs[d]) \in CheckingType
      BY DEF CheckingType, Sources, ReleaseInv, ReleaseTypes
    <3>2. Begun(Asks("verify", "directory", d, Absent, dirs[d]))
      BY <2>3, <3>1 DEF Releases!FromDirectory
    <3> QED
      BY <3>2
  <2>4. {"out", "scratch"} \subseteq Sources \ {"build"}
    BY DEF Sources
  <2> QED
    BY <2>1, <2>2, <2>3, <2>4 DEF Releases!Fetch, Releases!FetchForInstall
<1> QED
  BY <1>2, JobSteps DEF Releases!Begins, ReleaseInv, ReleaseTypes, JobType

\* The verdicts, and the end of a command.
LEMMA CheckSteps ==
  ASSUME Releases!ReleaseAssumption, ReleaseInv, NEW j \in Job,
         \/ Releases!DownloadKit(j) \/ Releases!Verify(j)
         \/ Releases!VerifyKit(j) \/ Releases!Stops(j)
  PROVE  ReleaseInv'
<1> DEFINE r == job[j]
           found == IF r.at = Absent THEN r.files ELSE dirs[r.at]
<1>1. job \in [Job -> JobType] /\ dirs \in [Dir -> DirType] /\ active \in Key
  BY DEF ReleaseInv, ReleaseTypes
<1>2. UNCHANGED <<host, dirs, active, staged>>
  BY DEF Releases!DownloadKit, Releases!Verify, Releases!VerifyKit, Releases!Stops
<1>3. CASE Releases!Ends(j)
  BY <1>1, <1>2, <1>3, JobSteps DEF Releases!Ends, Releases!Idle, JobType
<1>4. CASE Releases!DownloadKit(j) /\ ~Releases!Ends(j)
  <2> DEFINE q == [r EXCEPT !.pc = "kit", !.files = [@ EXCEPT !["kit"] = host[r.version]["kit"]]]
  <2>1. r \in AskingType /\ r.source = "build"
    BY <1>1, <1>4, JobOf, JobKeeps DEF Releases!DownloadKit, Releases!At
  <2>2. host[r.version]["kit"] \in Bytes
    <3>1. r.version \in Version
      BY <2>1 DEF AskingType
    <3> QED
      BY <3>1 DEF ReleaseInv, ReleaseTypes, Releases!File
  <2>3. [r.files EXCEPT !["kit"] = host[r.version]["kit"]] \in DirType
    BY <2>1, <2>2 DEF AskingType, DirType
  <2>4. q \in CheckingType /\ q.pc = "kit" /\ q.source = "build"
    <3> DEFINE x == [r.files EXCEPT !["kit"] = host[r.version]["kit"]]
    <3>1. x \in DirType
      BY <2>3
    <3>2. Places \subseteq Nat
      BY DEF Places
    <3>3. q = [r EXCEPT !.pc = "kit", !.files = x]
      OBVIOUS
    <3> HIDE DEF x, q
    <3> QED
      BY <2>1, <3>1, <3>2, <3>3 DEF AskingType, CheckingType
  <2>5. job' = [job EXCEPT ![j] = q]
    BY <1>1, <1>4, <2>1 DEF Releases!DownloadKit, AskingType
  <2> HIDE DEF q
  <2> QED
    BY <1>1, <1>2, <2>4, <2>5, JobSteps DEF JobType
<1>5. CASE Releases!Verify(j) /\ ~Releases!Ends(j)
  <2> DEFINE q == [r EXCEPT !.pc = "stage", !.next = active, !.version = VersionOf[found["release.json"]]]
  <2>1. r \in CheckingType /\ r.source # "build" /\ Releases!Verified(found, active)
    BY <1>1, <1>5, JobOf, JobKeeps DEF Releases!Verify, Releases!At
  <2>2. found["release.json"] \in Edition
    BY <2>1 DEF Releases!Verified, Releases!Signed, Releases!SignedBy
  <2>3. q \in StagingType /\ q.pc = "stage" /\ q.source # "build" /\ q.next = active
        /\ q.at = r.at /\ q.files = r.files
    BY <1>1, <2>1, <2>2 DEF CheckingType, StagingType, Releases!ReleaseAssumption
  <2>4. job' = [job EXCEPT ![j] = q]
    BY <1>1, <1>5, <2>1 DEF Releases!Verify, CheckingType
  <2>5. q.at = Absent => Releases!Verified(q.files, q.next)
    BY <2>1, <2>3
  <2> HIDE DEF q
  <2> QED
    BY <1>1, <1>2, <2>3, <2>4, <2>5, JobSteps DEF JobType
<1>6. CASE Releases!VerifyKit(j) /\ ~Releases!Ends(j)
  <2> DEFINE q == [r EXCEPT !.pc = "stage", !.next = active]
  <2>1. r \in CheckingType /\ r.source = "build" /\ Releases!KitVerified(r.files["kit"], active)
    BY <1>1, <1>6, JobOf, JobKeeps DEF Releases!VerifyKit, Releases!At
  <2>2. q \in StagingType /\ q.pc = "stage" /\ q.source = "build" /\ q.next = active /\ q.files = r.files
    BY <1>1, <2>1 DEF CheckingType, StagingType
  <2>3. job' = [job EXCEPT ![j] = q]
    BY <1>1, <1>6, <2>1 DEF Releases!VerifyKit, CheckingType
  <2> HIDE DEF q
  <2> QED
    BY <1>1, <1>2, <2>1, <2>2, <2>3, JobSteps DEF JobType
<1> QED
  BY <1>3, <1>4, <1>5, <1>6 DEF Releases!Stops

\* What is staged of a scratch or a build was verified as it is.
LEMMA StageSteps ==
  ASSUME Releases!ReleaseAssumption, ReleaseInv, NEW j \in Job, Releases!Stage(j)
  PROVE  ReleaseInv'
<1> DEFINE r == job[j]
           found == IF r.at = Absent THEN r.files ELSE dirs[r.at]
           named(f) == found[f] # Absent /\ (found[f] \in Edition => VersionOf[found[f]] = r.version)
           s == [archive |-> IF r.source = "build" THEN Absent ELSE found["archive"],
                 kit |-> IF r.source = "build" \/ named("kit") THEN found["kit"] ELSE Absent,
                 under |-> r.next, own |-> r.at = Absent]
<1>1. job \in [Job -> JobType] /\ dirs \in [Dir -> DirType]
      /\ staged \in [Job -> [archive : Bytes, kit : Bytes, under : Key \cup {NoKey}, own : BOOLEAN]]
  BY DEF ReleaseInv, ReleaseTypes
<1>2. job' = [job EXCEPT ![j] = Releases!Idle] /\ UNCHANGED <<host, dirs, active>>
  BY DEF Releases!Stage, Releases!Ends
<1>3. CASE UNCHANGED staged
  BY <1>1, <1>2, <1>3, JobSteps DEF Releases!Idle, JobType
<1>4. CASE staged' = [staged EXCEPT ![j] = s] /\ (r.source = "build" \/ named("archive"))
  <2>1. r \in StagingType /\ r.pc = "stage"
    BY JobOf, JobKeeps DEF Releases!Stage, Releases!At
  <2>2. found \in DirType
    BY <1>1, <2>1 DEF StagingType
  <2>3. found["archive"] \in Bytes /\ found["kit"] \in Bytes
    BY <2>2 DEF DirType, Releases!File
  <2>4. s \in [archive : Bytes, kit : Bytes, under : Key \cup {NoKey}, own : BOOLEAN]
    BY <2>1, <2>3 DEF StagingType, Bytes
  <2>5. ReleaseTypes'
    BY <1>1, <1>2, <1>4, <2>4 DEF ReleaseInv, ReleaseTypes, JobType
  <2>6. Vetted'
    <3> SUFFICES ASSUME NEW k \in Job
                 PROVE  LET q == job'[k] IN
                   /\ q.pc \in {"download", "verify"} => q.source # "build"
                   /\ q.pc \in {"fetch kit", "kit"} => q.source = "build"
                   /\ q.pc = "stage" /\ q.at = Absent =>
                        IF q.source = "build" THEN Releases!KitVerified(q.files["kit"], q.next)
                        ELSE Releases!Verified(q.files, q.next)
      BY DEF Vetted, Releases!KitVerified, Releases!Verified, Releases!Signed, Releases!SignedBy,
         Releases!LaidOut, Releases!SumsAgree, Releases!Listed, Releases!Matches
    <3> QED
      BY <1>1, <1>2 DEF Releases!Idle, ReleaseInv, Vetted
  <2>7. s.own => /\ \A piece \in {s.archive, s.kit} \ {Absent} : piece \in Edition /\ KeyOf[piece] = s.under
                 /\ s.archive # Absent => s.kit \in {Absent, s.archive}
    <3> SUFFICES ASSUME r.at = Absent
                 PROVE  /\ \A piece \in {s.archive, s.kit} \ {Absent} : piece \in Edition /\ KeyOf[piece] = s.under
                        /\ s.archive # Absent => s.kit \in {Absent, s.archive}
      OBVIOUS
    <3>1. CASE r.source = "build"
      <4>1. Releases!KitVerified(r.files["kit"], r.next)
        BY <2>1, <3>1 DEF ReleaseInv, Vetted
      <4> QED
        BY <3>1, <4>1 DEF Releases!KitVerified, Releases!SignedBy
    <3>2. CASE r.source # "build"
      <4>1. Releases!Verified(r.files, r.next)
        BY <2>1, <3>2 DEF ReleaseInv, Vetted
      <4>2. /\ r.files["release.json"] \in Edition /\ KeyOf[r.files["release.json"]] = r.next
            /\ r.files["archive"] \in {Absent, r.files["release.json"]}
            /\ r.files["kit"] \in {Absent, r.files["release.json"]}
        BY <4>1 DEF Releases!Verified, Releases!Signed, Releases!SignedBy, Releases!Matches
      <4> QED
        BY <1>4, <3>2, <4>2
    <3> QED
      BY <3>1, <3>2
  <2>8. Releases!StagedIsOneEdition'
    <3> HIDE DEF s
    <3> SUFFICES ASSUME NEW k \in Job, staged'[k].own
                 PROVE  /\ \A piece \in {staged'[k].archive, staged'[k].kit} \ {Absent} :
                             piece \in Edition /\ KeyOf[piece] = staged'[k].under
                        /\ staged'[k].archive # Absent => staged'[k].kit \in {Absent, staged'[k].archive}
      BY DEF Releases!StagedIsOneEdition
    <3>1. CASE k = j
      BY <1>1, <1>4, <2>7, <3>1
    <3>2. CASE k # j
      BY <1>1, <1>4, <3>2 DEF ReleaseInv, Releases!StagedIsOneEdition
    <3> QED
      BY <3>1, <3>2
  <2> QED
    BY <2>5, <2>6, <2>8 DEF ReleaseInv
<1> QED
  BY <1>3, <1>4 DEF Releases!Stage

\* Uploads, the operator's directories, and the admission of a key.
LEMMA OutsideSteps ==
  ASSUME Releases!ReleaseAssumption, ReleaseInv,
         \/ \E e \in Edition, f \in Releases!File : Releases!Publish(e, f)
         \/ \E d \in Dir, e \in Edition : Releases!Copy(d, e)
         \/ \E d \in Dir : Releases!Clear(d)
         \/ \E d \in Dir, k \in Key : Releases!AdmitKey(d, k)
  PROVE  ReleaseInv'
<1>1. host \in [Version -> [Releases!File -> Bytes]] /\ dirs \in [Dir -> DirType] /\ active \in Key
  BY DEF ReleaseInv, ReleaseTypes
<1>2. ASSUME NEW e \in Edition, NEW f \in Releases!File, Releases!Publish(e, f)
      PROVE  ReleaseInv'
  <2>1. VersionOf[e] \in Version /\ e \in Bytes
    BY DEF Releases!ReleaseAssumption, Bytes
  <2>2. host' \in [Version -> [Releases!File -> Bytes]]
    BY <1>1, <1>2, <2>1 DEF Releases!Publish
  <2> QED
    BY <1>1, <1>2, <2>2, HostSteps DEF Releases!Publish
<1>3. ASSUME NEW d \in Dir, NEW e \in Edition, Releases!Copy(d, e)
      PROVE  ReleaseInv'
  <2>1. PICK f \in {"release.json", "archive", "other", "overlap"} :
          dirs' = [dirs EXCEPT ![d] = [g \in Releases!File \cup Releases!Beside |->
                     IF g = f THEN (IF f \in {"archive", "other"} THEN Torn ELSE e)
                     ELSE IF g \in Releases!File THEN e ELSE Absent]]
    BY <1>3 DEF Releases!Copy
  <2>2. dirs' \in [Dir -> DirType]
    BY <1>1, <2>1 DEF DirType, Bytes
  <2> QED
    BY <1>1, <1>3, <2>2, HostSteps DEF Releases!Copy
<1>4. ASSUME NEW d \in Dir, Releases!Clear(d)
      PROVE  ReleaseInv'
  <2>1. Releases!Empty \in DirType
    BY DEF Releases!Empty, DirType, Bytes
  <2> QED
    BY <1>1, <1>4, <2>1, HostSteps DEF Releases!Clear
<1>5. ASSUME NEW d \in Dir, NEW k \in Key, Releases!AdmitKey(d, k)
      PROVE  ReleaseInv'
  BY <1>1, <1>5, HostSteps DEF Releases!AdmitKey
<1> QED
  BY <1>2, <1>3, <1>4, <1>5

\* Every step of a job, a publisher or an operator keeps the invariant.
LEMMA ReleaseSteps ==
  ASSUME Releases!ReleaseAssumption
  PROVE  ReleaseInv /\ [Releases!Next]_Releases!vars => ReleaseInv'
<1> SUFFICES ASSUME ReleaseInv, [Releases!Next]_Releases!vars PROVE ReleaseInv'
  OBVIOUS
<1>1. CASE UNCHANGED Releases!vars
  BY <1>1, HostSteps DEF Releases!vars, ReleaseInv, ReleaseTypes
<1>2. CASE Releases!Next
  BY <1>2, DownloadSteps, BeginSteps, CheckSteps, StageSteps, OutsideSteps DEF Releases!Next
<1> QED
  BY <1>1, <1>2

\* The inductive invariant of the releases: what is about to be staged of a
\* scratch or a build was verified, byte for byte what is staged, with the key
\* it will be recorded under.
THEOREM ReleasesCoherent ==
  ASSUME Releases!ReleaseAssumption
  PROVE  Releases!Spec => []ReleaseInv
BY ReleaseInit, ReleaseSteps, PTL DEF Releases!Spec

\* A behaviour of the releases is one of Release.
LEMMA ReleasePart ==
  /\ HostsSpec /\ part = "release" => Releases!Spec
  /\ HostsSpec /\ ~(part = "release") => []~(part = "release")
<1>1. HostsInit /\ part = "release" => Releases!Init
  BY DEF HostsInit
<1>2. part = "release" /\ [HostsNext]_hostsVars => (part = "release")' /\ [Releases!Next]_(Releases!vars)
  BY DEF HostsNext, hostsVars, releaseVars, Releases!vars
<1>3. ~(part = "release") /\ [HostsNext]_hostsVars => ~(part = "release")'
  BY DEF HostsNext, hostsVars
<1> QED
  BY <1>1, <1>2, <1>3, PTL DEF HostsSpec, Releases!Spec

\* StagedIsOneEdition, for any editions, keys, versions and jobs: however the
\* publisher's uploads fall between the downloads of an install, what it stages
\* from a scratch of its own is of one edition that the active key signed.
THEOREM StagedIsWhole == ASSUME Releases!ReleaseAssumption PROVE HostsSpec => []StagedIsOneEdition
<1>1. ReleaseInv => StagedIsOneEdition
  BY DEF ReleaseInv, StagedIsOneEdition
<1>2. ~(part = "release") => StagedIsOneEdition
  BY DEF StagedIsOneEdition
<1> QED
  BY ReleasePart, ReleasesCoherent, <1>1, <1>2, PTL

---------------------------------------------------------------------------
(* Desktop: what a restore gives back. *)

RecordType == [id : 1 .. MaxId, mode : Mode, applied : Entry]
RunType == [verb : {"run"}, pc : {"record", "gateway", "meta", "config", "serve"}, installed : BOOLEAN]
RestoreType ==
  [verb : {"restore"}, pc : {"gateway", "config", "meta", "record"},
   mode : Mode \cup {"3p"}, applied : Entry \cup (1 .. MaxId), entry : Nat]

DesktopTypes ==
  /\ ids \in 0 .. MaxId /\ running \in BOOLEAN
  /\ user \in [mode : Mode, applied : Entry]
  /\ record = Profile!NoRecord \/ record \in RecordType
  /\ cmd = Profile!NoCommand \/ cmd \in RunType \/ cmd \in RestoreType
  /\ mode \in Mode \cup {"3p"} /\ applied \in Entry \cup (1 .. MaxId) /\ entry \in Nat

\* A field that is not as the person chose it is as a setup wrote it, and the
\* record has the person's choice.
Recorded ==
  /\ mode # user.mode =>
       record # Profile!NoRecord /\ mode = "3p" /\ record.mode = user.mode
  /\ applied # user.applied =>
       record # Profile!NoRecord /\ applied = record.id /\ record.applied = user.applied

\* A command that writes the fields found the app closed, so they are as it
\* read them; once a restore has written a field it is the person's again.
Undisturbed ==
  /\ cmd.verb = "run" =>
       /\ cmd.pc = "record" => record # Profile!NoRecord \/ ids < MaxId
       /\ cmd.pc = "record" /\ ~cmd.installed => ~running
       /\ cmd.pc # "record" => record # Profile!NoRecord
       /\ cmd.pc \in {"gateway", "meta", "config"} => ~running
       /\ cmd.pc \in {"meta", "config"} => mode \in {record.mode, "3p"}
       /\ cmd.pc = "meta" => applied \in {record.applied, record.id}
  /\ cmd.verb = "restore" =>
       /\ record # Profile!NoRecord /\ ~running
       /\ cmd.pc \in {"gateway", "config"} => cmd.mode = mode
       /\ cmd.pc \in {"gateway", "config", "meta"} => cmd.applied = applied
       /\ cmd.pc \in {"meta", "record"} => mode = user.mode
       /\ cmd.pc = "record" => applied = user.applied

DesktopInv == DesktopTypes /\ Recorded /\ Undisturbed

\* No integration is set up.
LEMMA DesktopInit == ASSUME Profile!DesktopAssumption PROVE Profile!Init => DesktopInv
BY DEF Profile!DesktopAssumption, Profile!Init, DesktopInv, DesktopTypes, Recorded, Undisturbed, Profile!NoCommand,
   Profile!NoId

\* Every step of a command, of the app and of the person keeps the invariant.
LEMMA DesktopSteps ==
  ASSUME Profile!DesktopAssumption
  PROVE  DesktopInv /\ [Profile!Next]_Profile!vars => DesktopInv'
<1> SUFFICES ASSUME DesktopInv, [Profile!Next]_Profile!vars PROVE DesktopInv'
  OBVIOUS
<1> USE DEF Profile!DesktopAssumption, DesktopInv, DesktopTypes, Recorded, Undisturbed, Profile!At, Profile!Go,
        Profile!Ends, Profile!NoCommand, Profile!NoRecord, Profile!NoId, Profile!profile
<1>1. CASE UNCHANGED Profile!vars
  BY <1>1 DEF Profile!vars
<1>2. CASE Profile!Run
  BY <1>2 DEF Profile!Run, Profile!Installed, RunType, RestoreType, RecordType
<1>3. CASE Profile!SaveRecord
  BY <1>3 DEF Profile!SaveRecord, RunType, RestoreType, RecordType
<1>4. CASE Profile!InstallRefused
  BY <1>4 DEF Profile!InstallRefused
<1>5. CASE Profile!InstallGateway
  BY <1>5 DEF Profile!InstallGateway, Profile!MayInstall, RunType, RestoreType, RecordType
<1>6. CASE Profile!InstallMeta
  BY <1>6 DEF Profile!InstallMeta, RunType, RestoreType, RecordType
<1>7. CASE Profile!InstallConfig
  BY <1>7 DEF Profile!InstallConfig, RunType, RestoreType, RecordType
<1>8. CASE Profile!ServeOpens
  BY <1>8 DEF Profile!ServeOpens
<1>9. CASE Profile!ServeEnds
  BY <1>9 DEF Profile!ServeEnds
<1>10. CASE Profile!Restore
  BY <1>10 DEF Profile!Restore, RestoreType
<1>11. CASE Profile!RestoreGateway
  BY <1>11 DEF Profile!RestoreGateway, RunType, RestoreType
<1>12. CASE Profile!RestoreConfig
  BY <1>12 DEF Profile!RestoreConfig, Profile!RestoreField, RunType, RestoreType, RecordType
<1>13. CASE Profile!RestoreMeta
  BY <1>13 DEF Profile!RestoreMeta, Profile!RestoreField, RunType, RestoreType, RecordType
<1>14. CASE Profile!RemoveRecord
  BY <1>14 DEF Profile!RemoveRecord
<1>15. CASE Profile!Stop
  BY <1>15 DEF Profile!Stop
<1>16. CASE Profile!AppStarts
  BY <1>16 DEF Profile!AppStarts
<1>17. CASE Profile!AppQuits
  BY <1>17 DEF Profile!AppQuits
<1>18. CASE Profile!EditGateway
  BY <1>18 DEF Profile!EditGateway
<1>19. CASE Profile!Enrol
  BY <1>19 DEF Profile!Enrol
<1>20. ASSUME NEW v \in Mode, Profile!PickMode(v) PROVE DesktopInv'
  BY <1>20 DEF Profile!PickMode, Profile!Pick, RunType, RestoreType, RecordType
<1>21. ASSUME NEW v \in Entry, Profile!PickEntry(v) PROVE DesktopInv'
  BY <1>21 DEF Profile!PickEntry, Profile!Pick, RunType, RestoreType, RecordType
<1> QED
  BY <1>1, <1>2, <1>3, <1>4, <1>5, <1>6, <1>7, <1>8, <1>9, <1>10, <1>11, <1>12, <1>13, <1>14,
     <1>15, <1>16, <1>17, <1>18, <1>19, <1>20, <1>21 DEF Profile!Next

\* The inductive invariant of the Desktop profile: through setups, restores,
\* failed writes and kills, a field the person did not choose has the person's
\* choice in the record, until it is written back.
THEOREM ProfileCoherent ==
  ASSUME Profile!DesktopAssumption
  PROVE  Profile!Spec => []DesktopInv
BY DesktopInit, DesktopSteps, PTL DEF Profile!Spec

\* A behaviour of the app is one of Desktop.
LEMMA DesktopPart ==
  /\ HostsSpec /\ part = "desktop" => Profile!Spec
  /\ HostsSpec /\ ~(part = "desktop") => []~(part = "desktop")
<1>1. HostsInit /\ part = "desktop" => Profile!Init
  BY DEF HostsInit
<1>2. part = "desktop" /\ [HostsNext]_hostsVars => (part = "desktop")' /\ [Profile!Next]_(Profile!vars)
  BY DEF HostsNext, hostsVars, profileVars, Profile!vars, Profile!profile
<1>3. ~(part = "desktop") /\ [HostsNext]_hostsVars => ~(part = "desktop")'
  BY DEF HostsNext, hostsVars
<1> QED
  BY <1>1, <1>2, <1>3, PTL DEF HostsSpec, Profile!Spec

\* ChoiceReturns, for any modes, entries and integrations: without a record the
\* two fields are what the person last chose.
THEOREM ChoicesReturn == ASSUME Profile!DesktopAssumption PROVE HostsSpec => []ChoiceReturns
<1>1. DesktopInv => ChoiceReturns
  BY DEF DesktopInv, Recorded, ChoiceReturns, Profile!ChoiceReturns
<1>2. ~(part = "desktop") => ChoiceReturns
  BY DEF ChoiceReturns
<1> QED
  BY DesktopPart, ProfileCoherent, <1>1, <1>2, PTL

---------------------------------------------------------------------------
(* Machine: what an installation that the commands accept has. *)

FileNames == {"dir", "toml", "ca", "key", "link"}
ExeType == [v : Nat, open : SUBSET Process, torn : BOOLEAN]
SettingsType == [form : {"absent", "ok", "bad"}, ours : BOOLEAN, mine : Nat]
PlanType == [new : SettingsType, backup : SettingsType]
Removals == 1 .. 5
JoinType ==
  [verb : {"join"}, code : Nat, secret : Nat, v : Nat, plan : PlanType,
   pc : {"claim", "kit", "open", "close", "rename", "toml", "ca", "secret", "key", "backup", "settings", "check"}]
UpdateType ==
  [verb : {"update"}, v : Nat, before : Nat, old : SettingsType, plan : PlanType,
   pc : {"open", "close", "rename", "backup", "settings", "check", "reopen", "reclose", "rerename", "unset"}]
UninstallType == [verb : {"uninstall"}, pc : {"entries", "remove"}, i : Removals]
CommandType == {Machines!Idle} \cup JoinType \cup UpdateType \cup UninstallType

MachineTypes ==
  /\ kit \in Nat /\ issued \in Nat /\ exe \in ExeType /\ replacement \in ExeType
  /\ settings \in SettingsType /\ backup \in SettingsType
  /\ run \in [Process -> CommandType]

\* The engineer's own commands come one at a time.
Installs(r) == r.verb \in {"join", "uninstall"}
OneInstalls == \A p, q \in Process : Installs(run[p]) /\ Installs(run[q]) => p = q

\* A replacement has a version, so renaming it leaves an executable.
Replaces == replacement = Machines!NoFile \/ replacement.v # 0

\* The secret is written last of what it needs, and removed first.
SecretLast == secret # 0 /\ ~left => exe.v # 0 /\ "ca" \in files

\* How far a command has come.
Reached(r) ==
  /\ r.verb = "join" =>
       /\ r.pc \in {"open", "close", "rename"} => r.v # 0
       /\ r.pc \in {"toml", "ca", "secret"} => exe.v # 0
       /\ r.pc = "secret" => "ca" \in files
  /\ r.verb = "update" => r.v # 0 /\ r.before # 0
  /\ r.verb = "uninstall" /\ r.pc = "entries" => r.i = 1
  /\ r.verb = "uninstall" /\ r.pc = "remove" /\ r.i > 2 => secret = 0 \/ left

MachineInv ==
  MachineTypes /\ OneInstalls /\ Replaces /\ SecretLast /\ \A p \in Process : Reached(run[p])

\* The machine has not joined.
LEMMA MachineInit == ASSUME Machines!MachineAssumption PROVE Machines!Init => MachineInv
<1> SUFFICES ASSUME Machines!Init PROVE MachineInv
  OBVIOUS
<1>1. Machines!NoFile \in ExeType /\ Machines!NoSettings \in SettingsType
      /\ [form |-> "ok", ours |-> FALSE, mine |-> 0] \in SettingsType
  BY DEF Machines!NoFile, Machines!NoSettings, ExeType, SettingsType
<1>2. MachineTypes
  BY <1>1 DEF Machines!Init, MachineTypes, CommandType
<1>3. OneInstalls /\ \A p \in Process : Reached(run[p])
  BY DEF Machines!Init, OneInstalls, Installs, Reached, Machines!Idle
<1> QED
  BY <1>2, <1>3 DEF Machines!Init, MachineInv, Replaces, SecretLast

\* Which command it is tells what it keeps.
LEMMA CommandKeeps ==
  ASSUME NEW r \in CommandType
  PROVE  /\ r.verb = "join" => r \in JoinType
         /\ r.verb = "update" => r \in UpdateType
         /\ r.verb = "uninstall" => r \in UninstallType
         /\ r.verb = "none" => r = Machines!Idle
         /\ r.verb \in {"none", "join", "update", "uninstall"}
<1>1. ASSUME r = Machines!Idle PROVE r.verb = "none"
  BY <1>1 DEF Machines!Idle
<1>2. ASSUME r \in JoinType PROVE r.verb = "join"
  BY <1>2 DEF JoinType
<1>3. ASSUME r \in UpdateType PROVE r.verb = "update"
  BY <1>3 DEF UpdateType
<1>4. ASSUME r \in UninstallType PROVE r.verb = "uninstall"
  BY <1>4 DEF UninstallType
<1> QED
  BY <1>1, <1>2, <1>3, <1>4 DEF CommandType

\* A step of one process to r: of an update it keeps what an install relies on.
LEMMA ProcessSteps ==
  ASSUME MachineInv, NEW p \in Process, NEW r \in CommandType, run' = [run EXCEPT ![p] = r],
         kit' \in Nat, issued' \in Nat, exe' \in ExeType, replacement' \in ExeType,
         settings' \in SettingsType, backup' \in SettingsType,
         Installs(r) => Installs(run[p]) \/ Machines!NoneJoins,
         ~Installs(run[p]) => /\ exe.v # 0 => exe'.v # 0
                              /\ UNCHANGED <<files, secret, left>>,
         Replaces', SecretLast',
         r.verb = "join" =>
           /\ r.pc \in {"open", "close", "rename"} => r.v # 0
           /\ r.pc \in {"toml", "ca", "secret"} => exe'.v # 0
           /\ r.pc = "secret" => "ca" \in files',
         r.verb = "update" => r.v # 0 /\ r.before # 0,
         r.verb = "uninstall" /\ r.pc = "entries" => r.i = 1,
         r.verb = "uninstall" /\ r.pc = "remove" /\ r.i > 2 => secret' = 0 \/ left'
  PROVE  MachineInv'
<1>1. MachineTypes'
  BY DEF MachineInv, MachineTypes
<1>2. \A q \in Process : run'[q] = IF q = p THEN r ELSE run[q]
  BY DEF MachineInv, MachineTypes
<1>3. ASSUME NEW q \in Process, q # p, Installs(run[q]) PROVE ~Installs(run[p]) /\ ~Installs(r)
  BY <1>3 DEF MachineInv, OneInstalls, Installs, Machines!NoneJoins
<1>4. OneInstalls'
  BY <1>2, <1>3 DEF MachineInv, OneInstalls, Installs
<1>5. ASSUME NEW q \in Process PROVE Reached(run[q])'
  <2>1. CASE q = p
    BY <1>2, <2>1 DEF Reached
  <2>2. CASE q # p
    BY <1>2, <1>3, <2>2 DEF Reached, Installs, MachineInv
  <2> QED
    BY <2>1, <2>2
<1> QED
  BY <1>1, <1>4, <1>5 DEF MachineInv

\* The parts of the invariant about one command.
LEMMA CommandOf ==
  ASSUME MachineInv, NEW p \in Process
  PROVE  /\ run[p] \in CommandType /\ Reached(run[p])
         /\ kit \in Nat /\ issued \in Nat /\ exe \in ExeType /\ replacement \in ExeType
         /\ settings \in SettingsType /\ backup \in SettingsType
         /\ Replaces /\ SecretLast
BY DEF MachineInv, MachineTypes

\* The values the commands write have their types.
LEMMA MachineValues ==
  /\ Machines!NoFile \in ExeType /\ Machines!NoFile.v = 0
  /\ Machines!NoSettings \in SettingsType /\ Machines!NoPlan \in PlanType
  /\ Machines!Idle \in CommandType /\ Machines!Idle.verb = "none"
BY DEF Machines!NoFile, Machines!NoSettings, Machines!NoPlan, Machines!Idle, CommandType, ExeType, SettingsType, PlanType

\* The command ends, and what an install relies on stays or the secret goes.
LEMMA EndSteps ==
  ASSUME MachineInv, NEW p \in Process, Machines!Ends(p),
         kit' \in Nat, issued' \in Nat, exe' \in ExeType, replacement' \in ExeType,
         settings' \in SettingsType, backup' \in SettingsType,
         ~Installs(run[p]) => /\ exe.v # 0 => exe'.v # 0
                              /\ UNCHANGED <<files, secret, left>>,
         Replaces', SecretLast'
  PROVE  MachineInv'
<1>1. Machines!Idle.verb \notin {"join", "update", "uninstall"}
  BY DEF Machines!Idle
<1> QED
  BY <1>1, MachineValues, ProcessSteps DEF Machines!Ends, Installs

\* An executable being written that loses a writer keeps its version.
LEMMA Abandoned ==
  ASSUME NEW x \in ExeType, NEW p, NEW y,
         y \in {[x EXCEPT !.torn = @ \/ p \in x.open, !.open = @ \ {p}], [x EXCEPT !.open = @ \ {p}]}
  PROVE  y \in ExeType /\ y.v = x.v /\ (x = Machines!NoFile => y = x)
<1>1. y \in ExeType /\ y.v = x.v
  BY DEF ExeType
<1>2. ASSUME x = Machines!NoFile PROVE y = x
  <2>1. x.open \ {p} = x.open /\ (x.torn \/ p \in x.open) = x.torn
    BY <1>2 DEF Machines!NoFile
  <2> QED
    BY <1>2, <2>1 DEF Machines!NoFile
<1> QED
  BY <1>1, <1>2

\* A killed command, an ending check, a refused claim, the last writes of a rollback.
LEMMA EndingSteps ==
  ASSUME Machines!MachineAssumption, MachineInv, NEW p \in Process,
         \/ Machines!Kill(p) \/ Machines!ClaimRefused(p) \/ Machines!CheckPasses(p)
         \/ Machines!RestoreSettings(p) \/ Machines!Link(p) \/ Machines!InstallFails(p)
  PROVE  MachineInv'
<1>1. CASE Machines!Kill(p)
  <2>1. /\ replacement' \in ExeType /\ replacement'.v = replacement.v /\ (replacement = Machines!NoFile => replacement' = replacement)
        /\ exe' \in ExeType /\ exe'.v = exe.v
    BY <1>1, CommandOf, Abandoned DEF Machines!Kill
  <2> QED
    BY <1>1, <2>1, CommandOf, EndSteps DEF Machines!Kill, Machines!remote, Machines!claude, Replaces, SecretLast
<1>2. CASE Machines!ClaimRefused(p) \/ Machines!CheckPasses(p)
  BY <1>2, CommandOf, EndSteps DEF Machines!ClaimRefused, Machines!CheckPasses, Machines!remote, Machines!host,
     Machines!claude, Replaces, SecretLast
<1>3. CASE Machines!RestoreSettings(p)
  <2>1. run[p] \in UpdateType
    BY <1>3, CommandOf, CommandKeeps DEF Machines!RestoreSettings, Machines!At, JoinType, UninstallType
  <2>2. run[p].old \in SettingsType
    BY <2>1 DEF UpdateType
  <2> QED
    BY <1>3, <2>2, CommandOf, EndSteps DEF Machines!RestoreSettings, Machines!remote, Machines!host, Replaces,
       SecretLast
<1>4. CASE Machines!Link(p)
  <2>1. Installs(run[p])
    BY <1>4 DEF Machines!Link, Installs
  <2> QED
    BY <1>4, <2>1, CommandOf, EndSteps DEF Machines!Link, Machines!remote, Machines!claude, Replaces, SecretLast
<1>5. CASE Machines!InstallFails(p)
  <2>1. Installs(run[p])
    BY <1>5 DEF Machines!InstallFails, Installs
  <2>2. replacement' \in ExeType /\ replacement'.v = replacement.v /\ (replacement = Machines!NoFile => replacement' = replacement)
    BY <1>5, CommandOf, Abandoned DEF Machines!InstallFails
  <2>3. Machines!Ends(p) /\ exe' = Machines!NoFile /\ secret' = 0 /\ UNCHANGED <<kit, issued, settings, backup>>
    BY <1>5 DEF Machines!InstallFails, Machines!Spent, Machines!RemoveStaged, Machines!remote, Machines!claude
  <2> QED
    BY <2>1, <2>2, <2>3, CommandOf, MachineValues, EndSteps DEF Replaces, SecretLast
<1> QED
  BY <1>1, <1>2, <1>3, <1>4, <1>5

JoinPlaces ==
  {"claim", "kit", "open", "close", "rename", "toml", "ca", "secret", "key", "backup", "settings", "check"}
UpdatePlaces ==
  {"open", "close", "rename", "backup", "settings", "check", "reopen", "reclose", "rerename", "unset"}

\* A command goes on to another of its places, keeping what it has in hand.
LEMMA GoSteps ==
  ASSUME MachineInv, NEW p \in Process, NEW pc, Machines!Go(p, pc),
         kit' \in Nat, issued' \in Nat, exe' \in ExeType, replacement' \in ExeType,
         settings' \in SettingsType, backup' \in SettingsType,
         ~Installs(run[p]) => /\ exe.v # 0 => exe'.v # 0
                              /\ UNCHANGED <<files, secret, left>>,
         Replaces', SecretLast',
         run[p].verb \in {"join", "update", "uninstall"},
         run[p].verb = "join" =>
           /\ pc \in JoinPlaces
           /\ pc \in {"open", "close", "rename"} => run[p].v # 0
           /\ pc \in {"toml", "ca", "secret"} => exe'.v # 0
           /\ pc = "secret" => "ca" \in files',
         run[p].verb = "update" => pc \in UpdatePlaces,
         run[p].verb = "uninstall" => pc = "remove" /\ run[p].i = 1
  PROVE  MachineInv'
<1> DEFINE r == [run[p] EXCEPT !.pc = pc]
<1>1. run' = [run EXCEPT ![p] = r]
  BY DEF Machines!Go, MachineInv, MachineTypes
<1>2. CASE run[p].verb = "join"
  <2>1. run[p] \in JoinType
    BY <1>2, CommandOf, CommandKeeps
  <2>2. r \in JoinType /\ r.verb = "join" /\ r.pc = pc /\ r.v = run[p].v
    BY <1>2, <2>1 DEF JoinType, JoinPlaces
  <2> HIDE DEF r
  <2> QED
    BY <1>1, <1>2, <2>2, ProcessSteps DEF CommandType, Installs
<1>3. CASE run[p].verb = "update"
  <2>1. run[p] \in UpdateType /\ Reached(run[p])
    BY <1>3, CommandOf, CommandKeeps
  <2>2. r \in UpdateType /\ r.verb = "update" /\ r.v = run[p].v /\ r.before = run[p].before
    BY <1>3, <2>1 DEF UpdateType, UpdatePlaces
  <2>3. r.v # 0 /\ r.before # 0
    BY <1>3, <2>1, <2>2 DEF Reached
  <2> HIDE DEF r
  <2> QED
    BY <1>1, <1>3, <2>2, <2>3, ProcessSteps DEF CommandType, Installs
<1>4. CASE run[p].verb = "uninstall"
  <2>1. run[p] \in UninstallType
    BY <1>4, CommandOf, CommandKeeps
  <2>2. r \in UninstallType /\ r.verb = "uninstall" /\ r.pc = pc /\ r.i = run[p].i
    BY <1>4, <2>1 DEF UninstallType
  <2> HIDE DEF r
  <2>3. r.pc = "remove" /\ ~(r.i > 2)
    BY <1>4, <2>2
  <2> QED
    BY <1>1, <1>4, <2>2, <2>3, ProcessSteps DEF CommandType, Installs
<1> QED
  BY <1>2, <1>3, <1>4

\* Where a command is tells which command it can be.
LEMMA PlaceTells ==
  ASSUME NEW r \in CommandType
  PROVE  /\ r.verb = "join" => r.pc \in JoinPlaces
         /\ r.verb = "update" => r.pc \in UpdatePlaces
         /\ r.verb = "uninstall" => r.pc \in {"entries", "remove"}
<1>1. ASSUME r \in JoinType PROVE r.pc \in JoinPlaces
  BY <1>1 DEF JoinType, JoinPlaces
<1>2. ASSUME r \in UpdateType PROVE r.pc \in UpdatePlaces
  BY <1>2 DEF UpdateType, UpdatePlaces
<1>3. ASSUME r \in UninstallType PROVE r.pc \in {"entries", "remove"}
  BY <1>3 DEF UninstallType
<1> QED
  BY <1>1, <1>2, <1>3, CommandKeeps

\* The settings of a join or an update, and the check of an update.
LEMMA SettingsSteps ==
  ASSUME Machines!MachineAssumption, MachineInv, NEW p \in Process,
         \/ Machines!SettingsBackup(p) \/ Machines!SettingsCommit(p)
         \/ Machines!SettingsFail(p) \/ Machines!CheckFails(p)
  PROVE  MachineInv'
<1>1. run[p].verb # "none" => run[p].verb \in {"join", "update", "uninstall"}
  BY CommandOf, CommandKeeps
<1>2. ASSUME run[p].verb \in {"join", "update"}
      PROVE  run[p].plan \in PlanType /\ run[p].plan.new \in SettingsType /\ run[p].plan.backup \in SettingsType
  BY <1>2, CommandOf, CommandKeeps DEF JoinType, UpdateType, PlanType
<1>3. UNCHANGED <<kit, issued, exe, replacement, files, secret, left>>
  BY DEF Machines!SettingsBackup, Machines!SettingsCommit, Machines!SettingsFail, Machines!CheckFails,
     Machines!remote, Machines!host
<1>4. Replaces' /\ SecretLast'
  BY <1>3, CommandOf DEF Replaces, SecretLast
<1>5. CASE Machines!SettingsBackup(p)
  <2>1. run[p].verb \in {"join", "update"}
    BY <1>5, <1>1, CommandOf, PlaceTells DEF Machines!SettingsBackup, Machines!At
  <2>2. backup' \in SettingsType /\ settings' \in SettingsType
    BY <1>2, <1>5, <2>1, CommandOf DEF Machines!SettingsBackup, Machines!CommitBackup
  <2> QED
    BY <1>3, <1>4, <1>5, <2>1, <2>2, CommandOf, GoSteps DEF Machines!SettingsBackup, JoinPlaces, UpdatePlaces
<1>6. CASE Machines!SettingsCommit(p)
  <2>1. run[p].verb \in {"join", "update"}
    BY <1>6, <1>1, CommandOf, PlaceTells DEF Machines!SettingsCommit, Machines!At
  <2>2. backup' \in SettingsType /\ settings' \in SettingsType
    BY <1>2, <1>6, <2>1, CommandOf DEF Machines!SettingsCommit
  <2> QED
    BY <1>3, <1>4, <1>6, <2>1, <2>2, CommandOf, GoSteps DEF Machines!SettingsCommit, JoinPlaces, UpdatePlaces
<1>7. CASE Machines!SettingsFail(p)
  <2>1. UNCHANGED <<settings, backup>>
    BY <1>7 DEF Machines!SettingsFail, Machines!claude
  <2>2. CASE run[p].verb = "join"
    BY <1>3, <1>4, <1>7, <2>1, <2>2, CommandOf, GoSteps DEF Machines!SettingsFail, JoinPlaces
  <2>3. CASE run[p].verb # "join"
    BY <1>3, <1>4, <1>7, <2>1, <2>3, CommandOf, EndSteps DEF Machines!SettingsFail
  <2> QED
    BY <2>2, <2>3
<1>8. CASE Machines!CheckFails(p)
  BY <1>3, <1>4, <1>8, CommandOf, GoSteps DEF Machines!CheckFails, Machines!RollBack, Machines!claude, UpdatePlaces
<1> QED
  BY <1>5, <1>6, <1>7, <1>8

\* What replaces the executable: the bytes of `.new`, the rename, the fetched client.
LEMMA ReplaceSteps ==
  ASSUME Machines!MachineAssumption, MachineInv, NEW p \in Process,
         \/ Machines!OpenStaged(p) \/ Machines!CloseStaged(p)
         \/ Machines!RenameStaged(p) \/ Machines!ReplaceFails(p)
  PROVE  MachineInv'
<1>1. run[p].verb # "none" => run[p].verb \in {"join", "update", "uninstall"}
  BY CommandOf, CommandKeeps
<1>2. UNCHANGED <<kit, issued, settings, backup, files, secret, left>>
  BY DEF Machines!OpenStaged, Machines!CloseStaged, Machines!RenameStaged, Machines!ReplaceFails,
     Machines!remote, Machines!host, Machines!claude
<1>3. CASE Machines!OpenStaged(p)
  <2> DEFINE v == IF run[p].pc = "reopen" THEN run[p].before ELSE run[p].v
  <2>1. run[p].verb \in {"join", "update"} /\ (run[p].verb = "join" => run[p].pc = "open")
    BY <1>1, <1>3, CommandOf, PlaceTells DEF Machines!OpenStaged, JoinPlaces
  <2>2. v \in Nat /\ v # 0 /\ (run[p].verb = "join" => run[p].v # 0)
    <3>1. CASE run[p].verb = "join"
      <4>1. run[p].v \in Nat
        BY <3>1, CommandOf, CommandKeeps DEF JoinType
      <4> QED
        BY <2>1, <3>1, <4>1, CommandOf DEF Reached
    <3>2. CASE run[p].verb = "update"
      <4>1. run[p].v \in Nat /\ run[p].before \in Nat
        BY <3>2, CommandOf, CommandKeeps DEF UpdateType
      <4> QED
        BY <3>2, <4>1, CommandOf DEF Reached
    <3> QED
      BY <2>1, <3>1, <3>2
  <2>3. /\ replacement' = [v |-> v, open |-> replacement.open \cup {p}, torn |-> replacement.open # {} /\ replacement.v # v]
        /\ Machines!Go(p, IF run[p].pc = "reopen" THEN "reclose" ELSE "close") /\ exe' = exe
    BY <1>3 DEF Machines!OpenStaged
  <2> HIDE DEF v
  <2>4. replacement' \in ExeType /\ replacement'.v # 0
    BY <2>2, <2>3, CommandOf DEF ExeType
  <2>5. Replaces' /\ SecretLast'
    BY <1>2, <2>3, <2>4, CommandOf DEF Replaces, SecretLast
  <2> QED
    BY <1>2, <2>1, <2>2, <2>3, <2>4, <2>5, CommandOf, GoSteps DEF JoinPlaces, UpdatePlaces
<1>4. CASE Machines!CloseStaged(p)
  <2>1. run[p].verb \in {"join", "update"} /\ (run[p].verb = "join" => run[p].pc = "close")
    BY <1>1, <1>4, CommandOf, PlaceTells DEF Machines!CloseStaged, JoinPlaces
  <2>2. /\ replacement' \in ExeType /\ replacement'.v = replacement.v /\ (replacement = Machines!NoFile => replacement' = replacement)
        /\ exe' \in ExeType /\ exe'.v = exe.v
    BY <1>4, CommandOf, Abandoned DEF Machines!CloseStaged
  <2>3. Replaces' /\ SecretLast'
    BY <1>2, <2>2, CommandOf DEF Replaces, SecretLast
  <2>4. run[p].verb = "join" => run[p].v # 0
    BY <2>1, CommandOf DEF Reached
  <2> QED
    BY <1>2, <1>4, <2>1, <2>2, <2>3, <2>4, CommandOf, GoSteps DEF Machines!CloseStaged, JoinPlaces, UpdatePlaces
<1>5. CASE Machines!RenameStaged(p)
  <2>1. run[p].verb \in {"join", "update"} /\ (run[p].verb = "join" => run[p].pc = "rename")
    BY <1>1, <1>5, CommandOf, PlaceTells DEF Machines!RenameStaged, JoinPlaces
  <2>2. exe' = replacement /\ exe'.v # 0 /\ replacement' = Machines!NoFile
    BY <1>5, CommandOf DEF Machines!RenameStaged, Replaces
  <2>3. Replaces' /\ SecretLast'
    BY <1>2, <2>2, CommandOf DEF Replaces, SecretLast
  <2> QED
    BY <1>2, <1>5, <2>1, <2>2, <2>3, CommandOf, MachineValues, GoSteps DEF Machines!RenameStaged, JoinPlaces, UpdatePlaces
<1>6. CASE Machines!ReplaceFails(p)
  <2>1. UNCHANGED <<exe, replacement>> /\ run[p].verb = "update"
    BY <1>6 DEF Machines!ReplaceFails, Machines!host
  <2>2. Replaces' /\ SecretLast'
    BY <1>2, <2>1, CommandOf DEF Replaces, SecretLast
  <2>3. CASE Machines!Ends(p)
    BY <1>2, <2>1, <2>2, <2>3, CommandOf, EndSteps
  <2>4. CASE Machines!Go(p, "unset")
    BY <1>2, <2>1, <2>2, <2>4, CommandOf, GoSteps DEF UpdatePlaces
  <2> QED
    BY <1>6, <2>3, <2>4 DEF Machines!ReplaceFails
<1> QED
  BY <1>3, <1>4, <1>5, <1>6

\* The steps of a join, as far as its files.
LEMMA JoinSteps ==
  ASSUME Machines!MachineAssumption, MachineInv, NEW p \in Process,
         \/ \E code \in 1 .. MaxIssued : Machines!Join(p, code)
         \/ Machines!ClaimGranted(p) \/ Machines!FetchClient(p) \/ Machines!InstallStep(p)
  PROVE  MachineInv'
<1>1. run[p].verb # "none" => run[p].verb \in {"join", "update", "uninstall"}
  BY CommandOf, CommandKeeps
<1>2. ASSUME NEW code \in 1 .. MaxIssued, Machines!Join(p, code) PROVE MachineInv'
  <2> DEFINE r == [verb |-> "join", pc |-> "claim", code |-> code, secret |-> 0, v |-> 0, plan |-> Machines!PlanInstall]
  <2>1. Machines!PlanInstall \in PlanType
    <3>1. [settings EXCEPT !.form = "ok", !.ours = TRUE] \in SettingsType
      BY CommandOf DEF SettingsType
    <3> QED
      BY <3>1, CommandOf, MachineValues DEF Machines!PlanInstall, PlanType
  <2>2. code \in Nat
    BY DEF Machines!MachineAssumption
  <2>3. r \in JoinType /\ r.verb = "join" /\ r.pc = "claim"
    BY <2>1, <2>2 DEF JoinType
  <2>4. /\ run' = [run EXCEPT ![p] = r] /\ Machines!NoneJoins
        /\ UNCHANGED <<kit, issued, exe, replacement, files, secret, settings, backup, left>>
    BY <1>2 DEF Machines!Join, Machines!remote, Machines!host, Machines!claude
  <2> HIDE DEF r
  <2>5. Replaces' /\ SecretLast'
    BY <2>4, CommandOf DEF Replaces, SecretLast
  <2> QED
    BY <2>3, <2>4, <2>5, CommandOf, ProcessSteps DEF CommandType
<1>3. CASE Machines!ClaimGranted(p)
  <2>1. run[p].verb = "join" /\ run[p] \in JoinType
    BY <1>1, <1>3, CommandOf, CommandKeeps, PlaceTells DEF Machines!ClaimGranted, Machines!At, UpdatePlaces
  <2>2. issued' \in Nat /\ UNCHANGED <<kit, settings, backup, left, replacement>>
    BY <1>3, CommandOf DEF Machines!ClaimGranted, Machines!claude, Machines!host
  <2>3. CASE Machines!Ends(p) /\ UNCHANGED Machines!host
    <3>1. Replaces' /\ SecretLast'
      BY <2>2, <2>3, CommandOf DEF Replaces, SecretLast, Machines!host
    <3> QED
      BY <2>1, <2>2, <2>3, <3>1, CommandOf, EndSteps DEF Installs, Machines!host
  <2>4. CASE Machines!Spent(p)
    <3>1. Replaces' /\ SecretLast'
      BY <2>2, <2>4, CommandOf DEF Replaces, SecretLast, Machines!Spent, Machines!RemoveStaged
    <3> QED
      BY <2>1, <2>2, <2>4, <3>1, CommandOf, EndSteps, MachineValues DEF Installs, Machines!Spent, Machines!RemoveStaged
  <2>5. CASE run' = [run EXCEPT ![p].pc = "kit", ![p].secret = issued + 1] /\ UNCHANGED Machines!host
    <3> DEFINE r == [run[p] EXCEPT !.pc = "kit", !.secret = issued + 1]
    <3>1. run' = [run EXCEPT ![p] = r]
      BY <2>5 DEF MachineInv, MachineTypes
    <3>2. issued + 1 \in Nat
      BY CommandOf
    <3>3. r \in JoinType /\ r.verb = "join" /\ r.pc = "kit"
      BY <2>1, <3>2 DEF JoinType
    <3> HIDE DEF r
    <3>4. Replaces' /\ SecretLast'
      BY <2>2, <2>5, CommandOf DEF Replaces, SecretLast, Machines!host
    <3> QED
      BY <2>1, <2>2, <2>5, <3>1, <3>3, <3>4, CommandOf, ProcessSteps DEF CommandType, Installs, Machines!host
  <2> QED
    BY <1>3, <2>3, <2>4, <2>5 DEF Machines!ClaimGranted
<1>4. CASE Machines!FetchClient(p)
  <2>1. run[p].verb = "join" /\ run[p] \in JoinType
    BY <1>4, CommandOf, CommandKeeps DEF Machines!FetchClient
  <2>2. UNCHANGED <<kit, issued, settings, backup, left, replacement>>
    BY <1>4 DEF Machines!FetchClient, Machines!claude, Machines!remote
  <2>3. CASE Machines!Spent(p)
    <3>1. Replaces' /\ SecretLast'
      BY <2>2, <2>3, CommandOf DEF Replaces, SecretLast, Machines!Spent, Machines!RemoveStaged
    <3> QED
      BY <2>1, <2>2, <2>3, <3>1, CommandOf, EndSteps, MachineValues DEF Installs, Machines!Spent, Machines!RemoveStaged
  <2>4. CASE ~Machines!Spent(p)
    <3> DEFINE v == IF kit = 0 THEN 1 ELSE kit
               r == [run[p] EXCEPT !.pc = "open", !.v = v]
    <3>1. /\ run' = [run EXCEPT ![p] = r] /\ files' = files \cup {"dir"} /\ UNCHANGED <<exe, secret>>
      BY <1>4, <2>4 DEF Machines!FetchClient, MachineInv, MachineTypes
    <3>2. v \in Nat /\ v # 0
      BY CommandOf
    <3> HIDE DEF v
    <3>3. r \in JoinType /\ r.verb = "join" /\ r.pc = "open" /\ r.v # 0
      BY <2>1, <3>2 DEF JoinType
    <3> HIDE DEF r
    <3>4. Replaces' /\ SecretLast'
      BY <2>2, <3>1, CommandOf DEF Replaces, SecretLast
    <3> QED
      BY <2>1, <2>2, <3>1, <3>3, <3>4, CommandOf, ProcessSteps DEF CommandType, Installs
  <2> QED
    BY <2>3, <2>4
<1>5. CASE Machines!InstallStep(p)
  <2>1. run[p].verb = "join" /\ run[p] \in JoinType /\ Reached(run[p])
    BY <1>1, <1>5, CommandOf, CommandKeeps, PlaceTells DEF Machines!InstallStep, Machines!InstallFiles, Machines!At,
       UpdatePlaces
  <2>2. UNCHANGED <<kit, issued, exe, settings, backup, left, replacement>>
    BY <1>5 DEF Machines!InstallStep, Machines!claude, Machines!remote
  <2>3. /\ files \subseteq files'
        /\ secret' # secret => run[p].pc = "secret"
    BY <1>5 DEF Machines!InstallStep, Machines!InstallFiles, Machines!At
  <2>4. Replaces' /\ SecretLast'
    BY <2>1, <2>2, <2>3, CommandOf DEF Replaces, SecretLast, Reached
  <2>5. CASE run[p].pc = "toml" /\ Machines!Go(p, "ca")
    BY <2>1, <2>2, <2>4, <2>5, CommandOf, GoSteps DEF Reached, Installs, JoinPlaces
  <2>6. CASE run[p].pc = "ca" /\ files' = files \cup {"ca"} /\ Machines!Go(p, "secret")
    BY <2>1, <2>2, <2>4, <2>6, CommandOf, GoSteps DEF Reached, Installs, JoinPlaces
  <2>7. ASSUME NEW pc \in {"key", "backup"}, Machines!Go(p, pc) PROVE MachineInv'
    BY <2>1, <2>2, <2>4, <2>7, CommandOf, GoSteps DEF Installs, JoinPlaces
  <2> QED
    BY <1>5, <2>5, <2>6, <2>7 DEF Machines!InstallStep, Machines!InstallFiles, Machines!At
<1> QED
  BY <1>2, <1>3, <1>4, <1>5

\* An update begins: it keeps the old executable's version and the settings.
LEMMA UpdateSteps ==
  ASSUME Machines!MachineAssumption, MachineInv, NEW p \in Process, Machines!Update(p)
  PROVE  MachineInv'
<1> DEFINE r == [verb |-> "update", pc |-> "open", v |-> kit, before |-> exe.v, old |-> settings,
                 plan |-> Machines!PlanInstall]
<1>1. Machines!PlanInstall \in PlanType
  <2>1. [settings EXCEPT !.form = "ok", !.ours = TRUE] \in SettingsType
    BY CommandOf DEF SettingsType
  <2> QED
    BY <2>1, CommandOf, MachineValues DEF Machines!PlanInstall, PlanType
<1>2. exe.v \in Nat
  BY CommandOf DEF ExeType
<1>3. r \in UpdateType /\ r.verb = "update" /\ r.v = kit /\ r.before = exe.v
  BY <1>1, <1>2, CommandOf DEF UpdateType
<1>4. /\ run' = [run EXCEPT ![p] = r] /\ kit # 0 /\ exe.v # 0
      /\ UNCHANGED <<kit, issued, exe, replacement, files, secret, settings, backup, left>>
  BY DEF Machines!Update, Machines!remote, Machines!host, Machines!claude
<1> HIDE DEF r
<1>5. Replaces' /\ SecretLast'
  BY <1>4, CommandOf DEF Replaces, SecretLast
<1> QED
  BY <1>3, <1>4, <1>5, CommandOf, ProcessSteps DEF CommandType, Installs

\* The steps of an uninstall.
LEMMA UninstallSteps ==
  ASSUME Machines!MachineAssumption, MachineInv, NEW p \in Process,
         Machines!Uninstall(p) \/ Machines!UninstallSettings(p) \/ Machines!UninstallRemove(p)
  PROVE  MachineInv'
<1>1. CASE Machines!Uninstall(p)
  <2> DEFINE r == [verb |-> "uninstall", pc |-> "entries", i |-> 1]
  <2>1. r \in UninstallType /\ r.verb = "uninstall" /\ r.pc = "entries" /\ r.i = 1
    BY DEF UninstallType, Removals
  <2>2. /\ run' = [run EXCEPT ![p] = r] /\ Machines!NoneJoins
        /\ UNCHANGED <<kit, issued, exe, replacement, files, secret, settings, backup, left>>
    BY <1>1 DEF Machines!Uninstall, Machines!remote, Machines!host, Machines!claude
  <2> HIDE DEF r
  <2>3. Replaces' /\ SecretLast'
    BY <2>2, CommandOf DEF Replaces, SecretLast
  <2> QED
    BY <2>1, <2>2, <2>3, CommandOf, ProcessSteps DEF CommandType
<1>2. CASE Machines!UninstallSettings(p)
  <2>1. run[p].verb = "uninstall" /\ run[p].i = 1
    BY <1>2, CommandOf, CommandKeeps, PlaceTells DEF Machines!UninstallSettings, Machines!At, JoinPlaces,
       UpdatePlaces, Reached
  <2>2. UNCHANGED <<kit, issued, exe, replacement, files, secret, left>>
    BY <1>2 DEF Machines!UninstallSettings, Machines!remote, Machines!host
  <2>3. [settings EXCEPT !.ours = FALSE] \in SettingsType
    BY CommandOf DEF SettingsType
  <2>4. settings' \in SettingsType /\ backup' \in SettingsType
    BY <1>2, <2>3, CommandOf, MachineValues DEF Machines!UninstallSettings, Machines!RemoveEntries, Machines!claude
  <2>5. Replaces' /\ SecretLast'
    BY <2>2, CommandOf DEF Replaces, SecretLast
  <2> QED
    BY <1>2, <2>1, <2>2, <2>4, <2>5, CommandOf, GoSteps DEF Machines!UninstallSettings
<1>3. CASE Machines!UninstallRemove(p)
  <2> DEFINE i == run[p].i
             f == Machines!Removed(i)
             r == [run[p] EXCEPT !.i = i + 1]
  <2>1. run[p].verb = "uninstall" /\ run[p].pc = "remove" /\ run[p] \in UninstallType /\ Reached(run[p])
    BY <1>3, CommandOf, CommandKeeps, PlaceTells DEF Machines!UninstallRemove, Machines!At, JoinPlaces, UpdatePlaces
  <2>2. i \in Removals
    BY <2>1 DEF UninstallType
  <2>3. /\ f = "exe" => i = 5
        /\ f = "ca" => i = 4
        /\ i = 2 => f = "secret"
    BY <2>2 DEF Removals, Machines!Removed
  <2>4. i > 2 => secret = 0 \/ left
    BY <2>1 DEF Reached
  <2>5. /\ run' = [run EXCEPT ![p] = IF i = 5 THEN Machines!Idle ELSE r]
        /\ UNCHANGED <<kit, issued, replacement, settings, backup>>
    <3>1. run' = [run EXCEPT ![p] = IF run[p].i = 5 THEN Machines!Idle ELSE [run[p] EXCEPT !.i = run[p].i + 1]]
      BY <1>3 DEF Machines!UninstallRemove, MachineInv, MachineTypes
    <3>2. UNCHANGED <<kit, issued, replacement, settings, backup>>
      BY <1>3 DEF Machines!UninstallRemove, Machines!remote, Machines!claude
    <3> QED
      BY <3>1, <3>2, Zenon
  <2>6. \/ /\ exe' = IF f = "exe" THEN Machines!NoFile ELSE exe
           /\ secret' = IF f = "secret" THEN 0 ELSE secret
           /\ "ca" \in files /\ f # "ca" => "ca" \in files'
           /\ left' = left
        \/ left' = TRUE /\ UNCHANGED <<exe, secret, files>>
    BY <1>3 DEF Machines!UninstallRemove
  <2>7. i + 1 > 2 => secret' = 0 \/ left'
    <3>1. \A n \in Removals : n + 1 > 2 => n = 2 \/ n > 2
      BY DEF Removals
    <3> HIDE DEF i, f
    <3> QED
      BY <2>2, <2>3, <2>4, <2>6, <3>1
  <2>8. exe' \in ExeType /\ Replaces' /\ SecretLast'
    <3>1. i = 5 \/ i = 4 => i > 2
      OBVIOUS
    <3> HIDE DEF i, f
    <3> QED
      BY <2>3, <2>4, <2>5, <2>6, <3>1, CommandOf, MachineValues DEF Replaces, SecretLast
  <2>9. CASE i = 5
    BY <2>1, <2>5, <2>8, <2>9, CommandOf, EndSteps DEF Machines!Ends, Installs
  <2>10. CASE i # 5
    <3>1. i + 1 \in Removals
      BY <2>2, <2>10 DEF Removals
    <3>2. r \in UninstallType /\ r.verb = "uninstall" /\ r.pc = "remove" /\ r.i = i + 1
      BY <2>1, <3>1 DEF UninstallType
    <3>3. run' = [run EXCEPT ![p] = r]
      BY <2>5, <2>10
    <3> HIDE DEF r, i
    <3> QED
      BY <2>1, <2>5, <2>7, <2>8, <3>2, <3>3, CommandOf, ProcessSteps DEF CommandType, Installs
  <2> QED
    BY <2>9, <2>10
<1> QED
  BY <1>1, <1>2, <1>3

\* The engineer's edits, the operator, and an upgraded server.
LEMMA AroundSteps ==
  ASSUME Machines!MachineAssumption, MachineInv,
         \/ \E form \in {"ok", "bad"}, ours \in BOOLEAN : Machines!Edit(form, ours)
         \/ \E req \in Machines!KitRequests : Machines!Operator(req)
         \/ \E v \in 1 .. MaxVersion : Machines!NewKit(v)
         \/ UNCHANGED Machines!vars
  PROVE  MachineInv'
<1>1. UNCHANGED <<run, exe, replacement, files, secret, left>>
  BY DEF Machines!Edit, Machines!Operator, Machines!NewKit, Machines!vars, Machines!host
<1>2. kit' \in Nat
  <2>1. 1 .. MaxVersion \subseteq Nat
    BY DEF Machines!MachineAssumption
  <2> QED
    BY <2>1 DEF Machines!Edit, Machines!Operator, Machines!NewKit, Machines!vars, Machines!remote, MachineInv, MachineTypes
<1>3. issued' \in Nat
  BY DEF Machines!Edit, Machines!Operator, Machines!NewKit, Machines!vars, Machines!remote, MachineInv, MachineTypes
<1>4. settings' \in SettingsType /\ backup' \in SettingsType
  <2>1. ASSUME NEW form \in {"ok", "bad"}, NEW ours \in BOOLEAN
        PROVE  [form |-> form, ours |-> ours, mine |-> settings.mine + 1] \in SettingsType
    BY DEF SettingsType, MachineInv, MachineTypes
  <2> QED
    BY <2>1 DEF Machines!Edit, Machines!Operator, Machines!NewKit, Machines!vars, Machines!claude, MachineInv, MachineTypes
<1> QED
  BY <1>1, <1>2, <1>3, <1>4 DEF MachineInv, MachineTypes, OneInstalls, Replaces, SecretLast, Reached

\* Every step of a command, the engineer and the operator keeps the invariant.
LEMMA MachineSteps ==
  ASSUME Machines!MachineAssumption
  PROVE  MachineInv /\ [Machines!Next]_Machines!vars => MachineInv'
BY EndingSteps, SettingsSteps, ReplaceSteps, JoinSteps, UpdateSteps, UninstallSteps, AroundSteps
   DEF Machines!Next, Machines!CommandStep

\* The inductive invariant of a client machine: joins and uninstalls come one at
\* a time, the secret is written after what it needs and removed before it, and
\* what an update renames into place is an executable.
THEOREM MachineCoherent ==
  ASSUME Machines!MachineAssumption
  PROVE  Machines!Spec => []MachineInv
BY MachineInit, MachineSteps, PTL DEF Machines!Spec

\* A process takes its own steps only, and the first of an uninstall takes our
\* entries out of the settings as they are.
LEMMA EditsStay ==
  ASSUME MachineInv, Machines!Next
  PROVE  Machines!UninstallStep
<1> SUFFICES ASSUME NEW p \in Process, run[p].verb = "uninstall", run[p].pc = "entries", run'[p] # run[p]
             PROVE  settings'.mine = settings.mine
  BY DEF Machines!UninstallStep
<1>1. run \in [Process -> CommandType] /\ settings \in SettingsType
  BY DEF MachineInv, MachineTypes
<1> USE DEF Machines!At, Machines!Go, Machines!Ends
<1>2. ASSUME NEW q \in Process, q # p PROVE ~Machines!CommandStep(q)
  BY <1>1, <1>2 DEF Machines!CommandStep, Machines!ClaimRefused, Machines!ClaimGranted, Machines!FetchClient,
     Machines!InstallStep, Machines!InstallFiles, Machines!InstallFails, Machines!Link, Machines!OpenStaged,
     Machines!CloseStaged, Machines!RenameStaged, Machines!ReplaceFails, Machines!SettingsBackup,
     Machines!SettingsCommit, Machines!SettingsFail, Machines!CheckPasses, Machines!CheckFails, Machines!RollBack,
     Machines!RestoreSettings, Machines!UninstallSettings, Machines!UninstallRemove, Machines!Spent
<1>3. ASSUME Machines!CommandStep(p) PROVE Machines!UninstallSettings(p)
  BY <1>3 DEF Machines!CommandStep, Machines!ClaimRefused, Machines!ClaimGranted, Machines!FetchClient,
     Machines!InstallStep, Machines!InstallFiles, Machines!InstallFails, Machines!Link, Machines!OpenStaged,
     Machines!CloseStaged, Machines!RenameStaged, Machines!ReplaceFails, Machines!SettingsBackup,
     Machines!SettingsCommit, Machines!SettingsFail, Machines!CheckPasses, Machines!CheckFails, Machines!RollBack,
     Machines!RestoreSettings, Machines!UninstallRemove
<1>4. ASSUME Machines!UninstallSettings(p) PROVE settings'.mine = settings.mine
  BY <1>1, <1>4 DEF Machines!UninstallSettings, Machines!RemoveEntries, Machines!claude, SettingsType
<1>5. ASSUME NEW q \in Process, Machines!Kill(q) PROVE settings'.mine = settings.mine
  BY <1>5 DEF Machines!Kill, Machines!claude
<1>6. ASSUME NEW q \in Process,
             (\E code \in 1 .. MaxIssued : Machines!Join(q, code)) \/ Machines!Update(q) \/ Machines!Uninstall(q)
      PROVE  settings'.mine = settings.mine
  BY <1>6 DEF Machines!Join, Machines!Update, Machines!Uninstall, Machines!claude
<1>7. run' # run
  OBVIOUS
<1> QED
  BY <1>2, <1>3, <1>4, <1>5, <1>6, <1>7 DEF Machines!Next, Machines!Edit, Machines!Operator, Machines!NewKit

\* A behaviour of a client machine is one of Machine.
LEMMA MachinePart ==
  /\ HostsSpec /\ part = "machine" => Machines!Spec
  /\ HostsSpec /\ ~(part = "machine") => []~(part = "machine")
<1>1. HostsInit /\ part = "machine" => Machines!Init
  BY DEF HostsInit
<1>2. part = "machine" /\ [HostsNext]_hostsVars => (part = "machine")' /\ [Machines!Next]_(Machines!vars)
  BY DEF HostsNext, hostsVars, machineVars, Machines!vars, Machines!remote, Machines!host, Machines!claude
<1>3. ~(part = "machine") /\ [HostsNext]_hostsVars => ~(part = "machine")'
  BY DEF HostsNext, hostsVars
<1> QED
  BY <1>1, <1>2, <1>3, PTL DEF HostsSpec, Machines!Spec

\* CompleteWorks, for any processes, versions, edits and faults: an installation
\* the commands accept has its executable and its CA, unless an uninstall
\* reported a file it could not remove.
THEOREM CompleteAlwaysWorks == ASSUME Machines!MachineAssumption PROVE HostsSpec => []CompleteWorks
<1>1. MachineInv => CompleteWorks
  BY DEF MachineInv, SecretLast, CompleteWorks, Machines!CompleteWorks, Machines!Complete
<1>2. ~(part = "machine") => CompleteWorks
  BY DEF CompleteWorks
<1> QED
  BY MachinePart, MachineCoherent, <1>1, <1>2, PTL

\* UninstallKeepsEdits, for any processes, edits and faults: an uninstall never
\* brings old settings back over what the engineer wrote since.
THEOREM EditsAlwaysStay ==
  ASSUME Machines!MachineAssumption PROVE HostsSpec => UninstallKeepsEdits
<1>1. part = "machine" /\ MachineInv /\ [HostsNext]_hostsVars
        => [part = "machine" => Machines!UninstallStep]_hostsVars
  <2> SUFFICES ASSUME part = "machine", MachineInv, HostsNext PROVE Machines!UninstallStep
    OBVIOUS
  <2> QED
    BY EditsStay DEF HostsNext
<1>2. ~(part = "machine") => [part = "machine" => Machines!UninstallStep]_hostsVars
  OBVIOUS
<1> QED
  BY MachinePart, MachineCoherent, <1>1, <1>2, PTL DEF HostsSpec, UninstallKeepsEdits

---------------------------------------------------------------------------
(* Deploy: the verbs of the server on its host, one after another. *)

\* The code takes no lock: the theorems are of verbs that do not overlap.
OneJob == \A i, j \in ServerJob : i = j

EarlyPlaces == {"account", "home", "stage"}
UndoPlaces == {"undo links", "undo unit", "undo state", "undo config", "undo start"}
LatePlaces ==
  {"config", "unit", "current", "command", "snapshot", "enable", "start", "status", "record",
   "undo stop", "undo status", "rolled back"} \cup UndoPlaces
PriorType ==
  [current : ServerVersion \cup {Deployment!NoVersion}, command : BOOLEAN, unit : BOOLEAN,
   active : BOOLEAN, config : BOOLEAN]
EarlyType ==
  [op : {"transaction"}, pc : EarlyPlaces, version : ServerVersion, origin : {"none", "release", "build"},
   supplied : Config \cup {"none"}, prior : {"none"}, failed : BOOLEAN, took : BOOLEAN]
LateType ==
  [op : {"transaction"}, pc : LatePlaces, version : ServerVersion, origin : {"none", "release", "build"},
   supplied : Config \cup {"none"}, prior : PriorType, failed : BOOLEAN, took : BOOLEAN]
RemovalType ==
  [op : {"uninstall"}, purge : BOOLEAN,
   pc : {"stop", "disable", "timer", "unit", "link", "purge root", "purge files", "purge data", "done"}]
VerbType == {Deployment!Idle} \cup EarlyType \cup LateType \cup RemovalType

DeployTypes ==
  /\ releases \subseteq ServerVersion /\ current \in ServerVersion \cup {Deployment!NoVersion}
  /\ command \in BOOLEAN /\ unit \in BOOLEAN
  /\ serverJob \in [ServerJob -> VerbType]

\* What a transaction may select is on disk, and so is what it may go back to.
Returns(r) ==
  /\ r.pc \in {"config", "unit", "current"} => r.version \in releases
  /\ r.prior.current \in releases \cup {Deployment!NoVersion}
  /\ r.prior.config => config # "none"
  /\ r.pc = "undo config" => ~r.prior.config

\* What each step of a rollback has put back, unless one failed.
Restored(r) ==
  /\ r.pc \in UndoPlaces => serving = Deployment!NoVersion
  /\ r.pc \in {"undo unit", "undo state", "undo config", "undo start", "undo status", "rolled back"} =>
       current = r.prior.current /\ command = r.prior.command
  /\ r.pc \in {"undo state", "undo config", "undo start", "undo status", "rolled back"} =>
       unit = r.prior.unit
  /\ r.pc \in {"undo start", "undo status", "rolled back"} => ((config # "none") <=> r.prior.config)
  /\ r.pc = "undo status" =>
       serving = IF r.prior.active THEN Deployment!Executable ELSE Deployment!NoVersion
  /\ r.pc = "rolled back" =>
       serving = IF r.prior.active THEN r.prior.current ELSE Deployment!NoVersion

Transacts(j) ==
  serverJob[j] \in LateType => Returns(serverJob[j]) /\ (~serverJob[j].failed => Restored(serverJob[j]))

DeployInv == DeployTypes /\ Deployment!SelectionStands /\ \A j \in ServerJob : Transacts(j)

\* Nothing is installed.
LEMMA DeployInit == Deployment!Init => DeployInv
<1> SUFFICES ASSUME Deployment!Init PROVE DeployInv
  OBVIOUS
<1>1. DeployTypes
  BY DEF Deployment!Init, DeployTypes, VerbType
<1>2. \A j \in ServerJob : serverJob[j] \notin LateType
  BY DEF Deployment!Init, Deployment!Idle, Deployment!None, LateType
<1>3. Deployment!SelectionStands
  BY DEF Deployment!Init, Deployment!SelectionStands
<1> QED
  BY <1>1, <1>2, <1>3 DEF DeployInv, Transacts

\* Where a verb is tells what it keeps.
LEMMA VerbKeeps ==
  ASSUME NEW r \in VerbType
  PROVE  /\ r.op = "transaction" /\ r.pc \in EarlyPlaces => r \in EarlyType
         /\ r.op = "transaction" /\ r.pc \in LatePlaces => r \in LateType
         /\ r.op = "uninstall" => r \in RemovalType
         /\ r \in LateType => r.op = "transaction" /\ r.pc \in LatePlaces
<1>1. ASSUME r = Deployment!Idle PROVE r.op = "none"
  BY <1>1 DEF Deployment!Idle, Deployment!None
<1>2. ASSUME r \in EarlyType PROVE r.op = "transaction" /\ r.pc \in EarlyPlaces
  BY <1>2 DEF EarlyType
<1>3. ASSUME r \in LateType PROVE r.op = "transaction" /\ r.pc \in LatePlaces
  BY <1>3 DEF LateType
<1>4. ASSUME r \in RemovalType PROVE r.op = "uninstall"
  BY <1>4 DEF RemovalType
<1>5. \A p : ~(p \in EarlyPlaces /\ p \in LatePlaces)
  BY DEF EarlyPlaces, LatePlaces, UndoPlaces
<1> QED
  BY <1>1, <1>2, <1>3, <1>4, <1>5 DEF VerbType

\* With one job, a step is its step.
LEMMA VerbSteps ==
  ASSUME OneJob, NEW j \in ServerJob, DeployTypes', Deployment!SelectionStands', Transacts(j)'
  PROVE  DeployInv'
<1>1. \A k \in ServerJob : k = j
  BY DEF OneJob
<1>2. \A k \in ServerJob : Transacts(k)'
  BY <1>1, Zenon DEF Transacts, Returns, Restored, Deployment!Executable
<1> QED
  BY <1>2 DEF DeployInv

\* A verb that ends or turns to something else than a transaction.
LEMMA OtherSteps ==
  ASSUME OneJob, DeployInv, NEW j \in ServerJob, NEW r, r \in VerbType, r \notin LateType,
         serverJob' = [serverJob EXCEPT ![j] = r],
         releases' \subseteq ServerVersion, current' \in ServerVersion \cup {Deployment!NoVersion},
         command' \in BOOLEAN, unit' \in BOOLEAN, Deployment!SelectionStands'
  PROVE  DeployInv'
<1>1. DeployTypes'
  BY DEF DeployInv, DeployTypes
<1>2. serverJob'[j] \notin LateType
  BY DEF DeployInv, DeployTypes
<1> QED
  BY <1>1, <1>2, VerbSteps DEF Transacts

\* A transaction goes to its next place, or to the next of its rollback after a
\* step of it failed.
LEMMA GoesTo ==
  ASSUME DeployInv, NEW j \in ServerJob, serverJob[j] \in LateType, NEW next \in LatePlaces,
         Deployment!Goto(j, next)
  PROVE  /\ serverJob' \in [ServerJob -> VerbType] /\ serverJob'[j] \in LateType
         /\ serverJob'[j].pc = next /\ serverJob'[j].prior = serverJob[j].prior
         /\ serverJob'[j].failed = serverJob[j].failed /\ serverJob'[j].version = serverJob[j].version
<1> DEFINE q == [serverJob[j] EXCEPT !.pc = next]
<1>1. serverJob' = [serverJob EXCEPT ![j] = q]
  BY DEF Deployment!Goto
<1>2. q \in LateType /\ q.pc = next /\ q.prior = serverJob[j].prior /\ q.failed = serverJob[j].failed
      /\ q.version = serverJob[j].version
  BY DEF LateType
<1> HIDE DEF q
<1>3. serverJob'[j] = q
  BY <1>1 DEF DeployInv, DeployTypes
<1> QED
  BY <1>1, <1>2, <1>3 DEF DeployInv, DeployTypes, VerbType

\* A step of a rollback fails, which the transaction remembers.
LEMMA FailsTo ==
  ASSUME DeployInv, NEW j \in ServerJob, serverJob[j] \in LateType, NEW next \in LatePlaces,
         serverJob' = [serverJob EXCEPT ![j].pc = next, ![j].failed = TRUE]
  PROVE  /\ serverJob' \in [ServerJob -> VerbType] /\ serverJob'[j] \in LateType
         /\ serverJob'[j].pc = next /\ serverJob'[j].prior = serverJob[j].prior /\ serverJob'[j].failed
<1> DEFINE q == [serverJob[j] EXCEPT !.pc = next, !.failed = TRUE]
<1>1. serverJob' = [serverJob EXCEPT ![j] = q]
  BY DEF DeployInv, DeployTypes
<1>2. q \in LateType /\ q.pc = next /\ q.prior = serverJob[j].prior
  BY DEF LateType
<1>3. q.failed
  BY DEF LateType
<1> HIDE DEF q
<1>4. serverJob'[j] = q
  BY <1>1 DEF DeployInv, DeployTypes
<1> QED
  BY <1>1, <1>2, <1>3, <1>4 DEF DeployInv, DeployTypes, VerbType

\* A transaction that stays one.
LEMMA LateSteps ==
  ASSUME OneJob, DeployInv, NEW j \in ServerJob, serverJob'[j] \in LateType, serverJob' \in [ServerJob -> VerbType],
         releases' \subseteq ServerVersion, current' \in ServerVersion \cup {Deployment!NoVersion},
         command' \in BOOLEAN, unit' \in BOOLEAN, Deployment!SelectionStands',
         Returns(serverJob[j])', ~serverJob'[j].failed => Restored(serverJob[j])'
  PROVE  DeployInv'
<1>1. DeployTypes'
  BY DEF DeployTypes
<1>2. Transacts(j)'
  BY DEF Transacts
<1> QED
  BY <1>1, <1>2, VerbSteps

\* A job that ends.
LEMMA VerbEnds ==
  ASSUME OneJob, DeployInv, NEW j \in ServerJob, Deployment!Ends(j),
         releases' \subseteq ServerVersion, current' \in ServerVersion \cup {Deployment!NoVersion},
         command' \in BOOLEAN, unit' \in BOOLEAN, Deployment!SelectionStands'
  PROVE  DeployInv'
<1>1. Deployment!Idle \in VerbType /\ Deployment!Idle \notin LateType
  BY DEF VerbType, LateType, Deployment!Idle, Deployment!None
<1> QED
  BY <1>1, OtherSteps DEF Deployment!Ends

\* A job begins.
LEMMA StartSteps ==
  ASSUME OneJob, DeployInv, NEW j \in ServerJob,
         Deployment!Install(j) \/ Deployment!Update(j) \/ Deployment!Uninstall(j)
  PROVE  DeployInv'
<1>1. ASSUME NEW r \in EarlyType \cup RemovalType, Deployment!Started(j, r)
      PROVE  DeployInv'
  <2>1. r \in VerbType /\ r \notin LateType
    BY DEF VerbType, EarlyType, LateType, RemovalType, EarlyPlaces, LatePlaces, UndoPlaces
  <2>2. UNCHANGED <<releases, current, command, unit>> /\ serverJob' = [serverJob EXCEPT ![j] = r]
    BY <1>1 DEF Deployment!Started, Deployment!host, Deployment!links, Deployment!manager
  <2> QED
    BY <2>1, <2>2, OtherSteps DEF DeployInv, DeployTypes, Deployment!SelectionStands
<1>2. ASSUME NEW v \in ServerVersion, NEW origin \in {"none", "release", "build"},
             NEW supplied \in Config \cup {"none"}
      PROVE  Deployment!Payload("account", v, origin, supplied) \in EarlyType
  BY DEF Deployment!Payload, Deployment!None, EarlyType, EarlyPlaces
<1>3. CASE Deployment!Install(j)
  BY <1>1, <1>2, <1>3 DEF Deployment!Install, Deployment!None
<1>4. CASE Deployment!Update(j)
  <2>1. PICK v \in ServerVersion :
          Deployment!Started(j, Deployment!Payload("account", v, IF v.local THEN "build" ELSE "release",
                                                   Deployment!None))
    BY <1>4 DEF Deployment!Update
  <2>2. Deployment!Payload("account", v, IF v.local THEN "build" ELSE "release", Deployment!None)
          \in EarlyType
    BY <1>2 DEF Deployment!None
  <2> QED
    BY <1>1, <2>1, <2>2
<1>5. CASE Deployment!Uninstall(j)
  <2>1. PICK purge \in BOOLEAN :
          Deployment!Started(j, [op |-> "uninstall", pc |-> "stop", purge |-> purge])
    BY <1>5 DEF Deployment!Uninstall
  <2>2. [op |-> "uninstall", pc |-> "stop", purge |-> purge] \in RemovalType
    BY DEF RemovalType
  <2> QED
    BY <1>1, <2>1, <2>2
<1> QED
  BY <1>3, <1>4, <1>5

\* The account and the release, before anything is to be undone.
LEMMA EarlySteps ==
  ASSUME OneJob, DeployInv, NEW j \in ServerJob, Deployment!Account(j) \/ Deployment!Home(j)
  PROVE  DeployInv'
<1>1. UNCHANGED <<releases, current, command, unit>>
  BY DEF Deployment!Account, Deployment!Home, Deployment!links, Deployment!manager
<1>2. CASE Deployment!Ends(j)
  BY <1>1, <1>2, VerbEnds DEF DeployInv, DeployTypes, Deployment!SelectionStands
<1>3. ASSUME NEW next \in EarlyPlaces, Deployment!Goto(j, next)
      PROVE  DeployInv'
  <2>1. serverJob[j] \in EarlyType
    BY VerbKeeps DEF Deployment!Account, Deployment!Home, Deployment!At, DeployInv, DeployTypes, EarlyPlaces
  <2>2. [serverJob[j] EXCEPT !.pc = next] \in EarlyType
    BY <2>1 DEF EarlyType
  <2>3. \A r \in EarlyType : r \in VerbType /\ r \notin LateType
    BY DEF VerbType, EarlyType, LateType, EarlyPlaces, LatePlaces, UndoPlaces
  <2>4. serverJob' = [serverJob EXCEPT ![j] = [serverJob[j] EXCEPT !.pc = next]]
    BY <1>3 DEF Deployment!Goto
  <2> QED
    BY <1>1, <2>2, <2>3, <2>4, OtherSteps DEF DeployInv, DeployTypes, Deployment!SelectionStands
<1>4. {"account", "home", "stage"} \subseteq EarlyPlaces
  BY DEF EarlyPlaces
<1> QED
  BY <1>2, <1>3, <1>4 DEF Deployment!Account, Deployment!Home

\* What is staged is on disk, and so is what is selected then.
LEMMA StagingSteps ==
  ASSUME OneJob, DeployInv, NEW j \in ServerJob, Deployment!Stage(j)
  PROVE  DeployInv'
<1>1. serverJob[j] \in EarlyType
  BY VerbKeeps DEF Deployment!Stage, Deployment!At, DeployInv, DeployTypes, EarlyPlaces
<1>2. UNCHANGED <<current, command, unit, serving, config>>
  BY DEF Deployment!Stage, Deployment!links, Deployment!manager, Deployment!data
<1>3. CASE Deployment!Ends(j) /\ UNCHANGED releases
  BY <1>2, <1>3, VerbEnds DEF DeployInv, DeployTypes, Deployment!SelectionStands
<1>4. ASSUME releases' = releases \cup {serverJob[j].version}, NEW ran \in BOOLEAN,
             serverJob' = [serverJob EXCEPT ![j].pc = "config",
                                ![j].prior = [current |-> current, command |-> command, unit |-> unit,
                                              active |-> ran, config |-> config # Deployment!None]]
      PROVE  DeployInv'
  <2> DEFINE p == [current |-> current, command |-> command, unit |-> unit,
                   active |-> ran, config |-> config # Deployment!None]
             q == [serverJob[j] EXCEPT !.pc = "config", !.prior = p]
  <2>1. p \in PriorType /\ p.current = current
    BY DEF PriorType, DeployInv, DeployTypes
  <2>2. p.config => config # "none"
    BY DEF Deployment!None
  <2>3. serverJob' = [serverJob EXCEPT ![j] = q]
    BY <1>4 DEF DeployInv, DeployTypes
  <2> HIDE DEF p
  <2>4. q \in LateType /\ q.pc = "config" /\ q.prior = p /\ q.version = serverJob[j].version
    BY <1>1, <2>1 DEF EarlyType, LateType, LatePlaces
  <2> HIDE DEF q
  <2>5. serverJob'[j] = q /\ serverJob' \in [ServerJob -> VerbType]
    BY <2>3, <2>4 DEF DeployInv, DeployTypes, VerbType
  <2>6. releases' \subseteq ServerVersion /\ Deployment!SelectionStands'
    BY <1>1, <1>2, <1>4 DEF DeployInv, DeployTypes, Deployment!SelectionStands, EarlyType
  <2>7. Returns(serverJob[j])'
    <3>4. releases' = releases \cup {serverJob[j].version}
      BY <1>4
    <3>1. serverJob'[j].pc = "config" /\ serverJob'[j].prior = p /\ serverJob'[j].version \in releases'
      BY <2>4, <2>5, <3>4
    <3>2. p.current \in releases' \cup {Deployment!NoVersion}
      BY <1>4, <2>1 DEF DeployInv, Deployment!SelectionStands
    <3>3. p.config => config' # "none"
      BY <1>2, <2>2
    <3> QED
      BY <3>1, <3>2, <3>3 DEF Returns
  <2>8. Restored(serverJob[j])'
    BY <2>4, <2>5 DEF Restored, UndoPlaces
  <2> QED
    BY <1>2, <2>4, <2>5, <2>6, <2>7, <2>8, LateSteps DEF DeployInv, DeployTypes
<1> QED
  BY <1>3, <1>4 DEF Deployment!Stage

\* A step of a transaction that changes neither what it may select nor what it
\* may go back to, before a rollback puts anything back.
LEMMA ForwardSteps ==
  ASSUME OneJob, DeployInv, NEW j \in ServerJob, serverJob[j] \in LateType, NEW next \in LatePlaces,
         Deployment!Goto(j, next), UNCHANGED releases,
         next \in {"unit", "current"} => serverJob[j].pc \in {"config", "unit"},
         next \notin UndoPlaces \cup {"config", "undo status", "rolled back"},
         current' \in ServerVersion \cup {Deployment!NoVersion},
         command' \in BOOLEAN, unit' \in BOOLEAN, Deployment!SelectionStands',
         config # "none" => config' # "none"
  PROVE  DeployInv'
<1>1. /\ serverJob' \in [ServerJob -> VerbType] /\ serverJob'[j] \in LateType
      /\ serverJob'[j].pc = next /\ serverJob'[j].prior = serverJob[j].prior /\ serverJob'[j].version = serverJob[j].version
  BY GoesTo
<1>2. Returns(serverJob[j])
  BY DEF DeployInv, Transacts
<1>3. Returns(serverJob[j])'
  BY <1>1, <1>2 DEF Returns, UndoPlaces
<1>4. Restored(serverJob[j])'
  BY <1>1 DEF Restored, UndoPlaces
<1>5. releases' \subseteq ServerVersion
  BY DEF DeployInv, DeployTypes
<1> QED
  BY <1>1, <1>3, <1>4, <1>5, LateSteps

\* A configuration is only copied where there is none, and the unit is written.
LEMMA ConfigurationSteps ==
  ASSUME OneJob, DeployInv, NEW j \in ServerJob,
         Deployment!CopyConfiguration(j) \/ Deployment!WriteUnit(j)
  PROVE  DeployInv'
<1>1. serverJob[j] \in LateType /\ serverJob[j].pc \in {"config", "unit"}
  BY VerbKeeps DEF Deployment!CopyConfiguration, Deployment!WriteUnit, Deployment!At, DeployInv,
     DeployTypes, LatePlaces
<1>2. UNCHANGED <<releases, current, command>> /\ unit' \in BOOLEAN
  BY DEF Deployment!CopyConfiguration, Deployment!WriteUnit, Deployment!links, Deployment!manager,
     Deployment!data, DeployInv, DeployTypes
<1>3. config # "none" => config' # "none"
  BY DEF Deployment!CopyConfiguration, Deployment!WriteUnit, Deployment!Select, Deployment!None,
     Deployment!data
<1>4. Deployment!SelectionStands'
  BY <1>2 DEF DeployInv, Deployment!SelectionStands
<1>5. CASE Deployment!Ends(j)
  BY <1>2, <1>4, <1>5, VerbEnds DEF DeployInv, DeployTypes
<1>6. ASSUME NEW next \in {"unit", "current"}, Deployment!Goto(j, next)
      PROVE  DeployInv'
  <2>1. next \in LatePlaces /\ next \notin UndoPlaces \cup {"config", "undo status", "rolled back"}
    BY DEF LatePlaces, UndoPlaces
  <2>2. current' \in ServerVersion \cup {Deployment!NoVersion} /\ command' \in BOOLEAN
    BY <1>2 DEF DeployInv, DeployTypes
  <2> QED
    BY <1>1, <1>2, <1>3, <1>4, <1>6, <2>1, <2>2, ForwardSteps
<1> QED
  BY <1>5, <1>6 DEF Deployment!CopyConfiguration, Deployment!WriteUnit

\* The selection: a version whose release was staged and is not pruned meanwhile.
LEMMA SelectionSteps ==
  ASSUME OneJob, DeployInv, NEW j \in ServerJob,
         Deployment!SelectCurrent(j) \/ Deployment!SelectCommand(j)
  PROVE  DeployInv'
<1>1. serverJob[j] \in LateType
  BY VerbKeeps DEF Deployment!SelectCurrent, Deployment!SelectCommand, Deployment!At, DeployInv,
     DeployTypes, LatePlaces
<1>2. UNCHANGED <<releases, unit, config>> /\ command' \in BOOLEAN
  BY DEF Deployment!SelectCurrent, Deployment!SelectCommand, Deployment!manager, Deployment!data,
     DeployInv, DeployTypes
<1>3. current' \in ServerVersion \cup {Deployment!NoVersion} /\ Deployment!SelectionStands'
  <2>1. CASE UNCHANGED current
    BY <1>2, <2>1 DEF DeployInv, DeployTypes, Deployment!SelectionStands
  <2>2. CASE serverJob[j].pc = "current" /\ current' = serverJob[j].version
    <3>1. serverJob[j].version \in releases
      BY <1>1, <2>2 DEF DeployInv, Transacts, Returns
    <3> QED
      BY <1>2, <2>2, <3>1 DEF DeployInv, DeployTypes, Deployment!SelectionStands
  <2> QED
    BY <2>1, <2>2 DEF Deployment!SelectCurrent, Deployment!SelectCommand, Deployment!At
<1>4. PICK next \in {"command", "snapshot", "undo stop"} : Deployment!Goto(j, next)
  BY DEF Deployment!SelectCurrent, Deployment!SelectCommand
<1>5. next \in LatePlaces /\ next \notin UndoPlaces \cup {"unit", "current", "config", "undo status", "rolled back"}
  BY DEF LatePlaces, UndoPlaces
<1>6. unit' \in BOOLEAN
  BY <1>2 DEF DeployInv, DeployTypes
<1> QED
  BY <1>1, <1>2, <1>3, <1>4, <1>5, <1>6, ForwardSteps

\* The trial of the selection: snapshot, enable, start, status and the record.
LEMMA TrialSteps ==
  ASSUME OneJob, DeployInv, NEW j \in ServerJob,
         \/ Deployment!Snapshot(j) \/ Deployment!Enable(j) \/ Deployment!StartService(j)
         \/ Deployment!Status(j) \/ Deployment!RecordOrigin(j)
  PROVE  DeployInv'
<1>1. serverJob[j] \in LateType
  BY VerbKeeps DEF Deployment!Snapshot, Deployment!Enable, Deployment!StartService,
     Deployment!Status, Deployment!RecordOrigin, Deployment!At, DeployInv, DeployTypes, LatePlaces
<1>2. UNCHANGED <<releases, current, command, unit, config>>
  BY DEF Deployment!Snapshot, Deployment!Enable, Deployment!StartService, Deployment!Status,
     Deployment!RecordOrigin, Deployment!host, Deployment!links, Deployment!manager, Deployment!data
<1>3. /\ releases' \subseteq ServerVersion /\ current' \in ServerVersion \cup {Deployment!NoVersion}
      /\ command' \in BOOLEAN /\ unit' \in BOOLEAN /\ Deployment!SelectionStands'
  BY <1>2 DEF DeployInv, DeployTypes, Deployment!SelectionStands
<1>4. CASE Deployment!Ends(j)
  BY <1>3, <1>4, VerbEnds
<1>5. ASSUME NEW next \in {"start", "status", "record", "undo stop"}, Deployment!Goto(j, next)
      PROVE  DeployInv'
  <2>1. next \in LatePlaces /\ next \notin UndoPlaces \cup {"unit", "current", "config", "undo status", "rolled back"}
    BY DEF LatePlaces, UndoPlaces
  <2> QED
    BY <1>1, <1>2, <1>3, <1>5, <2>1, ForwardSteps
<1>6. CASE serverJob' = [serverJob EXCEPT ![j].pc = "enable", ![j].took = TRUE]
  <2> DEFINE q == [serverJob[j] EXCEPT !.pc = "enable", !.took = TRUE]
  <2>1. q \in LateType /\ q.pc = "enable" /\ q.prior = serverJob[j].prior
    BY <1>1 DEF LateType, LatePlaces
  <2>2. serverJob' = [serverJob EXCEPT ![j] = q]
    BY <1>1, <1>6 DEF DeployInv, DeployTypes
  <2> HIDE DEF q
  <2>3. serverJob'[j] = q /\ serverJob' \in [ServerJob -> VerbType]
    BY <2>1, <2>2 DEF DeployInv, DeployTypes, VerbType
  <2>4. Returns(serverJob[j])
    BY <1>1 DEF DeployInv, Transacts
  <2>5. Returns(serverJob[j])'
    BY <1>2, <2>1, <2>3, <2>4 DEF Returns
  <2>6. Restored(serverJob[j])'
    BY <2>1, <2>3 DEF Restored, UndoPlaces
  <2> QED
    BY <1>3, <2>1, <2>3, <2>5, <2>6, LateSteps
<1> QED
  BY <1>4, <1>5, <1>6 DEF Deployment!Snapshot, Deployment!Enable, Deployment!StartService,
     Deployment!Status, Deployment!RecordOrigin

\* A step of the rollback: what an undo of it puts back, if no step failed.
LEMMA UndoSteps ==
  ASSUME OneJob, DeployInv, NEW j \in ServerJob, serverJob[j] \in LateType, NEW next \in LatePlaces,
         next \notin {"config", "unit", "current"}, UNCHANGED releases,
         \/ Deployment!Goto(j, next)
         \/ serverJob' = [serverJob EXCEPT ![j].pc = next, ![j].failed = TRUE],
         current' \in ServerVersion \cup {Deployment!NoVersion},
         command' \in BOOLEAN, unit' \in BOOLEAN, Deployment!SelectionStands',
         serverJob[j].prior.config => config' # "none",
         next = "undo config" => ~serverJob[j].prior.config,
         serverJob'[j].pc = next /\ serverJob'[j].prior = serverJob[j].prior /\ ~serverJob'[j].failed => Restored(serverJob[j])'
  PROVE  DeployInv'
<1>1. /\ serverJob' \in [ServerJob -> VerbType] /\ serverJob'[j] \in LateType
      /\ serverJob'[j].pc = next /\ serverJob'[j].prior = serverJob[j].prior
  BY GoesTo, FailsTo
<1>2. Returns(serverJob[j])
  BY DEF DeployInv, Transacts
<1>3. Returns(serverJob[j])'
  BY <1>1, <1>2 DEF Returns
<1>4. releases' \subseteq ServerVersion
  BY DEF DeployInv, DeployTypes
<1> QED
  BY <1>1, <1>3, <1>4, LateSteps

\* Where a rollback is, and what it put back so far.
LEMMA UndoOf ==
  ASSUME DeployInv, NEW j \in ServerJob, serverJob[j].op = "transaction", serverJob[j].pc \in LatePlaces
  PROVE  /\ serverJob[j] \in LateType /\ serverJob[j].prior \in PriorType
         /\ Returns(serverJob[j]) /\ (~serverJob[j].failed => Restored(serverJob[j]))
<1>1. serverJob[j] \in LateType
  BY VerbKeeps DEF DeployInv, DeployTypes
<1> QED
  BY <1>1 DEF LateType, DeployInv, Transacts

\* The rollback begins: the service is down, or the stop has failed.
LEMMA UndoStops ==
  ASSUME OneJob, DeployInv, NEW j \in ServerJob, Deployment!UndoStop(j)
  PROVE  DeployInv'
<1>1. "undo links" \in LatePlaces /\ "undo stop" \in LatePlaces
  BY DEF LatePlaces, UndoPlaces
<1>2. /\ serverJob[j] \in LateType /\ Returns(serverJob[j])
      /\ UNCHANGED <<releases, current, command, unit, config>>
  BY <1>1, UndoOf DEF Deployment!UndoStop, Deployment!Undoes, Deployment!UndoFails, Deployment!At,
     Deployment!links, Deployment!data
<1>3. Deployment!SelectionStands'
  BY <1>2 DEF DeployInv, Deployment!SelectionStands
<1>4. serverJob[j].prior.config => config' # "none"
  BY <1>2 DEF Returns
<1>5. \/ Deployment!Goto(j, "undo links") /\ serving' = Deployment!NoVersion
      \/ serverJob' = [serverJob EXCEPT ![j].pc = "undo links", ![j].failed = TRUE]
  BY DEF Deployment!UndoStop, Deployment!Undoes, Deployment!UndoFails
<1>6. ASSUME serverJob'[j].pc = "undo links", ~serverJob'[j].failed
      PROVE  Restored(serverJob[j])'
  <2>1. serving' = Deployment!NoVersion
    BY <1>1, <1>2, <1>5, <1>6, FailsTo
  <2> QED
    BY <1>6, <2>1 DEF Restored, UndoPlaces
<1> QED
  BY <1>1, <1>2, <1>3, <1>4, <1>5, <1>6, UndoSteps DEF DeployInv, DeployTypes

\* The links lead where they led, or a failure is remembered.
LEMMA UndoesLinks ==
  ASSUME OneJob, DeployInv, NEW j \in ServerJob, Deployment!UndoLinks(j)
  PROVE  DeployInv'
<1>1. "undo links" \in LatePlaces /\ "undo unit" \in LatePlaces
  BY DEF LatePlaces, UndoPlaces
<1>2. /\ serverJob[j] \in LateType /\ serverJob[j].prior \in PriorType /\ Returns(serverJob[j])
      /\ ~serverJob[j].failed => Restored(serverJob[j])
      /\ serverJob[j].pc = "undo links"
      /\ UNCHANGED <<releases, unit, config, serving>>
  BY <1>1, UndoOf DEF Deployment!UndoLinks, Deployment!Undoes, Deployment!UndoFails, Deployment!At,
     Deployment!manager, Deployment!data
<1>3. current' \in {current, serverJob[j].prior.current} /\ command' \in {command, serverJob[j].prior.command}
  BY DEF Deployment!UndoLinks, Deployment!Undoes, Deployment!UndoFails, Deployment!links
<1>4. /\ Deployment!SelectionStands' /\ current' \in ServerVersion \cup {Deployment!NoVersion}
      /\ command' \in BOOLEAN /\ unit' \in BOOLEAN
  BY <1>2, <1>3 DEF DeployInv, DeployTypes, Deployment!SelectionStands, Returns, PriorType
<1>5. serverJob[j].prior.config => config' # "none"
  BY <1>2 DEF Returns
<1>6. \/ /\ Deployment!Goto(j, "undo unit")
         /\ current' = serverJob[j].prior.current /\ command' = serverJob[j].prior.command
      \/ serverJob' = [serverJob EXCEPT ![j].pc = "undo unit", ![j].failed = TRUE]
  BY DEF Deployment!UndoLinks, Deployment!Undoes, Deployment!UndoFails
<1>7. ASSUME serverJob'[j].pc = "undo unit", serverJob'[j].prior = serverJob[j].prior, ~serverJob'[j].failed
      PROVE  Restored(serverJob[j])'
  <2>1. /\ Deployment!Goto(j, "undo unit")
        /\ current' = serverJob[j].prior.current /\ command' = serverJob[j].prior.command
    BY <1>1, <1>2, <1>6, <1>7, FailsTo
  <2>2. ~serverJob[j].failed
    BY <1>1, <1>2, <1>7, <2>1, GoesTo
  <2>3. serving = Deployment!NoVersion
    BY <1>2, <2>2 DEF Restored, UndoPlaces
  <2> QED
    BY <1>2, <1>7, <2>1, <2>3 DEF Restored, UndoPlaces
<1> QED
  BY <1>1, <1>2, <1>4, <1>5, <1>6, <1>7, UndoSteps

\* So does the unit.
LEMMA UndoesUnit ==
  ASSUME OneJob, DeployInv, NEW j \in ServerJob, Deployment!UndoUnit(j)
  PROVE  DeployInv'
<1>1. "undo unit" \in LatePlaces /\ "undo state" \in LatePlaces
  BY DEF LatePlaces, UndoPlaces
<1>2. /\ serverJob[j] \in LateType /\ serverJob[j].prior \in PriorType /\ Returns(serverJob[j])
      /\ ~serverJob[j].failed => Restored(serverJob[j])
      /\ serverJob[j].pc = "undo unit"
      /\ UNCHANGED <<releases, current, command, config, serving>>
  BY <1>1, UndoOf DEF Deployment!UndoUnit, Deployment!Undoes, Deployment!UndoFails, Deployment!At,
     Deployment!links, Deployment!data
<1>3. unit' \in {unit, serverJob[j].prior.unit}
  BY DEF Deployment!UndoUnit, Deployment!Undoes, Deployment!UndoFails
<1>4. /\ Deployment!SelectionStands' /\ current' \in ServerVersion \cup {Deployment!NoVersion}
      /\ command' \in BOOLEAN /\ unit' \in BOOLEAN
  BY <1>2, <1>3 DEF DeployInv, DeployTypes, Deployment!SelectionStands, PriorType
<1>5. serverJob[j].prior.config => config' # "none"
  BY <1>2 DEF Returns
<1>6. \/ Deployment!Goto(j, "undo state") /\ unit' = serverJob[j].prior.unit
      \/ serverJob' = [serverJob EXCEPT ![j].pc = "undo state", ![j].failed = TRUE]
  BY DEF Deployment!UndoUnit, Deployment!Undoes, Deployment!UndoFails
<1>7. ASSUME serverJob'[j].pc = "undo state", serverJob'[j].prior = serverJob[j].prior, ~serverJob'[j].failed
      PROVE  Restored(serverJob[j])'
  <2>1. Deployment!Goto(j, "undo state") /\ unit' = serverJob[j].prior.unit
    BY <1>1, <1>2, <1>6, <1>7, FailsTo
  <2>2. ~serverJob[j].failed
    BY <1>1, <1>2, <1>7, <2>1, GoesTo
  <2>3. /\ serving = Deployment!NoVersion
        /\ current = serverJob[j].prior.current /\ command = serverJob[j].prior.command
    BY <1>2, <2>2 DEF Restored, UndoPlaces
  <2> QED
    BY <1>2, <1>7, <2>1, <2>3 DEF Restored, UndoPlaces
<1> QED
  BY <1>1, <1>2, <1>4, <1>5, <1>6, <1>7, UndoSteps

\* The state and the configuration: one the transaction copied is removed.
LEMMA UndoesData ==
  ASSUME OneJob, DeployInv, NEW j \in ServerJob,
         Deployment!UndoState(j) \/ Deployment!UndoConfiguration(j)
  PROVE  DeployInv'
<1>1. {"undo state", "undo config", "undo start"} \subseteq LatePlaces
  BY DEF LatePlaces, UndoPlaces
<1>2. /\ serverJob[j] \in LateType /\ serverJob[j].prior \in PriorType /\ Returns(serverJob[j])
      /\ ~serverJob[j].failed => Restored(serverJob[j])
      /\ serverJob[j].pc \in {"undo state", "undo config"}
      /\ UNCHANGED <<releases, current, command, unit, serving>>
  BY <1>1, UndoOf DEF Deployment!UndoState, Deployment!UndoConfiguration, Deployment!Undoes,
     Deployment!UndoFails, Deployment!At, Deployment!links, Deployment!manager
<1>3. /\ Deployment!SelectionStands' /\ current' \in ServerVersion \cup {Deployment!NoVersion}
      /\ command' \in BOOLEAN /\ unit' \in BOOLEAN
  BY <1>2 DEF DeployInv, DeployTypes, Deployment!SelectionStands
<1>4. PICK next \in {"undo config", "undo start"} :
        /\ next = "undo config" => ~serverJob[j].prior.config
        /\ \/ /\ Deployment!Goto(j, next)
              /\ next = "undo start" =>
                   \/ serverJob[j].prior.config /\ UNCHANGED config
                   \/ serverJob[j].pc = "undo config" /\ config' = "none"
           \/ serverJob' = [serverJob EXCEPT ![j].pc = next, ![j].failed = TRUE]
  <2>1. CASE Deployment!UndoState(j)
    BY <2>1 DEF Deployment!UndoState, Deployment!Undoes, Deployment!UndoFails
  <2>2. CASE Deployment!UndoConfiguration(j)
    BY <2>2 DEF Deployment!UndoConfiguration, Deployment!Undoes, Deployment!UndoFails,
       Deployment!At, Deployment!None
  <2> QED
    BY <2>1, <2>2
<1>5. serverJob[j].prior.config => config' # "none"
  <2>1. CASE UNCHANGED config
    BY <1>2, <2>1 DEF Returns
  <2>2. CASE serverJob[j].pc = "undo config"
    BY <1>2, <2>2 DEF Returns
  <2> QED
    BY <2>1, <2>2 DEF Deployment!UndoState, Deployment!UndoConfiguration, Deployment!Undoes,
       Deployment!UndoFails, Deployment!At
<1>6. next \in LatePlaces /\ next \notin {"config", "unit", "current"}
  BY <1>1
<1>7. ASSUME serverJob'[j].pc = next, serverJob'[j].prior = serverJob[j].prior, ~serverJob'[j].failed
      PROVE  Restored(serverJob[j])'
  <2>1. Deployment!Goto(j, next)
    BY <1>2, <1>4, <1>6, <1>7, FailsTo
  <2>2. ~serverJob[j].failed
    BY <1>2, <1>6, <1>7, <2>1, GoesTo
  <2>3. /\ serving = Deployment!NoVersion /\ unit = serverJob[j].prior.unit
        /\ current = serverJob[j].prior.current /\ command = serverJob[j].prior.command
    BY <1>2, <2>2 DEF Restored, UndoPlaces
  <2>4. next = "undo start" => ((config' # "none") <=> serverJob[j].prior.config)
    <3>1. next = "undo start" =>
            \/ serverJob[j].prior.config /\ UNCHANGED config
            \/ serverJob[j].pc = "undo config" /\ config' = "none"
      BY <1>2, <1>4, <1>6, <1>7, FailsTo
    <3>2. serverJob[j].pc = "undo config" => ~serverJob[j].prior.config
      BY <1>2 DEF Returns
    <3> QED
      BY <1>5, <3>1, <3>2
  <2>5. /\ serverJob'[j].pc \in {"undo config", "undo start"}
        /\ serverJob'[j].pc = "undo start" => ((config' # "none") <=> serverJob'[j].prior.config)
    BY <1>7, <2>4
  <2>6. /\ serving' = Deployment!NoVersion /\ unit' = serverJob'[j].prior.unit
        /\ current' = serverJob'[j].prior.current /\ command' = serverJob'[j].prior.command
    BY <1>2, <1>7, <2>3
  <2> QED
    BY <2>5, <2>6 DEF Restored
<1> QED
  BY <1>2, <1>3, <1>4, <1>5, <1>6, <1>7, UndoSteps

\* The service is up again if it was, and the rollback says so if it answers.
LEMMA UndoesStart ==
  ASSUME OneJob, DeployInv, NEW j \in ServerJob, Deployment!UndoStart(j)
  PROVE  DeployInv'
<1>1. "undo start" \in LatePlaces /\ "undo status" \in LatePlaces
  BY DEF LatePlaces, UndoPlaces
<1>2. /\ serverJob[j] \in LateType /\ serverJob[j].prior \in PriorType /\ Returns(serverJob[j])
      /\ ~serverJob[j].failed => Restored(serverJob[j])
      /\ serverJob[j].pc = "undo start"
      /\ UNCHANGED <<releases, current, command, unit, config>>
  BY <1>1, UndoOf DEF Deployment!UndoStart, Deployment!Undoes, Deployment!UndoFails, Deployment!At,
     Deployment!links, Deployment!data
<1>3. /\ Deployment!SelectionStands' /\ current' \in ServerVersion \cup {Deployment!NoVersion}
      /\ command' \in BOOLEAN /\ unit' \in BOOLEAN
  BY <1>2 DEF DeployInv, DeployTypes, Deployment!SelectionStands
<1>4. \/ /\ Deployment!Goto(j, "undo status")
         /\ serving' = IF serverJob[j].prior.active /\ serving = Deployment!NoVersion
                       THEN Deployment!Executable ELSE serving
      \/ serverJob' = [serverJob EXCEPT ![j].pc = "undo status", ![j].failed = TRUE]
  BY DEF Deployment!UndoStart, Deployment!Undoes, Deployment!UndoFails
<1>5. serverJob[j].prior.config => config' # "none"
  BY <1>2 DEF Returns
<1>6. ASSUME serverJob'[j].pc = "undo status", serverJob'[j].prior = serverJob[j].prior, ~serverJob'[j].failed
      PROVE  Restored(serverJob[j])'
  <2>1. /\ Deployment!Goto(j, "undo status")
        /\ serving' = IF serverJob[j].prior.active /\ serving = Deployment!NoVersion
                      THEN Deployment!Executable ELSE serving
    BY <1>1, <1>2, <1>4, <1>6, FailsTo
  <2>2. ~serverJob[j].failed
    BY <1>1, <1>2, <1>6, <2>1, GoesTo
  <2>3. /\ serving = Deployment!NoVersion /\ unit = serverJob[j].prior.unit
        /\ current = serverJob[j].prior.current /\ command = serverJob[j].prior.command
        /\ ((config # "none") <=> serverJob[j].prior.config)
    BY <1>2, <2>2 DEF Restored, UndoPlaces
  <2>4. Deployment!Executable' = Deployment!Executable
    BY <1>2 DEF Deployment!Executable
  <2>5. serving' = IF serverJob'[j].prior.active THEN Deployment!Executable' ELSE Deployment!NoVersion
    BY <1>6, <2>1, <2>3, <2>4
  <2>6. /\ unit' = serverJob'[j].prior.unit
        /\ current' = serverJob'[j].prior.current /\ command' = serverJob'[j].prior.command
        /\ ((config' # "none") <=> serverJob'[j].prior.config)
    BY <1>2, <1>6, <2>3
  <2> QED
    BY <1>6, <2>5, <2>6 DEF Restored, UndoPlaces
<1> QED
  BY <1>1, <1>2, <1>3, <1>4, <1>5, <1>6, UndoSteps

\* A server that ran has to answer before the rollback reports success.
LEMMA UndoesStatus ==
  ASSUME OneJob, DeployInv, NEW j \in ServerJob, Deployment!UndoStatus(j)
  PROVE  DeployInv'
<1>1. "rolled back" \in LatePlaces /\ "undo status" \in LatePlaces
  BY DEF LatePlaces, UndoPlaces
<1>2. /\ serverJob[j] \in LateType /\ serverJob[j].prior \in PriorType /\ Returns(serverJob[j])
      /\ ~serverJob[j].failed => Restored(serverJob[j])
      /\ serverJob[j].pc = "undo status"
      /\ UNCHANGED <<releases, current, command, unit, config, serving>>
  BY <1>1, UndoOf DEF Deployment!UndoStatus, Deployment!At, Deployment!host, Deployment!links,
     Deployment!manager, Deployment!data
<1> DEFINE silent == serverJob[j].prior.active /\ ~Deployment!Answers
           q == [serverJob[j] EXCEPT !.pc = "rolled back", !.failed = serverJob[j].failed \/ silent]
<1>3. serverJob' = [serverJob EXCEPT ![j] = q]
  BY <1>2 DEF Deployment!UndoStatus, DeployInv, DeployTypes
<1>4. q \in LateType /\ q.pc = "rolled back" /\ q.prior = serverJob[j].prior
  <2>1. (serverJob[j].failed \/ silent) \in BOOLEAN
    OBVIOUS
  <2> HIDE DEF silent
  <2> QED
    BY <1>1, <1>2, <2>1 DEF LateType
<1>5. ~q.failed => ~serverJob[j].failed /\ ~silent
  BY <1>2 DEF LateType
<1> HIDE DEF q
<1>6. serverJob'[j] = q /\ serverJob' \in [ServerJob -> VerbType]
  BY <1>3, <1>4 DEF DeployInv, DeployTypes, VerbType
<1>7. Returns(serverJob[j])'
  BY <1>2, <1>4, <1>6 DEF Returns
<1>8. ASSUME ~serverJob'[j].failed PROVE Restored(serverJob[j])'
  <2>1. ~serverJob[j].failed /\ ~silent
    BY <1>5, <1>6, <1>8
  <2>2. /\ unit = serverJob[j].prior.unit
        /\ current = serverJob[j].prior.current /\ command = serverJob[j].prior.command
        /\ ((config # "none") <=> serverJob[j].prior.config)
        /\ serving = IF serverJob[j].prior.active THEN Deployment!Executable ELSE Deployment!NoVersion
    BY <1>2, <2>1 DEF Restored, UndoPlaces
  <2>3. serving = IF serverJob[j].prior.active THEN serverJob[j].prior.current ELSE Deployment!NoVersion
    BY <2>1, <2>2 DEF Deployment!Answers, Deployment!Executable
  <2>4. serverJob'[j].pc = "rolled back" /\ serverJob'[j].prior = serverJob[j].prior
    BY <1>4, <1>6
  <2> QED
    BY <1>2, <2>2, <2>3, <2>4 DEF Restored, UndoPlaces
<1>9. Deployment!SelectionStands'
  BY <1>2 DEF DeployInv, Deployment!SelectionStands
<1> QED
  BY <1>2, <1>4, <1>6, <1>7, <1>8, <1>9, LateSteps DEF DeployInv, DeployTypes

\* A job that is over, by itself or by a kill.
LEMMA DoneSteps ==
  ASSUME OneJob, DeployInv, NEW j \in ServerJob,
         \/ Deployment!RolledBack(j) \/ Deployment!Uninstalled(j) \/ Deployment!UninstallFails(j)
         \/ Deployment!Kill(j)
  PROVE  DeployInv'
<1>1. UNCHANGED <<releases, current, command, unit>> /\ Deployment!Ends(j)
  BY DEF Deployment!RolledBack, Deployment!Uninstalled, Deployment!UninstallFails, Deployment!Kill,
     Deployment!host, Deployment!links, Deployment!manager
<1> QED
  BY <1>1, VerbEnds DEF DeployInv, DeployTypes, Deployment!SelectionStands

\* The uninstall removes the selection together with the releases.
LEMMA RemovalSteps ==
  ASSUME OneJob, DeployInv, NEW j \in ServerJob,
         \/ Deployment!StopAndDisable(j) \/ Deployment!RemoveTimer(j) \/ Deployment!Preserve(j)
         \/ Deployment!PurgeRoot(j) \/ Deployment!PurgeFiles(j) \/ Deployment!PurgeData(j)
  PROVE  DeployInv'
<1> DEFINE Stops == {"disable", "timer", "unit", "link", "purge root", "purge files", "purge data", "done"}
<1>1. PICK next \in Stops : Deployment!Goto(j, next) /\ serverJob[j].op = "uninstall"
  <2>1. {IF serverJob[j].purge THEN "purge root" ELSE "unit"} \subseteq Stops
    OBVIOUS
  <2> QED
    BY <2>1 DEF Deployment!StopAndDisable, Deployment!RemoveTimer, Deployment!Preserve, Deployment!PurgeRoot,
       Deployment!PurgeFiles, Deployment!PurgeData, Deployment!UninstallStep, Deployment!At
<1>2. serverJob[j] \in RemovalType
  BY <1>1, VerbKeeps DEF DeployInv, DeployTypes
<1>3. [serverJob[j] EXCEPT !.pc = next] \in RemovalType
  BY <1>2 DEF RemovalType
<1>4. \A r \in RemovalType : r \in VerbType /\ r \notin LateType
  BY DEF VerbType, RemovalType, LateType
<1>5. serverJob' = [serverJob EXCEPT ![j] = [serverJob[j] EXCEPT !.pc = next]]
  BY <1>1 DEF Deployment!Goto
<1>6. /\ \/ UNCHANGED <<releases, current>>
         \/ releases' = {} /\ current' = Deployment!NoVersion
      /\ command' \in {command, FALSE} /\ unit' \in {unit, FALSE}
  BY DEF Deployment!StopAndDisable, Deployment!RemoveTimer, Deployment!Preserve, Deployment!PurgeRoot,
     Deployment!PurgeFiles, Deployment!PurgeData, Deployment!links, Deployment!manager
<1>7. /\ releases' \subseteq ServerVersion /\ current' \in ServerVersion \cup {Deployment!NoVersion}
      /\ command' \in BOOLEAN /\ unit' \in BOOLEAN /\ Deployment!SelectionStands'
  BY <1>6 DEF DeployInv, DeployTypes, Deployment!SelectionStands
<1> QED
  BY <1>3, <1>4, <1>5, <1>7, OtherSteps

\* No job is at work.
LEMMA IdleSteps ==
  ASSUME DeployTypes', Deployment!SelectionStands', \A j \in ServerJob : serverJob'[j] = Deployment!Idle
  PROVE  DeployInv'
<1>1. Deployment!Idle \notin LateType
  BY DEF LateType, Deployment!Idle, Deployment!None
<1> QED
  BY <1>1 DEF DeployInv, Transacts

\* What runs between jobs: a prune spares the selection.
LEMMA BetweenSteps ==
  ASSUME DeployInv, Deployment!Alone,
         \/ Deployment!AutoUpdateOn \/ Deployment!AutoUpdateOff \/ Deployment!Prune
         \/ Deployment!Service \/ Deployment!ServiceUnit
  PROVE  DeployInv'
<1>1. UNCHANGED <<current, command, serverJob>> /\ unit' \in BOOLEAN
  BY DEF Deployment!AutoUpdateOn, Deployment!AutoUpdateOff, Deployment!Prune, Deployment!Service,
     Deployment!ServiceUnit, Deployment!links, Deployment!manager, DeployInv, DeployTypes
<1>2. releases' \subseteq releases /\ (current \in releases => current \in releases')
  <2>1. CASE Deployment!Prune
    BY <2>1 DEF Deployment!Prune, Deployment!Pruned
  <2>2. CASE UNCHANGED releases
    BY <2>2
  <2> QED
    BY <2>1, <2>2 DEF Deployment!AutoUpdateOn, Deployment!AutoUpdateOff, Deployment!Service,
       Deployment!ServiceUnit
<1>3. DeployTypes' /\ Deployment!SelectionStands'
  BY <1>1, <1>2 DEF DeployInv, DeployTypes, Deployment!SelectionStands
<1> QED
  BY <1>1, <1>3, IdleSteps DEF Deployment!Alone

\* A server that writes, and a reboot.
LEMMA HostGoesOn ==
  ASSUME DeployInv, Deployment!ServerWrites \/ Deployment!Reboot
  PROVE  DeployInv'
<1>1. CASE Deployment!ServerWrites
  BY <1>1 DEF Deployment!ServerWrites, Deployment!links, Deployment!manager, DeployInv, DeployTypes,
     Deployment!SelectionStands, Transacts, Returns, Restored, Deployment!Executable
<1>2. CASE Deployment!Reboot
  <2>1. serverJob' = [j \in ServerJob |-> Deployment!Idle] /\ UNCHANGED <<releases, current, command, unit>>
    BY <1>2 DEF Deployment!Reboot, Deployment!links
  <2>2. DeployTypes' /\ Deployment!SelectionStands'
    BY <2>1 DEF DeployInv, DeployTypes, VerbType, Deployment!SelectionStands
  <2> QED
    BY <2>1, <2>2, IdleSteps
<1> QED
  BY <1>1, <1>2

\* Every step of a job, of the verbs between jobs and of the host.
LEMMA DeploySteps == ASSUME OneJob, DeployInv, [Deployment!Next]_(Deployment!vars) PROVE DeployInv'
<1>1. CASE UNCHANGED Deployment!vars
  BY <1>1 DEF Deployment!vars, Deployment!host, Deployment!links, Deployment!manager, Deployment!data,
     DeployInv, DeployTypes, Deployment!SelectionStands, Transacts, Returns, Restored,
     Deployment!Executable
<1>2. CASE Deployment!Next
  BY <1>2, StartSteps, EarlySteps, StagingSteps, ConfigurationSteps, SelectionSteps, TrialSteps,
     UndoStops, UndoesLinks, UndoesUnit, UndoesData, UndoesStart, UndoesStatus, DoneSteps,
     RemovalSteps, BetweenSteps, HostGoesOn
     DEF Deployment!Next
<1> QED
  BY <1>1, <1>2

\* While the verbs do not overlap, a transaction selects only a staged release,
\* what it may go back to is on disk, and each step of a rollback that failed at
\* none has put back its part.
THEOREM DeploymentCoherent == ASSUME OneJob PROVE Deployment!Spec => []DeployInv
<1>1. DeployInv /\ [Deployment!Next]_(Deployment!vars) => DeployInv'
  BY DeploySteps
<1> QED
  BY <1>1, DeployInit, PTL DEF Deployment!Spec

\* A behaviour of the deployment is one of Deploy.
LEMMA DeployPart ==
  /\ HostsSpec /\ part = "deploy" => Deployment!Spec
  /\ HostsSpec /\ ~(part = "deploy") => []~(part = "deploy")
<1>1. HostsInit /\ part = "deploy" => Deployment!Init
  BY DEF HostsInit
<1>2. part = "deploy" /\ [HostsNext]_hostsVars => (part = "deploy")' /\ [Deployment!Next]_(Deployment!vars)
  BY DEF HostsNext, hostsVars, serverVars, Deployment!vars, Deployment!host, Deployment!links,
     Deployment!manager, Deployment!data
<1>3. ~(part = "deploy") /\ [HostsNext]_hostsVars => ~(part = "deploy")'
  BY DEF HostsNext, hostsVars
<1> QED
  BY <1>1, <1>2, <1>3, PTL DEF HostsSpec, Deployment!Spec

\* The release that `current` names is on disk after every step of every verb.
THEOREM SelectionAlwaysStands == ASSUME OneJob PROVE HostsSpec => []SelectionStands
<1>1. DeployInv => SelectionStands
  BY DEF DeployInv, SelectionStands
<1>2. ~(part = "deploy") => SelectionStands
  BY DEF SelectionStands
<1> QED
  BY DeployPart, DeploymentCoherent, <1>1, <1>2, PTL

\* A rollback that reports success put back the selection, the command link, the
\* unit, the configuration and the server that ran.
THEOREM RollbacksRestore ==
  ASSUME OneJob PROVE HostsSpec => []RollbackRestores
<1>1. DeployInv => RollbackRestores
  <2> SUFFICES ASSUME DeployInv, NEW j \in ServerJob, Deployment!At(j, "transaction", "rolled back"),
                      ~serverJob[j].failed
               PROVE  LET p == serverJob[j].prior IN
                        /\ current = p.current /\ command = p.command /\ unit = p.unit
                        /\ (config # "none") <=> p.config
                        /\ IF p.active THEN serving = p.current ELSE serving = Deployment!NoVersion
    BY DEF RollbackRestores, Deployment!RollbackRestores, Deployment!None
  <2>1. "rolled back" \in LatePlaces
    BY DEF LatePlaces
  <2>2. Restored(serverJob[j]) /\ serverJob[j].pc = "rolled back"
    BY <2>1, UndoOf DEF Deployment!At
  <2> QED
    BY <2>2 DEF Restored
<1>2. ~(part = "deploy") => RollbackRestores
  BY DEF RollbackRestores
<1> QED
  BY DeployPart, DeploymentCoherent, <1>1, <1>2, PTL

---------------------------------------------------------------------------
(* LogFile: what a follower prints. *)

\* Appends that have not yet written their record.
Pending == {"remove", "shift", "open", "line"}
WriterType == [pc : {"idle", "end", "down"} \cup Pending, file : Nat, size : Int, k : Int]
ReaderType == [pc : {"none", "history", "drain", "reopen"}, file : Nat, pos : Nat, partial : Seq(Int)]

LogTypes ==
  /\ content \in Seq(Seq(Int)) /\ Len(content) # 0
  /\ DOMAIN name = 0 .. Retained
  /\ appender \in WriterType /\ begun \in Nat
  /\ reader \in ReaderType /\ printed \in Seq(Int)

\* The active name leads to the newest file, if to any, and so does the writer.
Newest ==
  /\ name[0] \in {0, Len(content)}
  /\ appender.pc = "down" \/ appender.file = Len(content)

\* Records are numbered as they are appended, and files as they are created.
Ordered ==
  \A f, g \in 1 .. Len(content) : \A i \in 1 .. Len(content[f]), j \in 1 .. Len(content[g]) :
    /\ content[f][i] > 0 /\ content[g][j] > 0
    /\ f < g \/ (f = g /\ i < j)
    => content[f][i] < content[g][j]

Fresh ==
  \A f \in 1 .. Len(content) : \A i \in 1 .. Len(content[f]) :
    /\ content[f][i] <= begun
    /\ appender.pc \in Pending => content[f][i] < begun

\* What the reader holds back is the end of what it has read of its file.
HoldsBack ==
  /\ reader.file <= Len(content)
  /\ reader.file = 0 => reader.pos = 0 /\ reader.partial = <<>>
  /\ reader.file # 0 =>
       /\ reader.pos <= Len(content[reader.file]) /\ Len(reader.partial) <= reader.pos
       /\ \A k \in 1 .. Len(reader.partial) :
            reader.partial[k] = content[reader.file][reader.pos - Len(reader.partial) + k]

\* A record of file f that was printed once the reader is at p of file r.
Past(x, r, p) ==
  \E f \in 1 .. r : \E i \in 1 .. Len(content[f]) :
    x = content[f][i] /\ x > 0 /\ (f = r => i <= p)

AlreadyRead ==
  \A n \in 1 .. Len(printed) :
    Past(printed[n], reader.file, reader.pos - Len(reader.partial))

LogInv ==
  /\ LogTypes /\ Newest /\ Ordered /\ Fresh /\ HoldsBack /\ AlreadyRead
  /\ reader.pc = "none" => printed = <<>>
  /\ Logs!PrintedInOrder

\* The module counts as this one does.
LEMMA SameCount == \A S : Logs!Cardinality(S) = Cardinality(S)
BY DEF Logs!Cardinality, Cardinality

\* Counting the places of a set up to one of them enumerates it in order.
Rank(S, i) == Cardinality({k \in S : k <= i})

LEMMA Ranked ==
  ASSUME NEW top \in Nat, NEW S \in SUBSET (1 .. top)
  PROVE  /\ IsFiniteSet(S) /\ Cardinality(S) \in Nat
         /\ \A i \in S : Rank(S, i) \in 1 .. Cardinality(S)
         /\ \A i, j \in S : i < j => Rank(S, i) < Rank(S, j)
         /\ \A n \in 1 .. Cardinality(S) : \E i \in S : Rank(S, i) = n
<1>1. IsFiniteSet(S)
  <2>1. IsFiniteSet(1 .. top)
    BY FS_Interval
  <2> QED
    BY <2>1, FS_Subset
<1>2. Cardinality(S) \in Nat
  BY <1>1, FS_CardinalityType
<1>3. ASSUME NEW i \in S
      PROVE  /\ IsFiniteSet({k \in S : k <= i}) /\ Rank(S, i) \in 1 .. Cardinality(S)
  <2> DEFINE T == {k \in S : k <= i}
  <2>1. T \in SUBSET S /\ i \in T
    OBVIOUS
  <2> HIDE DEF T
  <2>2. IsFiniteSet(T) /\ Cardinality(T) <= Cardinality(S) /\ Cardinality(T) \in Nat
    BY <1>1, <2>1, FS_Subset, FS_CardinalityType
  <2>3. Cardinality(T) # 0
    BY <2>1, <2>2, FS_EmptySet
  <2>4. Cardinality(T) \in 1 .. Cardinality(S)
    BY <1>2, <2>2, <2>3
  <2> QED
    BY <2>2, <2>4 DEF T, Rank
<1>4. ASSUME NEW i \in S, NEW j \in S, i < j
      PROVE  Rank(S, i) < Rank(S, j)
  <2> DEFINE T == {k \in S : k <= i}
             U == {k \in S : k <= j}
  <2>1. T \in SUBSET U /\ j \in U /\ j \notin T
    <3>1. \A k \in S : k \in Int
      OBVIOUS
    <3>2. \A k \in T : k \in U
      BY <1>4, <3>1
    <3>3. j \in U /\ j \notin T
      BY <1>4, <3>1
    <3> QED
      BY <3>2, <3>3
  <2>2. IsFiniteSet(U) /\ Cardinality(U) \in Nat
    BY <1>3, FS_CardinalityType
  <2> HIDE DEF T, U
  <2>3. Cardinality(T) <= Cardinality(U) /\ Cardinality(T) # Cardinality(U) /\ Cardinality(T) \in Nat
    BY <2>1, <2>2, FS_Subset, FS_CardinalityType
  <2>4. Cardinality(T) < Cardinality(U)
    BY <2>2, <2>3
  <2> QED
    BY <2>4 DEF T, U, Rank
<1>5. \A n \in 1 .. Cardinality(S) : \E i \in S : Rank(S, i) = n
  <2> DEFINE r == [i \in S |-> Rank(S, i)]
             N == 1 .. Cardinality(S)
  <2>1. \A i, j \in S : r[i] = r[j] => i = j
    <3> SUFFICES ASSUME NEW i \in S, NEW j \in S, i # j PROVE Rank(S, i) # Rank(S, j)
      OBVIOUS
    <3>1. i < j \/ j < i
      OBVIOUS
    <3>2. Rank(S, i) < Rank(S, j) \/ Rank(S, j) < Rank(S, i)
      BY <1>4, <3>1
    <3>3. Rank(S, i) \in 1 .. Cardinality(S) /\ Rank(S, j) \in 1 .. Cardinality(S)
      BY <1>3
    <3>4. \A n \in 1 .. Cardinality(S) : n \in Int
      OBVIOUS
    <3> QED
      BY <3>2, <3>3, <3>4
  <2>2. r \in [S -> N]
    BY <1>3
  <2> HIDE DEF r
  <2>3. r \in Injection(S, N)
    BY <2>1, <2>2 DEF Injection, IsInjective
  <2>4. IsFiniteSet(N) /\ Cardinality(N) = Cardinality(S)
    BY <1>2, FS_Interval
  <2>5. r \in Surjection(S, N)
    BY <2>3, <2>4, FS_Injection
  <2> QED
    BY <2>5 DEF Surjection, r
<1> QED
  BY <1>1, <1>2, <1>3, <1>4, <1>5

\* The records of a text, at increasing places of it.
LEMMA RecordsOf ==
  ASSUME NEW text \in Seq(Int)
  PROVE  /\ Logs!Records(text) \in Seq(Int)
         /\ \E at \in [1 .. Len(Logs!Records(text)) -> 1 .. Len(text)] :
              /\ \A n \in 1 .. Len(Logs!Records(text)) :
                   Logs!Records(text)[n] = text[at[n]] /\ text[at[n]] > 0
              /\ \A m, n \in 1 .. Len(Logs!Records(text)) : m < n => at[m] < at[n]
<1> DEFINE S == {i \in 1 .. Len(text) : Logs!Alone(text, i) /\ text[i] > 0}
           c == Cardinality(S)
           at == [n \in 1 .. c |-> Logs!Nth(S, n)]
           R == [n \in 1 .. c |-> text[at[n]]]
<1>1. Len(text) \in Nat /\ S \in SUBSET (1 .. Len(text)) /\ \A i \in S : text[i] > 0 /\ text[i] \in Int
  OBVIOUS
<1>2. Logs!Records(text) = R
  BY SameCount DEF Logs!Records
<1> HIDE DEF S
<1>3. c \in Nat
  BY <1>1, Ranked
<1>4. ASSUME NEW n \in 1 .. c
      PROVE  at[n] \in S /\ Rank(S, at[n]) = n
  <2>1. \E i \in S : Rank(S, i) = n
    BY <1>1, Ranked
  <2>2. Logs!Nth(S, n) \in S /\ Rank(S, Logs!Nth(S, n)) = n
    BY <2>1, SameCount DEF Logs!Nth, Rank
  <2> QED
    BY <2>2
<1>5. at \in [1 .. c -> 1 .. Len(text)]
  BY <1>1, <1>4
<1>6. R \in Seq(Int) /\ Len(R) = c
  <2>1. R \in [1 .. c -> Int]
    BY <1>1, <1>4
  <2> QED
    BY <1>3, <2>1
<1>7. \A n \in 1 .. c : R[n] = text[at[n]] /\ text[at[n]] > 0
  BY <1>1, <1>4
<1>8. ASSUME NEW m \in 1 .. c, NEW n \in 1 .. c, m < n PROVE at[m] < at[n]
  <2>1. at[m] \in S /\ at[n] \in S /\ Rank(S, at[m]) = m /\ Rank(S, at[n]) = n
    BY <1>4
  <2>2. ~(at[n] < at[m])
    <3>1. at[n] < at[m] => Rank(S, at[n]) < Rank(S, at[m])
      BY <1>1, <2>1, Ranked
    <3> QED
      BY <1>3, <1>8, <2>1, <3>1
  <2>3. at[n] # at[m]
    BY <1>3, <1>8, <2>1
  <2> QED
    <3> HIDE DEF at
    <3>1. at[m] \in Int /\ at[n] \in Int
      <4>1. at[m] \in 1 .. Len(text) /\ at[n] \in 1 .. Len(text)
        BY <1>1, <2>1
      <4> QED
        BY <4>1
    <3> QED
      BY <2>2, <2>3, <3>1
<1> HIDE DEF at, R, c
<1> QED
  BY <1>2, <1>5, <1>6, <1>7, <1>8

\* A text ends its last complete line somewhere.
LEMMA CompleteOf ==
  ASSUME NEW text \in Seq(Int)
  PROVE  Logs!Complete(text) \in 0 .. Len(text)
<1> DEFINE S == {i \in 1 .. Len(text) : text[i] = 0}
           Last(n) == /\ n = 0 \/ text[n] = Logs!Lf
                      /\ \A m \in n + 1 .. Len(text) : text[m] # Logs!Lf
<1>1. Len(text) \in Nat /\ S \in SUBSET (1 .. Len(text))
  OBVIOUS
<1>2. \E n \in 0 .. Len(text) : Last(n)
  <2>1. CASE S = {}
    <3>1. Last(0)
      BY <1>1, <2>1 DEF Logs!Lf
    <3> QED
      BY <1>1, <3>1
  <2>2. CASE S # {}
    <3>1. Cardinality(S) \in Nat /\ Cardinality(S) # 0
      <4> HIDE DEF S
      <4> QED
        BY <1>1, <2>2, Ranked, FS_EmptySet
    <3>2. PICK n \in S : Rank(S, n) = Cardinality(S)
      <4> HIDE DEF S
      <4>1. Cardinality(S) \in 1 .. Cardinality(S)
        BY <3>1
      <4> QED
        BY <1>1, <4>1, Ranked
    <3>3. ASSUME NEW m \in S PROVE ~(n < m)
      <4> HIDE DEF S
      <4>1. Rank(S, m) \in 1 .. Cardinality(S)
        BY <1>1, Ranked
      <4>2. n < m => Rank(S, n) < Rank(S, m)
        BY <1>1, Ranked
      <4> QED
        BY <3>1, <3>2, <4>1, <4>2
    <3>4. Last(n)
      BY <1>1, <3>3 DEF Logs!Lf
    <3> QED
      BY <1>1, <3>4
  <2> QED
    BY <2>1, <2>2
<1> QED
  BY <1>2 DEF Logs!Complete

\* Nothing was appended, and nobody reads.
LEMMA LogInit == ASSUME Retained \in Nat PROVE Logs!Init => LogInv
<1> SUFFICES ASSUME Logs!Init PROVE LogInv
  OBVIOUS
<1> USE DEF Logs!Init
<1>1. content = <<<<>>>> /\ Len(content) = 1 /\ content[1] = <<>> /\ content \in Seq(Seq(Int))
  <2>1. <<>> \in Seq(Int)
    OBVIOUS
  <2> QED
    BY <2>1
<1>2. LogTypes
  <2>1. appender \in WriterType
    BY DEF Logs!NewWriter, WriterType
  <2>2. reader \in ReaderType
    BY DEF Logs!NewReader, Logs!NoFile, ReaderType
  <2> QED
    BY <1>1, <2>1, <2>2 DEF LogTypes
<1>3. Newest
  BY <1>1 DEF Newest, Logs!NewWriter
<1>4. Ordered /\ Fresh
  BY <1>1 DEF Ordered, Fresh
<1>5. HoldsBack
  BY <1>1 DEF HoldsBack, Logs!NewReader, Logs!NoFile
<1>6. AlreadyRead /\ Logs!PrintedInOrder
  BY DEF AlreadyRead, Logs!PrintedInOrder
<1> QED
  BY <1>2, <1>3, <1>4, <1>5, <1>6 DEF LogInv

\* The server's steps: files only grow, and the new ones come after the others.
Grows ==
  /\ content' \in Seq(Seq(Int)) /\ Len(content) <= Len(content')
  /\ \A f \in 1 .. Len(content) :
       /\ Len(content[f]) <= Len(content'[f])
       /\ \A i \in 1 .. Len(content[f]) : content'[f][i] = content[f][i]

\* There is a file, and each is a text.
LEMMA TextOf ==
  ASSUME LogInv
  PROVE  /\ Len(content) \in Nat \ {0}
         /\ \A f \in 1 .. Len(content) :
              /\ content[f] \in Seq(Int) /\ Len(content[f]) \in Nat
              /\ \A i \in 1 .. Len(content[f]) : content[f][i] \in Int
BY DEF LogInv, LogTypes

\* What was read stays where it was.
LEMMA ServerSteps ==
  ASSUME LogInv, Grows, UNCHANGED <<reader, printed>>, DOMAIN name' = 0 .. Retained,
         appender' \in WriterType, begun' \in Nat, Newest', Ordered', Fresh'
  PROVE  LogInv'
<1>1. reader.file \in Nat /\ reader.pos \in Nat /\ Len(reader.partial) \in Nat /\ reader.file <= Len(content)
  BY DEF LogInv, LogTypes, ReaderType, HoldsBack
<1>2. Len(content) \in Nat /\ Len(content') \in Nat /\ Len(content') # 0
  BY TextOf DEF Grows
<1>3. LogTypes'
  BY <1>2 DEF LogInv, LogTypes, Grows
<1>4. HoldsBack'
  <2>1. CASE reader.file = 0
    BY <1>1, <1>2, <2>1 DEF LogInv, HoldsBack
  <2>2. CASE reader.file # 0
    <3> DEFINE f == reader.file
               p == reader.pos - Len(reader.partial)
    <3>1. f \in 1 .. Len(content) /\ Len(content[f]) \in Nat /\ Len(content'[f]) \in Nat
      BY <1>1, <1>2, <2>2, TextOf DEF Grows
    <3>2. reader.pos <= Len(content[f]) /\ Len(reader.partial) <= reader.pos
      BY <2>2 DEF LogInv, HoldsBack
    <3>3. Len(content[f]) <= Len(content'[f])
      BY <3>1 DEF Grows
    <3>4. reader.pos <= Len(content'[f])
      BY <1>1, <3>1, <3>2, <3>3
    <3>5. ASSUME NEW k \in 1 .. Len(reader.partial)
          PROVE  reader.partial[k] = content'[f][p + k]
      <4>1. p + k \in 1 .. Len(content[f])
        BY <1>1, <3>1, <3>2
      <4>2. reader.partial[k] = content[f][p + k]
        BY <2>2 DEF LogInv, HoldsBack
      <4> HIDE DEF p
      <4> QED
        BY <3>1, <4>1, <4>2 DEF Grows
    <3>6. f <= Len(content')
      BY <1>1, <1>2 DEF Grows
    <3> QED
      BY <2>2, <3>2, <3>4, <3>5, <3>6 DEF HoldsBack
  <2> QED
    BY <2>1, <2>2
<1>5. AlreadyRead'
  <2> SUFFICES ASSUME NEW n \in 1 .. Len(printed')
               PROVE  \E f \in 1 .. reader'.file : \E i \in 1 .. Len(content'[f]) :
                        /\ printed'[n] = content'[f][i] /\ printed'[n] > 0
                        /\ f = reader'.file => i <= reader'.pos - Len(reader'.partial)
    BY DEF AlreadyRead, Past
  <2>1. PICK f \in 1 .. reader.file : \E i \in 1 .. Len(content[f]) :
          /\ printed[n] = content[f][i] /\ printed[n] > 0
          /\ f = reader.file => i <= reader.pos - Len(reader.partial)
    BY DEF LogInv, AlreadyRead, Past
  <2>2. PICK i \in 1 .. Len(content[f]) :
          /\ printed[n] = content[f][i] /\ printed[n] > 0
          /\ f = reader.file => i <= reader.pos - Len(reader.partial)
    BY <2>1
  <2>3. f \in 1 .. Len(content)
    BY <1>1, <1>2
  <2>4. i \in 1 .. Len(content'[f]) /\ content'[f][i] = content[f][i]
    <3>1. Len(content[f]) \in Nat /\ Len(content'[f]) \in Nat
      BY <1>2, <2>3, TextOf DEF Grows
    <3> QED
      BY <2>3, <3>1 DEF Grows
  <2> QED
    BY <2>2, <2>4
<1>6. Logs!PrintedInOrder' /\ (reader'.pc = "none" => printed' = <<>>)
  BY DEF LogInv, Logs!PrintedInOrder
<1> QED
  BY <1>3, <1>4, <1>5, <1>6 DEF LogInv

\* The writer moves, a name may, and no file changes.
LEMMA NameSteps ==
  ASSUME LogInv, UNCHANGED <<content, reader, printed>>, DOMAIN name' = 0 .. Retained,
         appender' \in WriterType, begun' \in Nat, begun <= begun', Newest',
         appender'.pc \in Pending => appender.pc \in Pending \/ begun < begun'
  PROVE  LogInv'
<1>1. Grows
  BY TextOf DEF Grows, LogInv, LogTypes
<1>2. Ordered'
  BY DEF LogInv, Ordered
<1>3. Fresh'
  <2> SUFFICES ASSUME NEW f \in 1 .. Len(content), NEW i \in 1 .. Len(content[f])
               PROVE  /\ content[f][i] <= begun'
                      /\ appender'.pc \in Pending => content[f][i] < begun'
    BY DEF Fresh
  <2>1. /\ content[f][i] <= begun /\ content[f][i] \in Int /\ begun \in Nat
        /\ appender.pc \in Pending => content[f][i] < begun
    BY TextOf DEF LogInv, LogTypes, Fresh
  <2> QED
    BY <2>1
<1> QED
  BY <1>1, <1>2, <1>3, ServerSteps

\* A write to the newest file: the record whose append began, or no record.
LEMMA WriteSteps ==
  ASSUME LogInv, NEW token \in Int, Logs!Writes(token), UNCHANGED <<name, reader, printed, begun>>,
         appender.file = Len(content), appender' \in WriterType, appender'.file = appender.file,
         appender'.pc \notin Pending,
         token <= 0 \/ (token = begun /\ appender.pc \in Pending)
  PROVE  LogInv'
<1> DEFINE l == Len(content)
           t == content[l]
<1>1. /\ l = Len(content) /\ l \in Nat \ {0} /\ l \in 1 .. l /\ content \in Seq(Seq(Int))
      /\ t = content[l] /\ t \in Seq(Int) /\ Len(t) \in Nat /\ begun \in Nat
  BY TextOf DEF LogInv, LogTypes
<1>2. content' = [content EXCEPT ![l] = Append(t, token)]
  BY DEF Logs!Writes
<1>3. /\ content' \in Seq(Seq(Int)) /\ Len(content') = l
      /\ \A f \in 1 .. l : content'[f] = IF f = l THEN Append(t, token) ELSE content[f]
  <2>1. Append(t, token) \in Seq(Int)
    BY <1>1
  <2> HIDE DEF t, l
  <2> QED
    BY <1>1, <1>2, <2>1, ExceptSeq
<1>4. /\ Len(Append(t, token)) = Len(t) + 1
      /\ \A i \in 1 .. Len(t) : Append(t, token)[i] = t[i]
      /\ Append(t, token)[Len(t) + 1] = token
  BY <1>1
<1>5. \A f \in 1 .. l : \A i \in 1 .. Len(content'[f]) :
        \/ i \in 1 .. Len(content[f]) /\ content'[f][i] = content[f][i]
        \/ f = l /\ i = Len(t) + 1 /\ content'[f][i] = token
  <2> HIDE DEF l
  <2> SUFFICES ASSUME NEW f \in 1 .. l, NEW i \in 1 .. Len(content'[f])
               PROVE  \/ i \in 1 .. Len(content[f]) /\ content'[f][i] = content[f][i]
                      \/ f = l /\ i = Len(t) + 1 /\ content'[f][i] = token
    OBVIOUS
  <2>1. CASE f # l
    BY <1>3, <2>1
  <2>2. CASE f = l
    <3> HIDE DEF t
    <3>1. content'[f] = Append(t, token) /\ content[f] = t
      BY <1>3, <2>2 DEF t
    <3> QED
      BY <1>1, <1>4, <2>2, <3>1
  <2> QED
    BY <2>1, <2>2
<1>6. Grows
  <2> HIDE DEF l
  <2> SUFFICES ASSUME NEW f \in 1 .. l
               PROVE  /\ Len(content[f]) <= Len(content'[f])
                      /\ \A i \in 1 .. Len(content[f]) : content'[f][i] = content[f][i]
    BY <1>1, <1>3 DEF Grows
  <2>1. CASE f # l
    <3>1. content'[f] = content[f] /\ Len(content[f]) \in Nat
      BY <1>3, <2>1, TextOf DEF l
    <3> QED
      BY <3>1
  <2>2. CASE f = l
    <3> HIDE DEF t
    <3>1. content'[f] = Append(t, token) /\ content[f] = t
      BY <1>3, <2>2 DEF t
    <3> QED
      BY <1>1, <1>4, <3>1
  <2> QED
    BY <2>1, <2>2
<1> HIDE DEF t, l
<1>7. Ordered'
  <2> SUFFICES ASSUME NEW f \in 1 .. l, NEW g \in 1 .. l,
                      NEW i \in 1 .. Len(content'[f]), NEW j \in 1 .. Len(content'[g]),
                      content'[f][i] > 0, content'[g][j] > 0, f < g \/ (f = g /\ i < j)
               PROVE  content'[f][i] < content'[g][j]
    BY <1>3 DEF Ordered
  <2>1. CASE i \in 1 .. Len(content[f]) /\ content'[f][i] = content[f][i]
             /\ j \in 1 .. Len(content[g]) /\ content'[g][j] = content[g][j]
    BY <2>1 DEF LogInv, Ordered, l
  <2>2. CASE i \in 1 .. Len(content[f]) /\ content'[f][i] = content[f][i]
             /\ g = l /\ j = Len(t) + 1 /\ content'[g][j] = token
    <3>1. token = begun /\ appender.pc \in Pending
      BY <2>2
    <3>2. content[f][i] < begun
      BY <2>2, <3>1 DEF LogInv, Fresh, l
    <3> QED
      BY <2>2, <3>1, <3>2
  <2>3. CASE f = l /\ i = Len(t) + 1 /\ content'[f][i] = token
    <3>1. g = l /\ i < j
      BY <1>1, <2>3
    <3>2. Len(content'[g]) = Len(t) + 1
      BY <1>3, <1>4, <3>1, <1>1
    <3> QED
      BY <1>1, <2>3, <3>1, <3>2
  <2> QED
    BY <1>5, <2>1, <2>2, <2>3
<1>8. Fresh'
  <2> SUFFICES ASSUME NEW f \in 1 .. l, NEW i \in 1 .. Len(content'[f])
               PROVE  content'[f][i] <= begun
    BY <1>3 DEF Fresh
  <2>1. CASE i \in 1 .. Len(content[f]) /\ content'[f][i] = content[f][i]
    BY <2>1 DEF LogInv, Fresh, l
  <2>2. CASE content'[f][i] = token
    BY <1>1, <2>2
  <2> QED
    BY <1>5, <2>1, <2>2
<1>9. Newest'
  BY <1>3 DEF LogInv, Newest, l
<1> QED
  BY <1>6, <1>7, <1>8, <1>9, ServerSteps DEF LogInv, LogTypes

\* The steps of an append that write nothing: it begins, it rotates names, it is
\* killed.
LEMMA LogRenames ==
  ASSUME LogInv, Retained \in Nat,
         Logs!Begins \/ Logs!Remove \/ Logs!Shift \/ Logs!RenameActive \/ Logs!Kill
  PROVE  LogInv'
<1>1. /\ appender \in WriterType /\ begun \in Nat /\ DOMAIN name = 0 .. Retained /\ 0 \in 0 .. Retained
      /\ name[0] \in {0, Len(content)}
  BY DEF LogInv, LogTypes, Newest
<1> USE DEF Logs!At, Logs!Goto, Logs!Reading, Pending
<1>2. CASE Logs!Begins
  <2>1. appender' \in WriterType /\ appender'.pc \in {"line", "remove"} /\ appender'.file = appender.file
    BY <1>1, <1>2 DEF Logs!Begins, WriterType
  <2>2. begun' \in Nat /\ begun <= begun' /\ begun < begun'
    BY <1>1, <1>2 DEF Logs!Begins
  <2>3. Newest'
    BY <1>2, <2>1 DEF Logs!Begins, LogInv, Newest
  <2> QED
    BY <1>1, <1>2, <2>1, <2>2, <2>3, NameSteps DEF Logs!Begins
<1>3. CASE Logs!Remove
  <2> DEFINE k == Retained - 1
  <2>0. k \in Int /\ appender' = [appender EXCEPT !.pc = "shift", !.k = k]
    BY <1>3 DEF Logs!Remove
  <2> HIDE DEF k
  <2>1. appender' \in WriterType /\ appender'.pc = "shift" /\ appender'.file = appender.file
    BY <1>1, <2>0 DEF WriterType
  <2>2. DOMAIN name' = 0 .. Retained /\ name'[0] \in {0, Len(content)}
    BY <1>1, <1>3 DEF Logs!Remove, Logs!NoFile
  <2>3. Newest'
    BY <1>3, <2>1, <2>2 DEF Logs!Remove, LogInv, Newest
  <2> QED
    BY <1>1, <1>3, <2>1, <2>2, <2>3, NameSteps DEF Logs!Remove
<1>4. CASE Logs!Shift
  <2>1. appender' \in WriterType /\ appender'.pc = "shift" /\ appender'.file = appender.file
        /\ appender.k \in Int /\ appender.k > 0
    BY <1>1, <1>4 DEF Logs!Shift, WriterType
  <2>2. DOMAIN name' = 0 .. Retained /\ name'[0] = name[0]
    BY <1>1, <1>4, <2>1 DEF Logs!Shift
  <2>3. Newest'
    BY <1>1, <1>4, <2>1, <2>2 DEF Logs!Shift, LogInv, Newest
  <2> QED
    BY <1>1, <1>4, <2>1, <2>2, <2>3, NameSteps DEF Logs!Shift
<1>5. CASE Logs!RenameActive
  <2>1. appender' \in WriterType /\ appender'.pc \in {"idle", "open"} /\ appender'.file = appender.file
    BY <1>1, <1>5 DEF Logs!RenameActive, WriterType
  <2>2. DOMAIN name' = 0 .. Retained /\ name'[0] \in {0, Len(content)}
    BY <1>1, <1>5 DEF Logs!RenameActive, Logs!NoFile
  <2>3. Newest'
    BY <1>5, <2>1, <2>2 DEF Logs!RenameActive, LogInv, Newest
  <2> QED
    BY <1>1, <1>5, <2>1, <2>2, <2>3, NameSteps DEF Logs!RenameActive
<1>6. CASE Logs!Kill
  <2>1. appender' \in WriterType /\ appender'.pc = "down"
    BY <1>6 DEF Logs!Kill, Logs!Down, Logs!NoFile, WriterType
  <2>2. Newest'
    BY <1>1, <1>6, <2>1 DEF Logs!Kill, Newest
  <2> QED
    BY <1>1, <1>6, <2>1, <2>2, NameSteps DEF Logs!Kill
<1> QED
  BY <1>2, <1>3, <1>4, <1>5, <1>6

\* The steps that write: the line, its end, and a part of the line.
LEMMA LogWrites ==
  ASSUME LogInv, Logs!WriteLine \/ Logs!WriteEnd \/ Logs!Fails
  PROVE  LogInv'
<1>1. appender \in WriterType /\ begun \in Nat
  BY DEF LogInv, LogTypes
<1> USE DEF Logs!At, Logs!Goto, Logs!Reading, Pending
<1>2. CASE Logs!WriteLine
  <2>1. appender' \in WriterType /\ appender'.pc = "end" /\ appender'.file = appender.file
    BY <1>1, <1>2 DEF Logs!WriteLine, WriterType
  <2>2. appender.file = Len(content)
    BY <1>2 DEF Logs!WriteLine, LogInv, Newest
  <2>3. begun \in Int /\ Logs!Writes(begun)
    BY <1>1, <1>2 DEF Logs!WriteLine
  <2> QED
    BY <1>2, <2>1, <2>2, <2>3, WriteSteps DEF Logs!WriteLine
<1>3. CASE Logs!WriteEnd
  <2> DEFINE size == appender.size + 2
  <2>0. size \in Int /\ appender' = [appender EXCEPT !.pc = "idle", !.size = size]
    BY <1>1, <1>3 DEF Logs!WriteEnd, Logs!Needed, WriterType
  <2> HIDE DEF size
  <2>1. appender' \in WriterType /\ appender'.pc = "idle" /\ appender'.file = appender.file
    BY <1>1, <2>0 DEF WriterType
  <2>2. appender.file = Len(content)
    BY <1>3 DEF Logs!WriteEnd, LogInv, Newest
  <2>3. 0 \in Int /\ Logs!Writes(0)
    BY <1>3 DEF Logs!WriteEnd, Logs!Lf
  <2> QED
    BY <1>3, <2>1, <2>2, <2>3, WriteSteps DEF Logs!WriteEnd
<1>4. CASE Logs!Fails
  <2>1. appender' \in WriterType /\ appender'.pc = "idle" /\ appender'.file = appender.file
    BY <1>1, <1>4 DEF Logs!Fails, WriterType
  <2>2. appender.file = Len(content) /\ name[0] \in {0, Len(content)}
    BY <1>4 DEF Logs!Fails, LogInv, Newest
  <2>3. CASE UNCHANGED content
    <3>1. Newest'
      BY <1>4, <2>1, <2>2, <2>3 DEF Logs!Fails, Newest
    <3>2. DOMAIN name' = 0 .. Retained
      BY <1>4 DEF Logs!Fails, LogInv, LogTypes
    <3> QED
      BY <1>1, <1>4, <2>1, <2>3, <3>1, <3>2, NameSteps DEF Logs!Fails
  <2>4. CASE Logs!Writes(-1)
    <3>1. -1 \in Int /\ -1 <= 0
      OBVIOUS
    <3> QED
      BY <1>4, <2>1, <2>2, <2>4, <3>1, WriteSteps DEF Logs!Fails
  <2> QED
    BY <1>4, <2>3, <2>4 DEF Logs!Fails, Logs!Part
<1> QED
  BY <1>2, <1>3, <1>4

\* What the active name leads to, or a new and empty file, is the newest.
LEMMA LogOpens ==
  ASSUME LogInv, Retained \in Nat, NEW f, Logs!Opened(f)
  PROVE  /\ f = Len(content') /\ name'[0] = f /\ DOMAIN name' = 0 .. Retained
         /\ Grows /\ Ordered'
         /\ \A g \in 1 .. Len(content') : \A i \in 1 .. Len(content'[g]) :
              /\ g \in 1 .. Len(content) /\ i \in 1 .. Len(content[g])
              /\ content'[g][i] = content[g][i]
<1> DEFINE l == Len(content)
<1>1. /\ l = Len(content) /\ l \in Nat \ {0} /\ content \in Seq(Seq(Int)) /\ name[0] \in {0, l}
      /\ DOMAIN name = 0 .. Retained /\ 0 \in 0 .. Retained /\ <<>> \in Seq(Int)
  BY TextOf DEF LogInv, LogTypes, Newest
<1>2. name'[0] = f /\ DOMAIN name' = 0 .. Retained
  BY <1>1 DEF Logs!Opened
<1> HIDE DEF l
<1>3. /\ f = Len(content') /\ content' \in Seq(Seq(Int)) /\ l <= Len(content')
      /\ \A g \in 1 .. Len(content') : (g \in 1 .. l /\ content'[g] = content[g]) \/ Len(content'[g]) = 0
      /\ \A g \in 1 .. l : content'[g] = content[g]
  <2>1. CASE name[0] = 0
    <3>1. content' = Append(content, <<>>) /\ f = l + 1
      BY <1>1, <2>1 DEF Logs!Opened, Logs!NoFile
    <3>2. Append(content, <<>>) \in Seq(Seq(Int)) /\ Len(Append(content, <<>>)) = l + 1
          /\ \A g \in 1 .. l : Append(content, <<>>)[g] = content[g]
          /\ Append(content, <<>>)[l + 1] = <<>>
      BY <1>1
    <3>3. \A g \in 1 .. l + 1 : g \in 1 .. l \/ g = l + 1
      BY <1>1
    <3> QED
      BY <1>1, <3>1, <3>2, <3>3
  <2>2. CASE name[0] # 0
    <3>1. content' = content /\ f = l
      BY <1>1, <2>2 DEF Logs!Opened, Logs!NoFile
    <3> QED
      BY <1>1, <3>1
  <2> QED
    BY <2>1, <2>2
<1>4. ASSUME NEW g \in 1 .. Len(content'), NEW i \in 1 .. Len(content'[g])
      PROVE  /\ g \in 1 .. l /\ i \in 1 .. Len(content[g])
             /\ content'[g][i] = content[g][i]
  <2>1. Len(content'[g]) # 0
    OBVIOUS
  <2> QED
    BY <1>3, <2>1
<1>5. Grows
  <2> SUFFICES ASSUME NEW g \in 1 .. l
               PROVE  Len(content[g]) <= Len(content'[g])
                      /\ \A i \in 1 .. Len(content[g]) : content'[g][i] = content[g][i]
    BY <1>1, <1>3 DEF Grows
  <2>1. content'[g] = content[g] /\ Len(content[g]) \in Nat
    BY <1>1, <1>3, TextOf
  <2> QED
    BY <2>1
<1>6. Ordered'
  <2> SUFFICES ASSUME NEW g \in 1 .. Len(content'), NEW h \in 1 .. Len(content'),
                      NEW i \in 1 .. Len(content'[g]), NEW j \in 1 .. Len(content'[h]),
                      content'[g][i] > 0, content'[h][j] > 0, g < h \/ (g = h /\ i < j)
               PROVE  content'[g][i] < content'[h][j]
    BY DEF Ordered
  <2>1. /\ g \in 1 .. l /\ i \in 1 .. Len(content[g]) /\ content'[g][i] = content[g][i]
        /\ h \in 1 .. l /\ j \in 1 .. Len(content[h]) /\ content'[h][j] = content[h][j]
    BY <1>4
  <2> QED
    BY <1>1, <2>1 DEF LogInv, Ordered
<1> QED
  BY <1>1, <1>2, <1>3, <1>4, <1>5, <1>6

\* The steps that open the active file: a rotation's last, and a start.
LEMMA LogOpenings ==
  ASSUME LogInv, Retained \in Nat, Logs!OpenNext \/ Logs!Start
  PROVE  LogInv'
<1>1. appender \in WriterType /\ begun \in Nat /\ Len(content) \in Nat
  BY TextOf DEF LogInv, LogTypes
<1>2. PICK f \in Nat :
        /\ Logs!Opened(f) /\ appender' \in WriterType /\ appender'.file = f /\ appender'.pc # "down"
        /\ appender'.pc \in Pending => appender.pc \in Pending
        /\ UNCHANGED <<reader, printed, begun>>
  <2>1. CASE Logs!OpenNext
    <3>1. PICK f \in 1 .. Len(content) + 1 :
            Logs!Opened(f) /\ appender' = [appender EXCEPT !.pc = "line", !.file = f, !.size = 0]
      BY <2>1 DEF Logs!OpenNext
    <3>2. f \in Nat
      BY <1>1
    <3>3. appender' \in WriterType /\ appender'.file = f /\ appender'.pc = "line"
      <4> DEFINE z == 0
      <4>1. z \in Int /\ appender' = [appender EXCEPT !.pc = "line", !.file = f, !.size = z]
        BY <3>1
      <4> HIDE DEF z
      <4>2. appender' \in WriterType
        BY <1>1, <3>2, <4>1 DEF WriterType, Pending
      <4>3. appender'.file = f /\ appender'.pc = "line"
        BY <1>1, <4>1 DEF WriterType
      <4> QED
        BY <4>2, <4>3
    <3> QED
      BY <2>1, <3>1, <3>2, <3>3 DEF Logs!OpenNext, Logs!At, Logs!Reading, Pending
  <2>2. CASE Logs!Start
    <3>1. PICK f \in 1 .. Len(content) + 1 :
            Logs!Opened(f) /\ appender' = Logs!NewWriter(f, Len(content'[f]))
      BY <2>2 DEF Logs!Start
    <3>2. f \in Nat
      BY <1>1
    <3>3. f = Len(content') /\ content' \in Seq(Seq(Int)) /\ Len(content') # 0
      BY <1>1, <3>1, LogOpens, TextOf DEF Grows
    <3>4. Len(content'[f]) \in Int
      BY <3>2, <3>3
    <3>5. appender' \in WriterType /\ appender'.file = f /\ appender'.pc = "idle"
      BY <3>1, <3>2, <3>4 DEF Logs!NewWriter, WriterType
    <3> QED
      BY <2>2, <3>1, <3>2, <3>5 DEF Logs!Start, Logs!Reading, Pending
  <2> QED
    BY <2>1, <2>2
<1>3. /\ f = Len(content') /\ name'[0] = f /\ DOMAIN name' = 0 .. Retained /\ Grows /\ Ordered'
      /\ \A g \in 1 .. Len(content') : \A i \in 1 .. Len(content'[g]) :
           /\ g \in 1 .. Len(content) /\ i \in 1 .. Len(content[g])
           /\ content'[g][i] = content[g][i]
  BY <1>2, LogOpens
<1>4. Newest'
  BY <1>2, <1>3 DEF Newest
<1>5. Fresh'
  <2> SUFFICES ASSUME NEW g \in 1 .. Len(content'), NEW i \in 1 .. Len(content'[g])
               PROVE  /\ content'[g][i] <= begun'
                      /\ appender'.pc \in Pending => content'[g][i] < begun'
    BY DEF Fresh
  <2>1. g \in 1 .. Len(content) /\ i \in 1 .. Len(content[g]) /\ content'[g][i] = content[g][i]
    BY <1>3
  <2> QED
    BY <1>2, <2>1 DEF LogInv, Fresh
<1> QED
  BY <1>1, <1>2, <1>3, <1>4, <1>5, ServerSteps

\* What is left of a sequence past its first m.
LEMMA RestOf ==
  ASSUME NEW S, NEW t \in Seq(S), NEW m \in 0 .. Len(t)
  PROVE  /\ SubSeq(t, m + 1, Len(t)) \in Seq(S) /\ Len(SubSeq(t, m + 1, Len(t))) = Len(t) - m
         /\ \A k \in 1 .. Len(t) - m : SubSeq(t, m + 1, Len(t))[k] = t[m + k]
<1>1. Len(t) \in Nat /\ m \in Nat /\ m <= Len(t) /\ m + 1 \in Int /\ Len(t) \in Int
  OBVIOUS
<1>2. \A i \in m + 1 .. Len(t) : t[i] \in S
  BY <1>1
<1>3. /\ SubSeq(t, m + 1, Len(t)) \in Seq(S)
      /\ Len(SubSeq(t, m + 1, Len(t))) = IF m + 1 <= Len(t) THEN Len(t) - (m + 1) + 1 ELSE 0
      /\ \A k \in 1 .. Len(t) - (m + 1) + 1 : SubSeq(t, m + 1, Len(t))[k] = t[(m + 1) + k - 1]
  BY <1>1, <1>2, SubSeqProperties
<1>4. Len(t) - (m + 1) + 1 = Len(t) - m /\ \A k \in 1 .. Len(t) - m : (m + 1) + k - 1 = m + k
  BY <1>1
<1> DEFINE s == SubSeq(t, m + 1, Len(t))
<1>5. Len(s) = Len(t) - m
  <2> HIDE DEF s
  <2>1. Len(s) = IF m + 1 <= Len(t) THEN Len(t) - (m + 1) + 1 ELSE 0
    BY <1>3 DEF s
  <2> QED
    BY <1>1, <2>1
<1>6. ASSUME NEW k \in 1 .. Len(t) - m PROVE s[k] = t[m + k]
  <2>1. k \in 1 .. Len(t) - (m + 1) + 1 /\ (m + 1) + k - 1 = m + k
    BY <1>4
  <2> QED
    BY <1>3, <2>1
<1> QED
  BY <1>3, <1>5, <1>6

\* Where the reader's next record may start: all before it was read.
Read == reader.pos - Len(reader.partial)

\* The reader is in a file, at the end of what it holds back, or in none.
LEMMA ReaderOf ==
  ASSUME LogInv
  PROVE  /\ reader.file \in Nat /\ reader.pos \in Nat /\ reader.partial \in Seq(Int)
         /\ Len(reader.partial) \in Nat /\ Read \in Nat
         /\ reader.file <= Len(content)
         /\ reader.file = 0 => reader.pos = 0 /\ reader.partial = <<>>
         /\ reader.file # 0 =>
              /\ reader.file \in 1 .. Len(content)
              /\ content[reader.file] \in Seq(Int) /\ Len(content[reader.file]) \in Nat
              /\ reader.pos <= Len(content[reader.file]) /\ Len(reader.partial) <= reader.pos
              /\ \A k \in 1 .. Len(reader.partial) :
                   reader.partial[k] = content[reader.file][Read + k]
<1>1. /\ reader.file \in Nat /\ reader.pos \in Nat /\ reader.partial \in Seq(Int)
      /\ Len(reader.partial) \in Nat
  BY DEF LogInv, LogTypes, ReaderType
<1>2. /\ reader.file <= Len(content)
      /\ reader.file = 0 => reader.pos = 0 /\ reader.partial = <<>>
  BY DEF LogInv, HoldsBack
<1>3. CASE reader.file = 0
  BY <1>1, <1>2, <1>3 DEF Read
<1>4. CASE reader.file # 0
  <2>1. reader.file \in 1 .. Len(content)
    BY <1>1, <1>2, <1>4, TextOf
  <2>2. reader.pos <= Len(content[reader.file]) /\ Len(reader.partial) <= reader.pos
        /\ \A k \in 1 .. Len(reader.partial) :
             reader.partial[k] = content[reader.file][Read + k]
    BY <1>4 DEF LogInv, HoldsBack, Read
  <2>3. Read \in Nat
    BY <1>1, <2>2 DEF Read
  <2>4. content[reader.file] \in Seq(Int) /\ Len(content[reader.file]) \in Nat
    BY <2>1, TextOf
  <2> QED
    BY <1>1, <1>2, <1>4, <2>1, <2>2, <2>3, <2>4
<1> QED
  BY <1>3, <1>4

\* What is held is the rest of the file, from where the reader has read to.
LEMMA HeldOf ==
  ASSUME LogInv
  PROVE  /\ Logs!Held \in Seq(Int) /\ Len(Logs!Held) \in Nat
         /\ reader.file = 0 => Logs!Held = <<>>
         /\ reader.file # 0 =>
              /\ Len(Logs!Held) = Len(content[reader.file]) - Read
              /\ \A k \in 1 .. Len(Logs!Held) : Logs!Held[k] = content[reader.file][Read + k]
<1>1. CASE reader.file = 0
  <2>1. Logs!Held = <<>>
    BY <1>1 DEF Logs!Held, Logs!NoFile
  <2> QED
    BY <1>1, <2>1
<1>2. CASE reader.file # 0
  <2> DEFINE t == content[reader.file]
             p == reader.pos
             q == reader.partial
             s == SubSeq(t, p + 1, Len(t))
  <2>1. /\ t \in Seq(Int) /\ Len(t) \in Nat /\ p \in Nat /\ p <= Len(t)
        /\ q \in Seq(Int) /\ Len(q) \in Nat /\ Len(q) <= p
        /\ \A k \in 1 .. Len(q) : q[k] = t[Read + k]
        /\ Read = p - Len(q) /\ Read \in Nat
    BY <1>2, ReaderOf DEF Read
  <2>2. Logs!Held = q \o s
    BY <1>2 DEF Logs!Held, Logs!NoFile
  <2> HIDE DEF t, p, q
  <2>3. s \in Seq(Int) /\ Len(s) = Len(t) - p /\ \A k \in 1 .. Len(s) : s[k] = t[p + k]
    <3>1. p \in 0 .. Len(t)
      BY <2>1
    <3> QED
      BY <2>1, <3>1, RestOf
  <2> HIDE DEF s
  <2>4. /\ q \o s \in Seq(Int) /\ Len(q \o s) = Len(q) + Len(s) /\ Len(s) \in Nat
        /\ \A k \in 1 .. Len(q) + Len(s) : (q \o s)[k] = IF k <= Len(q) THEN q[k] ELSE s[k - Len(q)]
    <3>1. q \o s \in Seq(Int) /\ Len(q \o s) = Len(q) + Len(s)
      BY <2>1, <2>3, ConcatProperties
    <3>2. Len(s) \in Nat
      BY <2>3
    <3>3. \A k \in 1 .. Len(q) + Len(s) : (q \o s)[k] = IF k <= Len(q) THEN q[k] ELSE s[k - Len(q)]
      BY <2>1, <2>3, ConcatProperties
    <3> QED
      BY <3>1, <3>2, <3>3
  <2>5. ASSUME NEW k \in 1 .. Len(q \o s) PROVE (q \o s)[k] = t[Read + k]
    <3>1. CASE k <= Len(q)
      <4>1. k \in 1 .. Len(q) + Len(s) /\ k \in 1 .. Len(q)
        BY <2>1, <2>4, <3>1
      <4>2. (q \o s)[k] = q[k]
        BY <2>4, <3>1, <4>1
      <4> QED
        BY <2>1, <4>1, <4>2
    <3>2. CASE k > Len(q)
      <4>1. k - Len(q) \in 1 .. Len(s) /\ (q \o s)[k] = s[k - Len(q)]
        BY <2>1, <2>3, <2>4, <3>2
      <4>2. p + (k - Len(q)) = Read + k
        BY <2>1
      <4> QED
        BY <2>3, <4>1, <4>2
    <3> QED
      BY <2>1, <2>4, <3>1, <3>2
  <2> QED
    <3>1. Len(q) + Len(s) = Len(t) - Read /\ Len(q) + Len(s) \in Nat
      BY <2>1, <2>3
    <3> DEFINE h == q \o s
    <3>2. h \in Seq(Int) /\ Len(h) = Len(t) - Read /\ Len(h) \in Nat
      BY <2>4, <3>1
    <3>3. \A k \in 1 .. Len(h) : h[k] = t[Read + k]
      BY <2>5
    <3>4. Logs!Held = h
      BY <2>2
    <3> HIDE DEF h
    <3> QED
      BY <1>2, <3>2, <3>3, <3>4 DEF t
<1> QED
  BY <1>1, <1>2

\* The records of the complete lines, where they stand in the file.
LEMMA FoundOf ==
  ASSUME LogInv
  PROVE  /\ Logs!Found \in Seq(Int) /\ Logs!Complete(Logs!Held) \in 0 .. Len(Logs!Held)
         /\ Len(Logs!Found) # 0 => reader.file # 0
         /\ \E at \in [1 .. Len(Logs!Found) -> Nat] :
              /\ \A n \in 1 .. Len(Logs!Found) :
                   /\ Logs!Found[n] = content[reader.file][at[n]] /\ Logs!Found[n] > 0
                   /\ Read < at[n] /\ at[n] <= Read + Logs!Complete(Logs!Held)
                   /\ at[n] \in 1 .. Len(content[reader.file])
              /\ \A m, n \in 1 .. Len(Logs!Found) : m < n => at[m] < at[n]
<1> DEFINE h == Logs!Held
           c == Logs!Complete(h)
           s == SubSeq(h, 1, c)
           R == Logs!Records(s)
           t == content[reader.file]
<1>1. h \in Seq(Int) /\ Len(h) \in Nat /\ Read \in Nat
  BY HeldOf, ReaderOf
<1>2. c \in 0 .. Len(h)
  BY <1>1, CompleteOf
<1>3. Logs!Found = R
  BY DEF Logs!Found
<1>4. reader.file = 0 => Len(h) = 0
  BY HeldOf
<1>5. reader.file # 0 => Len(h) = Len(t) - Read /\ Len(t) \in Nat
                         /\ \A k \in 1 .. Len(h) : h[k] = t[Read + k]
  BY HeldOf, ReaderOf
<1> HIDE DEF h, c, t
<1>6. s \in Seq(Int) /\ Len(s) = c /\ \A k \in 1 .. c : s[k] = h[k]
  BY <1>1, <1>2
<1> HIDE DEF s
<1>7. R \in Seq(Int)
  BY <1>6, RecordsOf
<1>8. PICK p \in [1 .. Len(R) -> 1 .. Len(s)] :
        /\ \A n \in 1 .. Len(R) : R[n] = s[p[n]] /\ s[p[n]] > 0
        /\ \A m, n \in 1 .. Len(R) : m < n => p[m] < p[n]
  BY <1>6, RecordsOf
<1> HIDE DEF R
<1> DEFINE at == [n \in 1 .. Len(R) |-> Read + p[n]]
<1>9. ASSUME NEW n \in 1 .. Len(R)
      PROVE  /\ reader.file # 0 /\ at[n] \in Nat
             /\ R[n] = t[at[n]] /\ R[n] > 0
             /\ Read < at[n] /\ at[n] <= Read + c /\ at[n] \in 1 .. Len(t)
  <2>1. p[n] \in 1 .. c /\ R[n] = s[p[n]] /\ s[p[n]] > 0
    BY <1>6, <1>8
  <2>2. p[n] \in 1 .. Len(h) /\ Len(h) # 0
    BY <1>1, <1>2, <2>1
  <2>3. reader.file # 0
    BY <1>4, <2>2
  <2>4. R[n] = t[Read + p[n]]
    BY <1>5, <1>6, <2>1, <2>2, <2>3
  <2>5. Read + p[n] \in 1 .. Len(t) /\ Read < Read + p[n] /\ Read + p[n] <= Read + c /\ Read + p[n] \in Nat
    BY <1>1, <1>2, <1>5, <2>1, <2>2, <2>3
  <2> QED
    BY <2>1, <2>3, <2>4, <2>5
<1>10. ASSUME NEW m \in 1 .. Len(R), NEW n \in 1 .. Len(R), m < n PROVE at[m] < at[n]
  <2>1. p[m] \in 1 .. c /\ p[n] \in 1 .. c /\ p[m] < p[n]
    BY <1>6, <1>8, <1>10
  <2> QED
    BY <1>1, <1>2, <2>1
<1>11. at \in [1 .. Len(R) -> Nat]
  BY <1>9
<1> HIDE DEF at
<1>12. Len(R) # 0 => reader.file # 0
  <2>1. Len(R) # 0 => 1 \in 1 .. Len(R)
    BY <1>7
  <2> QED
    BY <1>9, <2>1
<1> QED
  BY <1>2, <1>3, <1>7, <1>9, <1>10, <1>11, <1>12 DEF h, c, t

\* Reading what is there: some of the printed records stay, and after them come
\* some of those found.
LEMMA Reads ==
  ASSUME LogInv, NEW pc \in {"drain", "reopen"}, reader' = Logs!Drained(pc), Logs!Server,
         NEW m \in 0 .. Len(printed), NEW e \in Int, printed' \in Seq(Int),
         \A n \in 1 .. Len(printed') :
           /\ n <= m => printed'[n] = printed[n]
           /\ m < n => n + e \in 1 .. Len(Logs!Found) /\ printed'[n] = Logs!Found[n + e]
  PROVE  LogInv'
<1> DEFINE F == reader.file
           t == content[F]
           h == Logs!Held
           c == Logs!Complete(h)
           R == Logs!Found
           s == SubSeq(h, c + 1, Len(h))
<1>1. /\ reader \in ReaderType /\ F \in Nat /\ Read \in Nat /\ h \in Seq(Int) /\ Len(h) \in Nat
      /\ c \in 0 .. Len(h) /\ Len(printed) \in Nat /\ Len(content) \in Nat /\ Len(printed') \in Nat
      /\ UNCHANGED <<name, content, appender, begun>>
  <2>1. reader \in ReaderType /\ printed \in Seq(Int)
    BY DEF LogInv, LogTypes
  <2>2. UNCHANGED <<name, content, appender, begun>>
    BY DEF Logs!Server
  <2>3. F \in Nat /\ Read \in Nat /\ Len(content) \in Nat
    BY ReaderOf, TextOf
  <2>4. h \in Seq(Int) /\ Len(h) \in Nat /\ c \in 0 .. Len(h)
    BY HeldOf, FoundOf
  <2> HIDE DEF h, c
  <2> QED
    BY <2>1, <2>2, <2>3, <2>4
<1>2. /\ F = 0 => h = <<>>
      /\ F # 0 => /\ F \in 1 .. Len(content) /\ t \in Seq(Int) /\ Len(t) \in Nat
                  /\ Len(h) = Len(t) - Read /\ \A k \in 1 .. Len(h) : h[k] = t[Read + k]
  BY HeldOf, ReaderOf
<1>3. reader' = [reader EXCEPT !.pc = pc, !.pos = IF F = 0 THEN 0 ELSE Len(t), !.partial = s]
  BY DEF Logs!Drained, Logs!NoFile
<1>4. s \in Seq(Int) /\ Len(s) = Len(h) - c /\ \A k \in 1 .. Len(s) : s[k] = h[c + k]
  <2> HIDE DEF h, c
  <2> QED
    BY <1>1, RestOf
<1>5. PICK at \in [1 .. Len(R) -> Nat] :
        /\ \A n \in 1 .. Len(R) :
             /\ R[n] = t[at[n]] /\ R[n] > 0
             /\ Read < at[n] /\ at[n] <= Read + c /\ at[n] \in 1 .. Len(t)
        /\ \A k, n \in 1 .. Len(R) : k < n => at[k] < at[n]
  BY FoundOf
<1>6. R \in Seq(Int) /\ Len(R) \in Nat /\ (Len(R) # 0 => F # 0)
  BY FoundOf
<1> HIDE DEF t, h, c, R, s
<1>7. F = 0 => Len(h) = 0 /\ c = 0 /\ s = <<>>
  <2> SUFFICES ASSUME F = 0 PROVE Len(h) = 0 /\ c = 0 /\ s = <<>>
    OBVIOUS
  <2>1. Len(h) = 0
    BY <1>2
  <2>2. c = 0
    BY <1>1, <2>1
  <2>3. Len(s) = 0
    BY <1>4, <2>1, <2>2
  <2> QED
    BY <1>4, <2>1, <2>2, <2>3, EmptySeq
<1>rest. F # 0 => Len(s) \in Nat /\ Len(s) <= Len(t) /\ Len(t) - Len(s) = Read + c
  <2> SUFFICES ASSUME F # 0
               PROVE  Len(s) \in Nat /\ Len(s) <= Len(t) /\ Len(t) - Len(s) = Read + c
    OBVIOUS
  <2>1. Len(h) = Len(t) - Read /\ Len(t) \in Nat
    BY <1>2
  <2>2. Len(s) = Len(h) - c
    BY <1>4
  <2>3. c \in 0 .. Len(h) /\ Read \in Nat /\ Len(h) \in Nat
    BY <1>1
  <2>4. c \in Nat /\ c <= Len(h)
    BY <2>3
  <2> HIDE DEF F
  <2> QED
    BY <2>1, <2>2, <2>3, <2>4
<1>8. /\ reader'.pc = pc /\ reader'.file = F /\ reader'.partial = s
      /\ reader'.pos = (IF F = 0 THEN 0 ELSE Len(t)) /\ reader' \in ReaderType
  <2> DEFINE p == IF F = 0 THEN 0 ELSE Len(t)
  <2>1. p \in Nat
    BY <1>1, <1>2
  <2> HIDE DEF p
  <2>2. reader' = [reader EXCEPT !.pc = pc, !.pos = p, !.partial = s]
    BY <1>3 DEF p
  <2>3. reader' \in ReaderType
    BY <1>1, <1>4, <2>1, <2>2 DEF ReaderType
  <2>4. reader'.pc = pc /\ reader'.file = F /\ reader'.partial = s /\ reader'.pos = p
    BY <1>1, <2>2 DEF ReaderType
  <2> QED
    BY <2>3, <2>4 DEF p
<1>9. reader'.pos - Len(reader'.partial) = IF F = 0 THEN 0 ELSE Read + c
  <2>1. CASE F = 0
    <3>1. Len(s) = 0
      BY <1>4, <1>7, <1>1, <2>1
    <3> QED
      BY <1>8, <2>1, <3>1
  <2>2. CASE F # 0
    <3>1. reader'.pos = Len(t) /\ reader'.partial = s
      BY <1>8, <2>2
    <3> QED
      BY <1>rest, <2>2, <3>1
  <2> QED
    BY <2>1, <2>2
<1>10. LogTypes'
  BY <1>1, <1>8 DEF LogInv, LogTypes
<1>11. Newest' /\ Ordered' /\ Fresh'
  <2>1. Newest'
    BY <1>1 DEF LogInv, Newest
  <2>2. Ordered'
    BY <1>1 DEF LogInv, Ordered
  <2>3. Fresh'
    BY <1>1 DEF LogInv, Fresh
  <2> QED
    BY <2>1, <2>2, <2>3
<1>12. HoldsBack'
  <2>1. CASE F = 0
    BY <1>1, <1>7, <1>8, <2>1 DEF HoldsBack
  <2>2. CASE F # 0
    <3>1. /\ F \in 1 .. Len(content) /\ Len(t) \in Nat /\ reader'.file = F
          /\ reader'.pos = Len(t) /\ reader'.partial = s /\ content'[F] = t
      BY <1>1, <1>2, <1>8, <2>2 DEF t
    <3>2. Len(s) <= Len(t) /\ Len(t) - Len(s) = Read + c
      BY <1>rest, <2>2
    <3>3. ASSUME NEW k \in 1 .. Len(s) PROVE s[k] = t[Len(t) - Len(s) + k]
      <4>1. c + k \in 1 .. Len(h) /\ s[k] = h[c + k] /\ Read + (c + k) = (Read + c) + k
        BY <1>1, <1>4
      <4>2. h[c + k] = t[Read + (c + k)]
        BY <1>2, <2>2, <4>1
      <4> QED
        BY <3>2, <4>1, <4>2
    <3>4. reader'.file <= Len(content')
      BY <1>1, <3>1
    <3>5. /\ reader'.pos <= Len(content'[reader'.file]) /\ Len(reader'.partial) <= reader'.pos
          /\ \A k \in 1 .. Len(reader'.partial) :
               reader'.partial[k] = content'[reader'.file][reader'.pos - Len(reader'.partial) + k]
      BY <3>1, <3>2, <3>3
    <3> QED
      BY <2>2, <3>1, <3>4, <3>5 DEF HoldsBack
  <2> QED
    BY <2>1, <2>2
<1>13. ASSUME NEW n \in 1 .. Len(printed'), n <= m
       PROVE  n \in 1 .. Len(printed) /\ printed'[n] = printed[n] /\ Past(printed[n], F, Read)
  <2>1. n \in 1 .. Len(printed) /\ printed'[n] = printed[n]
    BY <1>1, <1>13
  <2> QED
    BY <2>1 DEF LogInv, AlreadyRead, Read
<1>14. ASSUME NEW n \in 1 .. Len(printed'), m < n
       PROVE  /\ n + e \in 1 .. Len(R) /\ printed'[n] = t[at[n + e]] /\ printed'[n] > 0
              /\ F \in 1 .. Len(content) /\ at[n + e] \in 1 .. Len(t)
              /\ Read < at[n + e] /\ at[n + e] <= Read + c
  <2>1. n + e \in 1 .. Len(R) /\ printed'[n] = R[n + e]
    BY <1>14 DEF R
  <2>2. F # 0
    BY <1>6, <2>1
  <2> QED
    BY <1>2, <1>5, <2>1, <2>2
<1>15. AlreadyRead'
  <2> SUFFICES ASSUME NEW n \in 1 .. Len(printed')
               PROVE  \E f \in 1 .. reader'.file : \E i \in 1 .. Len(content'[f]) :
                        /\ printed'[n] = content'[f][i] /\ printed'[n] > 0
                        /\ f = reader'.file => i <= reader'.pos - Len(reader'.partial)
    BY DEF AlreadyRead, Past
  <2> DEFINE q == reader'.pos - Len(reader'.partial)
  <2>0. q = IF F = 0 THEN 0 ELSE Read + c
    BY <1>9
  <2> HIDE DEF q
  <2>1. CASE n <= m
    <3>1. /\ printed'[n] = printed[n]
          /\ \E f \in 1 .. F : \E i \in 1 .. Len(content[f]) :
               printed[n] = content[f][i] /\ printed[n] > 0 /\ (f = F => i <= Read)
      BY <1>13, <2>1 DEF Past
    <3>2. PICK f \in 1 .. F : \E i \in 1 .. Len(content[f]) :
               printed[n] = content[f][i] /\ printed[n] > 0 /\ (f = F => i <= Read)
      BY <3>1
    <3>3. PICK i \in 1 .. Len(content[f]) :
               printed[n] = content[f][i] /\ printed[n] > 0 /\ (f = F => i <= Read)
      BY <3>2
    <3>4. i \in Int /\ F # 0
      BY <1>1
    <3>5. f = F => i <= q
      BY <1>1, <2>0, <3>3, <3>4
    <3> QED
      BY <1>1, <1>8, <3>1, <3>3, <3>5 DEF q
  <2>2. CASE m < n
    <3> DEFINE a == at[n + e]
    <3>1. /\ printed'[n] = content'[F][a] /\ printed'[n] > 0 /\ F \in 1 .. F
          /\ a \in 1 .. Len(content'[F]) /\ a <= Read + c /\ F # 0
      BY <1>1, <1>14, <2>2 DEF t
    <3> HIDE DEF a
    <3> QED
      BY <1>8, <2>0, <3>1 DEF q
  <2>3. n <= m \/ m < n
    OBVIOUS
  <2> QED
    BY <2>1, <2>2, <2>3
<1>16. Logs!PrintedInOrder'
  <2> SUFFICES ASSUME NEW i \in 1 .. Len(printed'), NEW j \in 1 .. Len(printed'), i < j
               PROVE  printed'[i] < printed'[j]
    BY DEF Logs!PrintedInOrder
  <2>0. i \in Int /\ j \in Int /\ m \in Int
    BY <1>1
  <2>1. CASE j <= m
    <3>1. i <= m
      BY <2>0, <2>1
    <3> QED
      BY <1>13, <2>1, <3>1 DEF LogInv, Logs!PrintedInOrder
  <2>2. CASE m < i
    <3>1. m < j /\ i + e < j + e
      BY <2>0, <2>2
    <3>2. at[i + e] < at[j + e]
      BY <1>5, <1>14, <2>2, <3>1
    <3> QED
      BY <1>14, <2>2, <3>1, <3>2 DEF LogInv, Ordered, t
  <2>3. CASE i <= m /\ m < j
    <3>1. printed'[i] = printed[i] /\ Past(printed[i], F, Read)
      BY <1>13, <2>3
    <3>2. PICK f \in 1 .. F : \E k \in 1 .. Len(content[f]) :
               printed[i] = content[f][k] /\ printed[i] > 0 /\ (f = F => k <= Read)
      BY <3>1 DEF Past
    <3>3. PICK k \in 1 .. Len(content[f]) :
               printed[i] = content[f][k] /\ printed[i] > 0 /\ (f = F => k <= Read)
      BY <3>2
    <3> DEFINE a == at[j + e]
    <3>4. /\ printed'[j] = content[F][a] /\ printed'[j] > 0 /\ F \in 1 .. Len(content)
          /\ a \in 1 .. Len(content[F]) /\ Read < a
      BY <1>14, <2>3 DEF t
    <3> HIDE DEF a
    <3>5. f \in 1 .. Len(content) /\ (f < F \/ (f = F /\ k < a))
      <4>1. k \in Int /\ a \in Int /\ f \in Int /\ F \in Int
        BY <1>1, <3>4
      <4>2. f \in 1 .. Len(content)
        BY <1>1, <3>4
      <4>3. f < F \/ f = F
        BY <4>1
      <4>4. f = F => k < a
        BY <1>1, <3>3, <3>4, <4>1
      <4> QED
        BY <4>2, <4>3, <4>4
    <3> QED
      BY <3>1, <3>3, <3>4, <3>5 DEF LogInv, Ordered
  <2> QED
    BY <2>0, <2>1, <2>2, <2>3
<1>17. reader'.pc # "none"
  BY <1>8
<1> QED
  BY <1>10, <1>11, <1>12, <1>15, <1>16, <1>17 DEF LogInv

\* The history and every poll print what was found, after what was printed.
LEMMA LogReads ==
  ASSUME LogInv, Count \in Nat, Logs!History \/ Logs!Drain
  PROVE  LogInv'
<1> DEFINE R == Logs!Found
<1>1. R \in Seq(Int) /\ Len(R) \in Nat /\ printed \in Seq(Int) /\ Len(printed) \in Nat
  BY FoundOf DEF LogInv, LogTypes
<1>2. CASE Logs!History
  <2> DEFINE s == IF Len(R) > Count THEN Len(R) - Count + 1 ELSE 1
             q == SubSeq(R, s, Len(R))
  <2>1. printed' = q /\ reader' = Logs!Drained("drain") /\ Logs!Server
    BY <1>2 DEF Logs!History
  <2> HIDE DEF R
  <2>2. s \in 1 .. Len(R) + 1 /\ s \in Nat
    BY <1>1
  <2> HIDE DEF s
  <2>3. q \in Seq(Int) /\ Len(q) = Len(R) - s + 1
    BY <1>1, <2>2
  <2>4. ASSUME NEW n \in 1 .. Len(q)
        PROVE  n + (s - 1) \in 1 .. Len(R) /\ q[n] = R[n + (s - 1)]
    <3>1. n \in 1 .. Len(R) - s + 1
      BY <2>3
    <3>2. q[n] = R[s + n - 1] /\ s + n - 1 = n + (s - 1) /\ n + (s - 1) \in 1 .. Len(R)
      BY <1>1, <2>2, <3>1
    <3> QED
      BY <3>2
  <2> DEFINE e == s - 1
  <2>8. \A n \in 1 .. Len(q) : n + e \in 1 .. Len(R) /\ q[n] = R[n + e]
    BY <2>4
  <2>5. e \in Int /\ 0 \in 0 .. Len(printed)
    BY <1>1, <2>2
  <2>6. printed' \in Seq(Int)
    BY <2>1, <2>3
  <2>7. ASSUME NEW n \in 1 .. Len(printed')
        PROVE  /\ n <= 0 => printed'[n] = printed[n]
               /\ 0 < n => n + e \in 1 .. Len(R) /\ printed'[n] = R[n + e]
    <3> HIDE DEF e, q
    <3>1. n \in 1 .. Len(q) /\ ~(n <= 0)
      BY <2>1
    <3> QED
      BY <2>1, <2>8, <3>1
  <2> HIDE DEF e, q
  <2> QED
    BY <2>1, <2>5, <2>6, <2>7, Reads DEF R
<1>3. CASE Logs!Drain
  <2> DEFINE m == Len(printed)
             e == 0 - m
             q == printed \o R
  <2>1. printed' = q /\ reader' = Logs!Drained("reopen") /\ Logs!Server
    BY <1>3 DEF Logs!Drain
  <2> HIDE DEF R
  <2>2. q \in Seq(Int) /\ Len(q) = m + Len(R)
        /\ \A n \in 1 .. m + Len(R) : q[n] = IF n <= m THEN printed[n] ELSE R[n - m]
    BY <1>1, ConcatProperties
  <2> HIDE DEF q
  <2>3. m \in Nat /\ m \in 0 .. Len(printed) /\ e \in Int
    BY <1>1
  <2>4. ASSUME NEW n \in 1 .. Len(q)
        PROVE  /\ n <= m => q[n] = printed[n]
               /\ m < n => n + e \in 1 .. Len(R) /\ q[n] = R[n + e]
    <3>1. n \in 1 .. m + Len(R) /\ n - m = n + e
      BY <2>2, <2>3
    <3>2. q[n] = IF n <= m THEN printed[n] ELSE R[n + e]
      BY <2>2, <3>1
    <3>3. m < n => n + e \in 1 .. Len(R) /\ ~(n <= m)
      BY <1>1, <2>3, <3>1
    <3> HIDE DEF m, e
    <3> QED
      BY <3>2, <3>3
  <2> HIDE DEF m, e
  <2> QED
    BY <2>1, <2>2, <2>3, <2>4, Reads DEF R
<1> QED
  BY <1>2, <1>3

\* Opening the log and opening it again print nothing.
LEMMA LogFollows ==
  ASSUME LogInv, Logs!Open \/ Logs!Reopen
  PROVE  LogInv'
<1> DEFINE F == reader.file
<1>1. /\ F \in Nat /\ reader \in ReaderType /\ Read \in Nat /\ Len(content) \in Nat \ {0}
      /\ name[0] \in {0, Len(content)} /\ UNCHANGED <<name, content, appender, begun, printed>>
  BY ReaderOf, TextOf DEF LogInv, LogTypes, Newest, Logs!Open, Logs!Reopen, Logs!Server
<1>2. Newest' /\ Ordered' /\ Fresh' /\ Logs!PrintedInOrder'
  BY <1>1 DEF LogInv, Newest, Ordered, Fresh, Logs!PrintedInOrder
<1> HIDE DEF F
<1>3. CASE /\ reader'.file = name[0] /\ reader'.pos = 0 /\ reader'.partial = <<>>
           /\ reader'.pc \in {"history", "drain"} /\ reader' \in ReaderType
           /\ printed = <<>> \/ F < name[0]
  <2>1. LogTypes'
    BY <1>1, <1>3 DEF LogInv, LogTypes
  <2>2. HoldsBack'
    <3>1. reader'.file <= Len(content')
      BY <1>1, <1>3
    <3>2. Len(reader'.partial) = 0
      BY <1>3
    <3>3. reader'.file # 0 => reader'.file = Len(content) /\ Len(content'[reader'.file]) \in Nat
      <4>1. Len(content) \in 1 .. Len(content)
        BY <1>1
      <4> QED
        BY <1>1, <1>3, <4>1, TextOf
    <3> QED
      BY <1>3, <3>1, <3>2, <3>3 DEF HoldsBack
  <2>3. AlreadyRead'
    <3> SUFFICES ASSUME NEW n \in 1 .. Len(printed')
                 PROVE  \E f \in 1 .. reader'.file : \E i \in 1 .. Len(content'[f]) :
                          /\ printed'[n] = content'[f][i] /\ printed'[n] > 0
                          /\ f = reader'.file => i <= reader'.pos - Len(reader'.partial)
      BY DEF AlreadyRead, Past
    <3>1. F < name[0]
      BY <1>1, <1>3
    <3>2. PICK f \in 1 .. F : \E i \in 1 .. Len(content[f]) :
            printed[n] = content[f][i] /\ printed[n] > 0
      BY <1>1 DEF LogInv, AlreadyRead, Past, F
    <3>3. f \in 1 .. reader'.file /\ f # reader'.file
      BY <1>1, <1>3, <3>1
    <3> QED
      BY <1>1, <3>2, <3>3
  <2> QED
    BY <1>2, <1>3, <2>1, <2>2, <2>3 DEF LogInv
<1>4. CASE Logs!Open
  <2>1. reader' = [pc |-> "history", file |-> name[0], pos |-> 0, partial |-> <<>>]
    BY <1>4 DEF Logs!Open, Logs!NewReader
  <2>2. reader' \in ReaderType
    <3>1. <<>> \in Seq(Int) /\ name[0] \in Nat
      BY <1>1
    <3> QED
      BY <2>1, <3>1 DEF ReaderType
  <2>3. printed = <<>>
    BY <1>4 DEF Logs!Open, LogInv
  <2> QED
    BY <1>3, <2>1, <2>2, <2>3
<1>5. CASE Logs!Reopen
  <2>1. CASE name[0] # 0 /\ (name[0] # F \/ Logs!Shrank)
    <3>1. reader' = [pc |-> "drain", file |-> name[0], pos |-> 0, partial |-> <<>>]
      BY <1>5, <2>1 DEF Logs!Reopen, Logs!NewReader, Logs!NoFile, F
    <3>2. reader' \in ReaderType
      <4>1. <<>> \in Seq(Int) /\ name[0] \in Nat
        BY <1>1
      <4> QED
        BY <3>1, <4>1 DEF ReaderType
    <3>3. ~(name[0] = F /\ Logs!Shrank)
      <4> SUFFICES ASSUME name[0] = F PROVE ~Logs!Shrank
        OBVIOUS
      <4>1. reader.pos \in Nat /\ Len(content[F]) \in Nat /\ reader.pos <= Len(content[F])
        BY <2>1, ReaderOf DEF F
      <4> QED
        BY <4>1 DEF Logs!Shrank
    <3>4. F < name[0]
      <4>1. F <= Len(content)
        BY ReaderOf DEF F
      <4> QED
        BY <1>1, <2>1, <3>3, <4>1
    <3> QED
      BY <1>3, <3>1, <3>2, <3>4
  <2>2. CASE ~(name[0] # 0 /\ (name[0] # F \/ Logs!Shrank))
    <3>1. reader' = [reader EXCEPT !.pc = "drain"]
      BY <1>5, <2>2 DEF Logs!Reopen, Logs!NoFile, F
    <3>2. /\ reader' \in ReaderType /\ reader'.pc = "drain" /\ reader'.file = reader.file
          /\ reader'.pos = reader.pos /\ reader'.partial = reader.partial
      BY <1>1, <3>1 DEF ReaderType
    <3>3. LogTypes'
      BY <1>1, <3>2 DEF LogInv, LogTypes
    <3>4. HoldsBack'
      BY <1>1, <3>2 DEF LogInv, HoldsBack
    <3>5. AlreadyRead'
      <4> SUFFICES ASSUME NEW n \in 1 .. Len(printed')
                   PROVE  \E f \in 1 .. reader'.file : \E i \in 1 .. Len(content'[f]) :
                            /\ printed'[n] = content'[f][i] /\ printed'[n] > 0
                            /\ f = reader'.file => i <= reader'.pos - Len(reader'.partial)
        BY DEF AlreadyRead, Past
      <4>1. \E f \in 1 .. reader.file : \E i \in 1 .. Len(content[f]) :
              /\ printed[n] = content[f][i] /\ printed[n] > 0
              /\ f = reader.file => i <= reader.pos - Len(reader.partial)
        BY <1>1 DEF LogInv, AlreadyRead, Past
      <4> QED
        BY <1>1, <3>2, <4>1
    <3> QED
      BY <1>2, <3>2, <3>3, <3>4, <3>5 DEF LogInv
  <2> QED
    BY <2>1, <2>2
<1> QED
  BY <1>4, <1>5

\* The log and its follower stay coherent: files only grow and are followed in
\* the order they were created, a reader holds back the end of what it read and
\* printed nothing that it has not read (RotatingFile of logfile.rs, Tail of
\* cli/tail.rs).
THEOREM FollowersCoherent == Logs!LogFileAssumption => (Logs!Spec => []LogInv)
<1> SUFFICES ASSUME Logs!LogFileAssumption PROVE Logs!Spec => []LogInv
  OBVIOUS
<1>0. Retained \in Nat /\ Count \in Nat
  BY DEF Logs!LogFileAssumption
<1>1. Logs!Init => LogInv
  BY <1>0, LogInit
<1>2. LogInv /\ [Logs!Next]_Logs!vars => LogInv'
  <2> SUFFICES ASSUME LogInv, [Logs!Next]_Logs!vars PROVE LogInv'
    OBVIOUS
  <2>1. CASE Logs!Begins \/ Logs!Remove \/ Logs!Shift \/ Logs!RenameActive \/ Logs!Kill
    BY <1>0, <2>1, LogRenames
  <2>2. CASE Logs!OpenNext \/ Logs!Start
    BY <1>0, <2>2, LogOpenings
  <2>3. CASE Logs!WriteLine \/ Logs!WriteEnd \/ Logs!Fails
    BY <2>3, LogWrites
  <2>4. CASE Logs!History \/ Logs!Drain
    BY <1>0, <2>4, LogReads
  <2>5. CASE Logs!Open \/ Logs!Reopen
    BY <2>5, LogFollows
  <2>6. CASE UNCHANGED Logs!vars
    <3>1. Grows
      BY <2>6, TextOf DEF Logs!vars, LogInv, LogTypes, Grows
    <3>2. DOMAIN name' = 0 .. Retained /\ appender' \in WriterType /\ begun' \in Nat /\ Newest'
      BY <2>6 DEF Logs!vars, LogInv, LogTypes, Newest
    <3>3. Ordered'
      BY <2>6 DEF Logs!vars, LogInv, Ordered
    <3>4. Fresh'
      BY <2>6 DEF Logs!vars, LogInv, Fresh
    <3> QED
      BY <2>6, <3>1, <3>2, <3>3, <3>4, ServerSteps DEF Logs!vars
  <2> QED
    BY <2>1, <2>2, <2>3, <2>4, <2>5, <2>6 DEF Logs!Next, Logs!AppendStep, Logs!Follow
<1> QED
  BY <1>1, <1>2, PTL DEF Logs!Spec

\* A behaviour of a log that is followed is one of LogFile.
LEMMA LogPart ==
  /\ HostsSpec /\ part = "log" => Logs!Spec
  /\ HostsSpec /\ ~(part = "log") => []~(part = "log")
<1>1. HostsInit /\ part = "log" => Logs!Init
  BY DEF HostsInit
<1>2. part = "log" /\ [HostsNext]_hostsVars => (part = "log")' /\ [Logs!Next]_(Logs!vars)
  BY DEF HostsNext, hostsVars, logVars, Logs!vars
<1>3. ~(part = "log") /\ [HostsNext]_hostsVars => ~(part = "log")'
  BY DEF HostsNext, hostsVars
<1> QED
  BY <1>1, <1>2, <1>3, PTL DEF HostsSpec, Logs!Spec

\* A follower prints the records in the order they were appended and none twice,
\* whatever rotation, torn line or restart it meets (Tail of cli/tail.rs).
THEOREM PrintedAlwaysInOrder ==
  Logs!LogFileAssumption => (HostsSpec => []PrintedInOrder)
<1> SUFFICES ASSUME Logs!LogFileAssumption PROVE HostsSpec => []PrintedInOrder
  OBVIOUS
<1>1. Logs!Spec => []LogInv
  BY FollowersCoherent
<1>2. LogInv => PrintedInOrder
  BY DEF LogInv, PrintedInOrder
<1>3. ~(part = "log") => PrintedInOrder
  BY DEF PrintedInOrder
<1> QED
  BY LogPart, <1>1, <1>2, <1>3, PTL
=============================================================================
