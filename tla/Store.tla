-------------------------------- MODULE Store --------------------------------
(***************************************************************************)
(* The server's memory and its state file, from server.rs, state.rs,       *)
(* control/clients.rs, control/operator.rs and the start, the flusher and  *)
(* the stop of cli/mod.rs.                                                 *)
(*                                                                         *)
(* A write is a temporary file, a rename and a directory sync; each can    *)
(* fail and the process can end between any two.  Every writer holds the   *)
(* state_write lock from its snapshot to its end.  A writer of the pool    *)
(* also holds the pool's lock; a registry writer and the quota flusher     *)
(* have let it go, so quota changes go on under them.                      *)
(*                                                                         *)
(* A state is the registry, the version of the one account's credential,   *)
(* whether that account is errored, and a version of its quota.  Secrets   *)
(* are numbers, generated in order.                                        *)
(***************************************************************************)
EXTENDS Registry, FiniteSets

CONSTANTS Requests,      \* the registry mutations callers ask for
          MaxSecret,     \* bound: secrets generated
          MaxCred,       \* bound: credentials minted upstream
          MaxQuota,      \* bound: quota changes
          MaxFault       \* bound: failed writes, kills and power losses

ASSUME RequestsAssumption == Requests \subseteq RequestType
ASSUME BoundsAssumption ==
  MaxSecret \in Nat /\ MaxCred \in Nat /\ MaxQuota \in Nat /\ MaxFault \in Nat

Thread == {"registry", "pool", "flusher"}
NoRequest == [op |-> "none"]
Idle == [phase |-> "idle"]
EmptyState == [reg |-> EmptyRegistry, cred |-> 0, errored |-> FALSE, quota |-> 0]

VARIABLES
  up,        \* "down", "starting" (the write before the bind), "up", "ending"
  live,      \* the pool and the registry in memory
  file,      \* what the state file's path names
  durable,   \* what it names once power returns
  writer,    \* the state write each thread is in
  dirty,     \* quota_dirty
  stop,      \* the first cause of the stop, "no" before it
  secrets,   \* secrets generated so far
  late,      \* codes whose lifetime has passed
  minted,    \* external: the newest credential the provider issued
  fresh,     \* a credential the refresh received and has not stored, 0 if none
  told,      \* the secrets a caller was answered with
  spent,     \* <<code, secret>> of the claims answered
  faults

server == <<up, live, writer, dirty, stop, fresh>>
disk == <<file, durable>>
world == <<secrets, late, minted, told, spent, faults>>
vars == <<server, disk, world>>

Unlocked == \A t \in Thread : writer[t].phase = "idle"
Disclosed(req, n) == [n |-> n, id |-> req.id]

Init ==
  /\ up = "down" /\ live = EmptyState /\ file = EmptyState /\ durable = EmptyState
  /\ writer = [t \in Thread |-> Idle]
  /\ dirty = FALSE /\ stop = "no"
  /\ secrets = 0 /\ late = {} /\ minted = 0 /\ fresh = 0
  /\ told = {} /\ spent = {} /\ faults = 0

----------------------------------------------------------------------------
(* Start: the file is read; an account whose token lapsed with nothing to  *)
(* renew it is set aside, which is written before the listener binds.      *)
(* Quota restored from the file may have expired meanwhile.                *)

Start(lapsed, expired) ==
  /\ up = "down"
  /\ expired => file.quota < MaxQuota
  /\ LET kept == [file EXCEPT !.errored = @ \/ lapsed] IN
       /\ live' = IF expired THEN [kept EXCEPT !.quota = @ + 1] ELSE kept
       /\ IF kept = file
          THEN up' = "up" /\ UNCHANGED writer
          ELSE /\ up' = "starting"
               /\ writer' = [writer EXCEPT !["pool"] =
                    [phase |-> "write", kind |-> "start", n |-> 0, req |-> NoRequest, cand |-> kept]]
  /\ stop' = "no" /\ fresh' = 0
  /\ dirty' = expired
  /\ UNCHANGED <<disk, world>>

----------------------------------------------------------------------------
(* The writers. *)

Generated(req) == IF Discloses(req) = "none" THEN 0 ELSE secrets + 1

\* Mutant: the candidate is live before it is written.
MutateRegistryLive(req) ==
  /\ up = "up" /\ Unlocked
  /\ Admits(live.reg, req, late)
  /\ Generated(req) <= MaxSecret
  /\ secrets' = IF Discloses(req) = "none" THEN secrets ELSE secrets + 1
  /\ live' = [live EXCEPT !.reg = After(live.reg, req, Generated(req))]
  /\ writer' = [writer EXCEPT !["registry"] =
       [phase |-> "write", kind |-> "registry", n |-> Generated(req), req |-> req,
        cand |-> live']]
  /\ UNCHANGED <<up, dirty, stop, fresh, disk, late, minted, told, spent, faults>>

\* mutate_registry: the accounts are read under the pool lock, the candidate
\* is made by the request and is refused or written.  A request was admitted
\* before its body was read, so it may come after the stop was asked for.
MutateRegistry(req) ==
  /\ up = "up" /\ Unlocked
  /\ Admits(live.reg, req, late)
  /\ Generated(req) <= MaxSecret
  /\ secrets' = IF Discloses(req) = "none" THEN secrets ELSE secrets + 1
  /\ writer' = [writer EXCEPT !["registry"] =
       [phase |-> "write", kind |-> "registry", n |-> Generated(req), req |-> req,
        cand |-> [live EXCEPT !.reg = After(live.reg, req, Generated(req))]]]
  /\ UNCHANGED <<up, live, dirty, stop, fresh, disk, late, minted, told, spent, faults>>

\* mutate_pool: the candidate is a clone of the live pool, whose lock is kept.
MutatePool(changed) ==
  /\ up = "up" /\ Unlocked
  /\ writer' = [writer EXCEPT !["pool"] =
       [phase |-> "write", kind |-> "pool", n |-> 0, req |-> NoRequest, cand |-> changed]]

\* The refresh: upstream honours the newest credential once.
Renew ==
  /\ up = "up" /\ fresh = 0 /\ ~live.errored
  /\ live.cred = minted /\ minted < MaxCred
  /\ minted' = minted + 1 /\ fresh' = minted + 1
  /\ UNCHANGED <<up, live, writer, dirty, stop, disk, secrets, late, told, spent, faults>>

\* Its publication.
PublishFamily ==
  /\ fresh # 0
  /\ MutatePool([live EXCEPT !.cred = fresh, !.errored = FALSE])
  /\ UNCHANGED <<up, live, dirty, stop, fresh, disk, world>>

\* The operator gives the account a credential of a new login (meeting a
\* refresh under way is Refresh's subject).
ReplaceCredential ==
  /\ fresh = 0 /\ minted < MaxCred /\ minted' = minted + 1
  /\ MutatePool([live EXCEPT !.cred = minted + 1, !.errored = FALSE])
  /\ UNCHANGED <<up, live, dirty, stop, fresh, disk, secrets, late, told, spent, faults>>

\* A credential upstream no longer honours sets its account aside.
PersistErrored ==
  /\ fresh = 0 /\ live.cred < minted /\ ~live.errored
  /\ MutatePool([live EXCEPT !.errored = TRUE])
  /\ UNCHANGED <<up, live, dirty, stop, fresh, disk, world>>

\* The flusher, each second: expired quota and marked changes are written
\* together; the mark is cleared before the write.
FlushQuota(expired) ==
  /\ up = "up" /\ Unlocked /\ stop = "no"
  /\ dirty \/ expired
  /\ expired => live.quota < MaxQuota
  /\ LET now == IF expired THEN [live EXCEPT !.quota = @ + 1] ELSE live IN
       /\ live' = now
       /\ writer' = [writer EXCEPT !["flusher"] =
            [phase |-> "write", kind |-> "flush", n |-> 0, req |-> NoRequest, cand |-> now]]
  /\ dirty' = FALSE
  /\ UNCHANGED <<up, stop, fresh, disk, world>>

\* The end of an orderly stop: the connections have drained, the last flush.
FinalFlush ==
  /\ up = "up" /\ stop # "no" /\ Unlocked
  /\ IF dirty
     THEN /\ up' = "ending"
          /\ writer' = [writer EXCEPT !["flusher"] =
               [phase |-> "write", kind |-> "final", n |-> 0, req |-> NoRequest, cand |-> live]]
     ELSE up' = "down" /\ UNCHANGED writer
  /\ dirty' = FALSE /\ fresh' = 0
  /\ UNCHANGED <<live, stop, disk, world>>

----------------------------------------------------------------------------
(* write_private_atomic, and what follows from its result. *)

\* Mutant: a registry write leaves the memory as it was.
CommittedOnDisk(t) ==
  LET w == writer[t] IN
  /\ live' = IF w.kind = "pool" THEN w.cand ELSE live
  /\ told' = IF Discloses(w.req) = "none" THEN told
             ELSE told \cup {Disclosed(w.req, w.n)}
  /\ spent' = IF w.req.op = "claim" THEN spent \cup {<<w.req.code, w.n>>} ELSE spent

\* The candidate becomes live and the caller is answered.
Committed(t) ==
  LET w == writer[t] IN
  /\ live' = CASE w.kind = "registry" -> [live EXCEPT !.reg = w.cand.reg]
               [] w.kind = "pool" -> w.cand
               [] OTHER -> live
  /\ told' = IF Discloses(w.req) = "none" THEN told
             ELSE told \cup {Disclosed(w.req, w.n)}
  /\ spent' = IF w.req.op = "claim" THEN spent \cup {<<w.req.code, w.n>>} ELSE spent

Leaves(w) == CASE w.kind = "final" -> "down" [] w.kind = "start" -> "up" [] OTHER -> up

\* Mutant: the directory is not synced.
RenameUnsynced(t) ==
  /\ writer[t].phase = "write"
  /\ file' = writer[t].cand
  /\ Committed(t)
  /\ up' = Leaves(writer[t])
  /\ fresh' = IF writer[t].kind = "pool" THEN 0 ELSE fresh
  /\ writer' = [writer EXCEPT ![t] = Idle]
  /\ UNCHANGED <<dirty, stop, durable, secrets, late, minted, faults>>

Rename(t) ==
  /\ writer[t].phase = "write"
  /\ file' = writer[t].cand
  /\ writer' = [writer EXCEPT ![t].phase = "sync"]
  /\ UNCHANGED <<up, live, dirty, stop, fresh, durable, world>>

SyncDir(t) ==
  /\ writer[t].phase = "sync"
  /\ durable' = file
  /\ Committed(t)
  /\ up' = Leaves(writer[t])
  /\ fresh' = IF writer[t].kind = "pool" THEN 0 ELSE fresh
  /\ writer' = [writer EXCEPT ![t] = Idle]
  /\ UNCHANGED <<dirty, stop, file, secrets, late, minted, faults>>

\* The temporary file or the rename fails, or the sync of the directory after
\* the rename: the change is reported as not made, and the server stops.  The
\* renamed file is taken to reach the disk all the same.
WriteFails(t) ==
  /\ writer[t].phase \in {"write", "sync"} /\ faults < MaxFault
  /\ faults' = faults + 1
  /\ durable' = file
  /\ stop' = IF writer[t].kind \in {"registry", "pool", "flush"} /\ stop = "no"
             THEN "unwritable" ELSE stop
  /\ up' = IF writer[t].kind \in {"start", "final"} THEN "down" ELSE up
  /\ fresh' = IF writer[t].kind = "pool" THEN 0 ELSE fresh
  /\ writer' = [writer EXCEPT ![t] = Idle]
  /\ UNCHANGED <<live, dirty, file, secrets, late, minted, told, spent>>

----------------------------------------------------------------------------
(* What else happens. *)

\* Mutant: the change is not marked.
QuotaChangeUnmarked ==
  /\ up = "up" /\ writer["pool"].phase = "idle" /\ live.quota < MaxQuota
  /\ live' = [live EXCEPT !.quota = @ + 1]
  /\ UNCHANGED <<up, writer, dirty, stop, fresh, disk, world>>

\* Responses and probes change the quota under the pool lock and mark it.
QuotaChange ==
  /\ up = "up" /\ writer["pool"].phase = "idle" /\ live.quota < MaxQuota
  /\ live' = [live EXCEPT !.quota = @ + 1]
  /\ dirty' = TRUE
  /\ UNCHANGED <<up, writer, stop, fresh, disk, world>>

Signal ==
  /\ up = "up" /\ stop = "no"
  /\ stop' = "signal"
  /\ UNCHANGED <<up, live, writer, dirty, fresh, disk, world>>

Expire(n) ==
  /\ n \notin late
  /\ \E c \in Client : Present(live.reg, c) /\ live.reg.clients[c].verifier = Verifier("code", n)
  /\ late' = late \cup {n}
  /\ UNCHANGED <<server, disk, secrets, minted, told, spent, faults>>

\* The process is killed; what was renamed stays renamed.
Kill ==
  /\ up # "down" /\ faults < MaxFault
  /\ faults' = faults + 1
  /\ up' = "down" /\ writer' = [t \in Thread |-> Idle] /\ fresh' = 0
  /\ live' = EmptyState /\ dirty' = FALSE /\ stop' = "no"
  /\ durable' = file
  /\ UNCHANGED <<file, secrets, late, minted, told, spent>>

\* The machine loses power; an unsynced rename may be undone.
PowerLoss ==
  /\ up # "down" /\ faults < MaxFault
  /\ faults' = faults + 1
  /\ up' = "down" /\ writer' = [t \in Thread |-> Idle] /\ fresh' = 0
  /\ live' = EmptyState /\ dirty' = FALSE /\ stop' = "no"
  /\ \E f \in {file, durable} : file' = f /\ durable' = f
  /\ UNCHANGED <<secrets, late, minted, told, spent>>

WriterStep(t) == Rename(t) \/ SyncDir(t) \/ WriteFails(t)

ServerStep ==
  \/ \E lapsed, expired \in BOOLEAN : Start(lapsed, expired)
  \/ Renew \/ PublishFamily \/ ReplaceCredential \/ PersistErrored
  \/ \E expired \in BOOLEAN : FlushQuota(expired)
  \/ FinalFlush
  \/ \E t \in Thread : WriterStep(t)
  \/ QuotaChange \/ Signal
  \/ \E n \in 1 .. MaxSecret : Expire(n)
  \/ Kill \/ PowerLoss

Next == ServerStep \/ \E req \in Requests : MutateRegistry(req)

Spec == Init /\ [][Next]_vars

----------------------------------------------------------------------------
(* Properties. *)

Registries == [reg : [clients : [Client -> {Unissued} \cup
    [state : {"pending", "active", "revoked"}, gen : 1 .. MaxSecret,
     verifier : {NoVerifier} \cup [role : {"code", "secret"}, n : 1 .. MaxSecret],
     noAccount : BOOLEAN]], operator : 0 .. MaxSecret],
  cred : 0 .. MaxCred, errored : BOOLEAN, quota : 0 .. MaxQuota]

\* Every variable holds a value the program can hold, and an entry's verifier
\* has the role its state calls for.
TypeOK ==
  /\ up \in {"down", "starting", "up", "ending"}
  /\ {live, file, durable} \subseteq Registries
  /\ dirty \in BOOLEAN /\ stop \in {"no", "signal", "unwritable"}
  /\ secrets \in 0 .. MaxSecret /\ minted \in 0 .. MaxCred /\ fresh \in 0 .. MaxCred
  /\ \A c \in Client : Present(live.reg, c) =>
       live.reg.clients[c].verifier.role =
         CASE live.reg.clients[c].state = "pending" -> "code"
           [] live.reg.clients[c].state = "active" -> "secret"
           [] OTHER -> "none"

\* What a restart would find: the memory of a server that runs, else the disk.
Recoverable == IF up \in {"down", "starting"} THEN durable ELSE live

\* A secret that was disclosed stands in a registry, or a later one does, or it
\* was taken back.
Stands(reg, t) ==
  /\ t.id \in Client =>
       /\ Present(reg, t.id)
       /\ \/ reg.clients[t.id].verifier.n >= t.n
          \/ reg.clients[t.id].state = "revoked"
  /\ t.id = "operator" => reg.operator >= t.n \/ reg.operator = 0

\* A caller told of a secret finds it standing, or a later one, or the id
\* revoked, after any crash: the answer follows the directory sync.
DisclosedSurvives == \A t \in told : Stands(Recoverable.reg, t)

\* A code is exchanged for one secret, however often it is presented, in
\* whatever run of the server, and whichever write of its claim failed.
CodeSpentOnce == \A p, q \in spent : p[1] = q[1] => p = q

\* A clean flag means what it says: nothing is left to flush once the write
\* that cleared it has ended, whatever changed or failed meanwhile.
QuotaReachesFile ==
  up = "up" /\ Unlocked /\ stop = "no" /\ ~dirty => file.quota = live.quota

\* The registry and the accounts keep the promise of DurableStore: among the rest,
\* the stored credential never goes back to one the provider has retired.
Promise == INSTANCE DurableStore WITH
  store <- [reg |-> Recoverable.reg, cred |-> Recoverable.cred, errored |-> Recoverable.errored],
  told <- {t.n : t \in told}
KeepsPromise == Promise!Spec
=============================================================================
