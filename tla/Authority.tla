------------------------------ MODULE Authority ------------------------------
(***************************************************************************)
(* The proxy's certificate authority and the machines that trust it, from  *)
(* mitm/ca.rs, control/ca.rs, client_ca.rs and the launch check.           *)
(*                                                                         *)
(* A CA is a number, never reused; a leaf and a leaf key carry the number  *)
(* of the CA they were minted with.  The current one is three files,       *)
(* written one after another; the next one is one file.  The server can be *)
(* killed between any two writes, and a write can fail.                    *)
(*                                                                         *)
(* A machine's ca.pem is the set of CAs it trusts.                         *)
(***************************************************************************)
EXTENDS Naturals, FiniteSets

CONSTANTS Machine,
          Overlap,     \* how long a staged CA waits
          Validity,    \* how long a CA is valid
          MaxCa,       \* bound: CAs minted
          MaxTime,     \* bound: the clock
          MaxFault     \* bound: kills and failed writes

\* NEXT_OVERLAP and VALIDITY of mitm/ca.rs are lengths of time.
AuthorityAssumption == Overlap \in Nat /\ Validity \in Nat

None == 0
NoFiles == [ca |-> None, leaf |-> None, key |-> None]
Quiet == [op |-> "none"]
Unknown == [current |-> None, key |-> None, next |-> None]

VARIABLES
  now,
  issued,     \* when each CA was minted
  covers,     \* the CAs whose leaf covers every intercepted name
  files,      \* mitm-ca.pem, mitm-leaf.pem and mitm-leaf-key.pem
  staged,     \* mitm-ca-next.pem
  up,
  mem,        \* Authorities: the current CA, the key its leaf is served with, the next
  writing,    \* the write_current under way
  trust, pin, \* per machine: the CAs of ca.pem, the ca_fingerprint of client.toml
  seen,       \* per machine: the answer of GET /control/v1/ca being written
  fresh,      \* machines that followed since the last CA was staged or rotated
  lost,       \* a rotation at once or a first generation was cut short
  dropped,    \* the CAs a rotation at once dropped
  faults

minted == <<issued, covers>>
disk == <<files, staged>>
machines == <<trust, pin, seen>>
vars == <<now, minted, disk, up, mem, writing, machines, fresh, lost, dropped, faults>>

NextId == Cardinality(DOMAIN issued) + 1
Fault == faults < MaxFault /\ faults' = faults + 1
Mint(full) ==
  /\ NextId <= MaxCa
  /\ issued' = [c \in 1 .. NextId |-> IF c = NextId THEN now ELSE issued[c]]
  /\ covers' = IF full THEN covers \cup {NextId} ELSE covers

\* A server of an earlier version left the first CA, whose leaf may not cover
\* a name that version did not intercept, or there is none yet.
Init ==
  /\ now = 0 /\ issued \in {[c \in 1 .. 1 |-> 0]} /\ covers \in {{}, {1}}
  /\ files \in {NoFiles, [ca |-> 1, leaf |-> 1, key |-> 1]} /\ staged = None
  /\ up = FALSE /\ mem = Unknown /\ writing = Quiet
  /\ trust = [m \in Machine |-> {}] /\ pin = [m \in Machine |-> None]
  /\ seen = [m \in Machine |-> Quiet]
  /\ fresh = {} /\ lost = FALSE /\ dropped = {} /\ faults = 0

----------------------------------------------------------------------------
(* The files. *)

Expired(c) == issued[c] + Validity < now

\* load: the leaf is signed by the CA, both are in their validity, and the key
\* is a key.
Loads(f) == f.ca # None /\ f.leaf = f.ca /\ f.key # None /\ ~Expired(f.ca)

\* The staged file is ignored when it is not usable.
UsableNext(c) == c # None /\ ~Expired(c)

SwitchAt(a) ==
  IF a.current = None THEN issued[a.next]
  ELSE LET overlap == issued[a.next] + Overlap
           expiry == issued[a.current] + Validity
       IN IF overlap < expiry THEN overlap ELSE expiry

Due(a) == a.next # None /\ SwitchAt(a) <= now

\* write_current, for a CA that was minted, staged or is being renewed.
Writes(op, c, starting) == writing' = [op |-> op, id |-> c, file |-> "ca", starting |-> starting]

\* The CA a tunnel to a host presents: the next one when the current leaf does
\* not cover the host.
Presented(a, full) ==
  IF a.current # None /\ (full => a.current \in covers) THEN a.current ELSE a.next

----------------------------------------------------------------------------
(* The server's start. *)

\* stage_missing_names: the newest CA's leaf misses a name, so another is
\* staged in its place.
Newest(a) == IF a.next # None THEN a.next ELSE a.current
Covered(a) == Newest(a) = None \/ Newest(a) \in covers \/ NextId > MaxCa

Start ==
  /\ ~up /\ up' = TRUE
  /\ LET next == IF UsableNext(staged) THEN staged ELSE None
         a == [current |-> IF Loads(files) THEN files.ca ELSE None,
               key |-> files.key, next |-> next]
         keeps == UNCHANGED <<minted, staged, fresh, faults>> IN
       \/ /\ next = None /\ files = NoFiles
          /\ Mint(TRUE) /\ Writes("generate", NextId, TRUE) /\ mem' = Unknown
          /\ UNCHANGED <<staged, fresh, faults>>
       \/ Due(a) /\ Writes("promote", next, TRUE) /\ mem' = a /\ keeps
       \/ /\ ~Due(a) /\ ~(next = None /\ files = NoFiles)
          /\ UNCHANGED writing
          /\ \/ Covered(a) /\ mem' = a /\ keeps
             \/ ~Covered(a) /\ Fault /\ mem' = a /\ UNCHANGED <<minted, staged, fresh>>
             \/ /\ ~Covered(a) /\ Mint(TRUE) /\ staged' = NextId
                /\ mem' = [a EXCEPT !.next = NextId] /\ fresh' = {} /\ UNCHANGED faults
  /\ UNCHANGED <<now, files, machines, lost, dropped>>

NextFile == [ca |-> "leaf", leaf |-> "key", key |-> "done"]

\* Mutant: the staged file goes before the current ones are written.
WriteFileUnstaged ==
  /\ up /\ writing.op # "none" /\ writing.file # "done"
  /\ files' = [files EXCEPT ![writing.file] = writing.id]
  /\ writing' = [writing EXCEPT !.file = NextFile[@]]
  /\ staged' = None
  /\ UNCHANGED <<now, minted, up, mem, machines, fresh, lost, dropped, faults>>

\* The CA certificate, the leaf, the leaf key, in this order.
WriteFile ==
  /\ up /\ writing.op # "none" /\ writing.file # "done"
  /\ files' = [files EXCEPT ![writing.file] = writing.id]
  /\ writing' = [writing EXCEPT !.file = NextFile[@]]
  /\ UNCHANGED <<now, minted, staged, up, mem, machines, fresh, lost, dropped, faults>>

\* The last file is written: the CA is the current one, and a promoted one's
\* staged file goes, or is left for the next start to promote again.
Takeover ==
  /\ up /\ writing.op # "none" /\ writing.file = "done"
  /\ mem' = [current |-> writing.id, key |-> writing.id, next |-> None]
  /\ \/ staged' = (IF writing.op = "promote" THEN None ELSE staged) /\ UNCHANGED faults
     \/ writing.op = "promote" /\ Fault /\ UNCHANGED staged
  /\ writing' = Quiet /\ lost' = FALSE
  /\ UNCHANGED <<now, minted, files, up, machines, fresh, dropped>>

\* What was written of a rotation or a first generation cannot be completed.
CutShort == writing.op \in {"generate", "rotate"}

\* A start that cannot write has no CA; a rotation answers that it failed and a
\* switch is tried again, the memory as it was.
WriteFileFails ==
  /\ up /\ writing.op # "none" /\ writing.file # "done" /\ Fault
  /\ writing' = Quiet /\ lost' = (lost \/ CutShort)
  /\ mem' = IF writing.starting THEN Unknown ELSE mem
  /\ UNCHANGED <<now, minted, disk, up, machines, fresh, dropped>>

----------------------------------------------------------------------------
(* Rotation. *)

\* The default: the next CA is staged, unless one is already.
RotateStaged ==
  /\ up /\ writing = Quiet /\ mem.current # None /\ mem.next = None
  /\ Mint(TRUE) /\ staged' = NextId /\ mem' = [mem EXCEPT !.next = NextId]
  /\ fresh' = {}
  /\ UNCHANGED <<now, files, up, writing, machines, lost, dropped, faults>>

\* `now`, or an unusable current CA: the staged file goes first.
RotateNow ==
  /\ up /\ writing = Quiet
  /\ Mint(TRUE) /\ staged' = None /\ Writes("rotate", NextId, FALSE)
  /\ fresh' = {} /\ dropped' = dropped \cup ({mem.next} \ {None})
  /\ UNCHANGED <<now, files, up, mem, machines, lost, faults>>

\* switch_when_due
SwitchWhenDue ==
  /\ up /\ writing = Quiet /\ Due(mem)
  /\ Writes("promote", mem.next, FALSE)
  /\ UNCHANGED <<now, minted, disk, up, mem, machines, fresh, lost, dropped, faults>>

----------------------------------------------------------------------------
(* The machines. *)

\* A join writes the CA the claim answered.
Enrol(m) ==
  /\ trust[m] = {} /\ up /\ writing = Quiet /\ mem.current # None
  /\ trust' = [trust EXCEPT ![m] = {mem.current}]
  /\ pin' = [pin EXCEPT ![m] = mem.current]
  /\ fresh' = IF mem.next = None THEN fresh \cup {m} ELSE fresh
  /\ UNCHANGED <<now, minted, disk, up, mem, writing, seen, lost, dropped, faults>>

\* follow, and the refresh of a launch whose handshake failed: nothing to do
\* when the machine holds what the server names.
Follow(m) ==
  /\ trust[m] # {} /\ seen[m] = Quiet
  /\ up /\ writing = Quiet /\ mem.current # None
  /\ trust[m] # {mem.current, mem.next} \ {None} \/ pin[m] # mem.current
  /\ seen' = [seen EXCEPT ![m] = [op |-> "pem", current |-> mem.current, next |-> mem.next, at |-> NextId]]
  /\ UNCHANGED <<now, minted, disk, up, mem, writing, trust, pin, fresh, lost, dropped, faults>>

\* Mutant: the staged CA is left out.
FollowedCurrent(m) == {seen[m].current}

\* ca.pem holds the current CA and then the staged one.
Followed(m) == {seen[m].current, seen[m].next} \ {None}

FollowPem(m) ==
  /\ seen[m].op = "pem"
  /\ trust' = [trust EXCEPT ![m] = Followed(m)]
  /\ seen' = [seen EXCEPT ![m].op = "toml"]
  /\ fresh' = IF seen[m].at = NextId THEN fresh \cup {m} ELSE fresh
  /\ UNCHANGED <<now, minted, disk, up, mem, writing, pin, lost, dropped, faults>>

FollowToml(m) ==
  /\ seen[m].op = "toml"
  /\ pin' = [pin EXCEPT ![m] = seen[m].current]
  /\ seen' = [seen EXCEPT ![m] = Quiet]
  /\ UNCHANGED <<now, minted, disk, up, mem, writing, trust, fresh, lost, dropped, faults>>

\* The launch is killed, or a write fails: the next one follows again.
FollowStops(m) ==
  /\ seen[m] # Quiet /\ Fault
  /\ seen' = [seen EXCEPT ![m] = Quiet]
  /\ UNCHANGED <<now, minted, disk, up, mem, writing, trust, pin, fresh, lost, dropped>>

----------------------------------------------------------------------------
Tick ==
  /\ now < MaxTime /\ now' = now + 1
  /\ UNCHANGED <<minted, disk, up, mem, writing, machines, fresh, lost, dropped, faults>>

Kill ==
  /\ up /\ Fault /\ up' = FALSE
  /\ mem' = Unknown /\ writing' = Quiet /\ lost' = (lost \/ CutShort)
  /\ UNCHANGED <<now, minted, disk, machines, fresh, dropped>>

Next ==
  \/ Start \/ WriteFile \/ Takeover \/ WriteFileFails
  \/ RotateStaged \/ RotateNow \/ SwitchWhenDue
  \/ \E m \in Machine : Enrol(m) \/ Follow(m) \/ FollowPem(m) \/ FollowToml(m) \/ FollowStops(m)
  \/ Tick \/ Kill

Spec == Init /\ [][Next]_vars

----------------------------------------------------------------------------
(* Properties. *)

\* A machine that followed the server since the newest CA was staged trusts
\* whatever the proxy presents, before and after the switch, after any crash,
\* and for a host only the staged leaf covers, unless a rotation at once was cut
\* short since.
FollowersTrust ==
  up /\ writing = Quiet /\ ~lost =>
    \A m \in fresh, full \in BOOLEAN : Presented(mem, full) \in trust[m] \cup {None}

\* Whatever write a switch is stopped at, and by whatever, the next start finds
\* a CA on disk: the current one's files, or the staged one to promote again.
\* Only a rotation at once, or the first generation, can leave neither.
StartFindsCa ==
  ~lost /\ ~CutShort /\ files # NoFiles
    => Loads(files) \/ UsableNext(staged) \/ Expired(files.ca)

\* `ca rotate --now` drops the staged CA first "so it can never take over later".
DroppedForGood == mem.current \notin dropped

\* A CA the start-time check accepts can serve TLS: its key is its leaf's.
KeyIsTheLeafs == mem.current # None => mem.key = mem.current
=============================================================================
