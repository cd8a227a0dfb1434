---------------------------- MODULE StoreProofs ----------------------------
(* Theorems of Store, for every set of clients and of requests and every    *)
(* bound: what the registry and the quota keep through failed writes, kills *)
(* and power losses, and that Store implements DurableStore.                *)
EXTENDS Store, TLAPS

---------------------------------------------------------------------------
(* Registries whose secrets are at most the k-th. *)

EntryUpTo(k) ==
  [state : {"pending"}, gen : 1 .. k, verifier : [role : {"code"}, n : 1 .. k], noAccount : BOOLEAN]
  \cup [state : {"active"}, gen : 1 .. k, verifier : [role : {"secret"}, n : 1 .. k],
        noAccount : BOOLEAN]
  \cup [state : {"revoked"}, gen : 1 .. k, verifier : {NoVerifier}, noAccount : BOOLEAN]

RegistryUpTo(k) ==
  [clients : [Client -> {Unissued} \cup EntryUpTo(k)], operator : 0 .. k]

\* n is the secret a request generates from a registry of secrets up to the k-th.
Generates(req, n, k) ==
  IF Discloses(req) = "none" THEN n = 0 ELSE n \in Nat /\ n > k

LEMMA EntryMono ==
  ASSUME NEW k \in Nat, NEW j \in Nat, k <= j
  PROVE  EntryUpTo(k) \subseteq EntryUpTo(j)
BY DEF EntryUpTo

LEMMA RegistryMono ==
  ASSUME NEW k \in Nat, NEW j \in Nat, k <= j
  PROVE  RegistryUpTo(k) \subseteq RegistryUpTo(j)
<1> SUFFICES ASSUME NEW r \in RegistryUpTo(k)
             PROVE  r \in RegistryUpTo(j)
  OBVIOUS
<1>1. EntryUpTo(k) \subseteq EntryUpTo(j)
  BY EntryMono
<1>2. r.clients \in [Client -> {Unissued} \cup EntryUpTo(j)]
  BY <1>1 DEF RegistryUpTo
<1>3. r.operator \in 0 .. j
  BY DEF RegistryUpTo
<1> QED
  BY <1>2, <1>3 DEF RegistryUpTo

\* An entry that is present is one of the three states'.
LEMMA PresentEntry ==
  ASSUME NEW k \in Nat, NEW reg \in RegistryUpTo(k), NEW c \in Client, Present(reg, c)
  PROVE  reg.clients[c] \in EntryUpTo(k)
BY DEF RegistryUpTo, Present, Unissued

LEMMA SetType ==
  ASSUME NEW k \in Nat, NEW reg \in RegistryUpTo(k), NEW c \in Client, NEW e \in EntryUpTo(k)
  PROVE  /\ Set(reg, c, e) \in RegistryUpTo(k)
         /\ Set(reg, c, e).clients = [reg.clients EXCEPT ![c] = e]
         /\ Set(reg, c, e).operator = reg.operator
BY DEF RegistryUpTo, Set

\* A request that is admitted changes one client's entry, to one of its type.
LEMMA AfterClient ==
  ASSUME NEW k \in Nat, NEW reg \in RegistryUpTo(k), NEW req \in RequestType, NEW lapsed,
         Admits(reg, req, lapsed), req.op \notin {"setop", "rmop"},
         NEW n, Generates(req, n, k), NEW j \in Nat, k <= j, n <= j
  PROVE  \E e \in EntryUpTo(j) :
           /\ req.id \in Client
           /\ After(reg, req, n) = Set(reg, req.id, e)
           /\ e.state = "revoked" \/ (Discloses(req) # "none" /\ e.verifier.n = n)
           /\ req.op = "claim" => reg.clients[req.id].verifier = Verifier("code", req.code)
                                  /\ e.verifier.role = "secret"
           /\ req.op # "issue" => Present(reg, req.id)
<1>1. req.id \in Client
  BY DEF RequestType
<1>2. Present(reg, req.id) => reg.clients[req.id] \in EntryUpTo(k)
  BY <1>1, PresentEntry
<1>3. CASE req.op = "issue"
  <2>1. n \in 1 .. j
    BY <1>3 DEF Generates, Discloses
  <2>2. req.noAccount \in BOOLEAN
    BY <1>3 DEF RequestType
  <2>3. Pending(1, n, req.noAccount) \in EntryUpTo(j)
    BY <2>1, <2>2 DEF Pending, EntryUpTo, Verifier
  <2> QED
    BY <1>1, <1>3, <2>1, <2>3 DEF After, Issue, Pending, Verifier, Discloses
<1>4. CASE req.op = "reissue"
  <2>1. n \in 1 .. j /\ k < j
    BY <1>4 DEF Generates, Discloses
  <2>2. req.noAccount \in BOOLEAN
    BY <1>4 DEF RequestType
  <2>3. Present(reg, req.id)
    BY <1>4 DEF Admits, MayReissue
  <2>4. reg.clients[req.id].gen + 1 \in 1 .. j
    BY <1>2, <2>1, <2>3 DEF EntryUpTo
  <2>5. Pending(reg.clients[req.id].gen + 1, n, req.noAccount) \in EntryUpTo(j)
    BY <2>1, <2>2, <2>4 DEF Pending, EntryUpTo, Verifier
  <2> QED
    BY <1>1, <1>4, <2>3, <2>5 DEF After, Reissue, Pending, Verifier, Discloses
<1>5. CASE req.op = "claim"
  <2>1. n \in 1 .. j
    BY <1>5 DEF Generates, Discloses
  <2>2. /\ reg.clients[req.id].state = "pending"
        /\ reg.clients[req.id].verifier = Verifier("code", req.code)
    BY <1>5 DEF Admits, MayClaim
  <2>3. Present(reg, req.id)
    BY <2>2 DEF Present
  <2> DEFINE e == [reg.clients[req.id] EXCEPT !.state = "active",
                                              !.verifier = Verifier("secret", n)]
  <2>6. /\ reg.clients[req.id].gen \in 1 .. j /\ reg.clients[req.id].noAccount \in BOOLEAN
        /\ DOMAIN reg.clients[req.id] = {"state", "gen", "verifier", "noAccount"}
    BY <1>2, <2>3 DEF EntryUpTo
  <2>4. e \in EntryUpTo(j) /\ e.verifier = Verifier("secret", n)
    BY <2>1, <2>6 DEF EntryUpTo, Verifier
  <2>5. After(reg, req, n) = Set(reg, req.id, e)
    BY <1>5 DEF After, Claim
  <2> HIDE DEF e
  <2> QED
    BY <1>1, <1>5, <2>2, <2>3, <2>4, <2>5 DEF Verifier, Discloses
<1>6. CASE req.op = "rotate"
  <2>1. n \in 1 .. j /\ k < j
    BY <1>6 DEF Generates, Discloses
  <2>2. reg.clients[req.id].state = "active"
    BY <1>6 DEF Admits, MayRotate
  <2>3. Present(reg, req.id)
    BY <2>2 DEF Present
  <2> DEFINE e == [reg.clients[req.id] EXCEPT !.gen = @ + 1,
                                              !.verifier = Verifier("secret", n)]
  <2>6. /\ reg.clients[req.id].gen + 1 \in 1 .. j /\ reg.clients[req.id].noAccount \in BOOLEAN
        /\ reg.clients[req.id] \in [state : {"active"}, gen : 1 .. k,
                                   verifier : [role : {"secret"}, n : 1 .. k], noAccount : BOOLEAN]
    BY <1>2, <2>1, <2>2, <2>3 DEF EntryUpTo
  <2>4. e \in EntryUpTo(j) /\ e.verifier = Verifier("secret", n)
    BY <2>1, <2>6 DEF EntryUpTo, Verifier
  <2>5. After(reg, req, n) = Set(reg, req.id, e)
    BY <1>6 DEF After, Rotate
  <2> HIDE DEF e
  <2> QED
    BY <1>1, <1>6, <2>3, <2>4, <2>5 DEF Verifier, Discloses
<1>7. CASE req.op = "revoke"
  <2>1. Present(reg, req.id)
    BY <1>7 DEF Admits, MayRevoke
  <2> DEFINE e == [reg.clients[req.id] EXCEPT !.state = "revoked", !.verifier = NoVerifier]
  <2>4. /\ reg.clients[req.id].gen \in 1 .. j /\ reg.clients[req.id].noAccount \in BOOLEAN
        /\ DOMAIN reg.clients[req.id] = {"state", "gen", "verifier", "noAccount"}
    BY <1>2, <2>1 DEF EntryUpTo
  <2>2. e \in EntryUpTo(j) /\ e.state = "revoked"
    BY <2>4 DEF EntryUpTo
  <2>3. After(reg, req, n) = Set(reg, req.id, e)
    BY <1>7 DEF After, Revoke
  <2> HIDE DEF e
  <2> QED
    BY <1>1, <1>7, <2>1, <2>2, <2>3
<1>8. req.op \in {"issue", "reissue", "claim", "rotate", "revoke"}
  BY DEF RequestType
<1> QED
  BY <1>3, <1>4, <1>5, <1>6, <1>7, <1>8

LEMMA AfterType ==
  ASSUME NEW k \in Nat, NEW reg \in RegistryUpTo(k), NEW req \in RequestType, NEW lapsed,
         Admits(reg, req, lapsed),
         NEW n, Generates(req, n, k), NEW j \in Nat, k <= j, n <= j
  PROVE  After(reg, req, n) \in RegistryUpTo(j)
<1>0. reg \in RegistryUpTo(j)
  BY RegistryMono
<1>1. CASE req.op = "setop"
  <2>1. n \in 0 .. j
    BY <1>1 DEF Generates, Discloses
  <2> QED
    BY <1>0, <1>1, <2>1 DEF After, SetOperator, RegistryUpTo
<1>2. CASE req.op = "rmop"
  BY <1>0, <1>2 DEF After, RemoveOperator, RegistryUpTo
<1>3. CASE req.op \notin {"setop", "rmop"}
  <2>1. PICK e \in EntryUpTo(j) :
           req.id \in Client /\ After(reg, req, n) = Set(reg, req.id, e)
    BY <1>3, AfterClient
  <2>2. Set(reg, req.id, e) \in RegistryUpTo(j)
    BY <1>0, <2>1, SetType
  <2> QED
    BY <2>1, <2>2
<1> QED
  BY <1>1, <1>2, <1>3

\* A secret that was disclosed outlasts a request that generates a later one.
LEMMA AfterStands ==
  ASSUME NEW k \in Nat, NEW reg \in RegistryUpTo(k), NEW req \in RequestType, NEW lapsed,
         Admits(reg, req, lapsed), NEW n, Generates(req, n, k),
         NEW t \in [n : Nat, id : Client \cup {"operator"}], n = 0 \/ t.n < n, Stands(reg, t)
  PROVE  Stands(After(reg, req, n), t)
<1> DEFINE j == IF n = 0 THEN k ELSE n
<1>0. j \in Nat /\ n \in Nat /\ k <= j /\ n <= j /\ t.n \in Nat /\ reg.operator \in Nat
  BY DEF Generates, RegistryUpTo
<1> HIDE DEF j
<1>1. CASE req.op \in {"setop", "rmop"}
  <2>1. /\ After(reg, req, n).clients = reg.clients
        /\ After(reg, req, n).operator = 0 \/ After(reg, req, n).operator = n
    BY <1>1 DEF After, SetOperator, RemoveOperator, RegistryUpTo
  <2> QED
    BY <1>0, <2>1, SlotAssumption DEF Stands, Present
<1>2. CASE req.op \notin {"setop", "rmop"}
  <2>1. PICK e \in EntryUpTo(j) :
           /\ req.id \in Client
           /\ After(reg, req, n) = Set(reg, req.id, e)
           /\ e.state = "revoked" \/ (Discloses(req) # "none" /\ e.verifier.n = n)
           /\ req.op # "issue" => Present(reg, req.id)
    BY <1>0, <1>2, AfterClient
  <2>2. /\ After(reg, req, n).clients = [reg.clients EXCEPT ![req.id] = e]
        /\ After(reg, req, n).operator = reg.operator
    BY <2>1 DEF Set, RegistryUpTo
  <2>3. e.state # "absent"
    BY DEF EntryUpTo
  <2>4. Discloses(req) # "none" => n \in Nat /\ n # 0
    BY DEF Generates
  <2>5. reg.clients \in [Client -> {Unissued} \cup EntryUpTo(k)]
    BY DEF RegistryUpTo
  <2>6. t.id \in Client => \/ After(reg, req, n).clients[t.id] = reg.clients[t.id]
                           \/ After(reg, req, n).clients[t.id] = e
    BY <2>1, <2>2, <2>5
  <2>7. e.state = "revoked" \/ (e.verifier.n = n /\ t.n <= n)
    BY <1>0, <2>1, <2>4
  <2> QED
    BY <1>0, <2>2, <2>3, <2>6, <2>7 DEF Stands, Present
<1> QED
  BY <1>1, <1>2

\* What a request discloses stands in the registry it leaves.
LEMMA AfterDisclosed ==
  ASSUME NEW k \in Nat, NEW reg \in RegistryUpTo(k), NEW req \in RequestType, NEW lapsed,
         Admits(reg, req, lapsed), NEW n, Generates(req, n, k), Discloses(req) # "none"
  PROVE  Stands(After(reg, req, n), Disclosed(req, n))
<1>0. n \in Nat /\ k <= n
  BY DEF Generates
<1>1. CASE req.op = "setop"
  <2>1. After(reg, req, n).operator = n
    BY <1>1 DEF After, SetOperator, RegistryUpTo
  <2>2. req.id = "operator"
    BY <1>1 DEF RequestType
  <2> QED
    BY <1>0, <2>1, <2>2, SlotAssumption DEF Stands, Disclosed
<1>2. CASE req.op # "setop"
  <2>0. req.op \notin {"setop", "rmop"}
    BY <1>2 DEF Discloses
  <2>1. PICK e \in EntryUpTo(n) :
           /\ req.id \in Client
           /\ After(reg, req, n) = Set(reg, req.id, e)
           /\ e.state = "revoked" \/ e.verifier.n = n
    BY <1>0, <2>0, AfterClient
  <2>2. After(reg, req, n).clients[req.id] = e
    BY <2>1 DEF Set, RegistryUpTo
  <2>3. e.state # "absent"
    BY DEF EntryUpTo
  <2> QED
    BY <1>0, <2>1, <2>2, <2>3, SlotAssumption DEF Stands, Disclosed, Present
<1> QED
  BY <1>1, <1>2

---------------------------------------------------------------------------
(* Codes. *)

\* No entry of the registry accepts the code; no two accept one code.
Gone(reg, code) ==
  \A c \in Client : Present(reg, c) => reg.clients[c].verifier # Verifier("code", code)
Unique(reg) ==
  \A c, d \in Client : /\ Present(reg, c) /\ Present(reg, d)
                       /\ reg.clients[c].verifier = reg.clients[d].verifier
                       /\ reg.clients[c].verifier.role = "code"
                       => c = d

LEMMA AfterCodes ==
  ASSUME NEW k \in Nat, NEW reg \in RegistryUpTo(k), NEW req \in RequestType, NEW lapsed,
         Admits(reg, req, lapsed), NEW n, Generates(req, n, k), Unique(reg)
  PROVE  /\ Unique(After(reg, req, n))
         /\ \A code \in Nat : Gone(reg, code) /\ (n = 0 \/ code < n)
                             => Gone(After(reg, req, n), code)
         /\ req.op = "claim" => Gone(After(reg, req, n), req.code)
<1> DEFINE j == IF n = 0 THEN k ELSE n
<1>0. j \in Nat /\ k <= j /\ n <= j
  BY DEF Generates
<1> HIDE DEF j
<1>1. CASE req.op \in {"setop", "rmop"}
  <2>1. After(reg, req, n).clients = reg.clients
    BY <1>1 DEF After, SetOperator, RemoveOperator, RegistryUpTo
  <2> QED
    BY <1>1, <2>1 DEF Gone, Unique, Present
<1>2. CASE req.op \notin {"setop", "rmop"}
  <2>1. PICK e \in EntryUpTo(j) :
           /\ req.id \in Client
           /\ After(reg, req, n) = Set(reg, req.id, e)
           /\ e.state = "revoked" \/ (Discloses(req) # "none" /\ e.verifier.n = n)
           /\ req.op = "claim" => /\ reg.clients[req.id].verifier = Verifier("code", req.code)
                                  /\ e.verifier.role = "secret"
           /\ req.op # "issue" => Present(reg, req.id)
    BY <1>0, <1>2, AfterClient
  <2> DEFINE new == After(reg, req, n)
  <2>2. \A c \in Client : new.clients[c] = IF c = req.id THEN e ELSE reg.clients[c]
    BY <2>1 DEF Set, RegistryUpTo
  <2> HIDE DEF new
  \* The new verifier is no code, or one no other entry has.
  <2>3. e.verifier.role = "code" => n \in Nat /\ n > k /\ e.verifier.n = n
    BY <2>1 DEF EntryUpTo, NoVerifier, Generates
  <2>4. \A c \in Client : Present(reg, c) /\ reg.clients[c].verifier.role = "code"
                          => reg.clients[c].verifier.n \in 1 .. k
    BY PresentEntry DEF EntryUpTo, NoVerifier
  <2>5. \A c \in Client : c # req.id /\ Present(reg, c)
          => ~(reg.clients[c].verifier = e.verifier /\ e.verifier.role = "code")
    BY <2>3, <2>4
  <2>6. Unique(new)
    BY <2>2, <2>5 DEF Unique, Present
  <2>7. ASSUME NEW code \in Nat, Gone(reg, code), n = 0 \/ code < n
        PROVE  Gone(new, code)
    <3>1. e.verifier # Verifier("code", code)
      <4> SUFFICES ASSUME e.verifier = Verifier("code", code)
                   PROVE  FALSE
        OBVIOUS
      <4>1. e.verifier.role = "code" /\ e.verifier.n = code
        BY DEF Verifier
      <4> QED
        BY <2>3, <2>7, <4>1
    <3> QED
      BY <2>2, <2>7, <3>1 DEF Gone, Present
  <2>8. ASSUME req.op = "claim"
        PROVE  Gone(new, req.code)
    <3>1. e.verifier # Verifier("code", req.code)
      BY <2>1, <2>8 DEF Verifier
    <3>2. /\ Present(reg, req.id) /\ reg.clients[req.id].verifier = Verifier("code", req.code)
          /\ reg.clients[req.id].verifier.role = "code"
      BY <2>1, <2>8 DEF Verifier
    <3>3. \A c \in Client : c # req.id /\ Present(reg, c)
            => reg.clients[c].verifier # Verifier("code", req.code)
      BY <2>1, <3>2 DEF Unique
    <3> QED
      BY <2>2, <3>1, <3>3 DEF Gone, Present
  <2> QED
    BY <2>6, <2>7, <2>8 DEF new
<1> QED
  BY <1>1, <1>2

---------------------------------------------------------------------------
(* What a step may leave between the memory and the disk: the state b a     *)
(* restart may find where the server's memory is a.                         *)

StateUpTo(k) ==
  [reg : RegistryUpTo(k), cred : 0 .. MaxCred, errored : BOOLEAN, quota : 0 .. MaxQuota]

Same(a, b) == b.reg = a.reg /\ b.cred = a.cred /\ b.errored = a.errored
Renewed(a, b) == b.reg = a.reg /\ b.cred > a.cred /\ b.errored = FALSE
Aside(a, b) == b.reg = a.reg /\ b.cred = a.cred /\ b.errored = TRUE

\* n is a secret younger than those the registry holds and those of T and S:
\* k secrets were generated, T were told, S are the codes spent.
Fresh(reg, req, n, k, T, S) ==
  IF Discloses(req) = "none" THEN n = 0
  ELSE /\ n \in 1 .. k /\ reg \in RegistryUpTo(n - 1)
       /\ \A t \in T : t.n < n
       /\ \A p \in S : p[1] < n

Changed(a, b, req, n, k, T, S) ==
  /\ Admits(a.reg, req, {}) /\ Fresh(a.reg, req, n, k, T, S)
  /\ b.reg = After(a.reg, req, n) /\ b.cred = a.cred /\ b.errored = a.errored

Ahead(a, b, k, T, S) ==
  \/ Same(a, b) \/ Renewed(a, b) \/ Aside(a, b)
  \/ \E req \in Requests, n \in 0 .. k : Changed(a, b, req, n, k, T, S)

\* What a registry owes those who were answered.
Sound(reg, T, S) ==
  /\ \A t \in T : Stands(reg, t)
  /\ \A p \in S : Gone(reg, p[1])
  /\ Unique(reg)

ToldUpTo(k) == [n : 1 .. k, id : Client \cup {"operator"}]
SpentUpTo(k) == (1 .. k) \X (1 .. k)
Once(S) == \A p, q \in S : p[1] = q[1] => p = q

---------------------------------------------------------------------------
(* The inductive invariant. *)

WritingUpTo(k) ==
  [phase : {"write", "sync"}, kind : {"registry", "pool", "start", "flush", "final"},
   n : 0 .. k, req : Requests \cup {NoRequest}, cand : StateUpTo(k)]

Types ==
  /\ up \in {"down", "starting", "up", "ending"}
  /\ dirty \in BOOLEAN /\ stop \in {"no", "signal", "unwritable"}
  /\ secrets \in 0 .. MaxSecret /\ minted \in 0 .. MaxCred /\ fresh \in 0 .. MaxCred
  /\ live \in StateUpTo(secrets) /\ file \in StateUpTo(secrets)
  /\ durable \in StateUpTo(secrets)
  /\ writer \in [Thread -> {Idle} \cup WritingUpTo(secrets)]
  /\ told \subseteq ToldUpTo(secrets) /\ spent \subseteq SpentUpTo(secrets)

\* What a writer is doing, by the thread it runs on.
Purpose(t) ==
  LET w == writer[t] IN
  \/ /\ t = "registry" /\ w.kind = "registry" /\ up = "up"
     /\ w.req \in Requests /\ Changed(live, w.cand, w.req, w.n, secrets, told, spent)
  \/ /\ t = "pool" /\ w.kind = "pool" /\ up = "up" /\ w.req = NoRequest
     /\ w.cand.quota = live.quota
     /\ Renewed(live, w.cand) \/ Aside(live, w.cand)
  \/ /\ t = "pool" /\ w.kind = "start" /\ up = "starting" /\ w.req = NoRequest
     /\ Same(live, w.cand) /\ Aside(durable, w.cand)
  \/ /\ t = "flusher" /\ w.kind = "flush" /\ up = "up" /\ w.req = NoRequest
     /\ Same(live, w.cand)
  \/ /\ t = "flusher" /\ w.kind = "final" /\ up = "ending" /\ w.req = NoRequest
     /\ Same(live, w.cand)

\* One writer at a time, and none without a server.
OneWriter ==
  /\ \A t \in Thread : writer[t].phase # "idle" => up # "down" /\ Purpose(t)
  /\ \A t, u \in Thread : writer[t].phase # "idle" /\ writer[u].phase # "idle" => t = u

\* The two views of the directory differ only while its sync is awaited, and
\* then the file is the candidate; what either may leave to a restart is the
\* memory, or one step ahead of it.
Disks ==
  /\ (\A t \in Thread : writer[t].phase # "sync") => file = durable
  /\ \A t \in Thread : writer[t].phase = "sync" => file = writer[t].cand
  /\ up \in {"up", "ending"} => /\ Ahead(live, file, secrets, told, spent)
                                /\ Ahead(live, durable, secrets, told, spent)

\* A credential in a state is one the provider has issued.
Credentials ==
  /\ live.cred <= minted /\ file.cred <= minted /\ durable.cred <= minted
  /\ \A t \in Thread : writer[t].phase # "idle" => writer[t].cand.cred <= minted
  /\ fresh # 0 => live.cred < fresh /\ fresh = minted

Registers ==
  /\ Sound(file.reg, told, spent) /\ Sound(durable.reg, told, spent)
  /\ up # "down" => Sound(live.reg, told, spent)
  /\ Once(spent)

\* A clean flag: what the writer carries is the quota in memory.
Flushed ==
  up \in {"up", "starting"} /\ stop = "no" /\ ~dirty =>
    /\ Unlocked => file.quota = live.quota
    /\ \A t \in Thread : writer[t].phase # "idle" => writer[t].cand.quota = live.quota

Inv == Types /\ OneWriter /\ Disks /\ Credentials /\ Registers /\ Flushed

---------------------------------------------------------------------------
(* Lemmas on what a write may leave. *)

LEMMA StateMono ==
  ASSUME NEW k \in Nat, NEW j \in Nat, k <= j
  PROVE  StateUpTo(k) \subseteq StateUpTo(j)
BY RegistryMono DEF StateUpTo

LEMMA WritingMono ==
  ASSUME NEW k \in Nat, NEW j \in Nat, k <= j
  PROVE  WritingUpTo(k) \subseteq WritingUpTo(j)
<1>1. StateUpTo(k) \subseteq StateUpTo(j) /\ 0 .. k \subseteq 0 .. j
  BY StateMono
<1> QED
  BY <1>1 DEF WritingUpTo

LEMMA ChangedMono ==
  ASSUME NEW k \in Nat, NEW j \in Nat, k <= j, NEW T, NEW S, NEW a, NEW b, NEW req, NEW n,
         Changed(a, b, req, n, k, T, S)
  PROVE  Changed(a, b, req, n, j, T, S)
BY DEF Changed, Fresh

LEMMA AheadMono ==
  ASSUME NEW k \in Nat, NEW j \in Nat, k <= j, NEW T, NEW S, NEW a, NEW b,
         Ahead(a, b, k, T, S)
  PROVE  Ahead(a, b, j, T, S)
<1>1. CASE \E req \in Requests, n \in 0 .. k : Changed(a, b, req, n, k, T, S)
  <2>1. PICK req \in Requests, n \in 0 .. k : Changed(a, b, req, n, k, T, S)
    BY <1>1
  <2>2. n \in 0 .. j /\ Changed(a, b, req, n, j, T, S)
    BY <2>1, ChangedMono
  <2> QED
    BY <2>2 DEF Ahead
<1> QED
  BY <1>1 DEF Ahead

\* Neither the quota of the memory nor that of the disk matters.
LEMMA AheadQuota ==
  ASSUME NEW k, NEW T, NEW S, NEW a, NEW b, NEW c, NEW d, Same(a, c), Same(b, d),
         Ahead(a, b, k, T, S)
  PROVE  Ahead(c, d, k, T, S)
BY DEF Ahead, Same, Renewed, Aside, Changed

LEMMA ChangedQuota ==
  ASSUME NEW k, NEW T, NEW S, NEW a, NEW b, NEW c, NEW d, Same(a, c), Same(b, d),
         NEW req, NEW n, Changed(a, b, req, n, k, T, S)
  PROVE  Changed(c, d, req, n, k, T, S)
BY DEF Same, Changed

\* Codes that have lapsed only take requests away.
LEMMA AdmitsMore ==
  ASSUME NEW reg, NEW req, NEW lapsed, Admits(reg, req, lapsed)
  PROVE  Admits(reg, req, {})
BY DEF Admits, MayClaim

\* A change keeps what the registry owes, and owes its own answer.
LEMMA ChangedSound ==
  ASSUME NEW k \in Nat, NEW T \in SUBSET ToldUpTo(k), NEW S \in SUBSET SpentUpTo(k),
         NEW a \in StateUpTo(k), NEW b, NEW req \in Requests, NEW n,
         Changed(a, b, req, n, k, T, S), Sound(a.reg, T, S)
  PROVE  /\ Sound(b.reg, T, S) /\ b.reg \in RegistryUpTo(k)
         /\ Discloses(req) # "none" => /\ Stands(b.reg, Disclosed(req, n))
                                       /\ Disclosed(req, n) \in ToldUpTo(k)
         /\ req.op = "claim" => /\ Gone(b.reg, req.code) /\ <<req.code, n>> \in SpentUpTo(k)
                                /\ \A p \in S : p[1] # req.code
<1> DEFINE m == IF n = 0 THEN k ELSE n - 1
<1>0. req \in RequestType
  BY RequestsAssumption
<1>1. /\ m \in Nat /\ a.reg \in RegistryUpTo(m) /\ Generates(req, n, m) /\ m <= k /\ n <= k
      /\ n \in 0 .. k
      /\ Discloses(req) # "none" => n \in 1 .. k
  BY DEF Changed, Fresh, Generates, StateUpTo
<1>2. Admits(a.reg, req, {}) /\ b.reg = After(a.reg, req, n)
  BY DEF Changed
<1>3. /\ \A t \in T : t \in [n : Nat, id : Client \cup {"operator"}] /\ (n = 0 \/ t.n < n)
      /\ \A p \in S : p[1] \in Nat /\ (n = 0 \/ p[1] < n)
  BY DEF Changed, Fresh, ToldUpTo, SpentUpTo
<1> HIDE DEF m
<1>4. \A t \in T : Stands(b.reg, t)
  BY <1>0, <1>1, <1>2, <1>3, AfterStands DEF Sound
<1>5. /\ Unique(b.reg)
      /\ \A p \in S : Gone(b.reg, p[1])
      /\ req.op = "claim" => Gone(b.reg, req.code)
  BY <1>0, <1>1, <1>2, <1>3, AfterCodes DEF Sound
<1>6. b.reg \in RegistryUpTo(k)
  BY <1>0, <1>1, <1>2, AfterType
<1>7. ASSUME Discloses(req) # "none"
      PROVE  Stands(b.reg, Disclosed(req, n)) /\ Disclosed(req, n) \in ToldUpTo(k)
  <2>1. Stands(b.reg, Disclosed(req, n))
    BY <1>0, <1>1, <1>2, <1>7, AfterDisclosed
  <2>2. req.id \in Client \cup {"operator"}
    BY <1>0 DEF RequestType
  <2> QED
    BY <1>1, <1>7, <2>1, <2>2 DEF Disclosed, ToldUpTo
<1>8. ASSUME req.op = "claim"
      PROVE  <<req.code, n>> \in SpentUpTo(k) /\ \A p \in S : p[1] # req.code
  <2>1. /\ req.id \in Client /\ Present(a.reg, req.id)
        /\ a.reg.clients[req.id].verifier = Verifier("code", req.code)
    BY <1>0, <1>2, <1>8 DEF Admits, MayClaim, Present, RequestType
  <2>2. a.reg.clients[req.id] \in EntryUpTo(m)
    BY <1>1, <2>1, PresentEntry
  <2>3. a.reg.clients[req.id].verifier.role = "code" /\ a.reg.clients[req.id].verifier.n = req.code
    BY <2>1 DEF Verifier
  <2>4. req.code \in 1 .. m
    BY <2>2, <2>3 DEF EntryUpTo, NoVerifier
  <2>5. \A p \in S : p[1] # req.code
    BY <2>1 DEF Sound, Gone
  <2> QED
    BY <1>1, <1>8, <2>4, <2>5 DEF SpentUpTo, Discloses
<1> QED
  BY <1>4, <1>5, <1>6, <1>7, <1>8 DEF Sound

\* A state with some fields changed.
LEMMA StateFields ==
  ASSUME NEW k, NEW r \in StateUpTo(k)
  PROVE  /\ r.reg \in RegistryUpTo(k) /\ r.cred \in 0 .. MaxCred /\ r.errored \in BOOLEAN
         /\ r.quota \in 0 .. MaxQuota
BY DEF StateUpTo

LEMMA QuotaChanged ==
  ASSUME NEW k, NEW r \in StateUpTo(k), r.quota < MaxQuota
  PROVE  LET s == [r EXCEPT !.quota = @ + 1] IN
         /\ s \in StateUpTo(k) /\ s.reg = r.reg /\ s.cred = r.cred /\ s.errored = r.errored
BY BoundsAssumption DEF StateUpTo

---------------------------------------------------------------------------
(* Lemmas on the writers. *)

LEMMA Phases ==
  ASSUME NEW k, NEW w \in {Idle} \cup WritingUpTo(k)
  PROVE  /\ w.phase # "idle" => w \in WritingUpTo(k)
         /\ w.phase = "idle" => w = Idle
         /\ Idle.phase = "idle" /\ w.phase \in {"idle", "write", "sync"}
BY DEF Idle, WritingUpTo

\* Who writes is alone.
LEMMA Lone ==
  ASSUME Types, OneWriter, NEW t \in Thread, writer[t].phase # "idle"
  PROVE  /\ writer[t] \in WritingUpTo(secrets) /\ up # "down" /\ Purpose(t)
         /\ \A u \in Thread : u # t => writer[u].phase = "idle"
<1>1. writer[t] \in {Idle} \cup WritingUpTo(secrets)
  BY DEF Types
<1>2. writer[t] \in WritingUpTo(secrets)
  BY <1>1, Phases
<1> QED
  BY <1>2 DEF OneWriter

LEMMA TakesLock ==
  ASSUME Types, Unlocked, NEW t \in Thread, NEW w, writer' = [writer EXCEPT ![t] = w]
  PROVE  writer'[t] = w /\ \A u \in Thread : u # t => writer'[u].phase = "idle"
BY DEF Types, Unlocked

LEMMA EndsWrite ==
  ASSUME Types, OneWriter, NEW t \in Thread, writer[t].phase # "idle",
         writer' = [writer EXCEPT ![t] = Idle]
  PROVE  \A u \in Thread : writer'[u] = Idle /\ writer'[u].phase = "idle"
<1>1. \A u \in Thread : u # t => writer[u].phase = "idle"
  BY Lone
<1>2. \A u \in Thread : writer[u].phase = "idle" => writer[u] = Idle
  BY Phases DEF Types
<1>3. \A u \in Thread : writer'[u] = Idle
  BY <1>1, <1>2 DEF Types
<1> QED
  BY <1>3 DEF Idle

LEMMA WriterTyped ==
  ASSUME NEW k \in Nat, NEW j \in Nat, k <= j, NEW ws \in [Thread -> {Idle} \cup WritingUpTo(k)],
         NEW t \in Thread, NEW w \in {Idle} \cup WritingUpTo(j)
  PROVE  [ws EXCEPT ![t] = w] \in [Thread -> {Idle} \cup WritingUpTo(j)]
<1>1. \A u \in Thread : ws[u] \in {Idle} \cup WritingUpTo(j)
  BY WritingMono
<1> QED
  BY <1>1

LEMMA IdleInv ==
  ASSUME \A u \in Thread : writer[u] = Idle, secrets \in Nat
  PROVE  OneWriter /\ Unlocked
BY DEF OneWriter, Unlocked, Idle

---------------------------------------------------------------------------
(* The initial state. *)

LEMMA EmptyType ==
  ASSUME NEW k \in Nat
  PROVE  EmptyState \in StateUpTo(k)
<1>1. EmptyRegistry \in RegistryUpTo(k)
  BY DEF EmptyRegistry, RegistryUpTo
<1> QED
  BY <1>1, BoundsAssumption DEF EmptyState, StateUpTo

LEMMA InitInv == Init => Inv
<1> SUFFICES ASSUME Init PROVE Inv
  OBVIOUS
<1> USE DEF Init
<1>1. Types
  <2>1. EmptyState \in StateUpTo(0)
    BY EmptyType
  <2>2. writer \in [Thread -> {Idle} \cup WritingUpTo(secrets)]
    OBVIOUS
  <2>3. 0 \in 0 .. MaxSecret /\ 0 \in 0 .. MaxCred
    BY BoundsAssumption
  <2>4. told \subseteq ToldUpTo(secrets) /\ spent \subseteq SpentUpTo(secrets)
    OBVIOUS
  <2> QED
    BY <2>1, <2>2, <2>3, <2>4 DEF Types
<1>2. \A t \in Thread : writer[t] = Idle /\ writer[t].phase = "idle"
  BY DEF Idle
<1>3. OneWriter
  BY <1>2 DEF OneWriter
<1>4. Disks
  BY <1>2 DEF Disks, Idle
<1>5. Credentials
  BY <1>2 DEF Credentials, EmptyState
<1>6. Sound(EmptyRegistry, {}, {})
  BY DEF Sound, Unique, EmptyRegistry, Present, Unissued
<1>7. Registers
  BY <1>6 DEF Registers, Once, EmptyState
<1>8. Flushed
  BY DEF Flushed
<1> QED
  BY <1>1, <1>3, <1>4, <1>5, <1>7, <1>8 DEF Inv

---------------------------------------------------------------------------
(* A write begins. *)

\* A request to the registry generates its secret and its candidate.
LEMMA MutateRegistryInv ==
  ASSUME Inv, NEW req \in Requests, MutateRegistry(req)
  PROVE  Inv'
<1> DEFINE n == Generated(req)
           cand == [live EXCEPT !.reg = After(live.reg, req, n)]
           w == [phase |-> "write", kind |-> "registry", n |-> n, req |-> req, cand |-> cand]
<1>1. /\ Types /\ OneWriter /\ Disks /\ Credentials /\ Registers /\ Flushed
      /\ secrets \in Nat /\ up = "up" /\ Unlocked
      /\ UNCHANGED <<up, live, dirty, stop, fresh, disk, late, minted, told, spent, faults>>
  BY DEF Inv, MutateRegistry, Types
<1>2. /\ secrets' \in 0 .. MaxSecret /\ secrets <= secrets' /\ n \in 0 .. secrets'
      /\ Discloses(req) = "none" => n = 0
      /\ Discloses(req) # "none" => n = secrets + 1 /\ secrets' = n
  BY <1>1, BoundsAssumption DEF MutateRegistry, Generated, Types
<1>3. Admits(live.reg, req, {})
  BY AdmitsMore DEF MutateRegistry
<1>4. live.reg \in RegistryUpTo(secrets)
  BY <1>1 DEF Types, StateUpTo
<1>5. /\ \A t \in told : t.n <= secrets
      /\ \A p \in spent : p[1] <= secrets
  BY <1>1 DEF Types, ToldUpTo, SpentUpTo
<1>6. Fresh(live.reg, req, n, secrets', told, spent)
  BY <1>1, <1>2, <1>4, <1>5 DEF Fresh, ToldUpTo, SpentUpTo, Types
<1>7. Changed(live, cand, req, n, secrets', told, spent) /\ Same(live, live)
  BY <1>1, <1>3, <1>6 DEF Changed, Types, StateUpTo, Same
<1>8. /\ live \in StateUpTo(secrets') /\ file \in StateUpTo(secrets')
      /\ durable \in StateUpTo(secrets')
  BY <1>1, <1>2, StateMono DEF Types
<1>9. told \subseteq ToldUpTo(secrets') /\ spent \subseteq SpentUpTo(secrets')
  BY <1>1, <1>2 DEF Types, ToldUpTo, SpentUpTo
<1>10. cand.reg \in RegistryUpTo(secrets')
  <2>1. Sound(live.reg, told, spent)
    BY <1>1 DEF Registers
  <2>2. /\ secrets' \in Nat /\ told \in SUBSET ToldUpTo(secrets')
        /\ spent \in SUBSET SpentUpTo(secrets')
    BY <1>1, <1>2, <1>9
  <2> HIDE DEF cand, n
  <2> QED
    BY <1>7, <1>8, <2>1, <2>2, ChangedSound
<1>11. cand \in StateUpTo(secrets')
  BY <1>8, <1>10 DEF StateUpTo
<1>12. w \in WritingUpTo(secrets')
  BY <1>2, <1>11 DEF WritingUpTo
<1>13. writer' = [writer EXCEPT !["registry"] = w]
  BY DEF MutateRegistry
<1> HIDE DEF n, cand, w
<1>14. writer'["registry"] = w /\ \A u \in Thread : u # "registry" => writer'[u].phase = "idle"
  BY <1>1, <1>13, TakesLock DEF Thread
<1>15. w.phase = "write" /\ w.kind = "registry" /\ w.req = req /\ w.n = n /\ w.cand = cand
  BY DEF w
<1>16. cand.cred = live.cred /\ cand.quota = live.quota
  BY <1>1 DEF cand, Types, StateUpTo
<1>17. Types'
  <2>1. writer' \in [Thread -> {Idle} \cup WritingUpTo(secrets')]
    <3>1. writer \in [Thread -> {Idle} \cup WritingUpTo(secrets)] /\ secrets' \in Nat
      BY <1>1, <1>2 DEF Types
    <3> QED
      BY <1>1, <1>2, <1>12, <1>13, <3>1, WriterTyped DEF Thread
  <2> QED
    BY <1>1, <1>2, <1>8, <1>9, <2>1 DEF Types, disk
<1>18. OneWriter'
  BY <1>1, <1>7, <1>14, <1>15 DEF OneWriter, Purpose
<1>19. Disks'
  <2>1. Ahead(live, file, secrets', told, spent) /\ Ahead(live, durable, secrets', told, spent)
    BY <1>1, <1>2, AheadMono DEF Disks
  <2>2. file = durable
    BY <1>1 DEF Disks, Unlocked
  <2> QED
    BY <1>1, <1>14, <1>15, <2>1, <2>2 DEF Disks, disk
<1>20. Credentials'
  BY <1>1, <1>14, <1>15, <1>16 DEF Credentials, disk
<1>21. Registers'
  BY <1>1 DEF Registers, disk
<1>22. Flushed'
  BY <1>1, <1>14, <1>15, <1>16 DEF Flushed, Unlocked, disk, Thread
<1> QED
  BY <1>17, <1>18, <1>19, <1>20, <1>21, <1>22 DEF Inv

\* A writer of the pool: a newer credential, or the account set aside.
LEMMA MutatePoolInv ==
  ASSUME Inv, NEW changed \in StateUpTo(secrets), MutatePool(changed),
         Renewed(live, changed) \/ Aside(live, changed), changed.quota = live.quota,
         minted' \in 0 .. MaxCred, minted <= minted', changed.cred <= minted',
         fresh' = fresh, fresh # 0 => minted' = minted,
         UNCHANGED <<up, live, dirty, stop, disk, secrets, told, spent>>
  PROVE  Inv'
<1> DEFINE w == [phase |-> "write", kind |-> "pool", n |-> 0, req |-> NoRequest, cand |-> changed]
<1>1. /\ Types /\ OneWriter /\ Disks /\ Credentials /\ Registers /\ Flushed
      /\ secrets \in Nat /\ minted \in Nat /\ up = "up" /\ Unlocked
      /\ writer' = [writer EXCEPT !["pool"] = w]
  BY DEF Inv, MutatePool, Types
<1>2. w \in WritingUpTo(secrets)
  BY <1>1 DEF WritingUpTo
<1> HIDE DEF w
<1>3. writer'["pool"] = w /\ \A u \in Thread : u # "pool" => writer'[u].phase = "idle"
  BY <1>1, TakesLock DEF Thread
<1>4. w.phase = "write" /\ w.kind = "pool" /\ w.req = NoRequest /\ w.cand = changed
  BY DEF w
<1>5. Types'
  <2>1. writer' \in [Thread -> {Idle} \cup WritingUpTo(secrets)]
    BY <1>1, <1>2, WriterTyped DEF Types, Thread
  <2> QED
    BY <1>1, <2>1 DEF Types, disk
<1>6. OneWriter'
  BY <1>1, <1>3, <1>4 DEF OneWriter, Purpose
<1>7. Disks'
  <2>1. file = durable
    BY <1>1 DEF Disks, Unlocked
  <2> QED
    BY <1>1, <1>3, <1>4, <2>1 DEF Disks, disk
<1>8. Credentials'
  <2>1. live.cred \in Nat /\ file.cred \in Nat /\ durable.cred \in Nat /\ minted' \in Nat
    BY <1>1 DEF Types, StateUpTo
  <2>2. \A u \in Thread : writer'[u].phase # "idle" => writer'[u].cand.cred <= minted'
    BY <1>3, <1>4
  <2> QED
    BY <1>1, <2>1, <2>2 DEF Credentials, disk
<1>9. Registers'
  BY <1>1 DEF Registers, disk
<1>10. Flushed'
  BY <1>1, <1>3, <1>4 DEF Flushed, Unlocked, disk, Thread
<1> QED
  BY <1>5, <1>6, <1>7, <1>8, <1>9, <1>10 DEF Inv

LEMMA PublishFamilyInv == Inv /\ PublishFamily => Inv'
<1> SUFFICES ASSUME Inv, PublishFamily PROVE Inv'
  OBVIOUS
<1> DEFINE changed == [live EXCEPT !.cred = fresh, !.errored = FALSE]
<1>1. Types /\ Credentials /\ fresh # 0
  BY DEF Inv, PublishFamily
<1>2. /\ changed \in StateUpTo(secrets) /\ Renewed(live, changed) /\ changed.quota = live.quota
      /\ changed.cred <= minted
  <2>1. live \in StateUpTo(secrets) /\ fresh \in 0 .. MaxCred /\ fresh = minted /\ live.cred < fresh
    BY <1>1 DEF Types, Credentials
  <2>2. /\ changed \in StateUpTo(secrets) /\ changed.reg = live.reg /\ changed.cred = fresh
        /\ changed.errored = FALSE /\ changed.quota = live.quota
    BY <2>1 DEF StateUpTo
  <2> HIDE DEF changed
  <2> QED
    BY <2>1, <2>2 DEF Renewed
<1>3. /\ MutatePool(changed) /\ minted' = minted /\ fresh' = fresh
      /\ UNCHANGED <<up, live, dirty, stop, disk, secrets, told, spent>>
  BY DEF PublishFamily, world
<1>4. minted' \in 0 .. MaxCred /\ minted <= minted' /\ changed.cred <= minted'
  BY <1>1, <1>2, <1>3 DEF Types
<1> HIDE DEF changed
<1> QED
  BY <1>2, <1>3, <1>4, MutatePoolInv

LEMMA ReplaceCredentialInv == Inv /\ ReplaceCredential => Inv'
<1> SUFFICES ASSUME Inv, ReplaceCredential PROVE Inv'
  OBVIOUS
<1> DEFINE changed == [live EXCEPT !.cred = minted + 1, !.errored = FALSE]
<1>1. /\ Types /\ Credentials /\ fresh = 0 /\ minted < MaxCred /\ minted' = minted + 1
      /\ live \in StateUpTo(secrets) /\ minted \in Nat /\ MaxCred \in Nat
  BY BoundsAssumption DEF Inv, ReplaceCredential, Types
<1>2. /\ changed \in StateUpTo(secrets) /\ Renewed(live, changed) /\ changed.quota = live.quota
      /\ changed.cred = minted + 1
  <2>1. minted + 1 \in 0 .. MaxCred /\ live.cred <= minted /\ live.cred \in Nat
    BY <1>1, StateFields DEF Credentials
  <2>2. /\ changed \in StateUpTo(secrets) /\ changed.reg = live.reg /\ changed.cred = minted + 1
        /\ changed.errored = FALSE /\ changed.quota = live.quota
    BY <1>1, <2>1 DEF StateUpTo
  <2> HIDE DEF changed
  <2> QED
    BY <1>1, <2>1, <2>2 DEF Renewed
<1>3. /\ MutatePool(changed) /\ fresh' = fresh
      /\ UNCHANGED <<up, live, dirty, stop, disk, secrets, told, spent>>
  BY DEF ReplaceCredential
<1>4. minted' \in 0 .. MaxCred /\ minted <= minted' /\ changed.cred <= minted'
  BY <1>1, <1>2
<1> HIDE DEF changed
<1> QED
  BY <1>1, <1>2, <1>3, <1>4, MutatePoolInv

LEMMA PersistErroredInv == Inv /\ PersistErrored => Inv'
<1> SUFFICES ASSUME Inv, PersistErrored PROVE Inv'
  OBVIOUS
<1> DEFINE changed == [live EXCEPT !.errored = TRUE]
<1>1. Types /\ Credentials /\ minted' = minted
  BY DEF Inv, PersistErrored, world
<1>2. /\ changed \in StateUpTo(secrets) /\ Aside(live, changed) /\ changed.quota = live.quota
      /\ changed.cred <= minted
  BY <1>1 DEF Types, StateUpTo, Aside, Credentials
<1>3. /\ MutatePool(changed) /\ fresh' = fresh
      /\ UNCHANGED <<up, live, dirty, stop, disk, secrets, told, spent>>
  BY DEF PersistErrored, world
<1>4. minted' \in 0 .. MaxCred /\ minted <= minted' /\ changed.cred <= minted'
  BY <1>1, <1>2 DEF Types
<1> HIDE DEF changed
<1> QED
  BY <1>1, <1>2, <1>3, <1>4, MutatePoolInv

\* The file becomes the memory; what the start changes is on its way to the disk.
LEMMA StartInv ==
  ASSUME Inv, NEW lapsed \in BOOLEAN, NEW expired \in BOOLEAN, Start(lapsed, expired)
  PROVE  Inv'
<1> DEFINE kept == [file EXCEPT !.errored = @ \/ lapsed]
           now == IF expired THEN [kept EXCEPT !.quota = @ + 1] ELSE kept
           w == [phase |-> "write", kind |-> "start", n |-> 0, req |-> NoRequest, cand |-> kept]
<1>1. /\ Types /\ OneWriter /\ Disks /\ Credentials /\ Registers /\ up = "down"
      /\ live' = now /\ stop' = "no" /\ fresh' = 0 /\ dirty' = expired
      /\ UNCHANGED <<file, durable, secrets, minted, told, spent>>
      /\ secrets \in Nat /\ minted \in Nat
  BY DEF Inv, Start, disk, world, Types
<1>2. /\ \A u \in Thread : writer[u].phase = "idle" /\ writer[u] = Idle
      /\ Unlocked /\ file = durable
  <2>1. \A u \in Thread : writer[u].phase = "idle"
    BY <1>1 DEF OneWriter
  <2>2. \A u \in Thread : writer[u] \in {Idle} \cup WritingUpTo(secrets)
    BY <1>1 DEF Types
  <2> QED
    BY <1>1, <2>1, <2>2, Phases DEF Unlocked, Disks
<1>3. /\ kept \in StateUpTo(secrets) /\ kept.reg = file.reg /\ kept.cred = file.cred
      /\ kept.quota = file.quota /\ (kept.errored = file.errored \/ kept.errored = TRUE)
      /\ kept = file \/ kept.errored = TRUE
  BY <1>1 DEF Types, StateUpTo
<1>4. /\ now \in StateUpTo(secrets) /\ Same(now, kept) /\ now.reg = file.reg
      /\ ~expired => now.quota = file.quota
      /\ now.cred = file.cred
  <2>1. expired => kept.quota < MaxQuota
    BY <1>3 DEF Start
  <2> HIDE DEF kept
  <2> QED
    BY <1>3, <2>1, QuotaChanged DEF Same
<1>5. /\ (kept = file /\ up' = "up" /\ writer' = writer)
         \/ (kept # file /\ up' = "starting" /\ writer' = [writer EXCEPT !["pool"] = w])
  BY DEF Start
<1>6. w \in WritingUpTo(secrets) /\ w.phase = "write" /\ w.kind = "start" /\ w.req = NoRequest
      /\ w.cand = kept
  BY <1>3, <1>1 DEF WritingUpTo
<1> HIDE DEF w, kept, now
<1>7. Registers'
  BY <1>1, <1>4 DEF Registers
<1>8. CASE kept = file
  <2>1. up' = "up" /\ writer' = writer
    BY <1>5, <1>8
  <2>2. Types'
    BY <1>1, <1>4, <2>1, BoundsAssumption DEF Types
  <2>3. OneWriter'
    BY <1>2, <2>1 DEF OneWriter
  <2>4. Disks'
    BY <1>1, <1>2, <1>4, <1>8, <2>1 DEF Disks, Ahead, Same
  <2>5. Credentials'
    BY <1>1, <1>2, <1>4, <2>1 DEF Credentials
  <2>6. Flushed'
    BY <1>1, <1>2, <1>4, <2>1 DEF Flushed
  <2> QED
    BY <1>7, <2>2, <2>3, <2>4, <2>5, <2>6 DEF Inv
<1>9. CASE kept # file
  <2>1. up' = "starting" /\ writer' = [writer EXCEPT !["pool"] = w]
    BY <1>5, <1>9
  <2>2. writer'["pool"] = w /\ \A u \in Thread : u # "pool" => writer'[u].phase = "idle"
    BY <1>1, <1>2, <2>1, TakesLock DEF Thread
  <2>3. Types'
    <3>1. writer' \in [Thread -> {Idle} \cup WritingUpTo(secrets)]
      BY <1>1, <1>6, <2>1, WriterTyped DEF Types, Thread
    <3> QED
      BY <1>1, <1>4, <2>1, <3>1, BoundsAssumption DEF Types
  <2>4. Same(now, kept) /\ Aside(durable, kept)
    BY <1>2, <1>3, <1>4, <1>9 DEF Aside
  <2>5. OneWriter'
    BY <1>1, <1>6, <2>1, <2>2, <2>4 DEF OneWriter, Purpose
  <2>6. Disks'
    BY <1>1, <1>2, <1>6, <2>1, <2>2 DEF Disks
  <2>7. Credentials'
    BY <1>1, <1>3, <1>4, <1>6, <2>2 DEF Credentials
  <2>8. Flushed'
    BY <1>1, <1>3, <1>4, <1>6, <2>2 DEF Flushed, Unlocked, Thread
  <2> QED
    BY <1>7, <2>3, <2>5, <2>6, <2>7, <2>8 DEF Inv
<1> QED
  BY <1>8, <1>9

\* Expired quota and marked changes, together.
LEMMA FlushQuotaInv ==
  ASSUME Inv, NEW expired \in BOOLEAN, FlushQuota(expired)
  PROVE  Inv'
<1> DEFINE now == IF expired THEN [live EXCEPT !.quota = @ + 1] ELSE live
           w == [phase |-> "write", kind |-> "flush", n |-> 0, req |-> NoRequest, cand |-> now]
<1>1. /\ Types /\ OneWriter /\ Disks /\ Credentials /\ Registers /\ up = "up" /\ Unlocked
      /\ live' = now /\ dirty' = FALSE /\ writer' = [writer EXCEPT !["flusher"] = w]
      /\ UNCHANGED <<up, stop, fresh, file, durable, secrets, minted, told, spent>>
      /\ secrets \in Nat
  BY DEF Inv, FlushQuota, disk, world, Types
<1>2. now \in StateUpTo(secrets) /\ Same(live, now)
  BY <1>1, BoundsAssumption DEF FlushQuota, Types, StateUpTo, Same
<1>3. w \in WritingUpTo(secrets) /\ w.phase = "write" /\ w.kind = "flush" /\ w.req = NoRequest
      /\ w.cand = now
  BY <1>2, <1>1 DEF WritingUpTo
<1> HIDE DEF w, now
<1>4. writer'["flusher"] = w /\ \A u \in Thread : u # "flusher" => writer'[u].phase = "idle"
  BY <1>1, TakesLock DEF Thread
<1>5. Types'
  <2>1. writer' \in [Thread -> {Idle} \cup WritingUpTo(secrets)]
    BY <1>1, <1>3, WriterTyped DEF Types, Thread
  <2> QED
    BY <1>1, <1>2, <2>1 DEF Types
<1>6. OneWriter'
  BY <1>1, <1>3, <1>4 DEF OneWriter, Purpose, Same
<1>7. Disks'
  <2>1. Same(file, file) /\ Same(durable, durable) /\ file = durable
    BY <1>1 DEF Same, Disks, Unlocked
  <2>2. Ahead(now, file, secrets, told, spent) /\ Ahead(now, durable, secrets, told, spent)
    BY <1>1, <1>2, <2>1, AheadQuota DEF Disks
  <2> QED
    BY <1>1, <1>3, <1>4, <2>1, <2>2 DEF Disks
<1>8. Credentials'
  BY <1>1, <1>2, <1>3, <1>4 DEF Credentials, Same
<1>9. Registers'
  BY <1>1, <1>2 DEF Registers, Same
<1>10. Flushed'
  BY <1>1, <1>3, <1>4 DEF Flushed, Unlocked, Thread
<1> QED
  BY <1>5, <1>6, <1>7, <1>8, <1>9, <1>10 DEF Inv

LEMMA FinalFlushInv == Inv /\ FinalFlush => Inv'
<1> SUFFICES ASSUME Inv, FinalFlush PROVE Inv'
  OBVIOUS
<1> DEFINE w == [phase |-> "write", kind |-> "final", n |-> 0, req |-> NoRequest, cand |-> live]
<1>1. /\ Types /\ OneWriter /\ Disks /\ Credentials /\ Registers /\ up = "up" /\ Unlocked
      /\ dirty' = FALSE /\ fresh' = 0
      /\ UNCHANGED <<live, stop, file, durable, secrets, minted, told, spent>>
      /\ secrets \in Nat /\ file = durable /\ fresh' \in 0 .. MaxCred
  BY BoundsAssumption DEF Inv, FinalFlush, disk, world, Types, Disks, Unlocked
<1>2. \/ up' = "down" /\ writer' = writer
      \/ up' = "ending" /\ writer' = [writer EXCEPT !["flusher"] = w]
  BY DEF FinalFlush
<1>3. w \in WritingUpTo(secrets) /\ w.phase = "write" /\ w.kind = "final" /\ w.req = NoRequest
      /\ w.cand = live
  BY <1>1 DEF WritingUpTo, Types
<1> HIDE DEF w
<1>4. Registers' /\ Flushed'
  BY <1>1, <1>2 DEF Registers, Flushed
<1>5. CASE up' = "down" /\ writer' = writer
  <2>1. Types'
    BY <1>1, <1>5 DEF Types
  <2>2. OneWriter' /\ Disks' /\ Credentials'
    BY <1>1, <1>5 DEF OneWriter, Unlocked, Disks, Credentials
  <2> QED
    BY <1>4, <2>1, <2>2 DEF Inv
<1>6. CASE up' = "ending" /\ writer' = [writer EXCEPT !["flusher"] = w]
  <2>1. writer'["flusher"] = w /\ \A u \in Thread : u # "flusher" => writer'[u].phase = "idle"
    BY <1>1, <1>6, TakesLock DEF Thread
  <2>2. Types'
    <3>1. writer' \in [Thread -> {Idle} \cup WritingUpTo(secrets)]
      BY <1>1, <1>3, <1>6, WriterTyped DEF Types, Thread
    <3> QED
      BY <1>1, <1>6, <3>1 DEF Types
  <2>3. OneWriter'
    BY <1>1, <1>3, <1>6, <2>1 DEF OneWriter, Purpose, Same
  <2>4. Disks'
    BY <1>1, <1>3, <1>6, <2>1 DEF Disks
  <2>5. Credentials'
    BY <1>1, <1>3, <2>1 DEF Credentials
  <2> QED
    BY <1>4, <2>2, <2>3, <2>4, <2>5 DEF Inv
<1> QED
  BY <1>2, <1>5, <1>6

---------------------------------------------------------------------------
(* A write goes on and ends. *)

\* What a writer carries is sound, and what a restart may find is one step ahead.
LEMMA Candidate ==
  ASSUME Inv, NEW t \in Thread, writer[t].phase # "idle"
  PROVE  /\ writer[t].cand \in StateUpTo(secrets)
         /\ Sound(writer[t].cand.reg, told, spent)
         /\ up \in {"up", "ending"} => Ahead(live, writer[t].cand, secrets, told, spent)
         /\ writer[t].kind \notin {"registry", "pool"} => Same(live, writer[t].cand)
         /\ writer[t].kind # "registry" => writer[t].req = NoRequest
         /\ writer[t].kind = "start" <=> up = "starting"
         /\ writer[t].kind = "final" <=> up = "ending"
<1> DEFINE w == writer[t]
<1>1. Types /\ OneWriter /\ Registers /\ secrets \in Nat /\ live \in StateUpTo(secrets)
  BY DEF Inv, Types
<1>2. w \in WritingUpTo(secrets) /\ Purpose(t) /\ up # "down"
  BY <1>1, Lone
<1>3. Sound(live.reg, told, spent)
  BY <1>1, <1>2 DEF Registers
<1>4. w.cand \in StateUpTo(secrets) /\ w.n \in 0 .. secrets
  BY <1>2 DEF WritingUpTo
<1>5. CASE /\ w.kind = "registry" /\ up = "up" /\ w.req \in Requests
           /\ Changed(live, w.cand, w.req, w.n, secrets, told, spent)
  <2>1. told \in SUBSET ToldUpTo(secrets) /\ spent \in SUBSET SpentUpTo(secrets)
    BY <1>1 DEF Types
  <2>2. Sound(w.cand.reg, told, spent)
    BY <1>1, <1>3, <1>5, <2>1, ChangedSound
  <2>3. Ahead(live, w.cand, secrets, told, spent)
    BY <1>4, <1>5 DEF Ahead
  <2> QED
    BY <1>4, <1>5, <2>2, <2>3
<1>6. CASE w.kind = "pool" /\ up = "up" /\ w.req = NoRequest
           /\ (Renewed(live, w.cand) \/ Aside(live, w.cand))
  BY <1>3, <1>4, <1>6 DEF Ahead, Renewed, Aside
<1>7. CASE /\ w.req = NoRequest /\ Same(live, w.cand)
           /\ \/ w.kind = "start" /\ up = "starting"
              \/ w.kind = "flush" /\ up = "up"
              \/ w.kind = "final" /\ up = "ending"
  BY <1>3, <1>4, <1>7 DEF Ahead, Same
<1> QED
  BY <1>2, <1>5, <1>6, <1>7 DEF Purpose

LEMMA RenameInv ==
  ASSUME Inv, NEW t \in Thread, Rename(t)
  PROVE  Inv'
<1> DEFINE w == writer[t]
<1>1. /\ Types /\ OneWriter /\ Disks /\ Credentials /\ Registers /\ Flushed /\ secrets \in Nat
      /\ w.phase = "write" /\ w.phase # "idle" /\ file' = w.cand
      /\ writer' = [writer EXCEPT ![t].phase = "sync"]
      /\ UNCHANGED <<up, live, dirty, stop, fresh, durable, secrets, minted, told, spent>>
  BY DEF Inv, Rename, world, Types
<1>2. /\ w \in WritingUpTo(secrets) /\ Purpose(t) /\ up # "down"
      /\ \A u \in Thread : u # t => writer[u].phase = "idle"
  BY <1>1, Lone
<1>3. /\ w.cand \in StateUpTo(secrets) /\ Sound(w.cand.reg, told, spent)
      /\ up \in {"up", "ending"} => Ahead(live, w.cand, secrets, told, spent)
  BY <1>1, Candidate
<1> DEFINE v == [w EXCEPT !.phase = "sync"]
<1>4. /\ v \in WritingUpTo(secrets) /\ v.phase = "sync" /\ v.kind = w.kind /\ v.req = w.req
      /\ v.n = w.n /\ v.cand = w.cand
  BY <1>2 DEF WritingUpTo
<1>5. writer \in [Thread -> {Idle} \cup WritingUpTo(secrets)] /\ writer' = [writer EXCEPT ![t] = v]
  BY <1>1 DEF Types
<1> HIDE DEF v
<1>6. writer'[t] = v /\ \A u \in Thread : u # t => writer'[u] = writer[u] /\ writer'[u].phase = "idle"
  BY <1>2, <1>5
<1>7. Types'
  <2>1. writer' \in [Thread -> {Idle} \cup WritingUpTo(secrets)]
    BY <1>4, <1>5
  <2> QED
    BY <1>1, <1>3, <2>1 DEF Types
<1>8. OneWriter'
  <2>1. Purpose(t)'
    BY <1>1, <1>2, <1>4, <1>6 DEF Purpose
  <2> QED
    BY <1>1, <1>2, <1>4, <1>6, <2>1 DEF OneWriter
<1>9. Disks'
  BY <1>1, <1>2, <1>3, <1>4, <1>6 DEF Disks
<1>10. Credentials'
  BY <1>1, <1>4, <1>6 DEF Credentials
<1>11. Registers'
  BY <1>1, <1>3 DEF Registers
<1>12. Flushed'
  BY <1>1, <1>4, <1>6 DEF Flushed, Unlocked
<1> QED
  BY <1>7, <1>8, <1>9, <1>10, <1>11, <1>12 DEF Inv

\* The change takes effect and the caller is answered.
LEMMA SyncDirInv ==
  ASSUME Inv, NEW t \in Thread, SyncDir(t)
  PROVE  Inv' /\ Same(live', writer[t].cand)
<1> DEFINE w == writer[t]
<1>1. /\ Types /\ OneWriter /\ Disks /\ Credentials /\ Registers /\ Flushed /\ secrets \in Nat
      /\ w.phase = "sync" /\ w.phase # "idle" /\ durable' = file /\ file = w.cand
      /\ writer' = [writer EXCEPT ![t] = Idle] /\ up' = Leaves(w)
      /\ fresh' = IF w.kind = "pool" THEN 0 ELSE fresh
      /\ UNCHANGED <<dirty, stop, file, secrets, minted>>
  BY DEF Inv, SyncDir, Types, Disks
<1>2. w \in WritingUpTo(secrets) /\ Purpose(t) /\ up # "down"
  BY <1>1, Lone
<1>3. /\ w.cand \in StateUpTo(secrets) /\ Sound(w.cand.reg, told, spent)
      /\ w.kind \notin {"registry", "pool"} => Same(live, w.cand)
      /\ w.kind # "registry" => w.req = NoRequest
      /\ (w.kind = "start" <=> up = "starting") /\ (w.kind = "final" <=> up = "ending")
  BY <1>1, Candidate
<1>4. \A u \in Thread : writer'[u] = Idle /\ writer'[u].phase = "idle"
  BY <1>1, EndsWrite
<1>5. /\ live' = CASE w.kind = "registry" -> [live EXCEPT !.reg = w.cand.reg]
                   [] w.kind = "pool" -> w.cand
                   [] OTHER -> live
      /\ told' = IF Discloses(w.req) = "none" THEN told ELSE told \cup {Disclosed(w.req, w.n)}
      /\ spent' = IF w.req.op = "claim" THEN spent \cup {<<w.req.code, w.n>>} ELSE spent
  BY DEF SyncDir, Committed
<1>6. /\ w.kind = "registry" => /\ w.req \in Requests /\ up = "up"
                                /\ Changed(live, w.cand, w.req, w.n, secrets, told, spent)
      /\ w.kind = "pool" => w.cand.quota = live.quota
  BY <1>2 DEF Purpose
<1>7. live \in StateUpTo(secrets) /\ live.reg \in RegistryUpTo(secrets)
  BY <1>1, StateFields DEF Types
<1>8. /\ live' \in StateUpTo(secrets) /\ Same(live', w.cand)
      /\ live'.quota = live.quota \/ w.kind = "pool"
  <2>1. CASE w.kind = "registry"
    <3>1. live' = [live EXCEPT !.reg = w.cand.reg]
      BY <1>5, <2>1
    <3>2. w.cand.reg \in RegistryUpTo(secrets)
      BY <1>3, StateFields
    <3>3. /\ live' \in StateUpTo(secrets) /\ live'.reg = w.cand.reg /\ live'.cred = live.cred
          /\ live'.errored = live.errored /\ live'.quota = live.quota
      BY <1>7, <3>1, <3>2 DEF StateUpTo
    <3> QED
      BY <1>6, <2>1, <3>3 DEF Changed, Same
  <2>2. CASE w.kind = "pool"
    BY <1>3, <1>5, <2>2 DEF Same
  <2>3. CASE w.kind \notin {"registry", "pool"}
    BY <1>3, <1>5, <1>7, <2>3
  <2> QED
    BY <2>1, <2>2, <2>3
<1>9. /\ told' \subseteq ToldUpTo(secrets) /\ spent' \subseteq SpentUpTo(secrets)
      /\ Sound(w.cand.reg, told', spent') /\ Once(spent')
  <2>1. CASE w.kind = "registry"
    <3>1. told \in SUBSET ToldUpTo(secrets) /\ spent \in SUBSET SpentUpTo(secrets)
      BY <1>1 DEF Types
    <3>2. Sound(live.reg, told, spent)
      BY <1>1, <1>2 DEF Registers
    <3>3. /\ Discloses(w.req) # "none" => /\ Stands(w.cand.reg, Disclosed(w.req, w.n))
                                          /\ Disclosed(w.req, w.n) \in ToldUpTo(secrets)
          /\ w.req.op = "claim" => /\ Gone(w.cand.reg, w.req.code)
                                   /\ <<w.req.code, w.n>> \in SpentUpTo(secrets)
                                   /\ \A p \in spent : p[1] # w.req.code
      BY <1>1, <1>6, <1>7, <2>1, <3>1, <3>2, ChangedSound
    <3>4. told' \subseteq ToldUpTo(secrets) /\ \A s \in told' : Stands(w.cand.reg, s)
      BY <1>3, <1>5, <3>1, <3>3 DEF Sound
    <3>5. spent' \subseteq SpentUpTo(secrets) /\ \A p \in spent' : Gone(w.cand.reg, p[1])
      BY <1>3, <1>5, <3>1, <3>3 DEF Sound
    <3>6. Once(spent')
      BY <1>1, <1>5, <3>3 DEF Registers, Once
    <3> QED
      BY <1>3, <3>4, <3>5, <3>6 DEF Sound
  <2>2. CASE w.kind # "registry"
    <3>1. told' = told /\ spent' = spent
      BY <1>3, <1>5, <2>2 DEF NoRequest, Discloses
    <3> QED
      BY <1>1, <1>3, <3>1 DEF Types, Registers
  <2> QED
    BY <2>1, <2>2
<1>10. up' = CASE w.kind = "final" -> "down" [] w.kind = "start" -> "up" [] OTHER -> up
  BY <1>1 DEF Leaves
<1> HIDE DEF w
<1>11. Types'
  <2>1. up' \in {"down", "starting", "up", "ending"}
    BY <1>1, <1>10 DEF Types
  <2>2. writer' \in [Thread -> {Idle} \cup WritingUpTo(secrets)]
    BY <1>1, <1>4 DEF Types
  <2>3. fresh' \in 0 .. MaxCred
    BY <1>1, BoundsAssumption DEF Types
  <2> QED
    BY <1>1, <1>8, <1>9, <2>1, <2>2, <2>3 DEF Types
<1>12. OneWriter'
  BY <1>4 DEF OneWriter
<1>13. Disks'
  BY <1>1, <1>4, <1>8 DEF Disks, Ahead
<1>14. Credentials'
  <2>1. w.cand.cred <= minted /\ live'.cred = w.cand.cred
    BY <1>1, <1>8 DEF Credentials, Same, w
  <2>2. fresh' # 0 => live'.cred = live.cred /\ fresh' = fresh
    <3>1. CASE w.kind = "registry"
      BY <1>1, <1>6, <1>8, <3>1 DEF Changed, Same
    <3>2. CASE w.kind = "pool"
      BY <1>1, <3>2
    <3>3. CASE w.kind \notin {"registry", "pool"}
      BY <1>1, <1>3, <1>8, <3>3 DEF Same
    <3> QED
      BY <3>1, <3>2, <3>3
  <2> QED
    BY <1>1, <1>4, <2>1, <2>2 DEF Credentials
<1>15. Registers'
  BY <1>1, <1>8, <1>9 DEF Registers, Same
<1>16. Flushed'
  <2> SUFFICES ASSUME up' \in {"up", "starting"}, stop = "no", ~dirty
               PROVE  file.quota = live'.quota
    BY <1>1, <1>4 DEF Flushed
  <2>1. up \in {"up", "starting"}
    BY <1>1, <1>3, <1>10 DEF Types
  <2>2. w.cand.quota = live.quota
    BY <1>1, <2>1 DEF Flushed, w
  <2>3. live'.quota = live.quota
    BY <1>5, <1>6, <1>8
  <2> QED
    BY <1>1, <2>2, <2>3
<1> QED
  BY <1>8, <1>11, <1>12, <1>13, <1>14, <1>15, <1>16 DEF Inv, w

LEMMA WriteFailsInv ==
  ASSUME Inv, NEW t \in Thread, WriteFails(t)
  PROVE  Inv'
<1> DEFINE w == writer[t]
<1>1. /\ Types /\ OneWriter /\ Disks /\ Credentials /\ Registers /\ Flushed /\ secrets \in Nat
      /\ w.phase # "idle" /\ durable' = file
      /\ writer' = [writer EXCEPT ![t] = Idle]
      /\ fresh' = IF w.kind = "pool" THEN 0 ELSE fresh
      /\ UNCHANGED <<live, dirty, file, secrets, minted, told, spent>>
  BY DEF Inv, WriteFails, Types
<1>2. w \in WritingUpTo(secrets) /\ Purpose(t) /\ up # "down"
  BY <1>1, Lone
<1>3. (w.kind = "start" <=> up = "starting") /\ (w.kind = "final" <=> up = "ending")
  BY <1>1, Candidate
<1>4. \A u \in Thread : writer'[u] = Idle /\ writer'[u].phase = "idle"
  BY <1>1, EndsWrite
<1>5. w.kind \in {"registry", "pool", "start", "flush", "final"}
  BY <1>2 DEF WritingUpTo
<1>6. /\ stop' = IF w.kind \in {"registry", "pool", "flush"} /\ stop = "no" THEN "unwritable" ELSE stop
      /\ up' = IF w.kind \in {"start", "final"} THEN "down" ELSE up
  BY DEF WriteFails
<1> HIDE DEF w
<1>7. Types'
  <2>1. writer' \in [Thread -> {Idle} \cup WritingUpTo(secrets)]
    BY <1>1, <1>4 DEF Types
  <2>2. fresh' \in 0 .. MaxCred
    BY <1>1, BoundsAssumption DEF Types
  <2>3. up' \in {"down", "starting", "up", "ending"} /\ stop' \in {"no", "signal", "unwritable"}
    BY <1>1, <1>6 DEF Types
  <2> QED
    BY <1>1, <2>1, <2>2, <2>3 DEF Types
<1>8. OneWriter'
  BY <1>4 DEF OneWriter
<1>9. Disks'
  BY <1>1, <1>3, <1>4, <1>6 DEF Disks
<1>10. Credentials'
  BY <1>1, <1>4 DEF Credentials
<1>11. Registers'
  BY <1>1, <1>2 DEF Registers
<1>12. Flushed'
  BY <1>1, <1>3, <1>5, <1>6 DEF Flushed, Types
<1> QED
  BY <1>7, <1>8, <1>9, <1>10, <1>11, <1>12 DEF Inv

---------------------------------------------------------------------------
(* What else happens. *)

LEMMA RenewInv == Inv /\ Renew => Inv'
<1> SUFFICES ASSUME Inv, Renew PROVE Inv'
  OBVIOUS
<1>1. /\ Types /\ OneWriter /\ Disks /\ Credentials /\ Registers /\ Flushed
      /\ live.cred = minted /\ minted < MaxCred /\ minted' = minted + 1 /\ fresh' = minted + 1
      /\ UNCHANGED <<up, live, writer, dirty, stop, file, durable, secrets, told, spent>>
      /\ minted \in Nat /\ MaxCred \in Nat
  BY BoundsAssumption DEF Inv, Renew, disk, Types
<1>2. Types'
  BY <1>1 DEF Types
<1>3. OneWriter'
  BY <1>1 DEF OneWriter, Purpose
<1>4. Credentials'
  <2>1. /\ live.cred \in Nat /\ file.cred \in Nat /\ durable.cred \in Nat
        /\ \A t \in Thread : writer[t].phase # "idle" => writer[t].cand.cred \in Nat
    BY <1>1, StateFields, Lone DEF Types, WritingUpTo
  <2> QED
    BY <1>1, <2>1 DEF Credentials
<1>5. Disks' /\ Registers' /\ Flushed'
  BY <1>1 DEF Disks, Registers, Flushed, Unlocked
<1> QED
  BY <1>2, <1>3, <1>4, <1>5 DEF Inv

LEMMA QuotaChangeInv == Inv /\ QuotaChange => Inv'
<1> SUFFICES ASSUME Inv, QuotaChange PROVE Inv'
  OBVIOUS
<1>1. /\ Types /\ OneWriter /\ Disks /\ Credentials /\ Registers
      /\ up = "up" /\ writer["pool"].phase = "idle" /\ dirty' = TRUE
      /\ UNCHANGED <<up, writer, stop, fresh, file, durable, secrets, minted, told, spent>>
  BY DEF Inv, QuotaChange, disk, world
<1>2. live' \in StateUpTo(secrets) /\ Same(live, live')
  BY <1>1, QuotaChanged DEF QuotaChange, Types, Same
<1>3. Types'
  BY <1>1, <1>2 DEF Types
<1>4. OneWriter'
  <2> SUFFICES ASSUME NEW t \in Thread, writer[t].phase # "idle"
               PROVE  Purpose(t)'
    BY <1>1 DEF OneWriter
  <2>1. Purpose(t) /\ t # "pool"
    BY <1>1 DEF OneWriter
  <2>2. Same(writer[t].cand, writer[t].cand)
    BY DEF Same
  <2>3. CASE t = "registry"
    <3>1. Changed(live', writer[t].cand, writer[t].req, writer[t].n, secrets, told, spent)
      BY <1>2, <2>1, <2>2, <2>3, ChangedQuota DEF Purpose
    <3> QED
      BY <1>1, <2>1, <2>3, <3>1 DEF Purpose
  <2>4. CASE t = "flusher"
    BY <1>1, <1>2, <2>1, <2>4 DEF Purpose, Same
  <2> QED
    BY <2>1, <2>3, <2>4 DEF Thread
<1>5. Disks'
  <2>1. Same(file, file) /\ Same(durable, durable)
    BY DEF Same
  <2>2. Ahead(live', file, secrets, told, spent) /\ Ahead(live', durable, secrets, told, spent)
    BY <1>1, <1>2, <2>1, AheadQuota DEF Disks
  <2> QED
    BY <1>1, <2>2 DEF Disks
<1>6. Credentials' /\ Registers' /\ Flushed'
  BY <1>1, <1>2 DEF Credentials, Registers, Flushed, Same
<1> QED
  BY <1>3, <1>4, <1>5, <1>6 DEF Inv

LEMMA SignalInv == Inv /\ Signal => Inv'
<1> SUFFICES ASSUME Inv, Signal PROVE Inv'
  OBVIOUS
<1>1. /\ Types /\ OneWriter /\ Disks /\ Credentials /\ Registers /\ stop' = "signal"
      /\ UNCHANGED <<up, live, writer, dirty, fresh, file, durable, secrets, minted, told, spent>>
  BY DEF Inv, Signal, disk, world
<1> QED
  BY <1>1 DEF Inv, Types, OneWriter, Purpose, Disks, Credentials, Registers, Flushed

LEMMA ExpireInv ==
  ASSUME Inv, NEW n, Expire(n)
  PROVE  Inv'
BY DEF Expire, Inv, Types, OneWriter, Purpose, Disks, Credentials, Registers, Flushed, Unlocked,
       server, disk

\* The process or the machine goes down: the memory and the writers are lost.
LEMMA DownInv ==
  ASSUME Inv, up' = "down", writer' = [t \in Thread |-> Idle], fresh' = 0, live' = EmptyState,
         dirty' = FALSE, stop' = "no", NEW f \in {file, durable}, file' = f, durable' = f,
         UNCHANGED <<secrets, minted, told, spent>>
  PROVE  Inv'
<1>1. Types /\ Credentials /\ Registers /\ secrets \in Nat /\ minted \in Nat
  BY DEF Inv, Types
<1>2. \A t \in Thread : writer'[t] = Idle /\ writer'[t].phase = "idle"
  BY DEF Idle
<1>3. Types'
  <2>1. live' \in StateUpTo(secrets)
    BY <1>1, EmptyType
  <2>2. writer' \in [Thread -> {Idle} \cup WritingUpTo(secrets)] /\ fresh' \in 0 .. MaxCred
    BY BoundsAssumption
  <2> QED
    BY <1>1, <2>1, <2>2 DEF Types
<1>4. OneWriter' /\ Disks' /\ Registers' /\ Flushed'
  BY <1>1, <1>2 DEF OneWriter, Disks, Registers, Flushed
<1>5. Credentials'
  BY <1>1, <1>2 DEF Credentials, EmptyState
<1> QED
  BY <1>3, <1>4, <1>5 DEF Inv

LEMMA KillInv == Inv /\ Kill => Inv'
<1> SUFFICES ASSUME Inv, Kill PROVE Inv'
  OBVIOUS
<1> QED
  BY DownInv DEF Kill

LEMMA PowerLossInv == Inv /\ PowerLoss => Inv'
<1> SUFFICES ASSUME Inv, PowerLoss PROVE Inv'
  OBVIOUS
<1>1. PICK f \in {file, durable} : file' = f /\ durable' = f
  BY DEF PowerLoss
<1> QED
  BY <1>1, DownInv DEF PowerLoss

LEMMA StutterInv == Inv /\ UNCHANGED vars => Inv'
BY DEF Inv, Types, OneWriter, Purpose, Disks, Credentials, Registers, Flushed, Unlocked, vars,
       server, disk, world

LEMMA NextInv == Inv /\ [Next]_vars => Inv'
<1> SUFFICES ASSUME Inv, [Next]_vars PROVE Inv'
  OBVIOUS
<1>1. CASE \E req \in Requests : MutateRegistry(req)
  BY <1>1, MutateRegistryInv
<1>2. CASE \E lapsed, expired \in BOOLEAN : Start(lapsed, expired)
  BY <1>2, StartInv
<1>3. CASE Renew
  BY <1>3, RenewInv
<1>4. CASE PublishFamily
  BY <1>4, PublishFamilyInv
<1>5. CASE ReplaceCredential
  BY <1>5, ReplaceCredentialInv
<1>6. CASE PersistErrored
  BY <1>6, PersistErroredInv
<1>7. CASE \E expired \in BOOLEAN : FlushQuota(expired)
  BY <1>7, FlushQuotaInv
<1>8. CASE FinalFlush
  BY <1>8, FinalFlushInv
<1>9. CASE \E t \in Thread : WriterStep(t)
  BY <1>9, RenameInv, SyncDirInv, WriteFailsInv DEF WriterStep
<1>10. CASE QuotaChange
  BY <1>10, QuotaChangeInv
<1>11. CASE Signal
  BY <1>11, SignalInv
<1>12. CASE \E n \in 1 .. MaxSecret : Expire(n)
  BY <1>12, ExpireInv
<1>13. CASE Kill
  BY <1>13, KillInv
<1>14. CASE PowerLoss
  BY <1>14, PowerLossInv
<1>15. CASE UNCHANGED vars
  BY <1>15, StutterInv
<1> QED
  BY <1>1, <1>2, <1>3, <1>4, <1>5, <1>6, <1>7, <1>8, <1>9, <1>10, <1>11, <1>12, <1>13, <1>14, <1>15
     DEF Next, ServerStep

\* The strengthening every result below rests on: one writer, and a disk at
\* most one step ahead of the memory.
THEOREM OneStepAhead == Spec => []Inv
<1>1. Init => Inv
  BY InitInv
<1>2. Inv /\ [Next]_vars => Inv'
  BY NextInv
<1> QED
  BY <1>1, <1>2, PTL DEF Spec

\* A caller told of a secret finds it standing after any crash.
THEOREM SecretsSurvive == Spec => []DisclosedSurvives
<1>1. Inv => DisclosedSurvives
  BY DEF Inv, Registers, Sound, DisclosedSurvives, Recoverable
<1> QED
  BY <1>1, OneStepAhead, PTL

\* A code is exchanged for one secret, across crashes and failed writes.
THEOREM CodesAreSpentOnce == Spec => []CodeSpentOnce
<1>1. Inv => CodeSpentOnce
  BY DEF Inv, Registers, Once, CodeSpentOnce
<1> QED
  BY <1>1, OneStepAhead, PTL

\* A clean flag means that nothing is left to flush.
THEOREM NothingLeftToFlush == Spec => []QuotaReachesFile
<1>1. Inv => QuotaReachesFile
  BY DEF Inv, Flushed, QuotaReachesFile
<1> QED
  BY <1>1, OneStepAhead, PTL

\* Every variable keeps its type.
THEOREM TypeCorrect == Spec => []TypeOK
<1>1. ASSUME Inv
      PROVE  TypeOK
  <2>1. secrets \in Nat /\ secrets <= MaxSecret /\ MaxSecret \in Nat
    BY <1>1, BoundsAssumption DEF Inv, Types
  <2>2. StateUpTo(secrets) \subseteq StateUpTo(MaxSecret)
    BY <2>1, StateMono
  <2>3. EntryUpTo(MaxSecret) \subseteq
          [state : {"pending", "active", "revoked"}, gen : 1 .. MaxSecret,
           verifier : {NoVerifier} \cup [role : {"code", "secret"}, n : 1 .. MaxSecret],
           noAccount : BOOLEAN]
    BY DEF EntryUpTo
  <2>4. StateUpTo(MaxSecret) \subseteq Registries
    <3> SUFFICES ASSUME NEW s \in StateUpTo(MaxSecret)
                 PROVE  s \in Registries
      OBVIOUS
    <3>1. /\ s.reg \in RegistryUpTo(MaxSecret)
          /\ s \in [reg : RegistryUpTo(MaxSecret), cred : 0 .. MaxCred, errored : BOOLEAN,
                    quota : 0 .. MaxQuota]
      BY DEF StateUpTo
    <3>2. RegistryUpTo(MaxSecret) \subseteq [clients : [Client -> {Unissued} \cup
              [state : {"pending", "active", "revoked"}, gen : 1 .. MaxSecret,
               verifier : {NoVerifier} \cup [role : {"code", "secret"}, n : 1 .. MaxSecret],
               noAccount : BOOLEAN]], operator : 0 .. MaxSecret]
      BY <2>3 DEF RegistryUpTo
    <3> QED
      BY <3>1, <3>2 DEF Registries
  <2>5. {live, file, durable} \subseteq Registries
    BY <1>1, <2>2, <2>4 DEF Inv, Types
  <2>6. ASSUME NEW c \in Client, Present(live.reg, c)
        PROVE  live.reg.clients[c].verifier.role =
                 CASE live.reg.clients[c].state = "pending" -> "code"
                   [] live.reg.clients[c].state = "active" -> "secret"
                   [] OTHER -> "none"
    <3>1. live.reg \in RegistryUpTo(secrets)
      BY <1>1, StateFields DEF Inv, Types
    <3>2. live.reg.clients[c] \in EntryUpTo(secrets)
      BY <2>1, <2>6, <3>1, PresentEntry
    <3> QED
      BY <3>2 DEF EntryUpTo, NoVerifier
  <2> QED
    BY <1>1, <2>1, <2>5, <2>6 DEF TypeOK, Inv, Types
<1> QED
  BY <1>1, OneStepAhead, PTL

---------------------------------------------------------------------------
(* Store implements DurableStore: its state is what a restart would find.   *)

\* The instantiated operators are the registry's own.
LEMMA SameRegistry ==
  /\ \A reg, req, lapsed : Promise!Admits(reg, req, lapsed) <=> Admits(reg, req, lapsed)
  /\ \A reg, req, n : Promise!After(reg, req, n) = After(reg, req, n)
  /\ \A req : Promise!Discloses(req) = Discloses(req)
  /\ \A reg : Promise!Held(reg) = Held(reg)
  /\ Promise!EmptyRegistry = EmptyRegistry
<1>1. \A reg, req, lapsed : Promise!Admits(reg, req, lapsed) <=> Admits(reg, req, lapsed)
  BY DEF Promise!Admits, Admits, Promise!MayIssue, MayIssue, Promise!MayReissue, MayReissue,
         Promise!MayClaim, MayClaim, Promise!MayRotate, MayRotate, Promise!MayRevoke, MayRevoke,
         Promise!Present, Present, Promise!Verifier, Verifier
<1>2. \A reg, req, n : Promise!After(reg, req, n) = After(reg, req, n)
  BY DEF Promise!After, After, Promise!Issue, Issue, Promise!Reissue, Reissue, Promise!Claim, Claim,
         Promise!Rotate, Rotate, Promise!Revoke, Revoke, Promise!SetOperator, SetOperator,
         Promise!RemoveOperator, RemoveOperator, Promise!Pending, Pending, Promise!Set, Set,
         Promise!Verifier, Verifier, Promise!NoVerifier, NoVerifier
<1>3. \A req : Promise!Discloses(req) = Discloses(req)
  BY DEF Promise!Discloses, Discloses
<1>4. \A reg : Promise!Held(reg) = Held(reg)
  BY DEF Promise!Held, Held, Promise!Present, Present
<1>5. Promise!EmptyRegistry = EmptyRegistry
  BY DEF Promise!EmptyRegistry, EmptyRegistry, Promise!Unissued, Unissued
<1> QED
  BY <1>1, <1>2, <1>3, <1>4, <1>5

LEMMA HeldUpTo ==
  ASSUME NEW k \in Nat, NEW reg \in RegistryUpTo(k)
  PROVE  Held(reg) \subseteq 0 .. k
<1>1. \A c \in Client : Present(reg, c) => reg.clients[c].verifier.n \in 0 .. k
  <2> SUFFICES ASSUME NEW c \in Client, Present(reg, c)
               PROVE  reg.clients[c].verifier.n \in 0 .. k
    OBVIOUS
  <2>1. reg.clients[c] \in EntryUpTo(k)
    BY PresentEntry
  <2> QED
    BY <2>1 DEF EntryUpTo, NoVerifier
<1> QED
  BY <1>1 DEF Held, RegistryUpTo

\* What a step does to what a restart would find, and to what callers know.
Moved(a, b) == Same(a, b) \/ Renewed(a, b) \/ Aside(a, b)
Told(req, n) == IF Discloses(req) = "none" THEN told ELSE told \cup {Disclosed(req, n)}

\* The two updates of a record [reg, cred, errored], field by field.
LEMMA RecordAside ==
  ASSUME NEW S, NEW T, NEW r \in [reg : S, cred : T, errored : BOOLEAN],
         NEW s \in [reg : S, cred : T, errored : BOOLEAN],
         s.reg = r.reg, s.cred = r.cred, s.errored = TRUE
  PROVE  s = [r EXCEPT !.errored = TRUE]
OBVIOUS

LEMMA RecordRenewed ==
  ASSUME NEW S, NEW T, NEW r \in [reg : S, cred : T, errored : BOOLEAN],
         NEW s \in [reg : S, cred : T, errored : BOOLEAN], NEW k \in T,
         s.reg = r.reg, s.cred = k, s.errored = FALSE
  PROVE  s = [r EXCEPT !.cred = k, !.errored = FALSE]
OBVIOUS

LEMMA MovedKeepsPromise ==
  ASSUME Recoverable' \in StateUpTo(secrets), secrets' \in Nat, Recoverable \in StateUpTo(secrets),
         Moved(Recoverable, Recoverable'), told' = told
  PROVE  [Promise!Next]_(Promise!svars)
<1> DEFINE a == Recoverable
           b == Recoverable'
<1>1. /\ a.cred \in Nat /\ b.cred \in 0 .. MaxCred /\ a.errored \in BOOLEAN
  BY StateFields
<1> HIDE DEF a, b
<1>2. CASE Same(a, b)
  BY <1>2 DEF Same, Promise!svars, a, b
<1>5. {t.n : t \in told'} = {t.n : t \in told}
  OBVIOUS
<1> DEFINE A == [reg |-> a.reg, cred |-> a.cred, errored |-> a.errored]
           B == [reg |-> b.reg, cred |-> b.cred, errored |-> b.errored]
           R == {a.reg, b.reg}
<1>6. a.cred \in Nat /\ b.cred \in Nat /\ b.errored \in BOOLEAN
  BY <1>1, BoundsAssumption, StateFields DEF a, b
<1>7. A \in [reg : R, cred : Nat, errored : BOOLEAN] /\ B \in [reg : R, cred : Nat, errored : BOOLEAN]
  BY <1>1, <1>6
<1>8. /\ A.reg = a.reg /\ A.cred = a.cred /\ A.errored = a.errored
      /\ B.reg = b.reg /\ B.cred = b.cred /\ B.errored = b.errored
  OBVIOUS
<1> HIDE DEF A, B, R
<1>3. CASE Renewed(a, b)
  <2>1. b.cred \in a.cred + 1 .. MaxCred /\ B.reg = A.reg /\ B.cred = b.cred /\ B.errored = FALSE
    BY <1>1, <1>3, <1>8 DEF Renewed
  <2>2. B = [A EXCEPT !.cred = b.cred, !.errored = FALSE]
    BY <1>6, <1>7, <2>1, RecordRenewed
  <2>3. \E k \in A.cred + 1 .. MaxCred : B = [A EXCEPT !.cred = k, !.errored = FALSE]
    BY <1>8, <2>1, <2>2, Zenon
  <2>4. Promise!Renew
    BY <1>5, <2>3, Zenon DEF Promise!Renew, A, B, a, b
  <2> QED
    BY <2>4 DEF Promise!Next
<1>4. CASE Aside(a, b)
  <2>1. B = [A EXCEPT !.errored = TRUE]
    <3>1. B.reg = A.reg /\ B.cred = A.cred /\ B.errored = TRUE
      BY <1>4, <1>8 DEF Aside
    <3> QED
      BY <1>7, <3>1, RecordAside
  <2>2. Promise!SetAside
    BY <1>5, <2>1, Zenon DEF Promise!SetAside, A, B, a, b
  <2> QED
    BY <2>2 DEF Promise!Next
<1> QED
  BY <1>2, <1>3, <1>4 DEF Moved, a, b

LEMMA ChangedKeepsPromise ==
  ASSUME Types, Recoverable \in StateUpTo(secrets), NEW req \in Requests, NEW n \in 0 .. secrets,
         Changed(Recoverable, Recoverable', req, n, secrets, told, spent),
         told' \in {told, Told(req, n)}
  PROVE  [Promise!Next]_(Promise!svars)
<1> SUFFICES ASSUME Promise!svars' # Promise!svars
             PROVE  Promise!Mutate
  BY DEF Promise!Next
<1> DEFINE a == Recoverable
           b == Recoverable'
           T == {t.n : t \in told}
<1>1. n \in 0 .. MaxSecret /\ secrets \in Nat
  BY BoundsAssumption DEF Types
<1>2. Admits(a.reg, req, {})
  BY DEF Changed
<1>3. IF Discloses(req) = "none" THEN n = 0 ELSE n # 0 /\ n \notin Held(a.reg) \cup T
  <2>1. CASE Discloses(req) = "none"
    BY <2>1 DEF Changed, Fresh
  <2>2. CASE Discloses(req) # "none"
    <3>1. n \in 1 .. secrets /\ a.reg \in RegistryUpTo(n - 1) /\ \A t \in told : t.n < n
      BY <2>2 DEF Changed, Fresh
    <3>2. Held(a.reg) \subseteq 0 .. n - 1
      BY <1>1, <3>1, HeldUpTo
    <3>3. n \notin Held(a.reg)
      BY <1>1, <3>1, <3>2
    <3>4. n \notin T
      <4> SUFFICES ASSUME NEW t \in told, t.n = n
                   PROVE  FALSE
        OBVIOUS
      <4>1. t.n < n /\ n \in Nat
        BY <1>1, <3>1
      <4> QED
        BY <4>1
    <3> QED
      BY <2>2, <3>1, <3>3, <3>4
  <2> QED
    BY <2>1, <2>2
<1>4. [reg |-> b.reg, cred |-> b.cred, errored |-> b.errored] =
        [[reg |-> a.reg, cred |-> a.cred, errored |-> a.errored] EXCEPT !.reg = After(a.reg, req, n)]
  BY DEF Changed
<1>5. {t.n : t \in told'} \in {T, T \cup ({n} \ {0})}
  <2>1. CASE told' = told
    BY <2>1
  <2>2. CASE told' # told
    <3>1. told' = told \cup {Disclosed(req, n)} /\ Discloses(req) # "none"
      BY <2>2 DEF Told
    <3>2. n # 0 /\ Disclosed(req, n).n = n
      BY <1>3, <3>1 DEF Disclosed
    <3>3. {t.n : t \in told'} = T \cup {n}
      BY <3>1, <3>2
    <3> QED
      BY <3>2, <3>3
  <2> QED
    BY <2>1, <2>2
<1> HIDE DEF a, b, T
<1>6. \E r \in Requests, m \in 0 .. MaxSecret :
        /\ Promise!Admits(a.reg, r, {})
        /\ IF Promise!Discloses(r) = "none" THEN m = 0
           ELSE m # 0 /\ m \notin Promise!Held(a.reg) \cup T
        /\ [reg |-> b.reg, cred |-> b.cred, errored |-> b.errored] =
             [[reg |-> a.reg, cred |-> a.cred, errored |-> a.errored]
                EXCEPT !.reg = Promise!After(a.reg, r, m)]
        /\ {t.n : t \in told'} \in {T, T \cup ({m} \ {0})}
  BY <1>1, <1>2, <1>3, <1>4, <1>5, SameRegistry
<1> QED
  BY <1>6 DEF Promise!Mutate, a, b, T

\* What a restart would find after an end of the server is what it had, or
\* what a write that did not end would have made of it.
LEMMA AheadKeepsPromise ==
  ASSUME Types, Recoverable \in StateUpTo(secrets), Recoverable' \in StateUpTo(secrets),
         Ahead(Recoverable, Recoverable', secrets, told, spent), told' = told, secrets' = secrets
  PROVE  [Promise!Next]_(Promise!svars)
<1>1. CASE Moved(Recoverable, Recoverable')
  BY <1>1, MovedKeepsPromise DEF Types
<1>2. CASE \E req \in Requests, n \in 0 .. secrets :
             Changed(Recoverable, Recoverable', req, n, secrets, told, spent)
  BY <1>2, ChangedKeepsPromise
<1> QED
  BY <1>1, <1>2 DEF Ahead, Moved

\* A step that leaves the disk alone and, up to its quota, the memory.
LEMMA QuietKeepsPromise ==
  ASSUME Inv, Inv', Same(Recoverable, Recoverable'), told' = told
  PROVE  [Promise!Next]_(Promise!svars)
BY DEF Same, Promise!svars

LEMMA StartKeepsPromise ==
  ASSUME Inv, Inv', NEW lapsed \in BOOLEAN, NEW expired \in BOOLEAN, Start(lapsed, expired)
  PROVE  [Promise!Next]_(Promise!svars)
<1> DEFINE kept == [file EXCEPT !.errored = @ \/ lapsed]
<1>1. up = "down" /\ file = durable /\ file \in StateUpTo(secrets)
  BY DEF Inv, Types, OneWriter, Disks, Start
<1>2. CASE kept = file
  <2>1. up' = "up" /\ live' = IF expired THEN [file EXCEPT !.quota = @ + 1] ELSE file
    BY <1>2 DEF Start
  <2>2. Same(file, live')
    BY <1>1, <2>1 DEF Same, StateUpTo
  <2> QED
    BY <1>1, <2>1, <2>2, QuietKeepsPromise DEF Recoverable, Start, world
<1>3. CASE kept # file
  <2>1. up' = "starting" /\ durable' = durable
    BY <1>3 DEF Start, disk
  <2> QED
    BY <1>1, <2>1, QuietKeepsPromise DEF Recoverable, Start, world, Same
<1> QED
  BY <1>2, <1>3

LEMMA SyncDirKeepsPromise ==
  ASSUME Inv, Inv', NEW t \in Thread, SyncDir(t)
  PROVE  [Promise!Next]_(Promise!svars)
<1> DEFINE w == writer[t]
<1>1. /\ Types /\ OneWriter /\ secrets \in Nat /\ w.phase = "sync" /\ w.phase # "idle"
      /\ file = w.cand /\ durable' = file /\ up' = Leaves(w)
      /\ secrets' = secrets
      /\ told' = IF Discloses(w.req) = "none" THEN told ELSE told \cup {Disclosed(w.req, w.n)}
  BY DEF Inv, SyncDir, Types, Disks, Committed
<1>2. w \in WritingUpTo(secrets) /\ Purpose(t) /\ up # "down"
  BY <1>1, Lone
<1>3. /\ w.cand \in StateUpTo(secrets) /\ Same(live', w.cand)
      /\ w.kind # "registry" => w.req = NoRequest
      /\ (w.kind = "start" <=> up = "starting") /\ (w.kind = "final" <=> up = "ending")
  BY <1>1, Candidate, SyncDirInv
<1>4. live' \in StateUpTo(secrets) /\ live \in StateUpTo(secrets) /\ durable \in StateUpTo(secrets)
  BY <1>1 DEF Inv, Types
<1>5. up' = CASE w.kind = "final" -> "down" [] w.kind = "start" -> "up" [] OTHER -> up
  BY <1>1 DEF Leaves
<1>6. w.kind # "registry" => told' = told
  BY <1>1, <1>3 DEF NoRequest, Discloses
<1>7. CASE w.kind = "registry"
  <2>1. up = "up" /\ up' = "up" /\ w.req \in Requests /\ w.n \in 0 .. secrets
        /\ Changed(live, w.cand, w.req, w.n, secrets, told, spent)
    BY <1>2, <1>5, <1>7 DEF Purpose, WritingUpTo
  <2>2. Changed(live, live', w.req, w.n, secrets, told, spent)
    BY <1>3, <2>1 DEF Changed, Same
  <2>3. Recoverable = live /\ Recoverable' = live'
    BY <2>1 DEF Recoverable
  <2>4. told' = Told(w.req, w.n)
    BY <1>1 DEF Told
  <2> HIDE DEF w
  <2> QED
    BY <1>1, <1>4, <2>1, <2>2, <2>3, <2>4, ChangedKeepsPromise
<1>8. CASE w.kind = "pool"
  <2>1. up = "up" /\ up' = "up" /\ (Renewed(live, w.cand) \/ Aside(live, w.cand))
    BY <1>2, <1>5, <1>8 DEF Purpose
  <2>2. Moved(live, live')
    BY <1>3, <2>1 DEF Moved, Renewed, Aside, Same
  <2>3. Recoverable = live /\ Recoverable' = live'
    BY <2>1 DEF Recoverable
  <2> QED
    BY <1>1, <1>4, <1>6, <1>8, <2>2, <2>3, MovedKeepsPromise
<1>9. CASE w.kind = "start"
  <2>1. up = "starting" /\ up' = "up" /\ Aside(durable, w.cand)
    BY <1>2, <1>3, <1>5, <1>9 DEF Purpose
  <2>2. Moved(durable, live')
    BY <1>3, <2>1 DEF Moved, Aside, Same
  <2>3. Recoverable = durable /\ Recoverable' = live'
    BY <2>1 DEF Recoverable
  <2> QED
    BY <1>1, <1>4, <1>6, <1>9, <2>2, <2>3, MovedKeepsPromise
<1>10. CASE w.kind = "flush"
  <2>1. up = "up" /\ up' = "up" /\ Same(live, w.cand)
    BY <1>2, <1>5, <1>10 DEF Purpose
  <2>2. Same(live, live') /\ Recoverable = live /\ Recoverable' = live'
    BY <1>3, <2>1 DEF Same, Recoverable
  <2> QED
    BY <1>6, <1>10, <2>2, QuietKeepsPromise
<1>11. CASE w.kind = "final"
  <2>1. up = "ending" /\ up' = "down" /\ Same(live, w.cand)
    BY <1>2, <1>3, <1>5, <1>11 DEF Purpose
  <2>2. Same(live, durable') /\ Recoverable = live /\ Recoverable' = durable'
    BY <1>1, <2>1 DEF Recoverable
  <2> QED
    BY <1>6, <1>11, <2>2, QuietKeepsPromise
<1> QED
  BY <1>2, <1>7, <1>8, <1>9, <1>10, <1>11 DEF WritingUpTo

\* The process or the machine ends: it left the file or its older view.
LEMMA EndKeepsPromise ==
  ASSUME Inv, Inv', up # "down", up' = "down", NEW f \in {file, durable}, durable' = f,
         UNCHANGED <<told, secrets>>
  PROVE  [Promise!Next]_(Promise!svars)
<1>1. /\ Types /\ OneWriter /\ Disks /\ Recoverable' = f
      /\ live \in StateUpTo(secrets) /\ file \in StateUpTo(secrets) /\ durable \in StateUpTo(secrets)
  BY DEF Inv, Types, Recoverable
<1>2. CASE up \in {"up", "ending"}
  <2>1. Recoverable = live /\ Ahead(live, f, secrets, told, spent)
    BY <1>1, <1>2 DEF Recoverable, Disks
  <2> QED
    BY <1>1, <2>1, AheadKeepsPromise
<1>3. CASE up = "starting"
  <2>1. Recoverable = durable
    BY <1>3 DEF Recoverable
  <2>2. file = durable \/ Aside(durable, file)
    <3>1. CASE \E t \in Thread : writer[t].phase = "sync"
      <4>1. PICK t \in Thread : writer[t].phase = "sync"
        BY <3>1
      <4>2. Purpose(t) /\ file = writer[t].cand
        BY <1>1, <4>1 DEF OneWriter, Disks
      <4> QED
        BY <1>3, <4>2 DEF Purpose
    <3> QED
      BY <1>1, <3>1 DEF Disks
  <2>3. Moved(durable, f)
    BY <2>2 DEF Moved, Same
  <2>4. secrets' \in Nat
    BY DEF Inv, Types
  <2> QED
    BY <1>1, <2>1, <2>3, <2>4, MovedKeepsPromise
<1> QED
  BY <1>1, <1>2, <1>3 DEF Types

LEMMA WriteFailsKeepsPromise ==
  ASSUME Inv, Inv', NEW t \in Thread, WriteFails(t)
  PROVE  [Promise!Next]_(Promise!svars)
<1>1. /\ writer[t].phase # "idle" /\ durable' = file /\ UNCHANGED <<live, told, secrets>>
      /\ up' = IF writer[t].kind \in {"start", "final"} THEN "down" ELSE up
  BY DEF WriteFails
<1>2. up # "down" /\ (writer[t].kind = "start" <=> up = "starting")
  BY <1>1, Candidate DEF Inv, OneWriter
<1>3. CASE writer[t].kind \in {"start", "final"}
  BY <1>1, <1>2, <1>3, EndKeepsPromise
<1>4. CASE writer[t].kind \notin {"start", "final"}
  <2>1. Recoverable = live /\ Recoverable' = live'
    BY <1>1, <1>2, <1>4 DEF Recoverable
  <2> QED
    BY <1>1, <2>1, QuietKeepsPromise DEF Same
<1> QED
  BY <1>3, <1>4

LEMMA NextKeepsPromise ==
  ASSUME Inv, Inv', [Next]_vars
  PROVE  [Promise!Next]_(Promise!svars)
<1>1. CASE \E req \in Requests : MutateRegistry(req)
  BY <1>1, QuietKeepsPromise DEF MutateRegistry, Recoverable, Same, disk
<1>2. CASE \E lapsed, expired \in BOOLEAN : Start(lapsed, expired)
  BY <1>2, StartKeepsPromise
<1>3. CASE Renew \/ PublishFamily \/ ReplaceCredential \/ PersistErrored
  BY <1>3, QuietKeepsPromise
     DEF Renew, PublishFamily, ReplaceCredential, PersistErrored, Recoverable, Same, disk, world
<1>4. CASE \E expired \in BOOLEAN : FlushQuota(expired)
  <2>1. PICK expired \in BOOLEAN : FlushQuota(expired)
    BY <1>4
  <2>2. /\ up = "up" /\ up' = "up" /\ told' = told
        /\ live' = IF expired THEN [live EXCEPT !.quota = @ + 1] ELSE live
    BY <2>1 DEF FlushQuota, world
  <2>3. Same(live, live')
    BY <2>2 DEF Same, Inv, Types, StateUpTo
  <2> QED
    BY <2>2, <2>3, QuietKeepsPromise DEF Recoverable
<1>5. CASE FinalFlush
  <2>1. up = "up" /\ UNCHANGED <<live, durable, told, secrets>> /\ (up' = "ending" \/ up' = "down")
    BY <1>5 DEF FinalFlush, disk, world
  <2>2. CASE up' = "ending"
    BY <2>1, <2>2, QuietKeepsPromise DEF Recoverable, Same
  <2>3. CASE up' = "down"
    BY <2>1, <2>3, EndKeepsPromise
  <2> QED
    BY <2>1, <2>2, <2>3
<1>6. CASE \E t \in Thread : Rename(t)
  BY <1>6, QuietKeepsPromise DEF Rename, Recoverable, Same, world
<1>7. CASE \E t \in Thread : SyncDir(t)
  BY <1>7, SyncDirKeepsPromise
<1>8. CASE \E t \in Thread : WriteFails(t)
  BY <1>8, WriteFailsKeepsPromise
<1>9. CASE QuotaChange
  <2>1. /\ up = "up" /\ up' = "up" /\ told' = told /\ live' = [live EXCEPT !.quota = @ + 1]
    BY <1>9 DEF QuotaChange, world
  <2>2. Same(live, live')
    BY <2>1 DEF Same, Inv, Types, StateUpTo
  <2> QED
    BY <2>1, <2>2, QuietKeepsPromise DEF Recoverable
<1>10. CASE Signal \/ \E n \in 1 .. MaxSecret : Expire(n)
  BY <1>10, QuietKeepsPromise DEF Signal, Expire, Recoverable, Same, server, disk, world
<1>11. CASE Kill
  BY <1>11, EndKeepsPromise DEF Kill
<1>12. CASE PowerLoss
  <2>1. PICK f \in {file, durable} : file' = f /\ durable' = f
    BY <1>12 DEF PowerLoss
  <2> QED
    BY <1>12, <2>1, EndKeepsPromise DEF PowerLoss
<1>13. CASE UNCHANGED vars
  BY <1>13, QuietKeepsPromise DEF vars, server, disk, world, Recoverable, Same
<1> QED
  BY <1>1, <1>2, <1>3, <1>4, <1>5, <1>6, <1>7, <1>8, <1>9, <1>10, <1>11, <1>12, <1>13
     DEF Next, ServerStep, WriterStep

\* The server, its writers, failures and crashes keep the promise of DurableStore.
THEOREM StoreImplementsPromise == Spec => KeepsPromise
<1>1. Init => Promise!Init
  BY SameRegistry DEF Init, Promise!Init, Recoverable, EmptyState
<1>2. Inv /\ Inv' /\ [Next]_vars => [Promise!Next]_(Promise!svars)
  BY NextKeepsPromise
<1> QED
  BY <1>1, <1>2, OneStepAhead, PTL DEF Spec, KeepsPromise, Promise!Spec
============================================================================
