-------------------------- MODULE AuthorityProofs --------------------------
(* Theorems of the CA of Server, for any machines, and every validity and   *)
(* overlap, over any number of rotations, kills and failed writes: what a   *)
(* start finds on disk, and whom the machines that follow trust.            *)
EXTENDS Server, Naturals, FiniteSetTheorems, TLAPS

---------------------------------------------------------------------------
(* The inductive invariant. *)

Ids == 0 .. CA!NextId - 1
Named == Ids \ {CA!None}
FilesType == [ca : Ids, leaf : Ids, key : Ids]
MemType == [current : Ids, key : Ids, next : Ids]
WritingType == [op : {"generate", "promote", "rotate"}, id : Named,
                file : {"ca", "leaf", "key", "done"}, starting : BOOLEAN]
SeenType == [op : {"pem", "toml"}, current : Named, next : Ids, at : 1 .. CA!NextId]

\* CAs are numbered as they are minted, and whatever names one names one that
\* was minted.
Types ==
  /\ now \in Nat
  /\ CA!NextId \in Nat \ {0} /\ DOMAIN issued = 1 .. CA!NextId - 1
  /\ \A c \in DOMAIN issued : issued[c] \in Nat /\ issued[c] <= now
  /\ files \in FilesType /\ nextCa \in Ids
  /\ up \in BOOLEAN /\ lost \in BOOLEAN
  /\ mem \in MemType
  /\ writing = CA!Quiet \/ writing \in WritingType
  /\ trust \in [Follower -> SUBSET Named]
  /\ seen \in [Follower -> {CA!Quiet} \cup SeenType]
  /\ fresh \subseteq Follower

\* Nothing is in memory, and nothing is being written, while the server is down.
Down == ~up => mem = CA!Unknown /\ writing = CA!Quiet

\* Before the first CA there is nothing to promote and nobody to trust it.
Blank ==
  files = CA!NoFiles =>
    /\ nextCa = CA!None /\ mem = CA!Unknown /\ fresh = {}
    /\ \A m \in Follower : trust[m] = {}

\* The files are written in order.  What is promoted is the next CA; otherwise
\* there is no staged file while the current ones are written.
Progress ==
  writing # CA!Quiet =>
    /\ writing.file # "ca" => files.ca = writing.id
    /\ writing.file \in {"key", "done"} => files.leaf = writing.id
    /\ writing.file = "done" => files.key = writing.id
    /\ writing.op = "promote" => mem.next = writing.id
    /\ writing.op # "promote" => nextCa = CA!None

\* The staged file is the next CA's, or it went when a rotation at once began.
\* With no next CA it is what a takeover left behind, or of no use.
Stages ==
  /\ mem.next # CA!None => nextCa \in {mem.next, CA!None}
  /\ mem.current # CA!None /\ mem.next = CA!None =>
       nextCa \in {mem.current, CA!None} \/ CA!Expired(nextCa)

\* Unless a rotation at once was cut short, the current files are whole or the
\* staged CA is the one they were being written for.
Whole == files.leaf = files.ca /\ files.key # CA!None
Sound ==
  ~lost /\ ~CA!CutShort =>
    /\ files # CA!NoFiles => files.ca # CA!None /\ (Whole \/ files.ca = nextCa)
    /\ mem.next # CA!None => nextCa = mem.next
    /\ mem.current # CA!None =>
         /\ files.ca \in {mem.current, mem.next}
         /\ mem.next = CA!None => Whole

\* The sets of CAs a machine that is up to date trusts, or is about to write.
Vouched ==
  {trust[m] : m \in fresh}
  \cup {CA!Followed(m) : m \in {k \in Follower : seen[k].op = "pem" /\ seen[k].at = CA!NextId}}

\* A machine that is up to date has joined, and one that is about to write an
\* older answer is not up to date.
Follows ==
  \A m \in Follower :
    /\ m \in fresh => trust[m] # {}
    /\ trust[m] = {} => seen[m] = CA!Quiet
    /\ seen[m].op = "pem" /\ seen[m].at # CA!NextId => m \notin fresh

\* Those machines trust the next CA and a staged one a start would use; the
\* current one too, in memory and on disk, unless a rotation at once was cut
\* short; and there are none while one is being written.
Trusts ==
  \A S \in Vouched :
    /\ nextCa \in S \cup {CA!None} \/ CA!Expired(nextCa)
    /\ mem.next \in S \cup {CA!None}
    /\ ~CA!CutShort
    /\ ~lost => mem.current \in S \cup {CA!None} /\ files.ca \in S \cup {CA!None}

Inv == Types /\ Down /\ Blank /\ Progress /\ Stages /\ Sound /\ Follows /\ Trusts

---------------------------------------------------------------------------
(* Minting. *)

\* The instance counts sets as the library does.
LEMMA SameCount == \A S : CA!Cardinality(S) = Cardinality(S)
BY DEF CA!Cardinality, Cardinality

\* A minted CA has the next number, and the others keep theirs.
LEMMA Minting ==
  ASSUME Types, NEW full, CA!Mint(full)
  PROVE  /\ CA!NextId' = CA!NextId + 1 /\ DOMAIN issued' = 1 .. CA!NextId' - 1
         /\ issued'[CA!NextId] = now
         /\ \A c \in Named : issued'[c] = issued[c]
         /\ CA!NextId \in Named' /\ Ids \subseteq Ids' /\ Named \subseteq Named'
<1>1. CA!NextId \in Nat \ {0} /\ DOMAIN issued = 1 .. CA!NextId - 1
  BY DEF Types
<1>2. DOMAIN issued' = 1 .. CA!NextId
  BY <1>1 DEF CA!Mint
<1>3. Cardinality(1 .. CA!NextId) = CA!NextId
  BY <1>1, FS_Interval
<1>4. CA!NextId' = CA!NextId + 1
  BY <1>1, <1>2, <1>3, SameCount DEF CA!NextId
<1>5. issued'[CA!NextId] = now /\ \A c \in Named : issued'[c] = issued[c]
  BY <1>1 DEF CA!Mint, Named, Ids, CA!None
<1> QED
  BY <1>1, <1>2, <1>4, <1>5 DEF Named, Ids, CA!None

\* What named a CA before still does.
LEMMA Widening ==
  ASSUME Types, NEW full, CA!Mint(full)
  PROVE  /\ FilesType \subseteq FilesType' /\ SeenType \subseteq SeenType'
         /\ [Follower -> SUBSET Named] \subseteq [Follower -> SUBSET Named']
         /\ \A c \in DOMAIN issued' : issued'[c] \in Nat /\ issued'[c] <= now
<1>1. /\ CA!NextId' = CA!NextId + 1 /\ DOMAIN issued' = 1 .. CA!NextId' - 1 /\ issued'[CA!NextId] = now
      /\ \A c \in Named : issued'[c] = issued[c]
      /\ Ids \subseteq Ids' /\ Named \subseteq Named' /\ CA!NextId \in Nat
  BY Minting DEF Types
<1>2. FilesType \subseteq FilesType'
  BY <1>1 DEF FilesType
<1>3. SeenType \subseteq SeenType'
  <2>1. 1 .. CA!NextId \subseteq 1 .. CA!NextId'
    BY <1>1
  <2> QED
    BY <1>1, <2>1 DEF SeenType
<1>4. [Follower -> SUBSET Named] \subseteq [Follower -> SUBSET Named']
  BY <1>1
<1>5. \A c \in DOMAIN issued' : issued'[c] \in Nat /\ issued'[c] <= now
  BY <1>1 DEF Types, Named, Ids, CA!None
<1> QED
  BY <1>2, <1>3, <1>4, <1>5

LEMMA SameVouched ==
  ASSUME UNCHANGED <<trust, fresh, seen, issued>>
  PROVE  Vouched' = Vouched
BY DEF Vouched, CA!Followed, CA!NextId

\* Nobody is up to date with a CA minted just now.
LEMMA Outdated ==
  ASSUME Types, NEW full, CA!Mint(full), fresh' = {}, UNCHANGED seen
  PROVE  Vouched' = {}
<1>1. CA!NextId' = CA!NextId + 1 /\ CA!NextId \in Nat
  BY Minting DEF Types
<1>2. ASSUME NEW m \in Follower
      PROVE  ~(seen[m].op = "pem" /\ seen[m].at = CA!NextId')
  <2>1. seen[m] = CA!Quiet \/ seen[m] \in SeenType
    BY DEF Types
  <2> QED
    BY <1>1, <2>1 DEF CA!Quiet, SeenType
<1> QED
  BY <1>2 DEF Vouched

---------------------------------------------------------------------------
(* The initial states. *)

LEMMA InvInit ==
  ASSUME CA!AuthorityAssumption, CA!Init
  PROVE  Inv
<1>1. CA!NextId = 2
  <2>1. Cardinality(1 .. 1) = 1
    <3>1. 1 .. 1 = {1}
      OBVIOUS
    <3> QED
      BY <3>1, FS_Singleton
  <2>2. DOMAIN issued = 1 .. 1
    BY DEF CA!Init
  <2> QED
    BY <2>1, <2>2, SameCount DEF CA!NextId
<1>2. Types
  <2>1. Ids = {0, 1} /\ Named = {1}
    BY <1>1 DEF Ids, Named, CA!None
  <2>2. /\ now \in Nat /\ CA!NextId \in Nat \ {0} /\ DOMAIN issued = 1 .. CA!NextId - 1
        /\ \A c \in DOMAIN issued : issued[c] \in Nat /\ issued[c] <= now
    BY <1>1 DEF CA!Init
  <2>3. files \in FilesType /\ nextCa \in Ids /\ mem \in MemType
    BY <2>1 DEF CA!Init, FilesType, MemType, CA!NoFiles, CA!Unknown, CA!None
  <2>4. /\ up \in BOOLEAN /\ lost \in BOOLEAN /\ writing = CA!Quiet /\ fresh \subseteq Follower
        /\ trust \in [Follower -> SUBSET Named] /\ seen \in [Follower -> {CA!Quiet} \cup SeenType]
    BY DEF CA!Init
  <2> QED
    BY <2>2, <2>3, <2>4 DEF Types
<1>3. Down /\ Blank /\ Progress /\ Stages
  BY DEF CA!Init, Down, Blank, Progress, Stages, CA!Unknown, CA!Quiet
<1>4. Sound
  BY DEF CA!Init, Sound, Whole, CA!NoFiles, CA!Unknown, CA!Quiet, CA!CutShort, CA!None
<1>5. Vouched = {}
  BY DEF CA!Init, Vouched, CA!Quiet
<1>6. Follows /\ Trusts
  BY <1>5 DEF CA!Init, Follows, Trusts, CA!Quiet
<1> QED
  BY <1>2, <1>3, <1>4, <1>6 DEF Inv

---------------------------------------------------------------------------
(* A start. *)

\* What a start reads from the disk.
Loaded ==
  [current |-> IF CA!Loads(files) THEN files.ca ELSE CA!None, key |-> files.key,
   next |-> IF CA!UsableNext(nextCa) THEN nextCa ELSE CA!None]

\* A start that finds no next CA has read whole files, or none; one that has a
\* next CA and no current one promotes it at once.
LEMMA LoadedFacts ==
  ASSUME CA!AuthorityAssumption, Types
  PROVE  /\ Loaded \in MemType
         /\ Loaded.next # CA!None => Loaded.next = nextCa
         /\ Loaded.next = CA!None => nextCa = CA!None \/ CA!Expired(nextCa)
         /\ Loaded.current # CA!None => Loaded.current = files.ca /\ Whole
         /\ Loaded.current = CA!None /\ Loaded.next # CA!None => CA!Due(Loaded)
<1>1. Loaded \in MemType
  BY DEF Types, Loaded, MemType, FilesType, Ids, CA!None
<1>2. /\ Loaded.next # CA!None => Loaded.next = nextCa
      /\ Loaded.next = CA!None => nextCa = CA!None \/ CA!Expired(nextCa)
      /\ Loaded.current # CA!None => Loaded.current = files.ca /\ Whole
  BY DEF Loaded, CA!Loads, CA!UsableNext, Whole
<1>3. ASSUME Loaded.current = CA!None, Loaded.next # CA!None PROVE CA!Due(Loaded)
  <2>1. nextCa \in DOMAIN issued /\ Loaded.next = nextCa
    BY <1>2, <1>3 DEF Types, Ids, CA!None
  <2>2. issued[nextCa] <= now
    BY <2>1 DEF Types
  <2> QED
    BY <1>3, <2>1, <2>2 DEF CA!Due, CA!SwitchAt
<1> QED
  BY <1>1, <1>2, <1>3

\* The ways a start goes.
LEMMA StartCases ==
  ASSUME CA!Start
  PROVE  /\ ~up /\ up' = TRUE
         /\ UNCHANGED <<now, files, CA!machines, lost, dropped>>
         /\ \/ /\ Loaded.next = CA!None /\ files = CA!NoFiles /\ CA!Mint(TRUE)
               /\ writing' = [op |-> "generate", id |-> CA!NextId, file |-> "ca", starting |-> TRUE]
               /\ mem' = CA!Unknown /\ UNCHANGED <<nextCa, fresh>>
            \/ /\ CA!Due(Loaded) /\ mem' = Loaded /\ UNCHANGED <<CA!minted, nextCa, fresh>>
               /\ writing' = [op |-> "promote", id |-> Loaded.next, file |-> "ca", starting |-> TRUE]
            \/ /\ ~CA!Due(Loaded) /\ mem' = Loaded /\ UNCHANGED <<writing, CA!minted, nextCa, fresh>>
            \/ /\ ~CA!Due(Loaded) /\ ~CA!Covered(Loaded) /\ CA!Mint(TRUE) /\ nextCa' = CA!NextId
               /\ mem' = [Loaded EXCEPT !.next = CA!NextId] /\ fresh' = {} /\ UNCHANGED writing
BY DEF CA!Start, Loaded, CA!Writes

LEMMA StartInv ==
  ASSUME CA!AuthorityAssumption, Inv, CA!Start
  PROVE  Inv'
<1> USE DEF Inv
<1>1. /\ writing = CA!Quiet /\ mem = CA!Unknown /\ up' = TRUE
      /\ UNCHANGED <<now, files, trust, pin, seen, lost>>
  BY StartCases DEF Down, CA!machines
<1>2. CASE /\ Loaded.next = CA!None /\ files = CA!NoFiles /\ CA!Mint(TRUE)
           /\ writing' = [op |-> "generate", id |-> CA!NextId, file |-> "ca", starting |-> TRUE]
           /\ mem' = CA!Unknown /\ UNCHANGED <<nextCa, fresh>>
  <2>1. fresh = {} /\ nextCa = CA!None /\ \A m \in Follower : trust[m] = {} /\ seen[m] = CA!Quiet
    BY <1>2 DEF Blank, Follows
  <2>2. Vouched' = {}
    BY <1>1, <1>2, <2>1, Outdated
  <2>3. Types'
    <3>1. /\ CA!NextId' = CA!NextId + 1 /\ DOMAIN issued' = 1 .. CA!NextId' - 1
          /\ issued'[CA!NextId] = now
          /\ \A c \in Named : issued'[c] = issued[c]
          /\ CA!NextId \in Named' /\ Ids \subseteq Ids' /\ Named \subseteq Named'
      BY <1>2, Minting
    <3>2. \A c \in DOMAIN issued' : issued'[c] \in Nat /\ issued'[c] <= now
      BY <1>2, Widening
    <3>3. files \in FilesType' /\ nextCa \in Ids' /\ mem' \in MemType' /\ writing' \in WritingType'
      BY <1>1, <1>2, <3>1 DEF Types, FilesType, MemType, WritingType, CA!Unknown, Ids, CA!None
    <3>4. trust \in [Follower -> SUBSET Named'] /\ seen \in [Follower -> {CA!Quiet} \cup SeenType']
      BY <2>1, <3>1 DEF Types
    <3> QED
      BY <1>1, <1>2, <3>1, <3>2, <3>3, <3>4 DEF Types
  <2>4. Down' /\ Blank' /\ Progress' /\ Stages' /\ Sound'
    BY <1>1, <1>2, <2>1 DEF Down, Blank, Progress, Stages, Sound, CA!CutShort, CA!Unknown, CA!Quiet
  <2>5. Follows' /\ Trusts'
    BY <1>1, <1>2, <2>1, <2>2 DEF Follows, Trusts, CA!Quiet
  <2> QED
    BY <2>3, <2>4, <2>5
<1>3. CASE /\ mem' = Loaded /\ UNCHANGED <<CA!minted, nextCa, fresh>>
           /\ \/ /\ CA!Due(Loaded)
                 /\ writing' = [op |-> "promote", id |-> Loaded.next, file |-> "ca", starting |-> TRUE]
              \/ ~CA!Due(Loaded) /\ UNCHANGED writing
  <2> UNCHANGED issued
    BY <1>3 DEF CA!minted
  <2>1. /\ Loaded \in MemType
        /\ Loaded.next # CA!None => Loaded.next = nextCa
        /\ Loaded.next = CA!None => nextCa = CA!None \/ CA!Expired(nextCa)
        /\ Loaded.current # CA!None => Loaded.current = files.ca /\ Whole
        /\ CA!Due(Loaded) => Loaded.next # CA!None
    BY LoadedFacts DEF CA!Due
  <2>2. Vouched' = Vouched
    BY <1>1, <1>3, SameVouched
  <2>3. Types'
    <3>1. writing' = CA!Quiet \/ writing' \in WritingType
      <4>1. CA!Due(Loaded) => Loaded.next \in Named
        BY <2>1 DEF MemType, Named
      <4>2. ASSUME NEW c \in Named
            PROVE  [op |-> "promote", id |-> c, file |-> "ca", starting |-> TRUE] \in WritingType
        BY DEF WritingType
      <4> QED
        BY <1>1, <1>3, <4>1, <4>2
    <3> QED
      BY <1>1, <1>3, <2>1, <3>1
         DEF Types, Ids, Named, FilesType, MemType, WritingType, SeenType, CA!NextId
  <2>4. Down' /\ Progress'
    BY <1>1, <1>3 DEF Down, Progress, CA!Quiet
  <2>5. Blank'
    <3>1. files = CA!NoFiles => Loaded = CA!Unknown
      BY DEF Blank, Loaded, CA!UsableNext, CA!NoFiles, CA!Unknown, CA!None
    <3> QED
      BY <1>1, <1>3, <3>1 DEF Blank
  <2>6. Stages'
    BY <1>1, <1>3, <2>1 DEF Stages, CA!Expired
  <2>7. ~CA!CutShort' /\ ~CA!CutShort
    BY <1>1, <1>3 DEF CA!CutShort, CA!Quiet
  <2>8. Sound'
    BY <1>1, <1>3, <2>1, <2>7 DEF Sound, Whole
  <2>9. Follows'
    BY <1>1, <1>3 DEF Follows, CA!NextId
  <2>10. Trusts'
    <3> SUFFICES ASSUME NEW S \in Vouched
                 PROVE  /\ nextCa \in S \cup {CA!None} \/ CA!Expired(nextCa)
                        /\ Loaded.next \in S \cup {CA!None}
                        /\ ~lost => Loaded.current \in S \cup {CA!None} /\ files.ca \in S \cup {CA!None}
      BY <1>1, <1>3, <2>2, <2>7 DEF Trusts, CA!Expired
    <3>1. nextCa \in S \cup {CA!None} \/ CA!Expired(nextCa)
      BY DEF Trusts
    <3>2. Loaded.next \in S \cup {CA!None}
      BY <3>1 DEF Loaded, CA!UsableNext
    <3> QED
      BY <2>1, <3>1, <3>2 DEF Trusts
  <2> QED
    BY <2>3, <2>4, <2>5, <2>6, <2>8, <2>9, <2>10
<1>4. CASE /\ ~CA!Due(Loaded) /\ ~CA!Covered(Loaded) /\ CA!Mint(TRUE) /\ nextCa' = CA!NextId
           /\ mem' = [Loaded EXCEPT !.next = CA!NextId] /\ fresh' = {} /\ UNCHANGED writing
  <2>1. /\ CA!NextId' = CA!NextId + 1 /\ DOMAIN issued' = 1 .. CA!NextId' - 1 /\ issued'[CA!NextId] = now
        /\ \A c \in Named : issued'[c] = issued[c]
        /\ CA!NextId \in Named' /\ Ids \subseteq Ids' /\ Named \subseteq Named'
        /\ CA!NextId # CA!None
    BY <1>4, Minting DEF Types, CA!None
  <2>2. /\ Loaded \in MemType
        /\ Loaded.current # CA!None => Loaded.current = files.ca /\ Whole
        /\ Loaded.current # CA!None
    BY <1>4, LoadedFacts DEF CA!Covered, CA!Newest
  <2>3. Vouched' = {}
    BY <1>1, <1>4, Outdated
  <2>4. mem' = [current |-> Loaded.current, key |-> Loaded.key, next |-> CA!NextId]
    BY <1>4, <2>2 DEF MemType
  <2>5. Types'
    <3>1. /\ \A c \in DOMAIN issued' : issued'[c] \in Nat /\ issued'[c] <= now
          /\ SeenType \subseteq SeenType'
          /\ [Follower -> SUBSET Named] \subseteq [Follower -> SUBSET Named']
      BY <1>4, Widening
    <3>2. files \in FilesType' /\ CA!NextId \in Ids' /\ mem' \in MemType'
      BY <2>1, <2>2, <2>4 DEF Types, FilesType, MemType, Named
    <3>3. trust \in [Follower -> SUBSET Named']
      BY <3>1 DEF Types
    <3> QED
      BY <1>1, <1>4, <2>1, <3>1, <3>2, <3>3 DEF Types
  <2>6. files # CA!NoFiles
    BY <2>2 DEF CA!NoFiles
  <2>7. Down' /\ Blank' /\ Progress' /\ Stages'
    BY <1>1, <1>4, <2>1, <2>4, <2>6 DEF Down, Blank, Progress, Stages
  <2>8. Sound'
    BY <1>1, <1>4, <2>1, <2>2, <2>4, <2>6 DEF Sound, Whole
  <2>9. Follows' /\ Trusts'
    BY <1>1, <1>4, <2>3 DEF Follows, Trusts
  <2> QED
    BY <2>5, <2>7, <2>8, <2>9
<1> QED
  BY <1>2, <1>3, <1>4, StartCases

---------------------------------------------------------------------------
(* The writes. *)

LEMMA WriteFileInv ==
  ASSUME CA!AuthorityAssumption, Inv, CA!WriteFile
  PROVE  Inv'
<1> USE DEF Inv
<1>1. /\ up /\ writing \in WritingType /\ writing.file # "done"
      /\ UNCHANGED <<now, issued, nextCa, up, mem, trust, seen, fresh, lost>>
  BY DEF CA!WriteFile, Types, CA!Quiet, CA!minted, CA!machines
<1>2. writing' = [op |-> writing.op, id |-> writing.id, file |-> CA!NextFile[writing.file],
                  starting |-> writing.starting]
  BY <1>1 DEF CA!WriteFile, WritingType
<1>3. /\ writing.id \in Named
      /\ \/ /\ writing.file = "ca" /\ writing'.file = "leaf"
            /\ files' = [ca |-> writing.id, leaf |-> files.leaf, key |-> files.key]
         \/ /\ writing.file = "leaf" /\ writing'.file = "key"
            /\ files' = [ca |-> files.ca, leaf |-> writing.id, key |-> files.key]
         \/ /\ writing.file = "key" /\ writing'.file = "done"
            /\ files' = [ca |-> files.ca, leaf |-> files.leaf, key |-> writing.id]
  <2>1. files \in FilesType /\ writing.id \in Named /\ writing.file \in {"ca", "leaf", "key"}
    BY <1>1 DEF Types, WritingType
  <2>2. files' = [files EXCEPT ![writing.file] = writing.id]
    BY DEF CA!WriteFile
  <2>3. writing.file = "ca" => files' = [ca |-> writing.id, leaf |-> files.leaf, key |-> files.key]
    BY <2>1, <2>2 DEF FilesType
  <2>4. writing.file = "leaf" => files' = [ca |-> files.ca, leaf |-> writing.id, key |-> files.key]
    BY <2>1, <2>2 DEF FilesType
  <2>5. writing.file = "key" => files' = [ca |-> files.ca, leaf |-> files.leaf, key |-> writing.id]
    BY <2>1, <2>2 DEF FilesType
  <2>6. writing'.file = CA!NextFile[writing.file]
    BY <1>2
  <2> QED
    BY <2>1, <2>3, <2>4, <2>5, <2>6 DEF CA!NextFile
<1>4. writing # CA!Quiet /\ writing' # CA!Quiet /\ files'.ca = writing.id /\ writing.id # CA!None
  BY <1>1, <1>2, <1>3 DEF Progress, WritingType, CA!Quiet, Named
<1>5. Types'
  <2>1. writing' \in WritingType
    BY <1>1, <1>2, <1>3 DEF WritingType
  <2>2. files' \in FilesType
    BY <1>3 DEF Types, FilesType, Named
  <2> QED
    BY <1>1, <2>1, <2>2 DEF Types, Ids, Named, FilesType, MemType, WritingType, SeenType, CA!NextId
<1>6. Down' /\ Stages' /\ Follows'
  BY <1>1 DEF Down, Stages, Follows, CA!NextId, CA!Expired
<1>7. Blank'
  BY <1>4 DEF Blank, CA!NoFiles
<1>8. Progress'
  BY <1>1, <1>2, <1>3, <1>4 DEF Progress, WritingType
<1>9. (CA!CutShort <=> CA!CutShort') /\ (~CA!CutShort => mem.next = writing.id)
  BY <1>1, <1>2, <1>4 DEF CA!CutShort, Progress, WritingType
<1>10. Sound'
  BY <1>1, <1>4, <1>9 DEF Sound
<1>11. Trusts'
  <2>1. Vouched' = Vouched
    BY <1>1, SameVouched
  <2> QED
    BY <1>1, <1>4, <1>9, <2>1 DEF Trusts, CA!Expired
<1> QED
  BY <1>5, <1>6, <1>7, <1>8, <1>10, <1>11

LEMMA TakeoverInv ==
  ASSUME CA!AuthorityAssumption, Inv, CA!Takeover
  PROVE  Inv'
<1> USE DEF Inv
<1>1. /\ up /\ writing \in WritingType /\ writing.file = "done" /\ writing # CA!Quiet
      /\ writing' = CA!Quiet /\ lost' = FALSE
      /\ UNCHANGED <<now, issued, files, up, trust, seen, fresh>>
      /\ mem' = [current |-> writing.id, key |-> writing.id, next |-> CA!None]
  BY DEF CA!Takeover, Types, CA!Quiet, CA!minted, CA!machines
<1>2. /\ writing.id \in Named /\ writing.id # CA!None
      /\ files.ca = writing.id /\ files.leaf = writing.id /\ files.key = writing.id
      /\ writing.op = "promote" => mem.next = writing.id
  BY <1>1 DEF Progress, WritingType, Named
<1>3. nextCa' \in {nextCa, CA!None} /\ (nextCa' = CA!None \/ nextCa' = writing.id)
  BY <1>1, <1>2 DEF CA!Takeover, Progress, Stages, WritingType
<1>4. Types'
  <2>1. nextCa' \in Ids /\ mem' \in MemType
    BY <1>1, <1>2, <1>3 DEF Types, Ids, Named, MemType, CA!None
  <2> QED
    BY <1>1, <2>1 DEF Types, Ids, Named, FilesType, MemType, SeenType, CA!NextId
<1>5. Down' /\ Blank' /\ Progress' /\ Stages'
  BY <1>1, <1>2, <1>3 DEF Down, Blank, CA!NoFiles, Progress, Stages
<1>6. Sound'
  BY <1>1, <1>2 DEF Sound, Whole
<1>7. Follows'
  BY <1>1 DEF Follows, CA!NextId
<1>8. Trusts'
  <2>1. Vouched' = Vouched
    BY <1>1, SameVouched
  <2>2. ~CA!CutShort'
    BY <1>1 DEF CA!CutShort, CA!Quiet
  <2> SUFFICES ASSUME NEW S \in Vouched
               PROVE  /\ writing.id \in S \cup {CA!None}
                      /\ nextCa' \in S \cup {CA!None}
    BY <1>1, <1>2, <2>1, <2>2 DEF Trusts
  <2>3. writing.op = "promote"
    BY <1>1 DEF Trusts, CA!CutShort, WritingType
  <2> QED
    BY <1>2, <1>3, <2>3 DEF Trusts
<1> QED
  BY <1>4, <1>5, <1>6, <1>7, <1>8

LEMMA WriteFileFailsInv ==
  ASSUME CA!AuthorityAssumption, Inv, CA!WriteFileFails
  PROVE  Inv'
<1> USE DEF Inv
<1>1. /\ up /\ writing' = CA!Quiet /\ lost' = (lost \/ CA!CutShort)
      /\ UNCHANGED <<now, issued, files, nextCa, up, trust, seen, fresh>>
      /\ mem' = CA!Unknown \/ mem' = mem
  BY DEF CA!WriteFileFails, CA!minted, CA!disk, CA!machines
<1>2. ~CA!CutShort'
  BY <1>1 DEF CA!CutShort, CA!Quiet
<1>3. CA!Unknown \in MemType /\ CA!Unknown.current = CA!None /\ CA!Unknown.next = CA!None
  BY DEF Types, CA!Unknown, MemType, Ids, CA!None
<1>4. Types'
  BY <1>1, <1>3 DEF Types, Ids, Named, FilesType, MemType, SeenType, CA!NextId
<1>5. Down' /\ Blank' /\ Progress'
  BY <1>1 DEF Down, Blank, Progress
<1>6. Stages'
  BY <1>1, <1>3 DEF Stages, CA!Expired
<1>7. Sound'
  BY <1>1, <1>2, <1>3 DEF Sound, Whole
<1>8. Follows'
  BY <1>1 DEF Follows, CA!NextId
<1>9. Trusts'
  <2>1. Vouched' = Vouched
    BY <1>1, SameVouched
  <2> QED
    BY <1>1, <1>2, <1>3, <2>1 DEF Trusts, CA!Expired
<1> QED
  BY <1>4, <1>5, <1>6, <1>7, <1>8, <1>9

---------------------------------------------------------------------------
(* Rotation. *)

LEMMA RotateStagedInv ==
  ASSUME CA!AuthorityAssumption, Inv, CA!RotateStaged
  PROVE  Inv'
<1> USE DEF Inv
<1>1. /\ up /\ writing = CA!Quiet /\ mem.current # CA!None /\ mem.next = CA!None /\ CA!Mint(TRUE)
      /\ nextCa' = CA!NextId /\ fresh' = {}
      /\ UNCHANGED <<now, files, up, writing, trust, seen, lost>>
      /\ mem' = [current |-> mem.current, key |-> mem.key, next |-> CA!NextId]
  BY DEF CA!RotateStaged, CA!machines, Types, MemType
<1>2. CA!NextId' = CA!NextId + 1 /\ DOMAIN issued' = 1 .. CA!NextId' - 1
      /\ CA!NextId \in Named' /\ Ids \subseteq Ids' /\ Named \subseteq Named' /\ CA!NextId # CA!None
  BY <1>1, Minting DEF Types, CA!None
<1>3. Vouched' = {}
  BY <1>1, Outdated
<1>4. Types'
  <2>1. /\ \A c \in DOMAIN issued' : issued'[c] \in Nat /\ issued'[c] <= now
        /\ FilesType \subseteq FilesType' /\ SeenType \subseteq SeenType'
        /\ [Follower -> SUBSET Named] \subseteq [Follower -> SUBSET Named']
    BY <1>1, Widening
  <2>2. CA!NextId \in Ids' /\ mem' \in MemType'
    BY <1>1, <1>2 DEF Types, MemType, Named
  <2>3. CA!NextId' \in Nat \ {0}
    BY <1>2 DEF Types
  <2>4. trust \in [Follower -> SUBSET Named'] /\ seen \in [Follower -> {CA!Quiet} \cup SeenType']
    BY <2>1 DEF Types
  <2> QED
    BY <1>1, <1>2, <2>1, <2>2, <2>3, <2>4 DEF Types
<1>5. files # CA!NoFiles
  BY <1>1 DEF Blank, CA!Unknown
<1>6. Down' /\ Blank' /\ Progress' /\ Stages'
  BY <1>1, <1>2, <1>5 DEF Down, Blank, Progress, Stages
<1>7. Sound'
  <2>1. ~CA!CutShort /\ ~CA!CutShort'
    BY <1>1 DEF CA!CutShort, CA!Quiet
  <2> QED
    BY <1>1, <1>2, <1>5, <2>1 DEF Sound, Whole
<1>8. Follows' /\ Trusts'
  BY <1>1, <1>3 DEF Follows, Trusts
<1> QED
  BY <1>4, <1>6, <1>7, <1>8

LEMMA RotateNowInv ==
  ASSUME CA!AuthorityAssumption, Inv, CA!RotateNow
  PROVE  Inv'
<1> USE DEF Inv
<1>1. /\ up /\ writing = CA!Quiet /\ CA!Mint(TRUE) /\ nextCa' = CA!None /\ fresh' = {}
      /\ UNCHANGED <<now, files, up, mem, trust, seen, lost>>
      /\ writing' = [op |-> "rotate", id |-> CA!NextId, file |-> "ca", starting |-> FALSE]
  BY DEF CA!RotateNow, CA!machines, CA!Writes
<1>2. CA!NextId' = CA!NextId + 1 /\ DOMAIN issued' = 1 .. CA!NextId' - 1
      /\ CA!NextId \in Named' /\ Ids \subseteq Ids' /\ Named \subseteq Named' /\ CA!NextId # CA!None
  BY <1>1, Minting DEF Types, CA!None
<1>3. Vouched' = {}
  BY <1>1, Outdated
<1>4. Types'
  <2>1. /\ \A c \in DOMAIN issued' : issued'[c] \in Nat /\ issued'[c] <= now
        /\ FilesType \subseteq FilesType' /\ SeenType \subseteq SeenType'
        /\ [Follower -> SUBSET Named] \subseteq [Follower -> SUBSET Named']
    BY <1>1, Widening
  <2>2. CA!None \in Ids' /\ mem' \in MemType' /\ writing' \in WritingType'
    BY <1>1, <1>2 DEF Types, MemType, WritingType, Ids, CA!None
  <2>3. CA!NextId' \in Nat \ {0}
    BY <1>2 DEF Types
  <2>4. trust \in [Follower -> SUBSET Named'] /\ seen \in [Follower -> {CA!Quiet} \cup SeenType']
    BY <2>1 DEF Types
  <2> QED
    BY <1>1, <1>2, <2>1, <2>2, <2>3, <2>4 DEF Types
<1>5. Down' /\ Blank' /\ Progress' /\ Stages' /\ Sound'
  BY <1>1, <1>2 DEF Down, Blank, Progress, Stages, Sound, CA!CutShort
<1>6. Follows' /\ Trusts'
  BY <1>1, <1>3 DEF Follows, Trusts
<1> QED
  BY <1>4, <1>5, <1>6

LEMMA SwitchWhenDueInv ==
  ASSUME CA!AuthorityAssumption, Inv, CA!SwitchWhenDue
  PROVE  Inv'
<1> USE DEF Inv
<1>1. /\ up /\ writing = CA!Quiet /\ mem.next # CA!None
      /\ UNCHANGED <<now, issued, files, nextCa, up, mem, trust, seen, fresh, lost>>
      /\ writing' = [op |-> "promote", id |-> mem.next, file |-> "ca", starting |-> FALSE]
  BY DEF CA!SwitchWhenDue, CA!machines, CA!minted, CA!disk, CA!Writes, CA!Due
<1>2. Types'
  <2>1. mem.next \in Named
    BY <1>1 DEF Types, MemType, Named
  <2>2. writing' \in WritingType
    BY <1>1, <2>1 DEF WritingType
  <2> QED
    BY <1>1, <2>2 DEF Types, Ids, Named, FilesType, MemType, WritingType, SeenType, CA!NextId
<1>3. ~CA!CutShort /\ ~CA!CutShort'
  BY <1>1 DEF CA!CutShort, CA!Quiet
<1>4. Down' /\ Blank' /\ Progress' /\ Stages'
  BY <1>1 DEF Down, Blank, Progress, Stages, CA!Expired
<1>5. Sound' /\ Follows'
  BY <1>1, <1>3 DEF Sound, Whole, Follows, CA!NextId
<1>6. Trusts'
  <2>1. Vouched' = Vouched
    BY <1>1, SameVouched
  <2> QED
    BY <1>1, <1>3, <2>1 DEF Trusts, CA!Expired
<1> QED
  BY <1>2, <1>4, <1>5, <1>6

---------------------------------------------------------------------------
(* The machines. *)

\* What a machine is given of the server's memory is what one that is up to
\* date may trust.
Given == {mem.current, mem.next} \ {CA!None}

LEMMA GivenIsGood ==
  ASSUME CA!AuthorityAssumption, Inv, up, writing = CA!Quiet, mem.current # CA!None
  PROVE  /\ Given # {} /\ Given \subseteq Named
         /\ nextCa \in Given \cup {CA!None} \/ CA!Expired(nextCa)
         /\ mem.next \in Given \cup {CA!None}
         /\ ~CA!CutShort
         /\ ~lost => mem.current \in Given \cup {CA!None} /\ files.ca \in Given \cup {CA!None}
<1>1. ~CA!CutShort
  BY DEF CA!CutShort, CA!Quiet
<1>2. Given # {} /\ Given \subseteq Named
  BY DEF Inv, Types, MemType, Given, Named
<1> QED
  BY <1>1, <1>2 DEF Inv, Given, Stages, Sound

LEMMA EnrolInv ==
  ASSUME CA!AuthorityAssumption, Inv, NEW m \in Follower, CA!Enrol(m)
  PROVE  Inv'
<1> USE DEF Inv
<1>1. /\ up /\ writing = CA!Quiet /\ mem.current # CA!None /\ trust[m] = {}
      /\ trust' = [trust EXCEPT ![m] = {mem.current}]
      /\ fresh' = IF mem.next = CA!None THEN fresh \cup {m} ELSE fresh
      /\ UNCHANGED <<now, issued, files, nextCa, up, mem, writing, seen, lost>>
  BY DEF CA!Enrol, CA!minted, CA!disk
<1>2. seen[m] = CA!Quiet /\ m \notin fresh /\ mem.current \in Named
  BY <1>1 DEF Follows, Types, MemType, Named
<1>3. Types'
  <2>1. trust' \in [Follower -> SUBSET Named]
    BY <1>1, <1>2 DEF Types
  <2> QED
    BY <1>1, <2>1 DEF Types, Ids, Named, FilesType, MemType, WritingType, SeenType, CA!NextId
<1>4. files # CA!NoFiles
  BY <1>1 DEF Blank, CA!Unknown
<1>5. Down' /\ Blank' /\ Progress' /\ Stages' /\ Sound'
  BY <1>1, <1>4 DEF Down, Blank, Progress, Stages, Sound, Whole, CA!CutShort, CA!Expired
<1>6. Follows'
  BY <1>1, <1>2 DEF Follows, Types, CA!Quiet, CA!NextId
<1>7. Trusts'
  <2>1. \A S \in Vouched' : S \in Vouched \/ (mem.next = CA!None /\ S = {mem.current})
    BY <1>1, <1>2 DEF Vouched, CA!Followed, CA!NextId, Types
  <2>2. mem.next = CA!None => {mem.current} = Given
    BY <1>1 DEF Given
  <2>3. CA!CutShort' = CA!CutShort /\ CA!Expired(nextCa)' = CA!Expired(nextCa)
    BY <1>1 DEF CA!CutShort, CA!Expired
  <2> QED
    BY <1>1, <2>1, <2>2, <2>3, GivenIsGood DEF Trusts
<1> QED
  BY <1>3, <1>5, <1>6, <1>7

LEMMA FollowInv ==
  ASSUME CA!AuthorityAssumption, Inv, NEW m \in Follower, CA!Follow(m)
  PROVE  Inv'
<1> USE DEF Inv
<1>1. /\ up /\ writing = CA!Quiet /\ mem.current # CA!None /\ trust[m] # {} /\ seen[m] = CA!Quiet
      /\ seen' = [seen EXCEPT ![m] = [op |-> "pem", current |-> mem.current, next |-> mem.next,
                                      at |-> CA!NextId]]
      /\ UNCHANGED <<now, issued, files, nextCa, up, mem, writing, trust, fresh, lost>>
  BY DEF CA!Follow, CA!minted, CA!disk
<1>2. /\ seen'[m] = [op |-> "pem", current |-> mem.current, next |-> mem.next, at |-> CA!NextId]
      /\ \A k \in Follower \ {m} : seen'[k] = seen[k]
  BY <1>1 DEF Types
<1>3. Types'
  <2>1. seen' \in [Follower -> {CA!Quiet} \cup SeenType]
    <3>1. mem.current \in Named /\ mem.next \in Ids /\ CA!NextId \in 1 .. CA!NextId
      BY <1>1 DEF Types, MemType, Named
    <3>2. [op |-> "pem", current |-> mem.current, next |-> mem.next, at |-> CA!NextId] \in SeenType
      BY <3>1 DEF SeenType
    <3> QED
      BY <1>1, <3>2 DEF Types
  <2> QED
    BY <1>1, <2>1 DEF Types, Ids, Named, FilesType, MemType, WritingType, SeenType, CA!NextId
<1>4. Down' /\ Blank' /\ Progress' /\ Stages' /\ Sound'
  BY <1>1 DEF Down, Blank, Progress, Stages, Sound, Whole, CA!CutShort, CA!Expired
<1>5. Follows'
  BY <1>1, <1>2 DEF Follows, CA!NextId
<1>6. Trusts'
  <2>1. \A S \in Vouched' : S \in Vouched \/ S = Given
    BY <1>1, <1>2 DEF Vouched, CA!Followed, CA!NextId, Given
  <2>2. CA!CutShort' = CA!CutShort /\ CA!Expired(nextCa)' = CA!Expired(nextCa)
    BY <1>1 DEF CA!CutShort, CA!Expired
  <2> QED
    BY <1>1, <2>1, <2>2, GivenIsGood DEF Trusts
<1> QED
  BY <1>3, <1>4, <1>5, <1>6

LEMMA FollowPemInv ==
  ASSUME CA!AuthorityAssumption, Inv, NEW m \in Follower, CA!FollowPem(m)
  PROVE  Inv'
<1> USE DEF Inv
<1>1. /\ seen[m].op = "pem" /\ seen[m] \in SeenType
      /\ trust' = [trust EXCEPT ![m] = CA!Followed(m)]
      /\ seen' = [seen EXCEPT ![m].op = "toml"]
      /\ fresh' = IF seen[m].at = CA!NextId THEN fresh \cup {m} ELSE fresh
      /\ UNCHANGED <<now, issued, files, nextCa, up, mem, writing, lost>>
  BY DEF CA!FollowPem, CA!minted, CA!disk, Types, CA!Quiet
<1>2. /\ seen'[m].op = "toml" /\ seen'[m] \in SeenType
      /\ \A k \in Follower \ {m} : seen'[k] = seen[k] /\ trust'[k] = trust[k]
      /\ trust'[m] = CA!Followed(m) /\ CA!Followed(m) # {} /\ CA!Followed(m) \subseteq Named
  BY <1>1 DEF Types, SeenType, CA!Followed, Named
<1>3. Types'
  <2>1. trust' \in [Follower -> SUBSET Named] /\ seen' \in [Follower -> {CA!Quiet} \cup SeenType]
    BY <1>1, <1>2 DEF Types
  <2> QED
    BY <1>1, <2>1 DEF Types, Ids, Named, FilesType, MemType, WritingType, SeenType, CA!NextId
<1>4. files # CA!NoFiles
  BY <1>1 DEF Blank, Follows, CA!Quiet
<1>5. Down' /\ Blank' /\ Progress' /\ Stages' /\ Sound'
  BY <1>1, <1>4 DEF Down, Blank, Progress, Stages, Sound, Whole, CA!CutShort, CA!Expired
<1>6. Follows'
  BY <1>1, <1>2 DEF Follows, CA!NextId
<1>7. Trusts'
  <2>1. m \in fresh => seen[m].at = CA!NextId
    BY <1>1 DEF Follows
  <2>2. \A S \in Vouched' : S \in Vouched
    BY <1>1, <1>2, <2>1 DEF Vouched, CA!Followed, CA!NextId, Types
  <2>3. CA!CutShort' = CA!CutShort /\ CA!Expired(nextCa)' = CA!Expired(nextCa)
    BY <1>1 DEF CA!CutShort, CA!Expired
  <2> QED
    BY <1>1, <2>2, <2>3 DEF Trusts
<1> QED
  BY <1>3, <1>5, <1>6, <1>7

\* The pin of client.toml, and a follow that stops, change nothing that is
\* trusted.
LEMMA FollowEndsInv ==
  ASSUME CA!AuthorityAssumption, Inv, NEW m \in Follower, CA!FollowToml(m) \/ CA!FollowStops(m)
  PROVE  Inv'
<1> USE DEF Inv
<1>1. /\ seen' = [seen EXCEPT ![m] = CA!Quiet]
      /\ UNCHANGED <<now, issued, files, nextCa, up, mem, writing, trust, fresh, lost>>
  BY DEF CA!FollowToml, CA!FollowStops, CA!minted, CA!disk
<1>2. seen'[m] = CA!Quiet /\ \A k \in Follower \ {m} : seen'[k] = seen[k]
  BY <1>1 DEF Types
<1>3. Types'
  <2>1. seen' \in [Follower -> {CA!Quiet} \cup SeenType]
    BY <1>1 DEF Types
  <2> QED
    BY <1>1, <2>1 DEF Types, Ids, Named, FilesType, MemType, WritingType, SeenType, CA!NextId
<1>4. Down' /\ Blank' /\ Progress' /\ Stages' /\ Sound'
  BY <1>1 DEF Down, Blank, Progress, Stages, Sound, Whole, CA!CutShort, CA!Expired
<1>5. Follows'
  BY <1>1, <1>2 DEF Follows, CA!NextId, CA!Quiet
<1>6. Trusts'
  <2>1. \A S \in Vouched' : S \in Vouched
    BY <1>1, <1>2 DEF Vouched, CA!Followed, CA!NextId, CA!Quiet
  <2>2. CA!CutShort' = CA!CutShort /\ CA!Expired(nextCa)' = CA!Expired(nextCa)
    BY <1>1 DEF CA!CutShort, CA!Expired
  <2> QED
    BY <1>1, <2>1, <2>2 DEF Trusts
<1> QED
  BY <1>3, <1>4, <1>5, <1>6

---------------------------------------------------------------------------
(* Time and kills. *)

LEMMA TickInv ==
  ASSUME CA!AuthorityAssumption, Inv, CA!Tick
  PROVE  Inv'
<1> USE DEF Inv
<1>1. /\ now' = now + 1
      /\ UNCHANGED <<issued, files, nextCa, up, mem, writing, trust, seen, fresh, lost>>
  BY DEF CA!Tick, CA!minted, CA!disk, CA!machines
<1>2. now \in Nat /\ now' \in Nat /\ now' >= now
  BY <1>1 DEF Types
<1>3. nextCa # CA!None /\ CA!Expired(nextCa) => CA!Expired(nextCa)'
  <2> SUFFICES ASSUME nextCa # CA!None, CA!Expired(nextCa)
               PROVE  CA!Expired(nextCa)'
    OBVIOUS
  <2>1. nextCa \in Named
    BY DEF Types, Named
  <2>2. issued[nextCa] \in Nat
    BY <2>1 DEF Types, Named, Ids, CA!None
  <2> QED
    BY <1>1, <1>2, <2>2 DEF CA!Expired, CA!AuthorityAssumption
<1>4. Types'
  <2>1. \A c \in DOMAIN issued : issued[c] \in Nat /\ issued[c] <= now'
    BY <1>2 DEF Types
  <2> QED
    BY <1>1, <1>2, <2>1 DEF Types, Ids, Named, FilesType, MemType, WritingType, SeenType, CA!NextId
<1>5. Down' /\ Blank' /\ Progress' /\ Stages'
  BY <1>1, <1>3 DEF Down, Blank, Progress, Stages
<1>6. Sound' /\ Follows'
  BY <1>1 DEF Sound, Whole, CA!CutShort, Follows, CA!NextId
<1>7. Trusts'
  <2>1. Vouched' = Vouched
    BY <1>1, SameVouched
  <2> QED
    BY <1>1, <1>3, <2>1 DEF Trusts, CA!CutShort
<1> QED
  BY <1>4, <1>5, <1>6, <1>7

LEMMA KillInv ==
  ASSUME CA!AuthorityAssumption, Inv, CA!Kill
  PROVE  Inv'
<1> USE DEF Inv
<1>1. /\ up' = FALSE /\ mem' = CA!Unknown /\ writing' = CA!Quiet /\ lost' = (lost \/ CA!CutShort)
      /\ UNCHANGED <<now, issued, files, nextCa, trust, seen, fresh>>
  BY DEF CA!Kill, CA!minted, CA!disk, CA!machines
<1>2. ~CA!CutShort'
  BY <1>1 DEF CA!CutShort, CA!Quiet
<1>3. CA!Unknown \in MemType /\ CA!Unknown.current = CA!None /\ CA!Unknown.next = CA!None
  BY DEF Types, CA!Unknown, MemType, Ids, CA!None
<1>4. Types'
  BY <1>1, <1>3 DEF Types, Ids, Named, FilesType, MemType, SeenType, CA!NextId
<1>5. Down' /\ Blank' /\ Progress' /\ Stages'
  BY <1>1, <1>3 DEF Down, Blank, Progress, Stages
<1>6. Sound' /\ Follows'
  BY <1>1, <1>2, <1>3 DEF Sound, Whole, Follows, CA!NextId
<1>7. Trusts'
  <2>1. Vouched' = Vouched
    BY <1>1, SameVouched
  <2> QED
    BY <1>1, <1>2, <1>3, <2>1 DEF Trusts, CA!Expired
<1> QED
  BY <1>4, <1>5, <1>6, <1>7

---------------------------------------------------------------------------
(* The theorems. *)

LEMMA InvNext ==
  ASSUME CA!AuthorityAssumption, Inv, [CA!Next]_(CA!vars)
  PROVE  Inv'
<1>1. CASE UNCHANGED CA!vars
  <2>1. UNCHANGED <<now, issued, files, nextCa, up, mem, writing, trust, seen, fresh, lost>>
    BY <1>1 DEF CA!vars, CA!minted, CA!disk, CA!machines
  <2>2. Types'
    BY <2>1 DEF Inv, Types, Ids, Named, FilesType, MemType, WritingType, SeenType, CA!NextId
  <2>3. Down' /\ Blank' /\ Progress' /\ Stages' /\ Sound' /\ Follows'
    BY <2>1 DEF Inv, Down, Blank, Progress, Stages, Sound, Whole, CA!CutShort, CA!Expired,
       Follows, CA!NextId
  <2>4. Trusts'
    <3>1. Vouched' = Vouched
      BY <2>1, SameVouched
    <3> QED
      BY <2>1, <3>1 DEF Inv, Trusts, CA!CutShort, CA!Expired
  <2> QED
    BY <2>2, <2>3, <2>4 DEF Inv
<1>2. CASE CA!Start
  BY <1>2, StartInv
<1>3. CASE CA!WriteFile
  BY <1>3, WriteFileInv
<1>4. CASE CA!Takeover
  BY <1>4, TakeoverInv
<1>5. CASE CA!WriteFileFails
  BY <1>5, WriteFileFailsInv
<1>6. CASE CA!RotateStaged
  BY <1>6, RotateStagedInv
<1>7. CASE CA!RotateNow
  BY <1>7, RotateNowInv
<1>8. CASE CA!SwitchWhenDue
  BY <1>8, SwitchWhenDueInv
<1>9. CASE \E m \in Follower : CA!Enrol(m) \/ CA!Follow(m) \/ CA!FollowPem(m) \/ CA!FollowToml(m)
                                \/ CA!FollowStops(m)
  BY <1>9, EnrolInv, FollowInv, FollowPemInv, FollowEndsInv
<1>10. CASE CA!Tick
  BY <1>10, TickInv
<1>11. CASE CA!Kill
  BY <1>11, KillInv
<1> QED
  BY <1>1, <1>2, <1>3, <1>4, <1>5, <1>6, <1>7, <1>8, <1>9, <1>10, <1>11 DEF CA!Next

\* Through rotations, kills and failed writes in any order, the CA's files, its
\* memory and what machines trust keep the invariant (mitm/ca.rs).
THEOREM AuthorityCoherent ==
  ASSUME CA!AuthorityAssumption
  PROVE  CA!Spec => []Inv
<1>1. CA!Init => Inv
  BY InvInit
<1>2. Inv /\ [CA!Next]_(CA!vars) => Inv'
  BY InvNext
<1> QED
  BY <1>1, <1>2, PTL DEF CA!Spec

\* A behaviour of the CA is one of Authority.
LEMMA AuthorityPart ==
  /\ ServerSpec /\ part = "authority" => CA!Spec
  /\ ServerSpec /\ ~(part = "authority") => []~(part = "authority")
<1>1. ServerInit /\ part = "authority" => CA!Init
  BY DEF ServerInit
<1>2. part = "authority" /\ [ServerNext]_serverVars => (part = "authority")' /\ [CA!Next]_(CA!vars)
  BY DEF ServerNext, serverVars, authorityVars, CA!vars, CA!minted, CA!disk, CA!machines
<1>3. ~(part = "authority") /\ [ServerNext]_serverVars => ~(part = "authority")'
  BY DEF ServerNext, serverVars
<1> QED
  BY <1>1, <1>2, <1>3, PTL DEF ServerSpec, CA!Spec

\* A start after a switch that stopped anywhere finds the current CA whole, or
\* the staged one it was being replaced by: what remains is expiry (promote,
\* Authorities::start, mitm/ca.rs).
THEOREM StartAlwaysFindsCa == ASSUME CA!AuthorityAssumption PROVE ServerSpec => []StartFindsCa
<1>1. Inv => StartFindsCa
  BY DEF Inv, Sound, Whole, StartFindsCa, CA!StartFindsCa, CA!Loads, CA!UsableNext
<1>2. ~(part = "authority") => StartFindsCa
  BY DEF StartFindsCa
<1> QED
  BY AuthorityPart, AuthorityCoherent, <1>1, <1>2, PTL

\* A machine that followed since the newest CA was staged trusts whatever the
\* proxy presents, before and after the switch (client_ca.rs, mitm/ca.rs).
THEOREM FollowersAlwaysTrust == ASSUME CA!AuthorityAssumption PROVE ServerSpec => []FollowersTrust
<1>1. Inv => FollowersTrust
  <2> SUFFICES ASSUME Inv, up, writing = CA!Quiet, ~lost, NEW m \in fresh, NEW full \in BOOLEAN
               PROVE  CA!Presented(mem, full) \in trust[m] \cup {CA!None}
    BY DEF FollowersTrust, CA!FollowersTrust
  <2>1. trust[m] \in Vouched
    BY DEF Vouched
  <2> QED
    BY <2>1 DEF Inv, Trusts, CA!Presented
<1>2. ~(part = "authority") => FollowersTrust
  BY DEF FollowersTrust
<1> QED
  BY AuthorityPart, AuthorityCoherent, <1>1, <1>2, PTL

===========================================================================
