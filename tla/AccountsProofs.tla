--------------------------- MODULE AccountsProofs ---------------------------
(* Theorems of Accounts, for every set of requests, handles and identities  *)
(* and whatever profiles the identities have: what the pool keeps while     *)
(* imports, logins, renames and removals overlap.                           *)
EXTENDS Accounts, TLAPS

---------------------------------------------------------------------------
(* The inductive invariant. *)

\* An addition asks for a name an operator gives, or for a derived one, and a
\* replacement is of a handle.  A credential that is looked up has an identity;
\* one that is committed has that of its family, or the lookup of a replacement
\* failed; and an addition that asks for a derived name has one.
Coherent(q) ==
  q.pc # "idle" =>
    /\ q.op = "add" => q.name \in GivenName \cup {Derive}
    /\ q.op = "replace" => q.handle \in Handle
    /\ q.pc = "lookup" => q.family \in Identity /\ q.identity = NoIdentity
    /\ q.pc = "commit" =>
         /\ q.identity = q.family \/ (q.identity = NoIdentity /\ q.op = "replace")
         /\ q.op = "add" /\ q.name = Derive => q.identity \in Identity

Identified == \A r \in Request : Coherent(request[r])

Inv == TypeOK /\ Identified /\ OneAccountPerIdentity

---------------------------------------------------------------------------
(* What an addition does to the accounts. *)

LEMMA HeldType ==
  ASSUME TypeOK
  PROVE  /\ Held \subseteq Handle
         /\ \A h \in Held : /\ accounts[h] \in AccountType
                            /\ accounts[h].identity \in Known /\ accounts[h].family \in Known
BY DEF TypeOK, Held, AccountType

LEMMA FreshHandle ==
  ASSUME Held # Handle
  PROVE  Fresh \in Handle /\ Fresh \notin Held
BY DEF Fresh, Held

LEMMA LabelType ==
  ASSUME NEW j \in Identity, NEW S, NEW n \in Handle
  PROVE  Label(j, S, n) \in Labels
BY DEF Label, Labels

\* Relabelling changes nothing but names.
LEMMA RelabelledKeeps ==
  ASSUME TypeOK, NEW i \in Identity, NEW n \in Handle
  PROVE  /\ Relabelled(i, n) \in [Handle -> AccountType \cup {NoAccount}]
         /\ \A h \in Handle : (h \in Held) = (Relabelled(i, n)[h] # NoAccount)
         /\ \A h \in Held : /\ Relabelled(i, n)[h].identity = accounts[h].identity
                            /\ Relabelled(i, n)[h].family = accounts[h].family
<1> DEFINE Moved(h) == [accounts[h] EXCEPT !.name =
                          <<EmailOf[i], Label(accounts[h].identity, Shared(i), n)>>]
           f == Relabelled(i, n)
<1>1. ASSUME NEW h \in Holders(i)
      PROVE  /\ h \in Held /\ Moved(h) \in AccountType
             /\ Moved(h).identity = accounts[h].identity /\ Moved(h).family = accounts[h].family
  <2>1. h \in Held /\ accounts[h] \in AccountType /\ accounts[h].identity \in Identity
    BY <1>1, HeldType DEF Holders, Known
  <2>2. Label(accounts[h].identity, Shared(i), n) \in Labels
    BY <2>1, LabelType
  <2>3. <<EmailOf[i], Label(accounts[h].identity, Shared(i), n)>> \in Names
    BY <2>2 DEF Names, Bases
  <2> HIDE DEF Names, Known
  <2>4. Moved(h) \in AccountType
    BY <2>1, <2>3 DEF AccountType
  <2>5. Moved(h).identity = accounts[h].identity /\ Moved(h).family = accounts[h].family
    BY <2>1 DEF AccountType
  <2> QED
    BY <2>1, <2>4, <2>5
<1>2. /\ f = [h \in Handle |-> f[h]]
      /\ \A h \in Handle : \/ f[h] = accounts[h]
                           \/ h \in Holders(i) /\ f[h] = Moved(h)
  BY DEF Relabelled
<1> HIDE DEF f, Moved
<1>3. \A h \in Handle : accounts[h] \in AccountType \cup {NoAccount}
  BY DEF TypeOK
<1>4. \A h \in Handle : f[h] \in AccountType \cup {NoAccount}
  BY <1>1, <1>2, <1>3
<1>5. f \in [Handle -> AccountType \cup {NoAccount}]
  BY <1>2, <1>4
<1>6. \A h \in Handle : (h \in Held) = (f[h] # NoAccount)
  BY <1>1, <1>2, AccountsAssumption DEF Held
<1>7. \A h \in Held : f[h].identity = accounts[h].identity /\ f[h].family = accounts[h].family
  BY <1>1, <1>2, HeldType
<1> QED
  BY <1>5, <1>6, <1>7 DEF f

\* A new account beside others of other identities: Taking(f, i) is what the
\* accounts become when the next free handle takes it.
LEMMA NewKeeps ==
  ASSUME TypeOK, OneAccountPerIdentity, Held # Handle,
         NEW i \in Known, SameAs(i) = {}, NEW name \in Names,
         NEW f \in [Handle -> AccountType \cup {NoAccount}],
         \A h \in Handle : (h \in Held) = (f[h] # NoAccount),
         \A h \in Held : f[h].identity = accounts[h].identity /\ f[h].family = accounts[h].family,
         accounts' = [f EXCEPT ![Fresh] = New(i, i, name)]
  PROVE  /\ accounts' \in [Handle -> AccountType \cup {NoAccount}]
         /\ OneAccountPerIdentity'
         /\ \A h \in Held : accounts'[h].family = accounts[h].family
<1>1. Fresh \in Handle /\ Fresh \notin Held
  BY FreshHandle
<1>2. New(i, i, name) \in AccountType /\ New(i, i, name).identity = i
  BY DEF New, AccountType, Known
<1> DEFINE new == New(i, i, name)
<1> HIDE DEF new
<1>3. /\ accounts' \in [Handle -> AccountType \cup {NoAccount}]
      /\ accounts'[Fresh] = new /\ \A h \in Handle \ {Fresh} : accounts'[h] = f[h]
  BY <1>1, <1>2 DEF new
<1>4. \A h \in Held : /\ h \in Handle /\ h # Fresh
                      /\ accounts'[h].identity = accounts[h].identity
                      /\ accounts'[h].family = accounts[h].family
  BY <1>1, <1>3 DEF Held
<1>5. Held' = Held \cup {Fresh}
  BY <1>1, <1>2, <1>3, AccountsAssumption DEF Held, new
<1>6. ASSUME NEW g \in Held', NEW h \in Held',
             accounts'[g].identity = accounts'[h].identity, accounts'[g].identity # NoIdentity
      PROVE  g = h
  <2>1. \A x \in Held : accounts[x].identity # i \/ i = NoIdentity
    BY DEF SameAs
  <2>2. accounts'[Fresh].identity = i
    BY <1>2, <1>3 DEF new
  <2> QED
    BY <1>4, <1>5, <1>6, <2>1, <2>2 DEF OneAccountPerIdentity
<1> QED
  BY <1>3, <1>4, <1>6 DEF OneAccountPerIdentity

\* An addition of a credential to the account of its identity, or to a new one.
LEMMA AddedKeeps ==
  ASSUME TypeOK, OneAccountPerIdentity,
         NEW i \in Known, NEW name \in GivenName \cup {Derive},
         name = Derive => i \in Identity, Added(i, i, name)
  PROVE  /\ accounts' \in [Handle -> AccountType \cup {NoAccount}]
         /\ OneAccountPerIdentity'
         /\ \A h \in Held : \/ accounts'[h].family = accounts[h].family
                            \/ accounts'[h].family = accounts[h].identity
<1>1. CASE \E h \in SameAs(i) : accounts' = [accounts EXCEPT ![h].family = i]
  <2>1. PICK h \in SameAs(i) : accounts' = [accounts EXCEPT ![h].family = i]
    BY <1>1
  <2>2. h \in Held /\ h \in Handle /\ accounts[h].identity = i /\ accounts[h] \in AccountType
    BY <2>1, HeldType DEF SameAs
  <2> DEFINE a == [accounts[h] EXCEPT !.family = i]
  <2>3. a \in AccountType /\ a.identity = accounts[h].identity /\ a.family = i
    BY <2>2 DEF AccountType
  <2>4. accounts' = [accounts EXCEPT ![h] = a]
    BY <2>1
  <2> HIDE DEF a
  <2>5. /\ accounts' \in [Handle -> AccountType \cup {NoAccount}]
        /\ accounts'[h] = a /\ \A x \in Handle \ {h} : accounts'[x] = accounts[x]
    BY <2>2, <2>3, <2>4 DEF TypeOK
  <2>6. Held' = Held /\ \A x \in Held : accounts'[x].identity = accounts[x].identity
    BY <2>2, <2>3, <2>5, HeldType, AccountsAssumption DEF Held
  <2>7. OneAccountPerIdentity'
    BY <2>6 DEF OneAccountPerIdentity
  <2> QED
    BY <2>2, <2>3, <2>5, <2>7, HeldType
<1>2. CASE /\ SameAs(i) = {} /\ Held # Handle /\ name # Derive
           /\ accounts' = [accounts EXCEPT ![Fresh] = New(i, i, name)]
  <2>1. name \in Names /\ accounts \in [Handle -> AccountType \cup {NoAccount}]
        /\ \A h \in Handle : (h \in Held) = (accounts[h] # NoAccount)
    BY <1>2 DEF Names, TypeOK, Held
  <2> QED
    BY <1>2, <2>1, NewKeeps
<1>3. CASE /\ SameAs(i) = {} /\ Held # Handle /\ name = Derive
           /\ accounts' = [accounts EXCEPT ![Fresh] = New(i, i, Bare(i, Fresh))]
  <2>1. i \in Identity /\ Fresh \in Handle
    BY <1>3, FreshHandle
  <2>2. Bare(i, Fresh) \in Names
    BY <2>1 DEF Bare, Base, Names, Bases, Labels
  <2>3. /\ accounts \in [Handle -> AccountType \cup {NoAccount}]
        /\ \A h \in Handle : (h \in Held) = (accounts[h] # NoAccount)
    BY DEF TypeOK, Held
  <2> QED
    BY <1>3, <2>2, <2>3, NewKeeps
<1>4. CASE /\ SameAs(i) = {} /\ Held # Handle /\ name = Derive
           /\ accounts' = [Relabelled(i, Fresh) EXCEPT ![Fresh] =
                New(i, i, <<Base(i, Fresh), Label(i, Shared(i), Fresh)>>)]
  <2>1. i \in Identity /\ Fresh \in Handle
    BY <1>4, FreshHandle
  <2>2. Label(i, Shared(i), Fresh) \in Labels /\ Base(i, Fresh) \in Bases
    BY <2>1, LabelType DEF Base, Bases
  <2>3. <<Base(i, Fresh), Label(i, Shared(i), Fresh)>> \in Names
    BY <2>2 DEF Names
  <2>4. /\ Relabelled(i, Fresh) \in [Handle -> AccountType \cup {NoAccount}]
        /\ \A h \in Handle : (h \in Held) = (Relabelled(i, Fresh)[h] # NoAccount)
        /\ \A h \in Held : /\ Relabelled(i, Fresh)[h].identity = accounts[h].identity
                           /\ Relabelled(i, Fresh)[h].family = accounts[h].family
    BY <2>1, RelabelledKeeps
  <2> DEFINE f == Relabelled(i, Fresh)
             n == <<Base(i, Fresh), Label(i, Shared(i), Fresh)>>
  <2> HIDE DEF f, n
  <2>5. accounts' = [f EXCEPT ![Fresh] = New(i, i, n)] /\ n \in Names
    BY <1>4, <2>3 DEF f, n
  <2>6. /\ f \in [Handle -> AccountType \cup {NoAccount}]
        /\ \A h \in Handle : (h \in Held) = (f[h] # NoAccount)
        /\ \A h \in Held : f[h].identity = accounts[h].identity /\ f[h].family = accounts[h].family
    BY <2>4 DEF f
  <2> QED
    BY <1>4, <2>5, <2>6, NewKeeps
<1> QED
  BY <1>1, <1>2, <1>3, <1>4 DEF Added

---------------------------------------------------------------------------
(* The invariant. *)

\* What FamilyStep says of a step, for the steps that are no replacement
\* without an identity.
FamiliesKept ==
  \A h \in Held : accounts'[h] # NoAccount =>
    accounts'[h].family \in {accounts[h].family, accounts[h].identity}

LEMMA StepsKeeps ==
  ASSUME Inv, NEW r \in Request, NEW q \in RequestType \cup {Idle}, Coherent(q), Steps(r, q),
         UNCHANGED <<accounts, managed>>
  PROVE  Inv' /\ FamiliesKept
<1>1. request' \in [Request -> RequestType \cup {Idle}]
  BY DEF Inv, TypeOK, Steps
<1>2. \A p \in Request : request'[p] = IF p = r THEN q ELSE request[p]
  BY DEF Inv, TypeOK, Steps
<1>3. Identified'
  BY <1>2 DEF Inv, Identified, Coherent
<1>4. OneAccountPerIdentity' /\ FamiliesKept
  BY DEF Inv, OneAccountPerIdentity, Held, FamiliesKept
<1> QED
  BY <1>1, <1>3, <1>4 DEF Inv, TypeOK

LEMMA RequestFields ==
  ASSUME Inv, NEW r \in Request
  PROVE  /\ request[r] \in RequestType \cup {Idle} /\ Coherent(request[r])
         /\ Idle \in RequestType \cup {Idle} /\ Coherent(Idle) /\ Idle.pc = "idle"
BY DEF Inv, TypeOK, Identified, Coherent, Idle

LEMMA EndsKeeps ==
  ASSUME Inv, NEW r \in Request, Ends(r), UNCHANGED <<accounts, managed>>
  PROVE  Inv' /\ FamiliesKept
BY StepsKeeps, RequestFields DEF Ends

LEMMA HasKeeps ==
  ASSUME Inv, NEW r \in Request, request[r].pc = "source", UNCHANGED <<accounts, managed>>,
         NEW pc \in {"lookup", "commit"}, NEW i \in Known, Has(r, pc, i),
         pc = "lookup" => i \in Identity,
         pc = "commit" => i = NoIdentity /\ request[r].name # Derive
  PROVE  Inv' /\ FamiliesKept
<1> DEFINE q == [pc |-> pc, op |-> request[r].op, handle |-> request[r].handle,
                 name |-> request[r].name, family |-> i, identity |-> NoIdentity]
<1>1. request[r] \in RequestType /\ Coherent(request[r])
  BY RequestFields DEF Idle
<1>2. request[r].op \in {"add", "replace"} /\ request[r].handle \in Handle \cup {NoAccount}
      /\ request[r].name \in Asked
  BY <1>1 DEF RequestType
<1>3. q \in RequestType
  BY <1>2 DEF RequestType, Known
<1>4. Coherent(q)
  BY <1>1 DEF Coherent
<1>5. Steps(r, q)
  BY DEF Has
<1> QED
  BY <1>3, <1>4, <1>5, StepsKeeps

LEMMA AskKeeps ==
  ASSUME Inv, NEW r \in Request, NEW op \in {"add", "replace"}, NEW h \in Handle \cup {NoAccount},
         NEW name \in Asked, op = "add" => name \in GivenName \cup {Derive},
         op = "replace" => h \in Handle, Ask(r, op, h, name)
  PROVE  Inv' /\ FamiliesKept
<1> DEFINE q == [pc |-> "body", op |-> op, handle |-> h, name |-> name]
<1>1. q \in RequestType
  BY DEF RequestType
<1>2. Coherent(q)
  BY DEF Coherent
<1> QED
  BY <1>1, <1>2, StepsKeeps DEF Ask

LEMMA BodyKeeps ==
  ASSUME Inv, NEW r \in Request, Body(r)
  PROVE  Inv' /\ FamiliesKept
<1> DEFINE q == [request[r] EXCEPT !.pc = "source"]
<1>1. CASE Ends(r)
  BY <1>1, EndsKeeps DEF Body
<1>2. CASE Steps(r, q)
  <2>1. request[r] \in RequestType /\ request[r].pc = "body" /\ Coherent(request[r])
    BY RequestFields DEF Body, Idle
  <2>2. q \in RequestType
    BY <2>1 DEF RequestType
  <2>3. /\ q.pc = "source" /\ q.op = request[r].op /\ q.handle = request[r].handle
        /\ q.name = request[r].name
    BY <2>1 DEF RequestType
  <2> HIDE DEF q
  <2>4. Coherent(q)
    BY <2>1, <2>3 DEF Coherent
  <2> QED
    BY <1>2, <2>2, <2>4, StepsKeeps DEF Body
<1> QED
  BY <1>1, <1>2 DEF Body

LEMMA LookupKeeps ==
  ASSUME Inv, NEW r \in Request, Lookup(r)
  PROVE  Inv' /\ FamiliesKept
<1>1. request[r] \in RequestType /\ request[r].pc = "lookup" /\ Coherent(request[r])
  BY RequestFields DEF Lookup, Idle
<1>2. /\ request[r] \in [pc : {"lookup", "commit"}, op : {"add", "replace"},
                         handle : Handle \cup {NoAccount}, name : Asked, family : Known,
                         identity : Known]
      /\ request[r].family \in Identity
  BY <1>1 DEF RequestType, Coherent
<1>3. CASE Ends(r)
  BY <1>3, EndsKeeps DEF Lookup
<1>4. CASE Steps(r, [request[r] EXCEPT !.pc = "commit", !.identity = request[r].family])
  <2> DEFINE q == [request[r] EXCEPT !.pc = "commit", !.identity = request[r].family]
  <2>1. q \in RequestType
    BY <1>2 DEF RequestType
  <2>2. /\ q.pc = "commit" /\ q.op = request[r].op /\ q.handle = request[r].handle
        /\ q.name = request[r].name /\ q.family = request[r].family
        /\ q.identity = request[r].family
    BY <1>2
  <2> HIDE DEF q
  <2>3. Coherent(q)
    BY <1>1, <1>2, <2>2 DEF Coherent
  <2> QED
    BY <1>4, <2>1, <2>3, StepsKeeps DEF Lookup, q
<1>5. CASE request[r].op = "replace" /\ Steps(r, [request[r] EXCEPT !.pc = "commit"])
  <2> DEFINE q == [request[r] EXCEPT !.pc = "commit"]
  <2>1. q \in RequestType
    BY <1>2 DEF RequestType
  <2>2. /\ q.pc = "commit" /\ q.op = "replace" /\ q.handle = request[r].handle
        /\ q.name = request[r].name /\ q.family = request[r].family
        /\ q.identity = request[r].identity
    BY <1>2, <1>5
  <2> HIDE DEF q
  <2>3. Coherent(q)
    BY <1>1, <1>2, <1>5, <2>2 DEF Coherent
  <2> QED
    BY <1>5, <2>1, <2>3, StepsKeeps DEF Lookup, q
<1> QED
  BY <1>3, <1>4, <1>5 DEF Lookup

LEMMA CommitAddKeeps ==
  ASSUME Inv, NEW r \in Request, CommitAdd(r)
  PROVE  Inv' /\ FamiliesKept
<1> DEFINE i == request[r].identity
           name == request[r].name
<1>1. request[r] \in RequestType /\ request[r].pc = "commit" /\ Coherent(request[r])
  BY RequestFields DEF CommitAdd, Idle
<1>2. i \in Known
  BY <1>1 DEF RequestType
<1>3. /\ request[r].op = "add" /\ name \in GivenName \cup {Derive}
      /\ name = Derive => i \in Identity
  BY <1>1 DEF Coherent, CommitAdd
<1>4. request[r].family = i
  BY <1>1, <1>3 DEF Coherent
<1>5. request' \in [Request -> RequestType \cup {Idle}] /\ Identified'
  BY RequestFields DEF Inv, TypeOK, Identified, CommitAdd, Ends, Steps
<1>6. CASE UNCHANGED accounts
  BY <1>6, EndsKeeps DEF CommitAdd
<1>7. CASE Added(i, i, name)
  <2> HIDE DEF i, name
  <2>1. /\ accounts' \in [Handle -> AccountType \cup {NoAccount}]
        /\ OneAccountPerIdentity'
        /\ \A h \in Held : \/ accounts'[h].family = accounts[h].family
                           \/ accounts'[h].family = accounts[h].identity
    BY <1>2, <1>3, <1>7, AddedKeeps DEF Inv
  <2> QED
    BY <1>5, <2>1 DEF Inv, TypeOK, CommitAdd, FamiliesKept
<1> QED
  BY <1>4, <1>6, <1>7 DEF CommitAdd

LEMMA CommitReplaceKeeps ==
  ASSUME Inv, NEW r \in Request, CommitReplace(r)
  PROVE  /\ Inv'
         /\ \/ FamiliesKept
            \/ /\ request[r].pc = "commit" /\ request'[r] = Idle
               /\ request[r].op = "replace" /\ request[r].identity = NoIdentity
<1> DEFINE h == request[r].handle
           i == request[r].identity
           f == request[r].family
<1>1. request[r] \in RequestType /\ request[r].pc = "commit" /\ Coherent(request[r])
  BY RequestFields DEF CommitReplace, Idle
<1>2. i \in Known /\ f \in Known
  BY <1>1 DEF RequestType
<1>3. request[r].op = "replace" /\ h \in Handle /\ (i = f \/ i = NoIdentity)
  BY <1>1 DEF Coherent, CommitReplace
<1>4. /\ request' \in [Request -> RequestType \cup {Idle}] /\ Identified'
      /\ request'[r] = Idle
  BY RequestFields DEF Inv, TypeOK, Identified, CommitReplace, Ends, Steps
<1>5. CASE UNCHANGED accounts
  BY <1>5, EndsKeeps DEF CommitReplace
<1>6. CASE /\ Fits(h, i, f)
           /\ accounts' = [accounts EXCEPT ![h].family = f,
                                           ![h].identity = IF i = NoIdentity THEN @ ELSE i]
  <2> HIDE DEF h, i, f
  <2>1. /\ h \in Held /\ accounts[h] \in AccountType
        /\ i = accounts[h].identity \/ i = NoIdentity
    BY <1>3, <1>6, HeldType DEF Fits, Inv, Held
  <2> DEFINE a == [accounts[h] EXCEPT !.family = f,
                                      !.identity = IF i = NoIdentity THEN @ ELSE i]
  <2>2. a \in AccountType /\ a.family = f
    BY <1>2, <2>1 DEF AccountType
  <2>3. a.identity = accounts[h].identity
    BY <2>1 DEF AccountType
  <2>4. accounts' = [accounts EXCEPT ![h] = a]
    BY <1>6
  <2> HIDE DEF a
  <2>5. /\ accounts' \in [Handle -> AccountType \cup {NoAccount}]
        /\ accounts'[h] = a /\ \A x \in Handle \ {h} : accounts'[x] = accounts[x]
    BY <1>3, <2>2, <2>4 DEF Inv, TypeOK
  <2>6. Held' = Held /\ \A x \in Held : accounts'[x].identity = accounts[x].identity
    BY <1>3, <2>1, <2>2, <2>3, <2>5, AccountsAssumption DEF Held
  <2>7. OneAccountPerIdentity'
    BY <2>6 DEF Inv, OneAccountPerIdentity
  <2>8. Inv'
    BY <1>4, <2>5, <2>7 DEF Inv, TypeOK, CommitReplace
  <2>9. CASE i = NoIdentity
    BY <1>1, <1>3, <1>4, <2>8, <2>9 DEF i
  <2>10. CASE i # NoIdentity
    <3>1. f = accounts[h].identity
      BY <1>3, <2>1, <2>10
    <3>2. FamiliesKept
      BY <2>2, <2>5, <3>1 DEF FamiliesKept, Held
    <3> QED
      BY <2>8, <3>2
  <2> QED
    BY <2>9, <2>10
<1> QED
  BY <1>5, <1>6 DEF CommitReplace

LEMMA LogInKeeps ==
  ASSUME Inv, NEW i \in Identity, LogIn(i)
  PROVE  Inv' /\ FamiliesKept
<1>1. /\ accounts' \in [Handle -> AccountType \cup {NoAccount}]
      /\ OneAccountPerIdentity'
      /\ \A h \in Held : \/ accounts'[h].family = accounts[h].family
                         \/ accounts'[h].family = accounts[h].identity
  BY AddedKeeps DEF Inv, LogIn, Known
<1>2. UNCHANGED <<managed, request>>
  BY DEF LogIn
<1> QED
  BY <1>1, <1>2 DEF Inv, TypeOK, Identified, FamiliesKept

LEMMA RenameKeeps ==
  ASSUME Inv, NEW h \in Handle, NEW name \in GivenName, Rename(h, name)
  PROVE  Inv' /\ FamiliesKept
<1> DEFINE a == [accounts[h] EXCEPT !.name = name]
<1>1. h \in Held /\ accounts[h] \in AccountType
  BY HeldType DEF Rename, Inv
<1>2. name \in Names
  BY DEF Names
<1> HIDE DEF Names
<1>3. a \in AccountType
  BY <1>1, <1>2 DEF AccountType
<1>4. a.identity = accounts[h].identity /\ a.family = accounts[h].family
  BY <1>1 DEF AccountType
<1>5. accounts' = [accounts EXCEPT ![h] = a] /\ UNCHANGED <<managed, request>>
  BY DEF Rename
<1> HIDE DEF a
<1>6. /\ accounts' \in [Handle -> AccountType \cup {NoAccount}]
      /\ accounts'[h] = a /\ \A x \in Handle \ {h} : accounts'[x] = accounts[x]
  BY <1>3, <1>5 DEF Inv, TypeOK
<1>7. /\ Held' = Held
      /\ \A x \in Held : /\ accounts'[x].identity = accounts[x].identity
                         /\ accounts'[x].family = accounts[x].family
  BY <1>1, <1>3, <1>4, <1>6, AccountsAssumption DEF Held
<1>8. OneAccountPerIdentity'
  BY <1>7 DEF Inv, OneAccountPerIdentity
<1> QED
  BY <1>5, <1>6, <1>7, <1>8 DEF Inv, TypeOK, Identified, FamiliesKept

LEMMA RemoveKeeps ==
  ASSUME Inv, NEW h \in Handle, Remove(h)
  PROVE  Inv' /\ FamiliesKept
<1>1. accounts' \in [Handle -> AccountType \cup {NoAccount}]
  BY DEF Inv, TypeOK, Remove
<1>2. \A x \in Handle : accounts'[x] = IF x = h THEN NoAccount ELSE accounts[x]
  BY DEF Inv, TypeOK, Remove
<1>3. Held' \subseteq Held /\ \A x \in Held' : accounts'[x] = accounts[x]
  BY <1>2 DEF Held
<1>4. OneAccountPerIdentity'
  BY <1>3 DEF Inv, OneAccountPerIdentity
<1>5. FamiliesKept
  BY <1>2 DEF FamiliesKept, Held
<1> QED
  BY <1>1, <1>4, <1>5 DEF Inv, TypeOK, Identified, Remove

LEMMA InvInit ==
  ASSUME Init
  PROVE  Inv
<1>1. TypeOK
  BY DEF Init, TypeOK
<1>2. \A r \in Request : request[r].pc = "idle"
  BY DEF Init, Idle
<1>3. Identified
  BY <1>2 DEF Identified, Coherent
<1>4. OneAccountPerIdentity
  BY DEF Init, OneAccountPerIdentity, Held
<1> QED
  BY <1>1, <1>3, <1>4 DEF Inv

LEMMA InvNext ==
  ASSUME Inv, [Next]_vars
  PROVE  Inv' /\ FamilyStep
<1>1. FamiliesKept => FamilyStep
  BY DEF FamiliesKept, FamilyStep, Held
<1>2. ASSUME NEW r \in Request, NEW h \in Handle,
             Ask(r, "replace", h, CHOOSE n \in GivenName : TRUE)
      PROVE  Inv' /\ FamiliesKept
  <2> DEFINE name == CHOOSE n \in GivenName : TRUE
  <2>1. name \in Asked
    BY DEF Asked
  <2> HIDE DEF name
  <2> QED
    BY <1>2, <2>1, AskKeeps DEF name
<1>3. ASSUME NEW r \in Request, NEW name \in GivenName \cup {Derive}, Ask(r, "add", NoAccount, name)
      PROVE  Inv' /\ FamiliesKept
  BY <1>3, AskKeeps DEF Asked
<1>4. ASSUME NEW r \in Request, Body(r) PROVE Inv' /\ FamiliesKept
  BY <1>4, BodyKeeps
<1>5. ASSUME NEW r \in Request, ReadKey(r) PROVE Inv' /\ FamiliesKept
  BY <1>5, HasKeeps DEF ReadKey, Known
<1>6. ASSUME NEW r \in Request, ReadFile(r) PROVE Inv' /\ FamiliesKept
  BY <1>6, HasKeeps, EndsKeeps DEF ReadFile, Known
<1>7. ASSUME NEW r \in Request, ReadManaged(r) PROVE Inv' /\ FamiliesKept
  <2>1. managed \in Identity
    BY DEF Inv, TypeOK
  <2> QED
    BY <1>7, <2>1, HasKeeps, EndsKeeps DEF ReadManaged, Known
<1>8. ASSUME NEW r \in Request, NEW i \in Identity, ReadPortable(r, i) PROVE Inv' /\ FamiliesKept
  BY <1>8, HasKeeps DEF ReadPortable, Known
<1>9. ASSUME NEW r \in Request, Lookup(r) PROVE Inv' /\ FamiliesKept
  BY <1>9, LookupKeeps
<1>10. ASSUME NEW r \in Request, CommitAdd(r) PROVE Inv' /\ FamiliesKept
  BY <1>10, CommitAddKeeps
<1>11. ASSUME NEW r \in Request, CommitReplace(r) PROVE Inv' /\ FamilyStep
  BY <1>1, <1>11, CommitReplaceKeeps DEF FamilyStep
<1>12. ASSUME NEW i \in Identity, LogIn(i) PROVE Inv' /\ FamiliesKept
  BY <1>12, LogInKeeps
<1>13. ASSUME NEW i \in Identity, Relogs(i) PROVE Inv' /\ FamiliesKept
  BY <1>13 DEF Relogs, Inv, TypeOK, Identified, OneAccountPerIdentity, Held, FamiliesKept
<1>14. ASSUME NEW h \in Handle, NEW name \in GivenName, Rename(h, name)
       PROVE  Inv' /\ FamiliesKept
  BY <1>14, RenameKeeps
<1>15. ASSUME NEW h \in Handle, Remove(h) PROVE Inv' /\ FamiliesKept
  BY <1>15, RemoveKeeps
<1>16. CASE UNCHANGED vars
  BY <1>16 DEF vars, Inv, TypeOK, Identified, OneAccountPerIdentity, Held, FamilyStep
<1> QED
  BY <1>1, <1>2, <1>3, <1>4, <1>5, <1>6, <1>7, <1>8, <1>9, <1>10, <1>11, <1>12, <1>13, <1>14,
     <1>15, <1>16 DEF Next

---------------------------------------------------------------------------
(* Theorems. *)

\* Whatever overlaps, the accounts, the managed login and the requests have
\* their types, what a request commits is coherent, and an identity has one
\* account.
THEOREM AccountsCoherent ==
  Spec => []Inv
<1>1. Init => Inv
  BY InvInit
<1>2. Inv /\ [Next]_vars => Inv'
  BY InvNext
<1> QED
  BY <1>1, <1>2, PTL DEF Spec

\* Every variable has its type, whatever overlaps (control/accounts.rs).
THEOREM TypeCorrect ==
  Spec => []TypeOK
<1>1. Inv => TypeOK
  BY DEF Inv
<1> QED
  BY <1>1, AccountsCoherent, PTL

\* No overlap of imports, logins, renames and removals gives an identity two
\* accounts (same_identity_of, under the pool lock).
THEOREM IdentitiesHaveOneAccount ==
  Spec => []OneAccountPerIdentity
<1>1. Inv => OneAccountPerIdentity
  BY DEF Inv
<1> QED
  BY <1>1, AccountsCoherent, PTL

\* An account comes to hold another identity's family only by a replace whose
\* lookup failed (replace_credential).
THEOREM FamiliesAreOwn ==
  Spec => FamilyIsItsOwn
<1>1. Inv /\ [Next]_vars => [FamilyStep]_vars
  BY InvNext
<1> QED
  BY <1>1, AccountsCoherent, PTL DEF Spec, FamilyIsItsOwn
=============================================================================
