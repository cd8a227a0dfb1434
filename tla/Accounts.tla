------------------------------ MODULE Accounts ------------------------------
(***************************************************************************)
(* Account operations over the control plane (control/accounts.rs,         *)
(* pool/operations.rs, pool/managed.rs and the profile lookup of           *)
(* data_plane/upstream.rs): a credential is imported in several awaits,    *)
(* and then one operation on the pool is committed under its lock.         *)
(*                                                                         *)
(* An identity is what makes two credentials the same account; its email   *)
(* and organisation are the facts a derived name is made of.  A name is a  *)
(* pair: a base, and the label in parentheses after it.  Case folding and  *)
(* spelling are left out.  Pool has the references a candidate is guarded  *)
(* by, Store the write: here a commit may just as well be refused.         *)
(***************************************************************************)
EXTENDS Naturals, FiniteSets

CONSTANTS Request, Handle,
          Identity, NoIdentity,  \* an API key has no identity
          NoAccount,
          EmailOf, OrgNameOf, OrgUuidOf, ProviderOf, \* of an identity's profile
          NoFact,                \* a fact the profile does not give
          GivenName,             \* names an operator gives
          Derive                 \* in place of an operator's name: none was given

Known == Identity \cup {NoIdentity}

\* What names are made of.
Bases  == {EmailOf[i] : i \in Identity} \cup Handle
Labels == {OrgNameOf[i] : i \in Identity} \cup {OrgUuidOf[i] : i \in Identity}
          \cup {ProviderOf[i] : i \in Identity} \cup Handle \cup {NoFact}
Names  == (Bases \X Labels) \cup GivenName
Asked  == GivenName \cup {Derive} \cup {CHOOSE n \in GivenName : TRUE}

AccountType == [identity : Known, family : Known, name : Names,
                provider : {ProviderOf[i] : i \in Identity} \cup {"anthropic"}]
RequestType ==
  [pc : {"body", "source"}, op : {"add", "replace"}, handle : Handle \cup {NoAccount}, name : Asked]
  \cup [pc : {"lookup", "commit"}, op : {"add", "replace"}, handle : Handle \cup {NoAccount},
        name : Asked, family : Known, identity : Known]

\* The values that stand for none are none of the others.
ASSUME AccountsAssumption == NoIdentity \notin Identity /\ NoAccount \notin AccountType

VARIABLES
  accounts,   \* per handle: identity and provider of the profile, family, name
  managed,    \* the identity Claude Code holds a login of on the server's host
  request     \* what each control request is doing

vars == <<accounts, managed, request>>

Idle  == [pc |-> "idle"]
Held  == {h \in Handle : accounts[h] # NoAccount}

Init ==
  /\ accounts = [h \in Handle |-> NoAccount]
  /\ managed \in Identity /\ request = [r \in Request |-> Idle]

----------------------------------------------------------------------------
(* Names. *)

Taken(name, except) == \E h \in Held \ {except} : accounts[h].name = name

\* The accounts of one provider that share the newcomer's email.
Holders(i) ==
  {h \in Held : /\ accounts[h].provider = ProviderOf[i]
                /\ accounts[h].identity # NoIdentity
                /\ EmailOf[i] # NoFact /\ EmailOf[accounts[h].identity] = EmailOf[i]}

\* The organisation's name when no other holder has it, else its UUID, else
\* the handle of the newcomer, whoever the label is for.
Label(j, shared, new) ==
  IF OrgNameOf[j] # NoFact /\ ~\E k \in shared \ {j} : OrgNameOf[k] = OrgNameOf[j] THEN OrgNameOf[j]
  ELSE IF OrgUuidOf[j] # NoFact THEN OrgUuidOf[j] ELSE new

\* The name an account's own organisation would have given it.
OwnForm(j) == IF OrgNameOf[j] # NoFact THEN OrgNameOf[j] ELSE OrgUuidOf[j]

Base(i, new) == IF EmailOf[i] # NoFact THEN EmailOf[i] ELSE new

\* The email alone, with the provider when another one's account is called so.
Bare(i, new) ==
  IF \E h \in Held : accounts[h].provider # ProviderOf[i] /\ accounts[h].name = <<Base(i, new), NoFact>>
    THEN <<Base(i, new), ProviderOf[i]>> ELSE <<Base(i, new), NoFact>>

Shared(i) == {accounts[h].identity : h \in Holders(i)} \cup {i}

\* A label no account outside the holders has for a name.
Clashes(i, new) ==
  \E j \in Shared(i), h \in Held \ Holders(i) :
    accounts[h].name = <<Base(i, new), Label(j, Shared(i), new)>>

\* Holders that still have a derived name move to their label.
Relabelled(i, new) ==
  [h \in Handle |->
     IF h \in Holders(i) /\ OwnForm(accounts[h].identity) # NoFact
        /\ accounts[h].name \in {<<EmailOf[i], NoFact>>, <<EmailOf[i], OwnForm(accounts[h].identity)>>}
       THEN [accounts[h] EXCEPT !.name = <<EmailOf[i], Label(accounts[h].identity, Shared(i), new)>>]
       ELSE accounts[h]]

----------------------------------------------------------------------------
(* The operations, on the pool as the lock finds it. *)

\* Mutant: the account of a credential is found by the tokens it holds.
SameAsFamily(i) == {h \in Held : i # NoIdentity /\ accounts[h].family = i}

\* same_identity_of.
SameAs(i) == {h \in Held : i # NoIdentity /\ accounts[h].identity = i}

New(i, family, name) ==
  [identity |-> i, family |-> family, name |-> name,
   provider |-> IF i = NoIdentity THEN "anthropic" ELSE ProviderOf[i]]

\* The handle is the next that is free.
Fresh == CHOOSE h \in Handle : h \notin Held

\* add: the identity's own account takes the credential, and the name given
\* must be its own; a new account takes the name given if it is free, or a
\* derived one.
Added(i, family, name) ==
  \/ \E h \in SameAs(i) :
       /\ name \in {Derive, accounts[h].name}
       /\ accounts' = [accounts EXCEPT ![h].family = family]
  \/ /\ SameAs(i) = {} /\ Held # Handle /\ name # Derive /\ ~Taken(name, NoAccount)
     /\ accounts' = [accounts EXCEPT ![Fresh] = New(i, family, name)]
  \/ /\ SameAs(i) = {} /\ Held # Handle /\ name = Derive
     /\ LET bare == Bare(i, Fresh) IN
          \/ /\ Holders(i) = {} /\ ~Taken(bare, NoAccount)
             /\ accounts' = [accounts EXCEPT ![Fresh] = New(i, family, bare)]
          \/ /\ Holders(i) # {} \/ Taken(bare, NoAccount)
             /\ ~Clashes(i, Fresh)
             /\ accounts' = [Relabelled(i, Fresh) EXCEPT ![Fresh] =
                  New(i, family, <<Base(i, Fresh), Label(i, Shared(i), Fresh)>>)]

\* Mutant: a replacement lands whatever identity the profile gives.
FitsAny(h, i, family) == accounts[h] # NoAccount

\* replace_credential: never across kinds, and only for the account's own
\* identity, unless the lookup gave none.
Fits(h, i, family) ==
  /\ accounts[h] # NoAccount
  /\ (family = NoIdentity) = (accounts[h].identity = NoIdentity)
  /\ i \in {accounts[h].identity, NoIdentity}

----------------------------------------------------------------------------
(* Requests. *)

Steps(r, step) == request' = [request EXCEPT ![r] = step]
Ends(r) == Steps(r, Idle)

\* An operator's POST, authenticated; its body is awaited.
Ask(r, op, h, name) ==
  /\ request[r] = Idle
  /\ Steps(r, [pc |-> "body", op |-> op, handle |-> h, name |-> name])
  /\ UNCHANGED <<accounts, managed>>

\* mutation_body, member_errors; replace asks for the handle here.
Body(r) ==
  /\ request[r].pc = "body"
  /\ \/ /\ request[r].op = "replace" => accounts[request[r].handle] # NoAccount
        /\ Steps(r, [request[r] EXCEPT !.pc = "source"])
     \/ Ends(r)
  /\ UNCHANGED <<accounts, managed>>

\* The family the source gave.
Has(r, pc, family) ==
  Steps(r, [pc |-> pc, op |-> request[r].op, handle |-> request[r].handle, name |-> request[r].name,
            family |-> family, identity |-> NoIdentity])

\* An API key: no family to look up, and no name to derive.
ReadKey(r) ==
  /\ request[r].pc = "source" /\ request[r].name # Derive
  /\ Has(r, "commit", NoIdentity) /\ UNCHANGED <<accounts, managed>>

\* Portable JSON in the body.
ReadPortable(r, i) ==
  /\ request[r].pc = "source" /\ Has(r, "lookup", i) /\ UNCHANGED <<accounts, managed>>

\* A protected file, which may be missing or hold something else.
ReadFile(r) ==
  /\ request[r].pc = "source"
  /\ (\E i \in Identity : Has(r, "lookup", i)) \/ Ends(r)
  /\ UNCHANGED <<accounts, managed>>

\* The store of Claude Code: read once, and copied.
ReadManaged(r) ==
  /\ request[r].pc = "source" /\ (Has(r, "lookup", managed) \/ Ends(r))
  /\ UNCHANGED <<accounts, managed>>

\* fetch_profile: the identity, or none.  An add ends without one, a replace
\* goes on.
Lookup(r) ==
  /\ request[r].pc = "lookup"
  /\ \/ Steps(r, [request[r] EXCEPT !.pc = "commit", !.identity = request[r].family])
     \/ request[r].op = "replace" /\ Steps(r, [request[r] EXCEPT !.pc = "commit"])
     \/ request[r].op = "add" /\ Ends(r)
  /\ UNCHANGED <<accounts, managed>>

CommitAdd(r) ==
  /\ request[r].pc = "commit" /\ request[r].op = "add" /\ Ends(r) /\ UNCHANGED managed
  /\ \/ Added(request[r].identity, request[r].family, request[r].name)
     \/ UNCHANGED accounts

CommitReplace(r) ==
  /\ request[r].pc = "commit" /\ request[r].op = "replace" /\ Ends(r) /\ UNCHANGED managed
  /\ LET h == request[r].handle IN
       \/ /\ Fits(h, request[r].identity, request[r].family)
          /\ accounts' = [accounts EXCEPT ![h].family = request[r].family,
                                       ![h].identity = IF request[r].identity = NoIdentity THEN @
                                                       ELSE request[r].identity]
       \/ UNCHANGED accounts

\* A finished login (Login) adds as well, of either provider.
LogIn(i) ==
  /\ Added(i, i, Derive) /\ UNCHANGED <<managed, request>>

Rename(h, name) ==
  /\ h \in Held /\ ~Taken(name, h)
  /\ accounts' = [accounts EXCEPT ![h].name = name] /\ UNCHANGED <<managed, request>>

Remove(h) ==
  /\ h \in Held /\ accounts' = [accounts EXCEPT ![h] = NoAccount] /\ UNCHANGED <<managed, request>>

\* Outside: Claude Code is logged in to another account.
Relogs(i) == managed # i /\ managed' = i /\ UNCHANGED <<accounts, request>>

Next ==
  \/ \E r \in Request : \/ \E h \in Handle : Ask(r, "replace", h, CHOOSE n \in GivenName : TRUE)
                        \/ \E name \in GivenName \cup {Derive} : Ask(r, "add", NoAccount, name)
  \/ \E r \in Request : Body(r) \/ ReadKey(r) \/ ReadFile(r) \/ ReadManaged(r) \/ Lookup(r)
                        \/ CommitAdd(r) \/ CommitReplace(r)
  \/ \E r \in Request, i \in Identity : ReadPortable(r, i)
  \/ \E i \in Identity : LogIn(i) \/ Relogs(i)
  \/ \E h \in Handle, name \in GivenName : Rename(h, name)
  \/ \E h \in Handle : Remove(h)

Spec == Init /\ [][Next]_vars

----------------------------------------------------------------------------
(* Properties. *)

\* Every variable has its type.
TypeOK ==
  /\ accounts \in [Handle -> AccountType \cup {NoAccount}]
  /\ managed \in Identity
  /\ request \in [Request -> RequestType \cup {Idle}]

\* An identity has one account, however many imports and logins of it overlap:
\* its quota is not counted twice, and its refresh token is not used by two.
OneAccountPerIdentity ==
  \A g, h \in Held :
    accounts[g].identity = accounts[h].identity /\ accounts[g].identity # NoIdentity => g = h

\* An account comes to hold a family of another identity only by a replace
\* whose profile lookup failed.
FamilyStep ==
  \A h \in Held :
    accounts'[h] # NoAccount /\ accounts'[h].family # accounts[h].family
                             /\ accounts'[h].family # accounts[h].identity
      => \E r \in Request : /\ request[r].pc = "commit" /\ request'[r] = Idle
                            /\ request[r].op = "replace" /\ request[r].identity = NoIdentity
FamilyIsItsOwn == [][FamilyStep]_vars

\* An operator's name equal to a derived form "refuses the add rather than
\* duplicating it": no two accounts have one name.
NamesUnique == \A g, h \in Held : accounts[g].name = accounts[h].name => g = h
=============================================================================
