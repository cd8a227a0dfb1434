------------------------------ MODULE ConfigFile ------------------------------
(***************************************************************************)
(* The configuration file, the commands that edit it and the server that   *)
(* runs by it, from cli/edit.rs, config/validate.rs, config/reload.rs,     *)
(* control/reload.rs and the start in cli/mod.rs.                          *)
(*                                                                         *)
(* A command reads the file, edits and checks the document on its own,     *)
(* writes it, and asks the server to reload; it writes back what it read   *)
(* when the server refuses or does not answer.  Nothing locks the file:    *)
(* commands run at once, and each can be killed between two steps.         *)
(*                                                                         *)
(* A document is the set of entries that differ from the defaults: a key   *)
(* and its value, a route, a priority, a blocked pattern.                  *)
(***************************************************************************)
EXTENDS Naturals, FiniteSets

CONSTANTS Command,     \* commands of the operator
          Entry,
          KindOf,      \* what each entry is
          RefOf,       \* the account a route or priority names
          Account, NoAccount,
          Clash,       \* pairs of entries no document may have both of
          Verb,        \* the verbs of an instance
          MaxEdit,     \* bound: commands started
          MaxFault     \* bound: kills and lost answers

Kinds == {"live", "restart", "block", "route", "priority", "unknown", "bad"}
Verbs == {"set", "unset", "add", "remove", "priority", "clear", "edit", "offline"}

ConfigFileAssumption ==
  /\ KindOf \in [Entry -> Kinds] /\ RefOf \in [Entry -> Account \cup {NoAccount}]
  /\ NoAccount \notin Account /\ \A pair \in Clash : pair \subseteq Entry
  /\ Verb \subseteq Verbs /\ MaxEdit \in Nat /\ MaxFault \in Nat

VARIABLES
  file,      \* the document on disk
  up,
  running,   \* LoadedConfig: the document in force
  pool,      \* the accounts that references resolve to
  cmd,       \* what each command is doing
  refused,   \* documents a command wrote and the server refused, and took by nobody since
  quiet,     \* history: no two commands overlapped, none was killed, lost its answer or
             \* skipped the server, and the server took no other document meanwhile
  edits, faults

vars == <<file, up, running, pool, cmd, refused, quiet, edits, faults>>

NoCommand == [pc |-> "none"]

OfKind(doc, kind) == {e \in doc : KindOf[e] = kind}

\* config::parse: keys nobody knows, types and ranges, then the cross-checks.
KnownKeys(doc) == OfKind(doc, "unknown") = {}
InRange(doc) == OfKind(doc, "bad") = {}
CrossChecked(doc) == \A pair \in Clash : ~(pair \subseteq doc)
Valid(doc) == KnownKeys(doc) /\ InRange(doc) /\ CrossChecked(doc)

\* references::errors: every reference resolves, and no account twice.
Priorities(doc, a) == {e \in OfKind(doc, "priority") : RefOf[e] = a}
Resolves(doc, accounts) ==
  /\ \A e \in doc : RefOf[e] \in accounts \cup {NoAccount}
  /\ \A a \in accounts : Cardinality(Priorities(doc, a)) <= 1

Accepted(doc, accounts) == Valid(doc) /\ Resolves(doc, accounts)

RestartKeys(doc) == OfKind(doc, "restart")

Init ==
  /\ pool \in SUBSET Account
  /\ file \in {{}} \cup {{e} : e \in Entry} /\ Accepted(file, pool)
  /\ up = TRUE /\ running = file
  /\ cmd = [c \in Command |-> NoCommand]
  /\ refused = {} /\ quiet = TRUE /\ edits = 0 /\ faults = 0

----------------------------------------------------------------------------
(* A command: what it does to the document it read.                        *)

At(c, pc) == cmd[c].pc = pc
Goto(c, pc) == cmd' = [cmd EXCEPT ![c].pc = pc]
Ends(c) == cmd' = [cmd EXCEPT ![c] = NoCommand]
Fault == faults < MaxFault /\ faults' = faults + 1 /\ quiet' = FALSE
Alone(c) == \A d \in Command \ {c} : cmd[d] = NoCommand
NobodyAtWork == \A c \in Command : cmd[c] = NoCommand

\* `existing` is what an earlier read of the file had for the account.
SetKey(doc, e) == doc \cup {e}
UnsetKey(doc, e) == doc \ {e}
AddRoute(doc, e) == doc \cup {e}
RemoveRoute(doc, e) == doc \ {e}
SetPriority(doc, e, existing) == (doc \ existing) \cup {e}
ClearPriority(doc, existing) == doc \ existing
Block(doc, e) == doc \cup {e}
Unblock(doc, e) == doc \ {e}

\* Adding what is there and removing what is not are refused.
Edits(doc, e, existing) ==
  LET k == KindOf[e] IN
  [set      |-> IF k \in {"live", "restart", "unknown", "bad"} THEN {SetKey(doc, e)} ELSE {},
   unset    |-> IF k \in {"live", "restart"} /\ e \in doc THEN {UnsetKey(doc, e)} ELSE {},
   add      |-> IF e \in doc THEN {}
                ELSE IF k = "route" THEN {AddRoute(doc, e)}
                ELSE IF k = "block" THEN {Block(doc, e)} ELSE {},
   remove   |-> IF e \notin doc THEN {}
                ELSE IF k = "route" THEN {RemoveRoute(doc, e)}
                ELSE IF k = "block" THEN {Unblock(doc, e)} ELSE {},
   priority |-> IF k = "priority" THEN {SetPriority(doc, e, existing)} ELSE {},
   clear    |-> IF k = "priority" /\ existing # {} THEN {ClearPriority(doc, existing)} ELSE {},
   edit     |-> {doc, doc \cup {e}, doc \ {e}}, offline |-> {doc, doc \cup {e}, doc \ {e}}]

\* The references a command types resolve before it reads the file; a priority
\* command reads the file for the account's entries first.
Begin(c, verb, e) ==
  /\ cmd[c] = NoCommand /\ edits < MaxEdit /\ edits' = edits + 1
  /\ verb \in {"add", "priority", "clear"} => up /\ RefOf[e] \in pool \cup {NoAccount}
  /\ cmd' = [cmd EXCEPT ![c] =
       [pc |-> "read", verb |-> verb, entry |-> e, existing |-> Priorities(file, RefOf[e])]]
  /\ quiet' = (quiet /\ Alone(c))
  /\ UNCHANGED <<file, up, running, pool, refused, faults>>

\* The file is read and the document edited and checked; nothing is written
\* of one that is invalid.  The editor may stay open for long after the read.
Read(c) ==
  /\ At(c, "read")
  /\ LET r == cmd[c]
         candidates == {d \in Edits(file, r.entry, r.existing)[r.verb] : Valid(d)} IN
       \/ \E d \in candidates :
            cmd' = [cmd EXCEPT ![c] = [pc |-> "write", verb |-> r.verb, previous |-> file, candidate |-> d]]
       \/ candidates = {} /\ Ends(c)
       \/ r.verb \in {"edit", "offline"} /\ Ends(c)
  /\ UNCHANGED <<file, up, running, pool, refused, quiet, edits, faults>>

\* A server that does not answer is an error before anything is written.
Unreachable(c) ==
  /\ At(c, "write") /\ ~up /\ cmd[c].verb # "offline" /\ Ends(c)
  /\ UNCHANGED <<file, up, running, pool, refused, quiet, edits, faults>>

Unchanged(c) == cmd[c].candidate = cmd[c].previous

Write(c) ==
  /\ At(c, "write") /\ up /\ cmd[c].verb # "offline"
  /\ IF cmd[c].verb = "edit" /\ Unchanged(c) THEN UNCHANGED file /\ Ends(c)
     ELSE file' = cmd[c].candidate /\ Goto(c, "reload")
  /\ UNCHANGED <<up, running, pool, refused, quiet, edits, faults>>

\* edit_offline: no server is asked, and no reference is checked.
WriteOffline(c) ==
  /\ At(c, "write") /\ cmd[c].verb = "offline" /\ Ends(c)
  /\ file' = cmd[c].candidate /\ quiet' = (quiet /\ Unchanged(c))
  /\ UNCHANGED <<up, running, pool, refused, edits, faults>>

\* attempt: the file as it is now, whole or not at all.
Takes(doc) == Accepted(doc, pool) /\ RestartKeys(doc) = RestartKeys(running)

Reload(c) ==
  /\ At(c, "reload") /\ up
  /\ IF Takes(file)
     THEN running' = file /\ refused' = refused \ {file} /\ Goto(c, "applied")
     ELSE refused' = refused \cup {file} /\ Goto(c, "back") /\ UNCHANGED running
  /\ UNCHANGED <<file, up, pool, quiet, edits, faults>>

Answered(c) ==
  /\ At(c, "applied") /\ Ends(c)
  /\ UNCHANGED <<file, up, running, pool, refused, quiet, edits, faults>>

\* The answer is lost, or the server is gone.
AnswerLost(c) ==
  /\ \/ At(c, "applied") /\ Fault
     \/ At(c, "reload") /\ ~up /\ quiet' = FALSE /\ UNCHANGED faults
  /\ Goto(c, "back")
  /\ UNCHANGED <<file, up, running, pool, refused, edits>>

\* Mutant: what the server refused stays.
WriteBackNothing(c) ==
  /\ At(c, "back") /\ Ends(c)
  /\ UNCHANGED <<file, up, running, pool, refused, quiet, edits, faults>>

WriteBack(c) ==
  /\ At(c, "back") /\ file' = cmd[c].previous /\ Ends(c)
  /\ UNCHANGED <<up, running, pool, refused, quiet, edits, faults>>

Kill(c) ==
  /\ cmd[c] # NoCommand /\ Fault /\ Ends(c)
  /\ UNCHANGED <<file, up, running, pool, refused, edits>>

----------------------------------------------------------------------------
(* The server. *)

\* A reload on SIGHUP, or `config reload`.
ReloadSignal ==
  /\ up /\ file # running
  /\ Takes(file) /\ running' = file /\ refused' = refused \ {file}
  /\ quiet' = (quiet /\ NobodyAtWork)
  /\ UNCHANGED <<file, up, pool, cmd, edits, faults>>

Stop ==
  /\ up /\ up' = FALSE
  /\ UNCHANGED <<file, running, pool, cmd, refused, quiet, edits, faults>>

\* A start with a document that is refused exits with 3.
Start ==
  /\ ~up /\ Accepted(file, pool) /\ up' = TRUE /\ running' = file
  /\ refused' = refused \ {file} /\ quiet' = (quiet /\ NobodyAtWork)
  /\ UNCHANGED <<file, pool, cmd, edits, faults>>

\* guarded: an account that the running document names stays.
RemoveAccount(a) ==
  /\ up /\ a \in pool /\ Resolves(running, pool \ {a})
  /\ pool' = pool \ {a}
  /\ UNCHANGED <<file, up, running, cmd, refused, quiet, edits, faults>>

CommandStep(c) ==
  \/ Read(c) \/ Unreachable(c) \/ Write(c) \/ WriteOffline(c)
  \/ Reload(c) \/ Answered(c) \/ AnswerLost(c) \/ WriteBack(c)

Next ==
  \/ \E c \in Command :
       \/ \E verb \in Verb, e \in Entry : Begin(c, verb, e)
       \/ CommandStep(c) \/ Kill(c)
  \/ ReloadSignal \/ Stop \/ Start
  \/ \E a \in Account : RemoveAccount(a)

Spec == Init /\ [][Next]_vars

----------------------------------------------------------------------------
(* Properties. *)

\* Commands that ran one after another, each to its end, left a file that the
\* server runs by and would start with again: whatever was refused, whenever
\* the server stopped, and whatever accounts went meanwhile.
RestartSafe ==
  quiet /\ NobodyAtWork =>
    Accepted(file, pool) /\ (up => running = file)

\* edit.rs:52 "The file never says what the server refused."
FileNeverRefused ==
  faults = 0 /\ NobodyAtWork => file \notin refused
=============================================================================
