------------------------------ MODULE Registry ------------------------------
(***************************************************************************)
(* The client registry: one entry per client id and the remote-operator    *)
(* slot.  Every operation is a function from a registry to a registry; the *)
(* caller owns persistence and disclosure (Store).                         *)
(*                                                                         *)
(* A generated secret is a number that is never reused; its verifier is    *)
(* the number and the role it was generated for.                           *)
(***************************************************************************)
EXTENDS Naturals

CONSTANT Client                  \* the client ids

Role == {"code", "secret", "operator"}

Unissued == [state |-> "absent"]
NoVerifier == [role |-> "none", n |-> 0]
Verifier(role, n) == [role |-> role, n |-> n]

\* 0 stands for an empty operator slot.
EmptyRegistry == [clients |-> [c \in Client |-> Unissued], operator |-> 0]

Present(reg, c) == reg.clients[c].state # "absent"
Set(reg, c, entry) == [reg EXCEPT !.clients[c] = entry]

\* The secrets a registry's verifiers accept.
Held(reg) == {reg.clients[c].verifier.n : c \in {d \in Client : Present(reg, d)}}
             \cup {reg.operator}

----------------------------------------------------------------------------
(* The operations of a request, n the secret it generates.                 *)

Pending(gen, n, noAccount) ==
  [state |-> "pending", gen |-> gen, verifier |-> Verifier("code", n),
   noAccount |-> noAccount]

Issue(reg, c, n, noAccount) == Set(reg, c, Pending(1, n, noAccount))

Reissue(reg, c, n, noAccount) ==
  Set(reg, c, Pending(reg.clients[c].gen + 1, n, noAccount))

Claim(reg, c, n) ==
  Set(reg, c, [reg.clients[c] EXCEPT !.state = "active",
                                     !.verifier = Verifier("secret", n)])

Rotate(reg, c, n) ==
  Set(reg, c, [reg.clients[c] EXCEPT !.gen = @ + 1,
                                     !.verifier = Verifier("secret", n)])

\* Revoking a revoked id changes nothing.
Revoke(reg, c) ==
  Set(reg, c, [reg.clients[c] EXCEPT !.state = "revoked", !.verifier = NoVerifier])

SetOperator(reg, n) == [reg EXCEPT !.operator = n]
RemoveOperator(reg) == [reg EXCEPT !.operator = 0]

\* What each request asks of the entry it names: `late` is the set of codes
\* whose lifetime has passed.
MayIssue(reg, c) == ~Present(reg, c)
MayReissue(reg, c) == Present(reg, c)
MayRevoke(reg, c) == Present(reg, c)
MayRotate(reg, c) == reg.clients[c].state = "active"
MayClaim(reg, c, code, late) ==
  /\ reg.clients[c].state = "pending"
  /\ reg.clients[c].verifier = Verifier("code", code)
  /\ code \notin late

Admits(reg, req, late) ==
  CASE req.op = "issue"   -> MayIssue(reg, req.id)
    [] req.op = "reissue" -> MayReissue(reg, req.id)
    [] req.op = "claim"   -> MayClaim(reg, req.id, req.code, late)
    [] req.op = "rotate"  -> MayRotate(reg, req.id)
    [] req.op = "revoke"  -> MayRevoke(reg, req.id)
    [] OTHER              -> TRUE    \* the operator secret is set and removed at will

After(reg, req, n) ==
  CASE req.op = "issue"   -> Issue(reg, req.id, n, req.noAccount)
    [] req.op = "reissue" -> Reissue(reg, req.id, n, req.noAccount)
    [] req.op = "claim"   -> Claim(reg, req.id, n)
    [] req.op = "rotate"  -> Rotate(reg, req.id, n)
    [] req.op = "revoke"  -> Revoke(reg, req.id)
    [] req.op = "setop"   -> SetOperator(reg, n)
    [] req.op = "rmop"    -> RemoveOperator(reg)

\* The requests: the operator slot is nobody's id.
RequestType ==
  [op : {"issue", "reissue"}, id : Client, noAccount : BOOLEAN]
  \cup [op : {"claim"}, id : Client, code : Nat]
  \cup [op : {"rotate", "revoke"}, id : Client]
  \cup [op : {"setop", "rmop"}, id : {"operator"}]

ASSUME SlotAssumption == "operator" \notin Client

\* The role of the secret a request generates and discloses, if it does.
Discloses(req) ==
  CASE req.op \in {"issue", "reissue"} -> "code"
    [] req.op \in {"claim", "rotate"}  -> "secret"
    [] req.op = "setop"                -> "operator"
    [] OTHER                           -> "none"
============================================================================
