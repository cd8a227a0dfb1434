----------------------------- MODULE MCRefresh -----------------------------
(* Instances of Refresh for TLC. *)
EXTENDS Refresh, TLC

CONSTANTS h1, c1, c2, r1, r2

OneAccount == {h1}
NoAccount == {}
OneCaller == {c1}
TwoCallers == {c1, c2}
OneRunner == {r1}
TwoRunners == {r1, r2}

Symmetry == Permutations(Caller) \cup Permutations(Runner)
============================================================================
