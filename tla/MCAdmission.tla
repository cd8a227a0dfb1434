---------------------------- MODULE MCAdmission ----------------------------
(* Instances of Admission for TLC. *)
EXTENDS Admission, TLC

CONSTANTS t1, t2, a1

\* One slot at once, one more per unit, lifted after two.
Slow == [enabled |-> TRUE, initial |-> 1, step |-> 1, interval |-> 1, window |-> 2]

SlowOnly == {Slow}
TwoTasks == {t1, t2}
OneAccount == {a1}

Symmetry == Permutations(Task)
============================================================================
