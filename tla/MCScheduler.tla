----------------------------- MODULE MCScheduler -----------------------------
(* Instances of Scheduler for TLC: a few tasks, independent or one after the *)
(* other; independent tasks are interchangeable.                             *)
EXTENDS Scheduler, TLC

Independent == [t \in Tasks |-> {}]

First == CHOOSE t \in Tasks : TRUE
Chain == [t \in Tasks |-> IF t = First THEN {} ELSE {First}]

Sym == Permutations(Tasks)

=============================================================================
