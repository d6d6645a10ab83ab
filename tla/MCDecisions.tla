---------------------------- MODULE MCDecisions ----------------------------
(* Instances of Decisions for TLC: every decision pauses every task.        *)
EXTENDS Decisions

AllTasks == [q \in Questions |-> Tasks]
=============================================================================
