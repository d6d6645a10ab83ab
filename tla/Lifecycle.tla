----------------------------- MODULE Lifecycle -----------------------------
(***************************************************************************)
(* What the database promises of a task (IMPLEMENTATION.md 7.1, the forced   *)
(* invariants of its state machine): one run at a time works on it, each run *)
(* is given to it once, only the run of the current attempt hands in its     *)
(* result, what was handed in is judged once, and only such a judgement of   *)
(* results that all passed completes the task, for good.                     *)
(*                                                                         *)
(* One transaction may take many tasks, each one step further.              *)
(***************************************************************************)
CONSTANTS Tasks, Runs, NoRun

VARIABLE life \* of each task: [status, attempt: its last worker run, reported:
              \* the result of that run, working: the runs at work on it,
              \* given: all the runs it was given, judged: the attempts judged]

Created == [status |-> "READY", attempt |-> NoRun, reported |-> "none",
            working |-> {}, given |-> {}, judged |-> {}]

(* The steps of a task from l to m.                                          *)
Start(l, m) ==
    /\ l.status = "READY" /\ l.working = {}
    /\ \E i \in Runs \ l.given :
          m = [l EXCEPT !.status = "RUNNING", !.attempt = i, !.reported = "none",
                        !.working = {i}, !.given = @ \union {i}]

HandIn(l, m) ==
    /\ l.status = "RUNNING" /\ l.working = {l.attempt}
    /\ \E handed \in {<<"submit", "REVIEW">>, <<"partial", "REVIEW">>,
                      <<"blocked", "BLOCKED">>, <<"failed", "FAILED">>} :
          m = [l EXCEPT !.reported = handed[1], !.status = handed[2], !.working = {}]

Lose(l, m) ==
    /\ l.status = "RUNNING"
    /\ \E status \in {"READY", "FAILED"} : m = [l EXCEPT !.status = status, !.working = {}]

BeginAudit(l, m) ==
    /\ l.status = "REVIEW" /\ l.working = {}
    /\ \E i \in Runs \ l.given : m = [l EXCEPT !.working = {i}, !.given = @ \union {i}]

LoseAudit(l, m) == l.status = "REVIEW" /\ m = [l EXCEPT !.working = {}]

Judge(l, m) ==
    /\ l.status = "REVIEW" /\ l.working # {} /\ l.attempt \notin l.judged
    /\ \E status \in {"READY", "FAILED", "COMPLETED"} :
          /\ status = "COMPLETED" => l.reported = "submit"
          /\ m = [l EXCEPT !.status = status, !.working = {}, !.judged = @ \union {l.attempt}]

Hold(l, m) == l.status = "READY" /\ m = [l EXCEPT !.status = "BLOCKED"]

Free(l, m) == l.status = "BLOCKED" /\ m = [l EXCEPT !.status = "READY"]

Step(l, m) == \/ Start(l, m) \/ HandIn(l, m) \/ Lose(l, m)
              \/ BeginAudit(l, m) \/ LoseAudit(l, m) \/ Judge(l, m)
              \/ Hold(l, m) \/ Free(l, m)

Init == life = [t \in Tasks |-> Created]

Next == /\ DOMAIN life' = Tasks
        /\ \A t \in Tasks : life'[t] = life[t] \/ Step(life[t], life'[t])

Spec == Init /\ [][Next]_life

=============================================================================
