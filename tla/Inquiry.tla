------------------------------- MODULE Inquiry -------------------------------
(***************************************************************************)
(* What the decisions promise to the PI and to the tasks (decision.py, and    *)
(* IMPLEMENTATION.md 8: "only blocking_scope pauses"), as if the gate were    *)
(* one step: a question is put to the PI at most once and answered at most    *)
(* once, for good; no run begins on a task in the scope of an open question,  *)
(* and no pass leaves such a task READY; a task that is held is let go only   *)
(* by the answers of all that hold it, and by nothing else.                   *)
(***************************************************************************)
CONSTANTS Tasks, Questions, Scope, Options, NoAnswer

VARIABLES
    question, \* of each question its status and answer
    task      \* of each task its status and the questions that hold it

vars == <<question, task>>

Unasked == [status |-> "none", answer |-> NoAnswer]
Asked == [status |-> "OPEN", answer |-> NoAnswer]
Answered(option) == [status |-> "ANSWERED", answer |-> option]

Init ==
    /\ question = [q \in Questions |-> Unasked]
    /\ task = [t \in Tasks |-> [status |-> "READY", held |-> {}]]

About(t) == {q \in Questions : t \in Scope[q]}
Paused(t) == \E q \in About(t) : question[q].status = "OPEN"

(* A pass of the gate, of each task from l to m.                             *)
LeaveAlone(t, l, m) == m = l /\ (l.status = "READY" => ~ Paused(t)')

(* A task is paused by one open question about it, or by none when the last   *)
(* of them was answered while the pass was under way.                        *)
PausedBy(t, hold) ==
    IF Paused(t)' THEN \E q \in About(t) : question'[q].status = "OPEN" /\ hold = {q}
                  ELSE hold = {} /\ \E q \in About(t) : question[q].status = "ANSWERED"

Pause(t, m) == m.status = "BLOCKED" /\ PausedBy(t, m.held)

Free(t, m) == m.status = "READY" /\ m.held = {} /\ ~ Paused(t)'

Release(t, l, m) ==
    /\ l.status = "BLOCKED"
    /\ \E freed \in SUBSET {q \in l.held : question[q].status = "ANSWERED"} :
          /\ freed # {}
          /\ IF freed = l.held THEN Free(t, m) \/ Pause(t, m)
                               ELSE m = [l EXCEPT !.held = @ \ freed]

PassTask(t, l, m) ==
    \/ LeaveAlone(t, l, m)
    \/ l.status = "READY" /\ Pause(t, m)
    \/ Release(t, l, m)

Pass ==
    /\ \E new \in SUBSET {q \in Questions : question[q] = Unasked} :
          question' = [q \in Questions |-> IF q \in new THEN Asked ELSE question[q]]
    /\ DOMAIN task' = Tasks
    /\ \A t \in Tasks : PassTask(t, task[t], task'[t])

Answer ==
    /\ \E q \in Questions, option \in Options :
          question[q] = Asked /\ question' = [question EXCEPT ![q] = Answered(option)]
    /\ UNCHANGED task

(* What runs and the requeue of worker-blocked tasks do.                     *)
Begin(t, l, m) ==
    l.status = "READY" /\ ~ Paused(t) /\ m = [l EXCEPT !.status = "RUNNING"]

End(l, m) ==
    /\ l.status \in {"RUNNING", "REVIEW"}
    /\ \E status \in {"READY", "REVIEW", "BLOCKED"} : m = [l EXCEPT !.status = status]

Requeue(l, m) ==
    l.status = "BLOCKED" /\ l.held = {} /\ m = [l EXCEPT !.status = "READY"]

Work ==
    /\ DOMAIN task' = Tasks
    /\ \A t \in Tasks : \/ task'[t] = task[t]
                        \/ Begin(t, task[t], task'[t])
                        \/ End(task[t], task'[t])
                        \/ Requeue(task[t], task'[t])
    /\ UNCHANGED question

Next == Pass \/ Answer \/ Work

Spec == Init /\ [][Next]_vars

=============================================================================
