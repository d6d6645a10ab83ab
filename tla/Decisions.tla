------------------------------ MODULE Decisions ------------------------------
(***************************************************************************)
(* The decisions of the PI: the gate of scheduler/loop.py opens them for the *)
(* questions that workers raise, blocks READY tasks in their scope and       *)
(* releases them once answered; API threads answer them and link evidence    *)
(* to them meanwhile (api/routes/projects.py, application/handlers.py).      *)
(*                                                                         *)
(* The gate runs in one session.  Until its first write SQLite gives each   *)
(* of its reads the latest commit, so an answer may fall between two of      *)
(* them; from its first write to its commit no other thread can write.      *)
(* Nothing else of the service runs inside the gate: it does not await.     *)
(*                                                                         *)
(* A decision is identified by its fingerprint, here its question; the       *)
(* questions are those that the predicate of decision_gate.py puts to the    *)
(* PI, taken to depend on the question alone.  Candidates deferred to a       *)
(* diagnostic and the limit of 200 runs a pass are left out; runs, leases    *)
(* and dependencies are the subject of Scheduler.                            *)
(***************************************************************************)
EXTENDS Naturals, FiniteSets, FiniteSetsExt

CONSTANTS Tasks,
          Questions,         \* the questions workers raise
          Scope,             \* blocking_scope of the decision of each question
          Options,           \* what the PI may answer
          NoAnswer,
          Threads,           \* API threads that write decisions
          MaxBlockedRetries, \* MAX_WORKER_BLOCKED_RETRIES
          MaxRuns,           \* bound: run rows of a task
          MaxLinks,          \* bound: requests to link evidence
          MaxKills           \* bound: ticks that end before their time

(* A question is its fingerprint, 32 hexadecimal digits                      *)
(* (decision_fingerprint): there are finitely many.                          *)
ASSUME DecisionsAssumption ==
    /\ IsFiniteSet(Questions)
    /\ Scope \in [Questions -> SUBSET Tasks]
    /\ NoAnswer \notin Options
    /\ MaxBlockedRetries \in Nat
    /\ MaxRuns \in Nat
    /\ MaxLinks \in Nat
    /\ MaxKills \in Nat

VARIABLES
    decision, \* [born: order of created_at, 0 if there is none, status, answer, version]
    task,     \* [status, held: blocked_by, runs: its run rows, cur: current_run_id]
    pending,  \* SUCCEEDED runs the gate has not evaluated: [task, run, asks]
    keys,     \* the keys of the requeue events: <<task, current_run_id>>
    tick,     \* where the tick is, and what the gate has read so far
    thread,   \* the request each API thread serves
    links,    \* requests to link evidence so far
    kills     \* ticks that ended before their time so far

vars == <<decision, task, pending, keys, tick, thread, links, kills>>

DecisionRow == [born: Nat, status: {"none", "OPEN", "ANSWERED"},
                answer: Options \union {NoAnswer}, version: Nat]
TaskRow == [status: {"READY", "RUNNING", "BLOCKED", "REVIEW"}, held: SUBSET Questions,
            runs: Nat, cur: Nat]
SucceededRun == [task: Tasks, run: Nat, asks: SUBSET Questions]

NoDecision == [born |-> 0, status |-> "none", answer |-> NoAnswer, version |-> 0]
Waiting == [at |-> "sleep", fresh |-> {}, scope |-> {}, resolved |-> {}]
Serving(at, q, option) == [at |-> at, q |-> q, option |-> option, row |-> decision[q]]
Free == [at |-> "free"]

TypeOK ==
    /\ decision \in [Questions -> DecisionRow]
    /\ task \in [Tasks -> TaskRow]
    /\ pending \in SUBSET SucceededRun
    /\ keys \in SUBSET (Tasks \X Nat)
    /\ tick \in [at: {"sleep", "resolve", "block", "requeue", "dispatch"},
                 fresh: SUBSET Questions, scope: SUBSET Tasks, resolved: SUBSET Questions]
    /\ thread \in [Threads -> {Free} \union
                      [at: {"answer"}, q: Questions, option: Options, row: DecisionRow]
                        \union [at: {"link"}, q: Questions, option: {NoAnswer}, row: DecisionRow]]
    /\ links \in Nat
    /\ kills \in Nat

Init ==
    /\ decision = [q \in Questions |-> NoDecision]
    /\ task = [t \in Tasks |-> [status |-> "READY", held |-> {}, runs |-> 0, cur |-> 0]]
    /\ pending = {}
    /\ keys = {}
    /\ tick = Waiting
    /\ thread = [w \in Threads |-> Free]
    /\ links = 0
    /\ kills = 0

With(status) == {q \in Questions : decision[q].status = status}
Exists(q) == decision[q].status # "none"
InScope(qs) == UNION {Scope[q] : q \in qs}

-----------------------------------------------------------------------------
(* The gate: _evaluate_decision_candidates.                                *)

DatabaseUnchanged == UNCHANGED <<decision, task, pending, keys>>
RestUnchanged == UNCHANGED <<thread, links, kills>>

(* The fingerprints of all decisions, whatever their status, and of the      *)
(* candidates of this pass: what is left is asked once.                      *)
NotOpen(qs) == {q \in qs : decision[q].status # "OPEN"}
NotAsked(qs) == {q \in qs : ~ Exists(q)}
Raised == UNION {p.asks : p \in pending}

(* Read 1: unevaluated runs, fingerprints, and list_open.                    *)
Evaluate ==
    /\ tick.at = "sleep"
    /\ LET fresh == NotAsked(Raised)
       IN tick' = [at |-> "resolve", fresh |-> fresh,
                   scope |-> InScope(fresh \union With("OPEN")), resolved |-> {}]
    /\ DatabaseUnchanged /\ RestUnchanged

(* _unblock_resolved.  Read 2: the resolved decisions.                       *)
OnlyTheseHold(t, resolved) == task[t].held = resolved
SomeOfTheseHold(t, resolved) == task[t].held \intersect resolved # {}

Freed(resolved) ==
    {t \in Tasks : task[t].status = "BLOCKED" /\ SomeOfTheseHold(t, resolved)}

Resolve ==
    /\ tick.at = "resolve"
    /\ tick' = [tick EXCEPT !.at = "block", !.resolved = With("ANSWERED")]
    /\ DatabaseUnchanged /\ RestUnchanged

(* The gate has written: new decisions, the mark of evaluated runs, or tasks *)
(* it released.                                                              *)
Locked ==
    \/ tick.at \in {"resolve", "block"} /\ pending # {}
    \/ tick.at = "block" /\ Freed(tick.resolved) # {}

(* Read 3: the map of blockers keeps the last OPEN decision for each task.    *)
IsOpen(q) == decision[q].status = "OPEN" \/ q \in tick.fresh
Blocker(t, born) ==
    {q \in Questions :
        /\ IsOpen(q) /\ t \in Scope[q]
        /\ \A p \in Questions : IsOpen(p) /\ t \in Scope[p] => born[p] <= born[q]}

Released(row, resolved) ==
    [row EXCEPT !.held = @ \ resolved,
                !.status = IF row.held \ resolved = {} THEN "READY" ELSE @]

HeldByNone(row, qs) == row.held \union (IF qs = {} THEN {NoAnswer} ELSE qs)
HeldBy(row, qs) == row.held \union qs

Blocked(t, row, born) ==
    IF row.status = "READY" /\ t \in tick.scope
       /\ (Blocker(t, born) = {} \/ Blocker(t, born) \intersect row.held = {})
    THEN [row EXCEPT !.status = "BLOCKED", !.held = HeldBy(row, Blocker(t, born))]
    ELSE row

EitherOr(t, born) ==
    IF t \in Freed(tick.resolved) THEN Released(task[t], tick.resolved)
                                  ELSE Blocked(t, task[t], born)
AfterGate(t, born) ==
    Blocked(t, IF t \in Freed(tick.resolved) THEN Released(task[t], tick.resolved) ELSE task[t],
            born)

(* New decisions are created one after the other, after all others.           *)
LastBorn == Max({decision[q].born : q \in Questions})
Births ==
    {b \in [Questions -> 0 .. LastBorn + Cardinality(tick.fresh)] :
        \A q \in Questions :
            IF q \in tick.fresh THEN LastBorn < b[q] /\ \A p \in tick.fresh \ {q} : b[p] # b[q]
                               ELSE b[q] = decision[q].born}

Opened(q, born) ==
    IF q \in tick.fresh
    THEN [born |-> born, status |-> "OPEN", answer |-> NoAnswer, version |-> 1]
    ELSE decision[q]

(* Block the scope, and commit everything the gate wrote.                    *)
Block ==
    /\ tick.at = "block"
    /\ \E born \in Births :
          /\ decision' = [q \in Questions |-> Opened(q, born[q])]
          /\ task' = [t \in Tasks |-> AfterGate(t, born)]
    /\ pending' = {}
    /\ tick' = [Waiting EXCEPT !.at = "requeue"]
    /\ UNCHANGED <<keys>> /\ RestUnchanged

-----------------------------------------------------------------------------
(* The rest of the tick.                                                   *)

(* _requeue_worker_blocked: BLOCKED tasks that no decision holds, in one      *)
(* transaction; the event of each is keyed by its current run.               *)
Unheld == {t \in Tasks : /\ task[t].status = "BLOCKED" /\ task[t].held = {}
                         /\ task[t].runs <= MaxBlockedRetries}
RequeueKeys == {<<t, task[t].cur>> : t \in Unheld}

Requeue ==
    /\ tick.at = "requeue"
    /\ RequeueKeys \intersect keys = {}
    /\ task' = [t \in Tasks |-> IF t \in Unheld THEN [task[t] EXCEPT !.status = "READY"]
                                                ELSE task[t]]
    /\ keys' = keys \union RequeueKeys
    /\ tick' = [Waiting EXCEPT !.at = "dispatch"]
    /\ UNCHANGED <<decision, pending>> /\ RestUnchanged

(* The event of an earlier requeue has the key: the commit raises, and the   *)
(* tick ends.                                                                *)
RequeueCollides ==
    /\ tick.at = "requeue"
    /\ RequeueKeys \intersect keys # {}
    /\ tick' = Waiting
    /\ DatabaseUnchanged /\ RestUnchanged

(* _dispatch_ready, as far as there are slots.                               *)
Dispatchable ==
    {t \in Tasks : /\ task[t].status = "READY" /\ task[t].runs < MaxRuns
                   /\ t \notin InScope(With("OPEN"))
                   /\ task[t].held \intersect With("OPEN") = {}}

Started(row) == [row EXCEPT !.status = "RUNNING", !.runs = @ + 1, !.cur = row.runs + 1]

Dispatch ==
    /\ tick.at = "dispatch"
    /\ \E now \in SUBSET Dispatchable :
          task' = [t \in Tasks |-> IF t \in now THEN Started(task[t]) ELSE task[t]]
    /\ tick' = Waiting
    /\ UNCHANGED <<decision, pending, keys>> /\ RestUnchanged

Tick == Evaluate \/ Resolve \/ Block \/ Requeue \/ RequeueCollides \/ Dispatch

(* The tick raises or the service is killed: what the gate wrote is lost, and *)
(* in a kill so is what the requests were about to save.                     *)
Interrupted ==
    /\ tick # Waiting
    /\ kills < MaxKills
    /\ kills' = kills + 1
    /\ tick' = Waiting
    /\ thread' \in {thread, [w \in Threads |-> Free]}
    /\ UNCHANGED <<decision, task, keys, links>>

EndTickAfterMark ==
    /\ Interrupted
    /\ pending' = IF tick.at = "block" THEN {} ELSE pending

EndTick == Interrupted /\ UNCHANGED pending

-----------------------------------------------------------------------------
(* Runs end while the tick awaits.                                         *)

Awaiting == tick.at \in {"sleep", "requeue", "dispatch"}
DriverUnchanged == UNCHANGED <<decision, keys, tick>> /\ RestUnchanged

(* A worker submits or reports BLOCKED, and raises questions.                *)
WorkerSucceeds(t, status, asks) ==
    /\ Awaiting
    /\ task[t].status = "RUNNING"
    /\ task' = [task EXCEPT ![t].status = status]
    /\ pending' = pending \union {[task |-> t, run |-> task[t].cur, asks |-> asks]}
    /\ DriverUnchanged

(* A run is interrupted or orphaned.                                         *)
WorkerInterrupted(t) ==
    /\ Awaiting
    /\ task[t].status = "RUNNING"
    /\ task' = [task EXCEPT ![t].status = "READY"]
    /\ UNCHANGED <<pending>>
    /\ DriverUnchanged

(* An auditor run, one more row of the task, asks for a revision.            *)
Revise(t) ==
    /\ Awaiting
    /\ task[t].status = "REVIEW" /\ task[t].runs < MaxRuns
    /\ task' = [task EXCEPT ![t].status = "READY", ![t].runs = @ + 1]
    /\ UNCHANGED <<pending>>
    /\ DriverUnchanged

-----------------------------------------------------------------------------
(* API threads: each request reads the decision, and saves the whole row     *)
(* with the version it read as a condition.                                  *)

ThreadUnchanged == UNCHANGED <<task, pending, keys, tick, kills>>

(* answer_decision and cmd_decision: only an OPEN decision.                  *)
ReadToAnswer(w, q, option) ==
    /\ thread[w] = Free
    /\ decision[q].status = "OPEN"
    /\ thread' = [thread EXCEPT ![w] = Serving("answer", q, option)]
    /\ UNCHANGED <<decision, links>> /\ ThreadUnchanged

(* link_decision_evidence: a decision in any status.                         *)
ReadToLink(w, q) ==
    /\ thread[w] = Free
    /\ Exists(q)
    /\ links < MaxLinks
    /\ links' = links + 1
    /\ thread' = [thread EXCEPT ![w] = Serving("link", q, NoAnswer)]
    /\ UNCHANGED decision /\ ThreadUnchanged

SavesAnyway(row, q) == Exists(q)
IsCurrent(row, q) == row.version = decision[q].version

Saved(r) ==
    IF r.at = "answer" THEN [r.row EXCEPT !.status = "ANSWERED", !.answer = r.option,
                                          !.version = @ + 1]
                       ELSE [r.row EXCEPT !.version = @ + 1]

(* OptimisticConcurrencyError leaves the row as it is.                       *)
Save(w) ==
    /\ thread[w] # Free
    /\ ~ Locked
    /\ LET r == thread[w]
       IN decision' = IF IsCurrent(r.row, r.q) THEN [decision EXCEPT ![r.q] = Saved(r)]
                                               ELSE decision
    /\ thread' = [thread EXCEPT ![w] = Free]
    /\ UNCHANGED links /\ ThreadUnchanged

Next ==
    \/ Tick \/ EndTick
    \/ \E t \in Tasks : \/ \E status \in {"REVIEW", "BLOCKED"}, asks \in SUBSET Questions :
                              WorkerSucceeds(t, status, asks)
                        \/ WorkerInterrupted(t)
                        \/ Revise(t)
    \/ \E w \in Threads : \/ \E q \in Questions : \/ \E o \in Options : ReadToAnswer(w, q, o)
                                                 \/ ReadToLink(w, q)
                          \/ Save(w)

Spec == Init /\ [][Next]_vars

-----------------------------------------------------------------------------
(* Safety.                                                                 *)

(* decision.py: "Button clicks are idempotent": what the PI answered stands,  *)
(* over a second answer from another thread and requests that wrote the same  *)
(* row in between.                                                            *)
AnswerStands ==
    [][\A q \in Questions : decision[q].status = "ANSWERED" =>
          decision'[q].status = "ANSWERED" /\ decision'[q].answer = decision[q].answer]_vars

(* "The fingerprint deduplicates": a question is put to the PI once, whoever   *)
(* raises it again, in the same pass or after it was answered.                *)
AskedOnce ==
    [][\A q \in Questions : Exists(q) => decision'[q].born = decision[q].born]_vars

(* Decisions implements Inquiry: although answers fall between the reads of a *)
(* pass, requests save rows they read long ago, and ticks are killed, the gate *)
(* acts as one step would.  "Only blocking_scope pauses": no task in the scope *)
(* of an OPEN decision is left READY or started, no other is paused, and a     *)
(* task is let go by the answers to all that holds it.                        *)
Promise == INSTANCE Inquiry WITH
              question <- [q \in Questions |-> [status |-> decision[q].status,
                                                answer |-> decision[q].answer]],
              task <- [t \in Tasks |-> [status |-> task[t].status, held |-> task[t].held]]

KeepsInquiry == Promise!Spec

-----------------------------------------------------------------------------
(* Liveness: the tick comes every two seconds, and its steps follow each      *)
(* other; a request is served.                                                *)
Fairness == WF_vars(Tick) /\ \A w \in Threads : WF_vars(Save(w))

FairSpec == Spec /\ Fairness

(* A question a worker raised reaches the PI, although ticks are killed and    *)
(* the row of its run is scanned again.                                       *)
RaisedIsAsked ==
    \A q \in Questions : (\E p \in pending : q \in p.asks) ~> Exists(q)

(* A task is not held by a decision after its answer.                          *)
AnswerFrees ==
    \A t \in Tasks, q \in Questions :
        (q \in task[t].held /\ decision[q].status = "ANSWERED") ~> (q \notin task[t].held)

=============================================================================
