----------------------------- MODULE Scheduler -----------------------------
(***************************************************************************)
(* The scheduler of researchd: the tick of scheduler/loop.py, the driver   *)
(* coroutines it starts, the run lifecycle of scheduler/dispatch.py and    *)
(* the leases of scheduler/leases.py, over a database that keeps only what *)
(* a transaction committed and a process that may be killed at any step.   *)
(*                                                                         *)
(* A task READY is given a worker run; its result moves the task to        *)
(* REVIEW; an auditor run decides whether it is COMPLETED.  A run is       *)
(* protected from a second dispatch by a lease and by the in-memory map    *)
(* `active`; a run whose heartbeat is stale is reconciled by the next tick *)
(* from its receipt, or ORPHANED.                                          *)
(*                                                                         *)
(* Time is abstracted to the one threshold the code compares with: the    *)
(* heartbeat of a run and the expiry of its lease are renewed together and *)
(* both run for 300 seconds (ORPHAN_HEARTBEAT_SECONDS and                  *)
(* DEFAULT_LEASE_SECONDS), so Age makes a heartbeat stale and its lease    *)
(* expired in one step.                                                    *)
(***************************************************************************)
EXTENDS Naturals, FiniteSets

CONSTANTS Tasks,             \* the tasks the planner created
          NoTask,            \* the task of a run row that does not exist
          Deps,              \* depends_on of each task
          MaxParallel,       \* settings.scheduler.max_parallel
          MaxRunRetries,     \* MAX_RUN_RETRIES
          MaxBlockedRetries, \* MAX_WORKER_BLOCKED_RETRIES
          Gated,             \* the tasks a decision may name in its blocking_scope
          Results,           \* the executor results that occur
          HasReceipts,       \* does the executor adapter write receipts?
          Faults,            \* which of FaultKinds occur
          MaxRuns,           \* bound: run rows
          MaxCrashes         \* bound: kills and stops of the service, and failing ticks

RunId == 1 .. MaxRuns
NoRun == 0

WorkerResults == {"submit", "partial", "blocked", "failed", "rejected"}
AuditResults == {"accept", "accept_fail_check", "revise", "block", "reject"}

(***************************************************************************)
(* "slow": 300 seconds may pass inside one tick.  "abort": a step of the   *)
(* tick that is not modelled here raises.  "torn": the service is killed   *)
(* between writing a receipt and validating it.  "driver": the error path  *)
(* of a driver itself raises.                                              *)
(***************************************************************************)
FaultKinds == {"slow", "abort", "torn", "driver"}

ASSUME SchedulerAssumption ==
    /\ NoTask \notin Tasks
    /\ Deps \in [Tasks -> SUBSET Tasks]
    /\ MaxParallel \in Nat \ {0}
    /\ MaxRunRetries \in Nat
    /\ MaxBlockedRetries \in Nat
    /\ Gated \subseteq Tasks
    /\ Results \subseteq WorkerResults \union AuditResults
    /\ HasReceipts \in BOOLEAN
    /\ Faults \subseteq FaultKinds
    /\ MaxRuns \in Nat
    /\ MaxCrashes \in Nat

TaskStatus == {"READY", "RUNNING", "BLOCKED", "REVIEW", "COMPLETED", "FAILED"}
TaskTerminal == {"COMPLETED", "FAILED"}
RunStatus == {"NONE", "STARTING", "RUNNING", "SUCCEEDED", "FAILED", "INTERRUPTED", "ORPHANED"}
RunLive == {"STARTING", "RUNNING"}
RunTerminal == {"SUCCEEDED", "FAILED", "INTERRUPTED", "ORPHANED"}

(* The legal transitions.  PROPOSED, QUEUED and CANCELLED are left out: the  *)
(* planner saves a task as READY, a run is saved only from STARTING on, and  *)
(* nothing in the service cancels a task.                                    *)
TaskNext == [s \in TaskStatus |->
    CASE s = "READY"   -> {"RUNNING", "BLOCKED"}
      [] s = "RUNNING" -> {"REVIEW", "BLOCKED", "FAILED", "READY"}
      [] s = "BLOCKED" -> {"READY", "REVIEW"}
      [] s = "REVIEW"  -> {"COMPLETED", "READY", "FAILED"}
      [] OTHER         -> {}]

RunNext == [s \in RunStatus |->
    CASE s = "NONE"     -> {"STARTING"}
      [] s = "STARTING" -> {"RUNNING", "FAILED", "INTERRUPTED"}
      [] s = "RUNNING"  -> {"SUCCEEDED", "FAILED", "INTERRUPTED", "ORPHANED"}
      [] OTHER          -> {}]

VARIABLES
    task,     \* [status, cur: current_run_id, held: blocked_by is not empty]
    run,      \* [task, role, status, hb, lease, result, subject] of each run row
    disk,     \* the committed rows; equal to them outside a transaction
    receipt,  \* the receipt file of each run
    scope,    \* the tasks in the blocking_scope of an OPEN decision
    active,   \* SchedulerLoop.active: the run a task is being driven by
    drv,      \* the _drive_run coroutine of each run
    reply,    \* the validated result a coroutine holds
    pc,       \* where the tick is, or "down"
    stale,    \* orphan candidates still to reconcile in this tick
    todo,     \* tasks still to visit in the loop the tick is in
    aborted,  \* the last tick raised before its heartbeat step
    crashes   \* kills, stops and failing ticks so far

rows == <<task, run, disk>>
memory == <<active, drv, reply>>
vars == <<task, run, disk, receipt, scope, active, drv, reply,
          pc, stale, todo, aborted, crashes>>

BlankRun == [task |-> NoTask, role |-> "worker", status |-> "NONE", hb |-> "none",
             lease |-> "none", result |-> "none", subject |-> NoRun]

RunRecord == [task: Tasks \union {NoTask}, role: {"worker", "auditor"}, status: RunStatus,
              hb: {"none", "fresh", "stale"}, lease: {"none", "live", "expired", "released"},
              result: WorkerResults \union AuditResults \union {"none"},
              subject: RunId \union {NoRun}]

TaskRecord == [status: TaskStatus, cur: RunId \union {NoRun}, held: BOOLEAN]

Phases == {"down", "stopping", "sleep", "reconcile", "gate", "plan", "audit", "unblock",
           "deliver", "dispatch", "yield", "beat"}

(* The tick hands the event loop to the driver coroutines only where it awaits: *)
(* between ticks, in the planner call, in the outbox delivery and in sleep(0),  *)
(* and when the service stops.                                                  *)
Awaiting == {"sleep", "plan", "deliver", "yield", "stopping"}

TypeOK ==
    /\ task \in [Tasks -> TaskRecord]
    /\ run \in [RunId -> RunRecord]
    /\ disk \in [task: [Tasks -> TaskRecord], run: [RunId -> RunRecord]]
    /\ receipt \in [RunId -> WorkerResults \union AuditResults \union {"none", "invalid"}]
    /\ scope \in SUBSET Tasks
    /\ active \in [Tasks -> RunId \union {NoRun}]
    /\ drv \in [RunId -> {"none", "queued", "turn", "closing", "done"}]
    /\ reply \in [RunId -> WorkerResults \union AuditResults \union {"none"}]
    /\ pc \in Phases
    /\ stale \in SUBSET RunId
    /\ todo \in SUBSET Tasks
    /\ aborted \in BOOLEAN
    /\ crashes \in Nat

Init ==
    /\ task = [t \in Tasks |-> [status |-> "READY", cur |-> NoRun, held |-> FALSE]]
    /\ run = [i \in RunId |-> BlankRun]
    /\ disk = [task |-> task, run |-> run]
    /\ receipt = [i \in RunId |-> "none"]
    /\ scope = {}
    /\ active = [t \in Tasks |-> NoRun]
    /\ drv = [i \in RunId |-> "none"]
    /\ reply = [i \in RunId |-> "none"]
    /\ pc = "sleep"
    /\ stale = {}
    /\ todo = {}
    /\ aborted = FALSE
    /\ crashes = 0

-----------------------------------------------------------------------------
(* Transactions: the working rows become durable at the commit.            *)

Commit == disk' = [task |-> task', run |-> run']

Rollback == /\ task' = disk.task
            /\ run' = disk.run
            /\ disk' = disk

IsLive(i) == run[i].status \in RunLive
Rows(t) == {i \in RunId : run[i].task = t}
Unused == {i \in RunId : run[i].status = "NONE"}

(* RunRepo.count_for_task: every row of the task, whatever its role or status. *)
CountForTask(t) == Cardinality(Rows(t))

(* LeaseRepo: acquire refuses while a live lease of the same task and owner *)
(* prefix belongs to another run; heartbeat renews a lease that was not      *)
(* released, even an expired one.                                            *)
AnyLeaseIsFree(t, role) == TRUE
NoLeaseWasHeld(t, role) ==
    ~ \E i \in Rows(t) : run[i].role = role /\ run[i].lease \in {"live", "expired"}
LeaseFree(t, role) ==
    ~ \E i \in Rows(t) : run[i].role = role /\ run[i].lease = "live"
Released(l) == IF l = "none" THEN "none" ELSE "released"
Renewed(l) == IF l \in {"live", "expired"} THEN "live" ELSE l

(* run.heartbeat, RunRepo.save, LeaseRepo.heartbeat *)
BeatRow(i) ==
    /\ run' = [run EXCEPT ![i].hb = "fresh", ![i].lease = Renewed(run[i].lease)]
    /\ UNCHANGED task
    /\ Commit

-----------------------------------------------------------------------------
(* Collecting a run.                                                       *)

TaskOf(i) == task[run[i].task]

WorkTarget(r) ==
    CASE r \in {"submit", "partial"} -> "REVIEW"
      [] r = "blocked" -> "BLOCKED"
      [] OTHER -> "FAILED"

(* apply_audit_result: an ACCEPT completes the task only when no check failed *)
(* and the worker run it judged reported every success criterion as PASS.     *)
AcceptCompletes(i, v) ==
    CASE v = "accept" -> "COMPLETED"
      [] v \in {"accept_fail_check", "revise", "block"} -> "READY"
      [] OTHER -> "FAILED"
StaysInReview(i, v) ==
    CASE v = "accept" -> "COMPLETED"
      [] v = "revise" -> "REVIEW"
      [] v \in {"accept_fail_check", "block"} -> "READY"
      [] OTHER -> "FAILED"
AuditTarget(i, v) ==
    CASE v = "accept" -> IF /\ run[i].subject # NoRun
                            /\ run[run[i].subject].result = "submit"
                         THEN "COMPLETED" ELSE "FAILED"
      [] v \in {"accept_fail_check", "revise", "block"} -> "READY"
      [] OTHER -> "FAILED"

Target(i, r) == IF run[i].role = "worker" THEN WorkTarget(r) ELSE AuditTarget(i, r)

(* collect_success / collect_audit raise unless each transition they make is *)
(* legal, the work result passes the apply gate, and the audited task is     *)
(* still in REVIEW.                                                          *)
CanCollectWork(i, r) ==
    r \in WorkerResults \ {"rejected"} /\ WorkTarget(r) \in TaskNext[TaskOf(i).status]
CanCollectAudit(i, r) ==
    r \in AuditResults /\ run[i].subject # NoRun /\ TaskOf(i).status = "REVIEW"
CollectsAnyRun(i, r) ==
    IF run[i].role = "worker" THEN CanCollectWork(i, r) ELSE CanCollectAudit(i, r)
CanCollect(i, r) ==
    /\ "SUCCEEDED" \in RunNext[run[i].status]
    /\ IF run[i].role = "worker" THEN CanCollectWork(i, r) ELSE CanCollectAudit(i, r)

CollectRows(i, r) ==
    /\ run' = [run EXCEPT ![i].status = "SUCCEEDED", ![i].result = r,
                          ![i].lease = Released(run[i].lease)]
    /\ task' = [task EXCEPT ![run[i].task].status = Target(i, r)]

(* collect_failure and collect_interrupt: the run ends, the lease is        *)
(* released, and the task follows if it is RUNNING.                         *)
EndsOnlyTheRun(i, runStatus, taskStatus) ==
    /\ run' = [run EXCEPT ![i].status = runStatus, ![i].lease = Released(run[i].lease)]
    /\ UNCHANGED task
SwapsStatuses(i, runStatus, taskStatus) ==
    /\ run' = [run EXCEPT ![i].status = taskStatus, ![i].lease = Released(run[i].lease)]
    /\ task' = [task EXCEPT ![run[i].task].status = runStatus]
EndRows(i, runStatus, taskStatus) ==
    /\ run' = [run EXCEPT ![i].status = runStatus, ![i].lease = Released(run[i].lease)]
    /\ task' = IF TaskOf(i).status = "RUNNING"
               THEN [task EXCEPT ![run[i].task].status = taskStatus]
               ELSE task

(* _collect_failure / _collect_interrupt of the loop: nothing when the run   *)
(* is no longer STARTING or RUNNING.                                         *)
EndRun(i, runStatus, taskStatus) ==
    IF IsLive(i)
    THEN EndRows(i, runStatus, taskStatus) /\ Commit
    ELSE UNCHANGED rows

FailRun(i) == EndRun(i, "FAILED", "FAILED")
InterruptRun(i) == EndRun(i, "INTERRUPTED", "READY")

-----------------------------------------------------------------------------
(* The driver coroutine of a run (_drive_run).  It holds a permit of the    *)
(* dispatch semaphore while it executes, and its heartbeat loop runs as long *)
(* as it executes, whatever became of the run's row meanwhile.               *)

Executing(i) == drv[i] \in {"turn", "closing"}
Permits == MaxParallel - Cardinality({i \in RunId : Executing(i)})

DriverUnchanged == UNCHANGED <<scope, active, pc, stale, todo, aborted, crashes>>

(* The semaphore is acquired; the context package is built and the executor *)
(* turn begins.  The status of the run is not looked at.                    *)
StartTurn(i) ==
    /\ pc \in Awaiting
    /\ drv[i] = "queued"
    /\ Permits > 0
    /\ drv' = [drv EXCEPT ![i] = "turn"]
    /\ UNCHANGED <<rows, receipt, reply>>
    /\ DriverUnchanged

(* _heartbeat_loop, every 10 seconds of an executing driver.                *)
HeartbeatLoop(i) ==
    /\ pc \in Awaiting
    /\ Executing(i)
    /\ run[i].hb # "fresh" \/ run[i].lease = "expired"
    /\ BeatRow(i)
    /\ UNCHANGED <<receipt, drv, reply>>
    /\ DriverUnchanged

(* The model's structured result validates; with a receipt on disk first,   *)
(* the adapter then closes the session before it returns.                   *)
AnswerTurn(i, r) ==
    /\ pc \in Awaiting
    /\ drv[i] = "turn"
    /\ r \in IF run[i].role = "worker" THEN WorkerResults ELSE AuditResults
    /\ drv' = [drv EXCEPT ![i] = "closing"]
    /\ reply' = [reply EXCEPT ![i] = r]
    /\ receipt' = IF HasReceipts THEN [receipt EXCEPT ![i] = r] ELSE receipt
    /\ UNCHANGED rows
    /\ DriverUnchanged

DriverDone(i) ==
    /\ drv' = [drv EXCEPT ![i] = "done"]
    /\ reply' = [reply EXCEPT ![i] = "none"]
    /\ UNCHANGED receipt
    /\ DriverUnchanged

(* The executor returned: success or audit is collected in one transaction;  *)
(* when that raises, the run fails instead.                                  *)
CollectReply(i) ==
    /\ pc \in Awaiting
    /\ drv[i] = "closing"
    /\ IF CanCollect(i, reply[i])
       THEN CollectRows(i, reply[i]) /\ Commit
       ELSE FailRun(i)
    /\ DriverDone(i)

(* The executor raised: a transport error, or three outputs that do not     *)
(* validate.                                                                *)
FailTurn(i) ==
    /\ pc \in Awaiting
    /\ Executing(i)
    /\ FailRun(i)
    /\ DriverDone(i)

(* asyncio.timeout(budget) fires. *)
ExceedBudget(i) ==
    /\ pc \in Awaiting
    /\ Executing(i)
    /\ InterruptRun(i)
    /\ DriverDone(i)

(* TransportTimeoutError: a retry while the task has few run rows.          *)
TimeoutTurn(i) ==
    /\ pc \in Awaiting
    /\ drv[i] = "turn"
    /\ IF CountForTask(run[i].task) < MaxRunRetries THEN InterruptRun(i) ELSE FailRun(i)
    /\ DriverDone(i)

(* The error path raises too (the database stays locked): the coroutine is   *)
(* over and the row is left as it was.                                       *)
LoseDriver(i) ==
    /\ "driver" \in Faults
    /\ pc \in Awaiting
    /\ Executing(i)
    /\ UNCHANGED rows
    /\ DriverDone(i)

DriverStep(i) ==
    \/ StartTurn(i)
    \/ HeartbeatLoop(i)
    \/ \E r \in Results : AnswerTurn(i, r)
    \/ CollectReply(i)
    \/ FailTurn(i)
    \/ ExceedBudget(i)
    \/ TimeoutTurn(i)
    \/ LoseDriver(i)

-----------------------------------------------------------------------------
(* Time.  Nobody renews the heartbeat of run i for 300 seconds: its driver  *)
(* does not execute (and does not start: every permit is taken), and the     *)
(* heartbeat step of the tick does not reach it.                             *)

Unattended(i) ==
    /\ ~ Executing(i)
    /\ drv[i] = "queued" => Permits = 0
    /\ \/ pc = "down"
       \/ drv[i] \in {"none", "done"}
       \/ active[run[i].task] # i
       \/ aborted
       \/ pc # "sleep"

Age(i) ==
    /\ IsLive(i) \/ run[i].lease = "live"
    /\ run[i].hb = "fresh" \/ run[i].lease = "live"
    /\ pc \in {"sleep", "down"} \/ ("slow" \in Faults /\ pc \in Awaiting)
    /\ Unattended(i)
    /\ run' = [run EXCEPT ![i].hb = IF run[i].hb = "fresh" THEN "stale" ELSE run[i].hb,
                          ![i].lease = IF run[i].lease = "live" THEN "expired" ELSE run[i].lease]
    /\ UNCHANGED task
    /\ Commit
    /\ UNCHANGED <<receipt, scope, memory, pc, stale, todo, aborted, crashes>>

-----------------------------------------------------------------------------
(* The tick.                                                               *)

TickUnchanged == UNCHANGED <<receipt, drv, reply, crashes>>

(* tick() raises: run() logs it and sleeps; uncommitted rows are lost.      *)
AbortTick ==
    /\ Rollback
    /\ pc' = "sleep"
    /\ stale' = {}
    /\ todo' = {}
    /\ aborted' = TRUE
    /\ UNCHANGED <<scope, active, receipt, drv, reply>>

(* A step that is not modelled here raises: the planner, a milestone, a      *)
(* report, the projection, the outbox, an unknown executor profile.  The     *)
(* ticks may go on failing this way: `aborted` stays until one gets through. *)
FailStep ==
    /\ "abort" \in Faults
    /\ pc \in {"plan", "deliver", "audit", "dispatch"}
    /\ crashes < MaxCrashes
    /\ crashes' = crashes + 1
    /\ AbortTick

(* 1. reconcile_orphans, one run at a time in one transaction.              *)
EveryLiveRun == {i \in RunId : IsLive(i)}
BeatenOnce == {i \in RunId : IsLive(i) /\ run[i].hb = "stale"}
OrphanCandidates == {i \in RunId : IsLive(i) /\ run[i].hb # "fresh"}

BeginTick ==
    /\ pc = "sleep"
    /\ pc' = "reconcile"
    /\ stale' = OrphanCandidates
    /\ UNCHANGED <<rows, scope, active, todo, aborted>>
    /\ TickUnchanged

(* What reconcile_orphans can deal with: a receipt that can be collected, or *)
(* no receipt and a run that may become ORPHANED.                            *)
CanRecover(i) == receipt[i] \notin {"none", "invalid"} /\ CanCollect(i, receipt[i])
CanOrphan(i) == receipt[i] = "none" /\ "ORPHANED" \in RunNext[run[i].status]
CanReconcile(i) == CanRecover(i) \/ CanOrphan(i)

NextStale(i) == i \in stale /\ \A j \in stale : i <= j

(* An ORPHANED run keeps its lease until it expires.                        *)
OrphansOnlyTheRun(i) == run' = [run EXCEPT ![i].status = "ORPHANED"] /\ UNCHANGED task
OrphanRow(i) ==
    /\ run' = [run EXCEPT ![i].status = "ORPHANED"]
    /\ task' = IF TaskOf(i).status = "RUNNING"
               THEN [task EXCEPT ![run[i].task].status = "READY"]
               ELSE task

ReconcileRun(i) ==
    /\ pc = "reconcile"
    /\ NextStale(i)
    /\ \/ CanRecover(i) /\ CollectRows(i, receipt[i])
       \/ CanOrphan(i) /\ OrphanRow(i)
    /\ stale' = stale \ {i}
    /\ UNCHANGED <<disk, scope, active, pc, todo, aborted>>
    /\ TickUnchanged

(* run.transition, a collect, or the handler of a corrupt receipt (it uses a *)
(* logger the module does not define) raises: the whole pass is rolled back. *)
RefuseReconcile(i) ==
    /\ pc = "reconcile"
    /\ NextStale(i)
    /\ ~ CanReconcile(i)
    /\ AbortTick
    /\ crashes' = crashes

CommitReconcile ==
    /\ pc = "reconcile"
    /\ stale = {}
    /\ pc' = "gate"
    /\ UNCHANGED <<task, run>>
    /\ Commit
    /\ UNCHANGED <<scope, active, stale, todo, aborted>>
    /\ TickUnchanged

(* 2. _evaluate_decision_candidates, as far as tasks see it: new decisions   *)
(* open, tasks whose decisions are resolved return to READY, READY tasks in  *)
(* the scope of an OPEN one are BLOCKED by it.                               *)
AfterGate(t, sc) ==
    CASE task[t].status = "BLOCKED" /\ task[t].held /\ t \notin sc
            -> [task[t] EXCEPT !.status = "READY", !.held = FALSE]
      [] task[t].status = "READY" /\ t \in sc
            -> [task[t] EXCEPT !.status = "BLOCKED", !.held = TRUE]
      [] OTHER -> task[t]

Gate ==
    /\ pc = "gate"
    /\ \E new \in SUBSET Gated :
          /\ scope' = scope \union new
          /\ task' = [t \in Tasks |-> AfterGate(t, scope')]
    /\ run' = run
    /\ Commit
    /\ pc' = "plan"
    /\ UNCHANGED <<active, stale, todo, aborted>>
    /\ TickUnchanged

(* The PI answers over the API (another thread): the scope is released.      *)
Answer(t) ==
    /\ pc # "down"
    /\ t \in scope
    /\ scope' = scope \ {t}
    /\ UNCHANGED <<rows, receipt, memory, pc, stale, todo, aborted, crashes>>

(* Visiting a task of the loop the tick is in. *)
Visit(t) == t \in todo /\ todo' = todo \ {t}

Slots == MaxParallel - Cardinality({t \in Tasks : active[t] # NoRun})

NewRun(i) == i \in Unused /\ \A j \in Unused : i <= j

RunRow(t, role, status, lease) ==
    [task |-> t, role |-> role, status |-> status, hb |-> "none", lease |-> lease,
     result |-> "none", subject |-> IF role = "auditor" THEN task[t].cur ELSE NoRun]

(* The lease is contended: None is returned with the STARTING row already    *)
(* flushed; it is committed with the next dispatch of the same loop, or      *)
(* rolled back at the loop's end.                                            *)
RefuseDispatch(t, role) ==
    /\ ~ LeaseFree(t, role)
    /\ \/ \E i \in RunId : NewRun(i) /\ run' = [run EXCEPT ![i] = RunRow(t, role, "STARTING", "none")]
       \/ Unused = {} /\ run' = run
    /\ UNCHANGED <<task, disk, drv, active>>

(* The run is RUNNING and leased, its heartbeat still NULL; its driver is    *)
(* created and waits.                                                        *)
Dispatch(t, role) ==
    /\ LeaseFree(t, role)
    /\ \E i \in RunId :
          /\ NewRun(i)
          /\ run' = [run EXCEPT ![i] = RunRow(t, role, "RUNNING", "live")]
          /\ task' = IF role = "worker"
                     THEN [task EXCEPT ![t].status = "RUNNING", ![t].cur = i]
                     ELSE task
          /\ drv' = [drv EXCEPT ![i] = "queued"]
          /\ active' = [active EXCEPT ![t] = i]
    /\ Commit

(* 2b-2d. The planner call and the other steps before the audits.           *)
BeginAudits ==
    /\ pc = "plan"
    /\ pc' = "audit"
    /\ todo' = {t \in Tasks : task[t].status = "REVIEW"}
    /\ UNCHANGED <<rows, scope, active, stale, aborted>>
    /\ TickUnchanged

(* 2e. _audit_review_tasks and 6. _dispatch_ready visit their tasks one by   *)
(* one, committing each dispatch.                                            *)
AuditTask(t) ==
    /\ pc = "audit"
    /\ Visit(t)
    /\ active[t] = NoRun
    /\ Slots > 0
    /\ Dispatch(t, "auditor") \/ RefuseDispatch(t, "auditor")
    /\ UNCHANGED <<scope, pc, stale, aborted, receipt, reply, crashes>>

MayDispatch(t) ==
    /\ t \notin scope
    /\ \A d \in Deps[t] : task[d].status = "COMPLETED"

DispatchTask(t) ==
    /\ pc = "dispatch"
    /\ Visit(t)
    /\ active[t] = NoRun
    /\ Slots > 0
    /\ MayDispatch(t)
    /\ Dispatch(t, "worker") \/ RefuseDispatch(t, "worker")
    /\ UNCHANGED <<scope, pc, stale, aborted, receipt, reply, crashes>>

(* A task in `active`, or one that task_dispatch_decision does not dispatch, *)
(* is passed over (so is a dispatch the bound on rows leaves no room for).   *)
SkipTask(t) ==
    /\ pc \in {"audit", "dispatch"}
    /\ Visit(t)
    /\ Slots > 0
    /\ \/ active[t] # NoRun
       \/ pc = "dispatch" /\ ~ MayDispatch(t)
       \/ Unused = {}
    /\ UNCHANGED <<rows, scope, active, pc, stale, aborted>>
    /\ TickUnchanged

(* The loop ends, or breaks for want of a slot; its session closes without a *)
(* commit, so rows flushed since the last dispatch vanish.                   *)
EndLoop ==
    /\ pc \in {"audit", "dispatch"}
    /\ todo = {} \/ Slots = 0
    /\ Rollback
    /\ pc' = IF pc = "audit" THEN "unblock" ELSE "yield"
    /\ todo' = {}
    /\ UNCHANGED <<scope, active, stale, aborted>>
    /\ TickUnchanged

(* 2f. _requeue_worker_blocked.                                             *)
Unblockable(t) ==
    /\ task[t].status = "BLOCKED"
    /\ ~ task[t].held
    /\ \A d \in Deps[t] : task[d].status = "COMPLETED"
    /\ CountForTask(t) <= MaxBlockedRetries

RequeueBlocked ==
    /\ pc = "unblock"
    /\ task' = [t \in Tasks |->
                  IF Unblockable(t) THEN [task[t] EXCEPT !.status = "READY"] ELSE task[t]]
    /\ run' = run
    /\ Commit
    /\ pc' = "deliver"
    /\ UNCHANGED <<scope, active, stale, todo, aborted>>
    /\ TickUnchanged

(* 3-5. Reports, projection and outbox delivery, which awaits the platform. *)
BeginDispatch ==
    /\ pc = "deliver"
    /\ pc' = "dispatch"
    /\ todo' = {t \in Tasks : task[t].status = "READY"}
    /\ UNCHANGED <<rows, scope, active, stale, aborted>>
    /\ TickUnchanged

(* 7. _heartbeat_active, after sleep(0).                                    *)
BeginBeat ==
    /\ pc = "yield"
    /\ pc' = "beat"
    /\ todo' = {t \in Tasks : active[t] # NoRun}
    /\ UNCHANGED <<rows, scope, active, stale, aborted>>
    /\ TickUnchanged

BeatActive(t) ==
    /\ pc = "beat"
    /\ Visit(t)
    /\ IF drv[active[t]] # "done" /\ IsLive(active[t])
       THEN BeatRow(active[t]) /\ UNCHANGED active
       ELSE active' = [active EXCEPT ![t] = NoRun] /\ UNCHANGED rows
    /\ UNCHANGED <<scope, pc, stale, aborted>>
    /\ TickUnchanged

EndTick ==
    /\ pc = "beat"
    /\ todo = {}
    /\ pc' = "sleep"
    /\ aborted' = FALSE
    /\ UNCHANGED <<rows, scope, active, stale, todo>>
    /\ TickUnchanged

TickStep ==
    \/ BeginTick
    \/ \E i \in RunId : ReconcileRun(i) \/ RefuseReconcile(i)
    \/ CommitReconcile
    \/ Gate
    \/ BeginAudits
    \/ \E t \in Tasks : AuditTask(t) \/ DispatchTask(t) \/ SkipTask(t)
    \/ EndLoop
    \/ RequeueBlocked
    \/ BeginDispatch
    \/ BeginBeat
    \/ \E t \in Tasks : BeatActive(t)
    \/ EndTick

-----------------------------------------------------------------------------
(* The process.                                                            *)

Forget ==
    /\ pc' = "down"
    /\ active' = [t \in Tasks |-> NoRun]
    /\ drv' = [i \in RunId |-> "none"]
    /\ reply' = [i \in RunId |-> "none"]
    /\ stale' = {}
    /\ todo' = {}
    /\ aborted' = FALSE

Kill ==
    /\ pc # "down"
    /\ crashes < MaxCrashes
    /\ crashes' = crashes + 1
    /\ Rollback
    /\ Forget
    /\ UNCHANGED scope

(* Killed at any point: uncommitted rows and all memory are lost.           *)
Crash == Kill /\ UNCHANGED receipt

(* Killed after _write_receipt of an output that does not validate, before   *)
(* _clear_receipt.                                                           *)
CrashInReceipt(i) ==
    /\ "torn" \in Faults
    /\ HasReceipts
    /\ pc \in Awaiting
    /\ drv[i] = "turn"
    /\ Kill
    /\ receipt' = [receipt EXCEPT ![i] = "invalid"]

(* SIGTERM: the tick ends, executor.close() ends the executor processes, and *)
(* the coroutines that are left are cancelled.  A turn that sees its         *)
(* transport die fails (FailTurn); one cancelled first is interrupted, as by *)
(* its budget (ExceedBudget).                                                *)
Shutdown ==
    /\ pc = "sleep"
    /\ crashes < MaxCrashes
    /\ crashes' = crashes + 1
    /\ pc' = "stopping"
    /\ UNCHANGED <<rows, receipt, scope, memory, stale, todo, aborted>>

Exit ==
    /\ pc = "stopping"
    /\ \A i \in RunId : ~ Executing(i)
    /\ Forget
    /\ UNCHANGED <<rows, receipt, scope, crashes>>

Restart ==
    /\ pc = "down"
    /\ pc' = "sleep"
    /\ UNCHANGED <<rows, receipt, scope, memory, stale, todo, aborted, crashes>>

Next ==
    \/ TickStep
    \/ FailStep
    \/ \E i \in RunId : DriverStep(i) \/ Age(i) \/ CrashInReceipt(i)
    \/ \E t \in Tasks : Answer(t)
    \/ Crash
    \/ Shutdown
    \/ Exit
    \/ Restart

Spec == Init /\ [][Next]_vars

-----------------------------------------------------------------------------
(* Safety.                                                                 *)

(* IMPLEMENTATION.md: a task is COMPLETED only through the audit gate.      *)
Judged(rn, t) ==
    \E a, w \in RunId :
        /\ rn[a].task = t /\ rn[a].role = "auditor"
        /\ rn[a].status = "SUCCEEDED" /\ rn[a].result = "accept"
        /\ rn[a].subject = w
        /\ rn[w].task = t /\ rn[w].role = "worker"
        /\ rn[w].status = "SUCCEEDED" /\ rn[w].result = "submit"

(* Whatever is killed, retried, recovered from a receipt or collected late:  *)
(* a COMPLETED task has an auditor run that ended with ACCEPT and judged a    *)
(* worker run of this same task that ended with every criterion at PASS.      *)
CompletedWasAudited ==
    \A t \in Tasks : task[t].status = "COMPLETED" => Judged(run, t)

(* Committed history is not rewritten: once a transaction left a task         *)
(* COMPLETED or FAILED, or a run ended with a result, no later collect,        *)
(* recovery, requeue or error path of a straggling driver changes it.          *)
TerminalStays ==
    [][/\ \A t \in Tasks : disk.task[t].status \in TaskTerminal => disk'.task[t] = disk.task[t]
       /\ \A i \in RunId : disk.run[i].status \in RunTerminal =>
              /\ disk'.run[i].status = disk.run[i].status
              /\ disk'.run[i].result = disk.run[i].result]_vars

(* One worker run is judged at most once, although an audit can be repeated,   *)
(* orphaned, and recovered from its receipt.                                   *)
OneVerdict ==
    \A i, j \in RunId :
        /\ run[i].role = "auditor" /\ run[j].role = "auditor"
        /\ run[i].status = "SUCCEEDED" /\ run[j].status = "SUCCEEDED"
        /\ run[i].subject = run[j].subject
        => i = j

(* A RUNNING task and its RUNNING worker run always come in pairs, over        *)
(* crashes, recoveries and late collects: no task is stuck in RUNNING without  *)
(* a run that can end it, and no worker run works on a task that moved on.     *)
RunningHasItsRun ==
    /\ \A t \in Tasks : task[t].status = "RUNNING" =>
          /\ task[t].cur # NoRun
          /\ run[task[t].cur].status = "RUNNING"
          /\ run[task[t].cur].role = "worker"
          /\ run[task[t].cur].task = t
    /\ \A i \in RunId : run[i].status = "RUNNING" /\ run[i].role = "worker" =>
          TaskOf(i).status = "RUNNING" /\ TaskOf(i).cur = i

(* dispatch_audit_run: "a crashed/replayed audit can never double-run".  A       *)
(* RUNNING audit is the only one of its task, and looks at the worker run the    *)
(* task is waiting on in REVIEW: the verdict can never be applied to another     *)
(* submission.                                                                 *)
AuditOfReview ==
    \A i \in RunId : run[i].status = "RUNNING" /\ run[i].role = "auditor" =>
        /\ TaskOf(i).status = "REVIEW"
        /\ TaskOf(i).cur = run[i].subject
        /\ \A j \in RunId \ {i} :
              run[j].status = "RUNNING" /\ run[j].role = "auditor" => run[j].task # run[i].task

(* No zombie: a coroutine that waits for the semaphore, or executes a turn,    *)
(* drives a run that is RUNNING in the database and that the loop counts in     *)
(* `active`.  So no model turn is paid for a run that was given up, and the     *)
(* slots the loop counts are the turns there are.                              *)
DriverOwnsItsRun ==
    \A i \in RunId : drv[i] \in {"queued", "turn", "closing"} =>
        /\ run[i].status = "RUNNING"
        /\ active[run[i].task] = i

(* Every task lives as the forced invariants of IMPLEMENTATION.md 7.1 have it,   *)
(* in what each transaction commits: one run at a time, a submission judged       *)
(* once and by its own result, COMPLETED for good, whatever is killed, rolled     *)
(* back, recovered from a receipt or collected late.  The reconciliation commits   *)
(* what it does to all runs at once; still no task skips a state.                 *)
Reported(tk, rn, t) == IF tk[t].cur = NoRun THEN "none" ELSE rn[tk[t].cur].result
WorkingOn(rn, t) == {i \in RunId : rn[i].task = t /\ rn[i].status = "RUNNING"}
GivenTo(rn, t) == {i \in RunId : rn[i].task = t /\ rn[i].status \notin {"NONE", "STARTING"}}
JudgedOf(rn, t) ==
    {rn[i].subject : i \in {j \in RunId : /\ rn[j].task = t /\ rn[j].role = "auditor"
                                         /\ rn[j].status = "SUCCEEDED"}}

LifeOf(tk, rn, t) ==
    [status |-> tk[t].status, attempt |-> tk[t].cur, reported |-> Reported(tk, rn, t),
     working |-> WorkingOn(rn, t), given |-> GivenTo(rn, t), judged |-> JudgedOf(rn, t)]

Life == INSTANCE Lifecycle WITH
            Runs <- RunId,
            life <- [t \in Tasks |-> LifeOf(disk.task, disk.run, t)]

KeepsLifecycle == Life!Init /\ [][disk' = disk \/ Life!Next]_disk

(* reconcile_orphans: every stale run can be recovered or ORPHANED; none makes  *)
(* the pass raise, which would end this tick and all later ones the same way.    *)
ReconcileNeverRefuses ==
    pc = "reconcile" => \A i \in RunId : NextStale(i) => CanReconcile(i)

(* _recover_from_receipt: "A corrupt receipt is treated as absent (retry)": a    *)
(* stale RUNNING run whose receipt does not validate is reconciled.              *)
CorruptReceiptIsRetried ==
    \A i \in RunId :
        pc = "reconcile" /\ NextStale(i) /\ run[i].status = "RUNNING" /\ receipt[i] = "invalid"
            => CanReconcile(i)

-----------------------------------------------------------------------------
(* Liveness.                                                               *)

(* The tick comes every two seconds and the steps of one tick follow each     *)
(* other; a supervisor restarts a service that died; whatever nobody renews is *)
(* 300 seconds old some time between two ticks; a coroutine that can move does *)
(* so at one of the awaits, and a turn ends at the latest with its budget.     *)
Fairness ==
    /\ WF_vars(TickStep \/ Exit \/ Restart)
    /\ \A i \in RunId : SF_vars(Age(i)) /\ SF_vars(StartTurn(i) \/ ExceedBudget(i))

FairSpec == Spec /\ Fairness

(* No run is stuck: one that was dispatched ends, with or without its driver.  *)
RunsEnd == \A i \in RunId : (run[i].status = "RUNNING") ~> (run[i].status \in RunTerminal)

(* No task is stuck in READY or REVIEW: it is dispatched or audited (as long   *)
(* as the bound on committed run rows leaves room).                             *)
NoRowLeft == \A i \in RunId : disk.run[i].status # "NONE"
TasksMove ==
    \A t \in Tasks : \A s \in {"READY", "REVIEW"} :
        (task[t].status = s) ~> (task[t].status # s \/ active[t] # NoRun \/ NoRowLeft)

=============================================================================
