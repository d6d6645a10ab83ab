--------------------------- MODULE SchedulerProofs ---------------------------
(* What holds of Scheduler for every number of tasks, runs, slots and kills.    *)
(* Under every fault: types, that only an audited task is COMPLETED, and that    *)
(* committed history is not rewritten.  With ticks shorter than a lease: who      *)
(* works on what, one audit, one verdict, and that Scheduler implements           *)
(* Lifecycle.  With ticks whose steps do not fail: no zombie coroutine.           *)
EXTENDS Scheduler, FiniteSetTheorems, TLAPS

-----------------------------------------------------------------------------
(* Facts about the helpers.                                                *)

LEMMA RunIds == RunId \subseteq Nat /\ NoRun \notin RunId
  BY DEF RunId, NoRun

LEMMA NoTaskIsNone == NoTask \notin Tasks
  BY SchedulerAssumption DEF SchedulerAssumption

LEMMA ResultsType == Results \subseteq WorkerResults \union AuditResults
  BY SchedulerAssumption DEF SchedulerAssumption

(* A transition the tables allow starts in a state that is not terminal. *)
LEMMA TerminalEndsTask ==
  ASSUME NEW s \in TaskTerminal PROVE TaskNext[s] = {}
  BY DEF TaskTerminal, TaskNext, TaskStatus

LEMMA SucceedsOnlyRunning ==
  ASSUME NEW s \in RunStatus, "SUCCEEDED" \in RunNext[s] PROVE s = "RUNNING"
  BY DEF RunStatus, RunNext

LEMMA OrphansOnlyRunning ==
  ASSUME NEW s \in RunStatus, "ORPHANED" \in RunNext[s] PROVE s = "RUNNING"
  BY DEF RunStatus, RunNext

LEMMA TargetType ==
  ASSUME NEW i \in RunId, NEW r
  PROVE  Target(i, r) \in TaskStatus
  BY DEF Target, WorkTarget, AuditTarget, TaskStatus

-----------------------------------------------------------------------------
(* One step on the rows.                                                   *)

(* The rows have their types. *)
Typed(tk, rn) == tk \in [Tasks -> TaskRecord] /\ rn \in [RunId -> RunRecord]

(* What each row refers to is there, a run has a result only when it ended   *)
(* with one, and a COMPLETED task was judged.                                *)
Rooted(tk, rn) ==
  /\ \A t \in Tasks : tk[t].cur # NoRun =>
        rn[tk[t].cur].task = t /\ rn[tk[t].cur].role = "worker" /\ rn[tk[t].cur].status # "NONE"
  /\ \A i \in RunId : rn[i].subject # NoRun =>
        /\ rn[rn[i].subject].task = rn[i].task
        /\ rn[rn[i].subject].role = "worker"
        /\ rn[rn[i].subject].status # "NONE"
  /\ \A i \in RunId : rn[i].result # "none" =>
        /\ rn[i].status = "SUCCEEDED"
        /\ rn[i].role = "auditor" => rn[i].result \in AuditResults
        /\ rn[i].role = "worker" => rn[i].result \in WorkerResults
  /\ \A t \in Tasks : tk[t].status = "COMPLETED" => Judged(rn, t)

(* The second rows continue the first: nothing terminal changes, no row is   *)
(* deleted or given to another task.                                         *)
Continues(tk, rn, tk2, rn2) ==
  /\ \A t \in Tasks : tk[t].status \in TaskTerminal => tk2[t] = tk[t]
  /\ \A i \in RunId : rn[i].status # "NONE" =>
        /\ rn2[i].task = rn[i].task /\ rn2[i].role = rn[i].role
        /\ rn2[i].subject = rn[i].subject /\ rn2[i].status # "NONE"
  /\ \A i \in RunId : rn[i].status \in RunTerminal =>
        rn2[i].status = rn[i].status /\ rn2[i].result = rn[i].result

GoodStep ==
  /\ Typed(task', run')
  /\ Rooted(task', run')
  /\ Continues(task, run, task', run')

LEMMA ContinuesReflexive == \A tk, rn : Continues(tk, rn, tk, rn)
  BY DEF Continues

LEMMA ContinuesTransitive ==
  ASSUME NEW tk1, NEW rn1, NEW tk2, NEW rn2, NEW tk3, NEW rn3,
         Continues(tk1, rn1, tk2, rn2), Continues(tk2, rn2, tk3, rn3)
  PROVE  Continues(tk1, rn1, tk3, rn3)
  BY DEF Continues

(* A judgement stays in rows that continue. *)
LEMMA JudgedStays ==
  ASSUME NEW tk, NEW rn, NEW tk2, NEW rn2, Continues(tk, rn, tk2, rn2),
         NEW t \in Tasks, Judged(rn, t)
  PROVE  Judged(rn2, t)
  BY DEF Continues, Judged, RunTerminal

(* Steps that change only heartbeats and leases of existing rows, and tasks   *)
(* that are not terminal and do not become COMPLETED.                         *)
Attends ==
  /\ \A i \in RunId :
        /\ run'[i].task = run[i].task /\ run'[i].role = run[i].role
        /\ run'[i].status = run[i].status /\ run'[i].subject = run[i].subject
        /\ run'[i].result = run[i].result
  /\ \A t \in Tasks :
        /\ task'[t].cur = task[t].cur
        /\ task[t].status \in TaskTerminal => task'[t] = task[t]
        /\ task'[t].status = "COMPLETED" => task[t].status = "COMPLETED"

LEMMA AttendsIsGood ==
  ASSUME Typed(task, run), Rooted(task, run), Typed(task', run'), Attends
  PROVE  GoodStep
  <1>1. Continues(task, run, task', run')
    BY DEF Continues, Attends
  <1>2. \A t \in Tasks : task'[t].status = "COMPLETED" => Judged(run', t)
    BY <1>1, JudgedStays DEF Rooted, Attends
  <1>3. \A t \in Tasks : task'[t].cur # NoRun => task'[t].cur \in RunId
    BY DEF Typed, TaskRecord
  <1>4. \A i \in RunId : run'[i].subject # NoRun => run'[i].subject \in RunId
    BY DEF Typed, RunRecord
  <1>5. Rooted(task', run')
    BY <1>2, <1>3, <1>4 DEF Rooted, Attends
  <1> QED
    BY <1>1, <1>5 DEF GoodStep

-----------------------------------------------------------------------------
(* Each operation on rows is a good step.                                  *)

LEMMA AttendedRowTyped ==
  ASSUME NEW rn \in [RunId -> RunRecord], NEW i \in RunId, NEW h \in {"none", "fresh", "stale"},
         NEW l \in {"none", "live", "expired", "released"}
  PROVE  [rn EXCEPT ![i].hb = h, ![i].lease = l] \in [RunId -> RunRecord]
  <1> DEFINE r == [rn[i] EXCEPT !.hb = h, !.lease = l]
  <1>1. rn[i] \in RunRecord
    OBVIOUS
  <1>2. r \in RunRecord
    BY <1>1 DEF RunRecord
  <1>3. [rn EXCEPT ![i].hb = h, ![i].lease = l] = [rn EXCEPT ![i] = r]
    OBVIOUS
  <1> QED
    BY <1>2, <1>3

LEMMA BeatIsGood ==
  ASSUME Typed(task, run), Rooted(task, run), NEW i \in RunId, BeatRow(i)
  PROVE  GoodStep
  <1>1. task' = task
    BY DEF BeatRow
  <1>2. Renewed(run[i].lease) \in {"none", "live", "expired", "released"}
    BY DEF Renewed, Typed, RunRecord
  <1>3. Typed(task', run')
    BY <1>1, <1>2, AttendedRowTyped DEF BeatRow, Typed
  <1>4. Attends
    BY <1>1 DEF BeatRow, Attends, Typed, RunRecord
  <1> QED
    BY <1>3, <1>4, AttendsIsGood

LEMMA AgeIsGood ==
  ASSUME Typed(task, run), Rooted(task, run), NEW i \in RunId, Age(i)
  PROVE  GoodStep
  <1>0. /\ (IF run[i].hb = "fresh" THEN "stale" ELSE run[i].hb) \in {"none", "fresh", "stale"}
        /\ (IF run[i].lease = "live" THEN "expired" ELSE run[i].lease)
              \in {"none", "live", "expired", "released"}
    BY DEF Typed, RunRecord
  <1> DEFINE h == IF run[i].hb = "fresh" THEN "stale" ELSE run[i].hb
             l == IF run[i].lease = "live" THEN "expired" ELSE run[i].lease
  <1>1. run' = [run EXCEPT ![i].hb = h, ![i].lease = l] /\ task' = task
    BY DEF Age
  <1>a. h \in {"none", "fresh", "stale"} /\ l \in {"none", "live", "expired", "released"}
    BY <1>0
  <1> HIDE DEF h, l
  <1>b. run \in [RunId -> RunRecord] /\ task \in [Tasks -> TaskRecord]
    BY DEF Typed
  <1>c. [run EXCEPT ![i].hb = h, ![i].lease = l] \in [RunId -> RunRecord]
    BY <1>a, <1>b, AttendedRowTyped
  <1>2. Typed(task', run')
    BY <1>1, <1>b, <1>c DEF Typed
  <1>3. Attends
    BY <1>1 DEF Attends, Typed, RunRecord
  <1> QED
    BY <1>2, <1>3, AttendsIsGood

LEMMA GateIsGood ==
  ASSUME Typed(task, run), Rooted(task, run), Gate
  PROVE  GoodStep
  <1>1. \A t \in Tasks : AfterGate(t, scope') \in TaskRecord
    BY DEF AfterGate, Typed, TaskRecord, TaskStatus
  <1>2. Typed(task', run')
    BY <1>1 DEF Gate, Typed
  <1>3. \A t \in Tasks : task'[t] = AfterGate(t, scope')
    BY DEF Gate
  <1>4. ASSUME NEW t \in Tasks
        PROVE  /\ task'[t].cur = task[t].cur
               /\ task[t].status \in TaskTerminal => task'[t] = task[t]
               /\ task'[t].status = "COMPLETED" => task[t].status = "COMPLETED"
    <2>1. task'[t] = AfterGate(t, scope') /\ task[t] \in TaskRecord
      BY <1>3 DEF Typed
    <2> QED
      BY <2>1 DEF AfterGate, TaskTerminal, TaskRecord
  <1>5. Attends
    BY <1>4 DEF Gate, Attends
  <1> QED
    BY <1>2, <1>5, AttendsIsGood

LEMMA RequeueIsGood ==
  ASSUME Typed(task, run), Rooted(task, run), RequeueBlocked
  PROVE  GoodStep
  <1>1. Typed(task', run')
    BY DEF RequeueBlocked, Typed, TaskRecord, TaskStatus
  <1>2. Attends
    BY DEF RequeueBlocked, Attends, TaskTerminal, Typed, TaskRecord, Unblockable
  <1> QED
    BY <1>1, <1>2, AttendsIsGood

(* A live run i ends without a result; no task becomes COMPLETED.           *)
Ends(i) ==
  /\ \A j \in RunId :
        /\ run'[j].task = run[j].task /\ run'[j].role = run[j].role
        /\ run'[j].subject = run[j].subject /\ run'[j].result = run[j].result
        /\ j # i => run'[j].status = run[j].status
  /\ run'[i].status \in RunTerminal \ {"SUCCEEDED"}
  /\ \A t \in Tasks :
        /\ task'[t].cur = task[t].cur
        /\ task[t].status \in TaskTerminal => task'[t] = task[t]
        /\ task'[t].status = "COMPLETED" => task[t].status = "COMPLETED"

LEMMA EndsIsGood ==
  ASSUME Typed(task, run), Rooted(task, run), Typed(task', run'),
         NEW i \in RunId, IsLive(i), Ends(i)
  PROVE  GoodStep
  <1>1. Continues(task, run, task', run')
    BY DEF Continues, Ends, IsLive, RunLive, RunTerminal
  <1>2. run[i].result = "none"
    BY DEF IsLive, RunLive, Rooted, Typed
  <1>3. \A t \in Tasks : task'[t].status = "COMPLETED" => Judged(run', t)
    BY <1>1, JudgedStays DEF Rooted, Ends
  <1>4. \A t \in Tasks : task'[t].cur # NoRun => task'[t].cur \in RunId
    BY DEF Typed, TaskRecord
  <1>5. \A j \in RunId : run'[j].subject # NoRun => run'[j].subject \in RunId
    BY DEF Typed, RunRecord
  <1>6. \A j \in RunId : run[j].status # "NONE" => run'[j].status # "NONE"
    BY DEF Ends, RunTerminal
  <1>7. Rooted(task', run')
    BY <1>2, <1>3, <1>4, <1>5, <1>6 DEF Rooted, Ends
  <1> QED
    BY <1>1, <1>7 DEF GoodStep

(* The step by which collect_failure, collect_interrupt and the orphan        *)
(* reconciliation end run i, with its lease l.                                *)
LEMMA EndingIsGood ==
  ASSUME Typed(task, run), Rooted(task, run), NEW i \in RunId, IsLive(i),
         NEW s \in RunTerminal \ {"SUCCEEDED"},
         NEW l \in {"none", "live", "expired", "released"},
         NEW ts \in {"READY", "FAILED"},
         run' = [run EXCEPT ![i].status = s, ![i].lease = l],
         task' = IF TaskOf(i).status = "RUNNING"
                 THEN [task EXCEPT ![run[i].task].status = ts]
                 ELSE task
  PROVE  GoodStep
  <1>0. task \in [Tasks -> TaskRecord] /\ run \in [RunId -> RunRecord]
    BY DEF Typed
  <1>1. Typed(task', run')
    <2>1. run[i] \in RunRecord /\ s \in RunStatus
      BY <1>0 DEF RunTerminal, RunStatus
    <2>2. [run[i] EXCEPT !.status = s, !.lease = l] \in RunRecord
      BY <2>1 DEF RunRecord
    <2>3. run' = [run EXCEPT ![i] = [run[i] EXCEPT !.status = s, !.lease = l]]
      OBVIOUS
    <2>4. run' \in [RunId -> RunRecord]
      BY <1>0, <2>2, <2>3
    <2>5. task' \in [Tasks -> TaskRecord]
      BY <1>0 DEF TaskRecord, TaskStatus
    <2> QED
      BY <2>4, <2>5 DEF Typed
  <1>2. \A j \in RunId :
          /\ run'[j].task = run[j].task /\ run'[j].role = run[j].role
          /\ run'[j].subject = run[j].subject /\ run'[j].result = run[j].result
          /\ j # i => run'[j].status = run[j].status
    BY DEF Typed, RunRecord
  <1>3. run'[i].status = s
    BY DEF Typed, RunRecord
  <1>4. \A t \in Tasks :
          /\ task'[t].cur = task[t].cur
          /\ task'[t].status = "COMPLETED" => task[t].status = "COMPLETED"
          /\ task[t].status \in TaskTerminal => task'[t] = task[t]
    BY DEF TaskOf, Typed, TaskRecord, TaskTerminal
  <1>5. Ends(i)
    BY <1>2, <1>3, <1>4 DEF Ends
  <1> QED
    BY <1>1, <1>5, EndsIsGood

LEMMA EndRowsIsGood ==
  ASSUME Typed(task, run), Rooted(task, run), NEW i \in RunId, IsLive(i),
         NEW s \in RunTerminal \ {"SUCCEEDED"}, NEW ts \in {"READY", "FAILED"},
         EndRows(i, s, ts)
  PROVE  GoodStep
  <1>1. Released(run[i].lease) \in {"none", "live", "expired", "released"}
    BY DEF Released
  <1> QED
    BY <1>1, EndingIsGood DEF EndRows

LEMMA OrphanRowIsGood ==
  ASSUME Typed(task, run), Rooted(task, run), NEW i \in RunId, CanOrphan(i), OrphanRow(i)
  PROVE  GoodStep
  <1>1. run[i].status = "RUNNING"
    BY OrphansOnlyRunning DEF CanOrphan, Typed, RunRecord
  <1>a. IsLive(i) /\ "ORPHANED" \in RunTerminal \ {"SUCCEEDED"}
    BY <1>1 DEF IsLive, RunLive, RunTerminal
  <1>2. run' = [run EXCEPT ![i].status = "ORPHANED", ![i].lease = run[i].lease]
    BY DEF OrphanRow, Typed, RunRecord
  <1>3. run[i].lease \in {"none", "live", "expired", "released"}
    BY DEF Typed, RunRecord
  <1> QED
    BY <1>a, <1>2, <1>3, EndingIsGood DEF OrphanRow

(* A RUNNING run i ends with result r; a task becomes COMPLETED by it only    *)
(* when i is an audit that accepts a submission.                              *)
Collects(i, r) ==
  /\ run[i].status = "RUNNING"
  /\ \A j \in RunId :
        /\ run'[j].task = run[j].task /\ run'[j].role = run[j].role
        /\ run'[j].subject = run[j].subject
        /\ j # i => run'[j].status = run[j].status /\ run'[j].result = run[j].result
  /\ run'[i].status = "SUCCEEDED" /\ run'[i].result = r
  /\ run[i].role = "worker" => r \in WorkerResults
  /\ run[i].role = "auditor" => r \in AuditResults
  /\ \A t \in Tasks :
        /\ task'[t].cur = task[t].cur
        /\ task[t].status \in TaskTerminal => task'[t] = task[t]
        /\ task'[t].status = "COMPLETED" =>
              \/ task[t].status = "COMPLETED"
              \/ /\ run[i].task = t /\ run[i].role = "auditor" /\ r = "accept"
                 /\ run[i].subject # NoRun /\ run[run[i].subject].result = "submit"

LEMMA CollectsIsGood ==
  ASSUME Typed(task, run), Rooted(task, run), Typed(task', run'),
         NEW i \in RunId, NEW r, Collects(i, r)
  PROVE  GoodStep
  <1>1. Continues(task, run, task', run')
    BY DEF Continues, Collects, RunTerminal
  <1>2. ASSUME NEW t \in Tasks, task'[t].status = "COMPLETED"
        PROVE  Judged(run', t)
    <2>1. CASE task[t].status = "COMPLETED"
      BY <1>1, <2>1, JudgedStays DEF Rooted
    <2>2. CASE task[t].status # "COMPLETED"
      <3> DEFINE w == run[i].subject
      <3>1. /\ run[i].task = t /\ run[i].role = "auditor" /\ r = "accept"
            /\ w # NoRun /\ run[w].result = "submit"
        BY <1>2, <2>2 DEF Collects
      <3>2. w \in RunId
        BY <3>1 DEF Typed, RunRecord
      <3>3. run[w].task = t /\ run[w].role = "worker"
        BY <3>1 DEF Rooted
      <3>4. run[w].status = "SUCCEEDED"
        BY <3>1, <3>2 DEF Rooted
      <3>5. w # i
        BY <3>1, <3>3
      <3>6. /\ run'[w].task = t /\ run'[w].role = "worker"
            /\ run'[w].status = "SUCCEEDED" /\ run'[w].result = "submit"
        BY <3>1, <3>2, <3>3, <3>4, <3>5 DEF Collects
      <3>7. /\ run'[i].task = t /\ run'[i].role = "auditor" /\ run'[i].subject = w
            /\ run'[i].status = "SUCCEEDED" /\ run'[i].result = "accept"
        BY <3>1 DEF Collects
      <3> QED
        BY <3>2, <3>6, <3>7 DEF Judged
    <2> QED
      BY <2>1, <2>2
  <1>3. \A t \in Tasks : task'[t].cur # NoRun => task'[t].cur \in RunId
    BY DEF Typed, TaskRecord
  <1>4. \A j \in RunId : run'[j].subject # NoRun => run'[j].subject \in RunId
    BY DEF Typed, RunRecord
  <1>5. \A j \in RunId : run[j].status # "NONE" => run'[j].status # "NONE"
    BY DEF Collects
  <1>6. Rooted(task', run')
    BY <1>2, <1>3, <1>4, <1>5 DEF Rooted, Collects
  <1> QED
    BY <1>1, <1>6 DEF GoodStep

LEMMA CollectRowsIsGood ==
  ASSUME Typed(task, run), Rooted(task, run), NEW i \in RunId, NEW r,
         CanCollect(i, r), CollectRows(i, r)
  PROVE  GoodStep
  <1>0. task \in [Tasks -> TaskRecord] /\ run \in [RunId -> RunRecord]
    BY DEF Typed
  <1>1. run[i].status = "RUNNING"
    BY SucceedsOnlyRunning DEF CanCollect, CanCollectWork, CanCollectAudit, Typed, RunRecord
  <1>2. /\ run[i].role \in {"worker", "auditor"}
        /\ run[i].role = "worker" => r \in WorkerResults
        /\ run[i].role = "auditor" => r \in AuditResults
    BY <1>0 DEF CanCollect, CanCollectWork, CanCollectAudit, RunRecord
  <1>3. Target(i, r) \in TaskStatus
    BY TargetType
  <1>4. Typed(task', run')
    <2>1. run[i] \in RunRecord
      BY <1>0
    <2>2. Released(run[i].lease) \in {"none", "live", "expired", "released"}
      BY DEF Released
    <2>3. [run[i] EXCEPT !.status = "SUCCEEDED", !.result = r, !.lease = Released(run[i].lease)]
             \in RunRecord
      BY <1>2, <2>1, <2>2 DEF RunRecord, RunStatus
    <2>4. run' = [run EXCEPT ![i] = [run[i] EXCEPT !.status = "SUCCEEDED", !.result = r,
                                                   !.lease = Released(run[i].lease)]]
      BY DEF CollectRows
    <2>5. run' \in [RunId -> RunRecord]
      BY <1>0, <2>3, <2>4
    <2>6. task' \in [Tasks -> TaskRecord]
      BY <1>0, <1>3 DEF CollectRows, TaskRecord
    <2> QED
      BY <2>5, <2>6 DEF Typed
  <1>5. /\ \A j \in RunId :
             /\ run'[j].task = run[j].task /\ run'[j].role = run[j].role
             /\ run'[j].subject = run[j].subject
             /\ j # i => run'[j].status = run[j].status /\ run'[j].result = run[j].result
        /\ run'[i].status = "SUCCEEDED" /\ run'[i].result = r
    BY <1>0 DEF CollectRows, RunRecord
  <1>6. /\ \A t \in Tasks : task'[t].cur = task[t].cur
        /\ \A t \in Tasks : t # run[i].task => task'[t] = task[t]
        /\ run[i].task \in Tasks => task'[run[i].task].status = Target(i, r)
    BY <1>0 DEF CollectRows, TaskRecord
  <1>7. run[i].task \in Tasks => TaskOf(i).status \notin TaskTerminal
    <2>1. CASE run[i].role = "worker"
      BY <2>1, TerminalEndsTask DEF CanCollect, CanCollectWork
    <2>2. CASE run[i].role # "worker"
      BY <2>2 DEF CanCollect, CanCollectAudit, TaskTerminal
    <2> QED
      BY <2>1, <2>2
  <1>8. Target(i, r) = "COMPLETED" =>
          /\ run[i].role = "auditor" /\ r = "accept"
          /\ run[i].subject # NoRun /\ run[run[i].subject].result = "submit"
    BY <1>2 DEF Target, WorkTarget, AuditTarget
  <1>9. Collects(i, r)
    BY <1>1, <1>2, <1>5, <1>6, <1>7, <1>8 DEF Collects, TaskOf
  <1> QED
    BY <1>4, <1>9, CollectsIsGood

(* Row i, unused so far, becomes a run of task t; a worker run also becomes   *)
(* the current run of the task, which is not terminal.                        *)
Begins(i, t) ==
  /\ run[i].status = "NONE"
  /\ \A j \in RunId : j # i => run'[j] = run[j]
  /\ run'[i].task = t
  /\ run'[i].status \in {"STARTING", "RUNNING"}
  /\ run'[i].result = "none"
  /\ run'[i].subject = NoRun \/ run'[i].subject = task[t].cur
  /\ \A u \in Tasks : u # t => task'[u] = task[u]
  /\ \/ task'[t] = task[t]
     \/ /\ run'[i].role = "worker" /\ task'[t].cur = i /\ task'[t].status = "RUNNING"
        /\ task[t].status \notin TaskTerminal

LEMMA BeginsIsGood ==
  ASSUME Typed(task, run), Rooted(task, run), Typed(task', run'),
         NEW i \in RunId, NEW t \in Tasks, Begins(i, t)
  PROVE  GoodStep
  <1>1. Continues(task, run, task', run')
    BY DEF Continues, Begins, RunTerminal
  <1>2. \A u \in Tasks : task'[u].status = "COMPLETED" => Judged(run', u)
    BY <1>1, JudgedStays DEF Rooted, Begins
  <1>3. \A u \in Tasks : task[u].cur # NoRun => task[u].cur \in RunId \ {i}
    BY DEF Typed, TaskRecord, Rooted, Begins
  <1>4. \A j \in RunId : run[j].subject # NoRun => run[j].subject \in RunId \ {i}
    BY DEF Typed, RunRecord, Rooted, Begins
  <1>5. \A u \in Tasks : task'[u].cur # NoRun =>
          /\ run'[task'[u].cur].task = u /\ run'[task'[u].cur].role = "worker"
          /\ run'[task'[u].cur].status # "NONE"
    BY <1>3 DEF Rooted, Begins
  <1>6. \A j \in RunId : run'[j].subject # NoRun =>
          /\ run'[run'[j].subject].task = run'[j].task
          /\ run'[run'[j].subject].role = "worker"
          /\ run'[run'[j].subject].status # "NONE"
    BY <1>3, <1>4 DEF Rooted, Begins
  <1>7. Rooted(task', run')
    BY <1>2, <1>5, <1>6 DEF Rooted, Begins
  <1> QED
    BY <1>1, <1>7 DEF GoodStep

LEMMA RunRowTyped ==
  ASSUME Typed(task, run), NEW t \in Tasks, NEW role \in {"worker", "auditor"},
         NEW s \in {"STARTING", "RUNNING"}, NEW l \in {"none", "live"}
  PROVE  LET r == RunRow(t, role, s, l)
         IN  /\ r \in RunRecord
             /\ r.task = t /\ r.role = role /\ r.status = s /\ r.result = "none"
             /\ r.subject = NoRun \/ r.subject = task[t].cur
  BY DEF Typed, TaskRecord, RunRow, RunRecord, RunStatus

LEMMA RefuseDispatchIsGood ==
  ASSUME Typed(task, run), Rooted(task, run), NEW t \in Tasks,
         NEW role \in {"worker", "auditor"}, RefuseDispatch(t, role)
  PROVE  GoodStep
  <1>1. CASE run' = run
    BY <1>1, ContinuesReflexive DEF RefuseDispatch, GoodStep
  <1>2. CASE run' # run
    <2>1. PICK i \in RunId : NewRun(i) /\ run' = [run EXCEPT ![i] = RunRow(t, role, "STARTING", "none")]
      BY <1>2 DEF RefuseDispatch
    <2>2. run[i].status = "NONE" /\ task' = task
      BY <2>1 DEF NewRun, Unused, RefuseDispatch
    <2> DEFINE r == RunRow(t, role, "STARTING", "none")
    <2>6. /\ r \in RunRecord
          /\ r.task = t /\ r.role = role /\ r.status = "STARTING" /\ r.result = "none"
          /\ r.subject = NoRun \/ r.subject = task[t].cur
      BY RunRowTyped
    <2>3. run'[i] = r /\ \A j \in RunId : j # i => run'[j] = run[j]
      BY <2>1 DEF Typed
    <2>4. Typed(task', run')
      BY <2>1, <2>2, <2>6 DEF Typed
    <2>5. Begins(i, t)
      BY <2>2, <2>3, <2>6 DEF Begins
    <2> QED
      BY <2>4, <2>5, BeginsIsGood
  <1> QED
    BY <1>1, <1>2

LEMMA DispatchIsGood ==
  ASSUME Typed(task, run), Rooted(task, run), NEW t \in Tasks,
         NEW role \in {"worker", "auditor"}, Dispatch(t, role),
         role = "worker" => task[t].status \notin TaskTerminal
  PROVE  GoodStep
  <1>1. PICK i \in RunId :
          /\ NewRun(i)
          /\ run' = [run EXCEPT ![i] = RunRow(t, role, "RUNNING", "live")]
          /\ task' = IF role = "worker"
                     THEN [task EXCEPT ![t].status = "RUNNING", ![t].cur = i]
                     ELSE task
    BY DEF Dispatch
  <1> DEFINE r == RunRow(t, role, "RUNNING", "live")
  <1>2. run[i].status = "NONE"
    BY <1>1 DEF NewRun, Unused
  <1>3. /\ r \in RunRecord
        /\ r.task = t /\ r.role = role /\ r.status = "RUNNING" /\ r.result = "none"
        /\ r.subject = NoRun \/ r.subject = task[t].cur
    BY RunRowTyped
  <1> HIDE DEF r
  <1>4. run' = [run EXCEPT ![i] = r]
    BY <1>1 DEF r
  <1>5. run'[i] = r /\ \A j \in RunId : j # i => run'[j] = run[j]
    BY <1>4 DEF Typed
  <1>6. task' \in [Tasks -> TaskRecord]
    <2> DEFINE tr == [task[t] EXCEPT !.status = "RUNNING", !.cur = i]
    <2>1. tr \in TaskRecord
      BY DEF Typed, TaskRecord, TaskStatus
    <2>2. task' = task \/ task' = [task EXCEPT ![t] = tr]
      BY <1>1 DEF Typed
    <2> HIDE DEF tr
    <2> QED
      BY <2>1, <2>2 DEF Typed
  <1>7. Typed(task', run')
    BY <1>3, <1>4, <1>6 DEF Typed
  <1>8. /\ \A u \in Tasks : u # t => task'[u] = task[u]
        /\ role # "worker" => task'[t] = task[t]
        /\ role = "worker" => task'[t].cur = i /\ task'[t].status = "RUNNING"
    BY <1>1 DEF Typed, TaskRecord
  <1>9. Begins(i, t)
    BY <1>2, <1>3, <1>5, <1>8 DEF Begins
  <1> QED
    BY <1>7, <1>9, BeginsIsGood

-----------------------------------------------------------------------------
(* The inductive invariant.  The rows a transaction works on and the committed *)
(* ones are both rooted, and the first continue the second, so that neither a  *)
(* commit nor a rollback loses anything; the tasks a loop has yet to visit are *)
(* as they were when it listed them.                                           *)

History ==
  /\ Rooted(task, run)
  /\ Rooted(disk.task, disk.run)
  /\ Continues(disk.task, disk.run, task, run)

Listed ==
  /\ pc = "dispatch" => \A t \in todo : task[t].status = "READY"
  /\ pc = "beat" => \A t \in todo : active[t] # NoRun

Inv == TypeOK /\ History /\ Listed

(* What a step does to rows and disk: one good step, committed or not, or a   *)
(* rollback.                                                                  *)
RowStep ==
  \/ GoodStep /\ (disk' = disk \/ Commit)
  \/ Rollback

LEMMA InvRows == Inv => Typed(task, run) /\ Rooted(task, run)
  BY DEF Inv, TypeOK, Typed, History

LEMMA UnchangedRows ==
  ASSUME Typed(task, run), Rooted(task, run), UNCHANGED rows
  PROVE  RowStep
  BY ContinuesReflexive DEF RowStep, GoodStep, rows

(* The error and the interrupt path of the loop. *)
LEMMA EndRunRows ==
  ASSUME Typed(task, run), Rooted(task, run), NEW i \in RunId,
         FailRun(i) \/ InterruptRun(i)
  PROVE  RowStep
  <1>1. CASE ~ IsLive(i)
    BY <1>1, UnchangedRows DEF FailRun, InterruptRun, EndRun
  <1>2. CASE IsLive(i) /\ FailRun(i)
    <2>1. EndRows(i, "FAILED", "FAILED") /\ Commit
      BY <1>2 DEF FailRun, EndRun
    <2>2. GoodStep
      BY <1>2, <2>1, EndRowsIsGood DEF RunTerminal
    <2> QED
      BY <2>1, <2>2 DEF RowStep
  <1>3. CASE IsLive(i) /\ InterruptRun(i)
    <2>1. EndRows(i, "INTERRUPTED", "READY") /\ Commit
      BY <1>3 DEF InterruptRun, EndRun
    <2>2. GoodStep
      BY <1>3, <2>1, EndRowsIsGood DEF RunTerminal
    <2> QED
      BY <2>1, <2>2 DEF RowStep
  <1> QED
    BY <1>1, <1>2, <1>3

LEMMA DriverRows ==
  ASSUME Inv, NEW i \in RunId, DriverStep(i)
  PROVE  RowStep
  <1>0. Typed(task, run) /\ Rooted(task, run)
    BY InvRows
  <1>1. CASE StartTurn(i)
    BY <1>0, <1>1, UnchangedRows DEF StartTurn
  <1>2. CASE HeartbeatLoop(i)
    BY <1>0, <1>2, BeatIsGood DEF HeartbeatLoop, BeatRow, RowStep
  <1>3. CASE \E r \in Results : AnswerTurn(i, r)
    BY <1>0, <1>3, UnchangedRows DEF AnswerTurn
  <1>4. CASE CollectReply(i)
    BY <1>0, <1>4, CollectRowsIsGood, EndRunRows DEF CollectReply, RowStep
  <1>5. CASE FailTurn(i) \/ ExceedBudget(i) \/ TimeoutTurn(i)
    BY <1>0, <1>5, EndRunRows DEF FailTurn, ExceedBudget, TimeoutTurn
  <1>6. CASE LoseDriver(i)
    BY <1>0, <1>6, UnchangedRows DEF LoseDriver
  <1> QED
    BY <1>1, <1>2, <1>3, <1>4, <1>5, <1>6 DEF DriverStep

LEMMA TickRows ==
  ASSUME Inv, TickStep
  PROVE  RowStep
  <1>0. Typed(task, run) /\ Rooted(task, run)
    BY InvRows
  <1>1. CASE BeginTick \/ BeginAudits \/ BeginDispatch \/ BeginBeat \/ EndTick
    BY <1>0, <1>1, UnchangedRows DEF BeginTick, BeginAudits, BeginDispatch, BeginBeat, EndTick
  <1>2. ASSUME NEW i \in RunId, ReconcileRun(i)
        PROVE  RowStep
    <2>1. disk' = disk
      BY <1>2 DEF ReconcileRun
    <2>2. CASE CanRecover(i) /\ CollectRows(i, receipt[i])
      BY <1>0, <2>1, <2>2, CollectRowsIsGood DEF CanRecover, RowStep
    <2>3. CASE CanOrphan(i) /\ OrphanRow(i)
      BY <1>0, <2>1, <2>3, OrphanRowIsGood DEF RowStep
    <2> QED
      BY <1>2, <2>2, <2>3 DEF ReconcileRun
  <1>3. CASE EndLoop \/ \E i \in RunId : RefuseReconcile(i)
    BY <1>3 DEF EndLoop, RefuseReconcile, AbortTick, RowStep
  <1>4. CASE CommitReconcile
    BY <1>0, <1>4, ContinuesReflexive DEF CommitReconcile, RowStep, GoodStep
  <1>5. CASE Gate
    BY <1>0, <1>5, GateIsGood DEF Gate, RowStep
  <1>6. ASSUME NEW t \in Tasks, AuditTask(t)
        PROVE  RowStep
    <2>1. CASE Dispatch(t, "auditor")
      BY <1>0, <2>1, DispatchIsGood DEF Dispatch, RowStep
    <2>2. CASE RefuseDispatch(t, "auditor")
      BY <1>0, <2>2, RefuseDispatchIsGood DEF RefuseDispatch, RowStep
    <2> QED
      BY <1>6, <2>1, <2>2 DEF AuditTask
  <1>7. ASSUME NEW t \in Tasks, DispatchTask(t)
        PROVE  RowStep
    <2>1. task[t].status \notin TaskTerminal
      BY <1>7 DEF DispatchTask, Visit, Inv, Listed, TaskTerminal
    <2>2. CASE Dispatch(t, "worker")
      BY <1>0, <2>1, <2>2, DispatchIsGood DEF Dispatch, RowStep
    <2>3. CASE RefuseDispatch(t, "worker")
      BY <1>0, <2>3, RefuseDispatchIsGood DEF RefuseDispatch, RowStep
    <2> QED
      BY <1>7, <2>2, <2>3 DEF DispatchTask
  <1>8. ASSUME NEW t \in Tasks, SkipTask(t)
        PROVE  RowStep
    BY <1>0, <1>8, UnchangedRows DEF SkipTask
  <1>9. CASE RequeueBlocked
    BY <1>0, <1>9, RequeueIsGood DEF RequeueBlocked, RowStep
  <1>10. ASSUME NEW t \in Tasks, BeatActive(t)
         PROVE  RowStep
    <2>1. active[t] \in RunId
      BY <1>10 DEF BeatActive, Visit, Inv, Listed, TypeOK
    <2> QED
      BY <1>0, <1>10, <2>1, BeatIsGood, UnchangedRows DEF BeatActive, BeatRow, RowStep
  <1> QED
    BY <1>1, <1>2, <1>3, <1>4, <1>5, <1>6, <1>7, <1>8, <1>9, <1>10 DEF TickStep

LEMMA NextRows ==
  ASSUME Inv, Next
  PROVE  RowStep
  <1>0. Typed(task, run) /\ Rooted(task, run)
    BY InvRows
  <1>1. CASE TickStep
    BY <1>1, TickRows
  <1>2. CASE FailStep \/ Crash \/ \E i \in RunId : CrashInReceipt(i)
    BY <1>2 DEF FailStep, AbortTick, Crash, CrashInReceipt, Kill, RowStep
  <1>3. CASE \E i \in RunId : DriverStep(i)
    BY <1>3, DriverRows
  <1>4. CASE \E i \in RunId : Age(i)
    BY <1>0, <1>4, AgeIsGood DEF Age, RowStep
  <1>5. CASE (\E t \in Tasks : Answer(t)) \/ Shutdown \/ Exit \/ Restart
    BY <1>0, <1>5, UnchangedRows DEF Answer, Shutdown, Exit, Restart
  <1> QED
    BY <1>1, <1>2, <1>3, <1>4, <1>5 DEF Next

LEMMA HistoryKept ==
  ASSUME Inv, RowStep
  PROVE  /\ History'
         /\ Typed(task', run')
         /\ disk' \in [task: [Tasks -> TaskRecord], run: [RunId -> RunRecord]]
         /\ Continues(disk.task, disk.run, disk'.task, disk'.run)
  <1>0. /\ Typed(task, run) /\ Typed(disk.task, disk.run)
        /\ disk \in [task: [Tasks -> TaskRecord], run: [RunId -> RunRecord]]
        /\ Rooted(disk.task, disk.run)
        /\ Continues(disk.task, disk.run, task, run)
    BY DEF Inv, TypeOK, Typed, History
  <1>1. CASE GoodStep /\ disk' = disk
    BY <1>0, <1>1, ContinuesTransitive, ContinuesReflexive DEF GoodStep, History
  <1>2. CASE GoodStep /\ Commit
    <2>1. disk'.task = task' /\ disk'.run = run'
      BY <1>2 DEF Commit
    <2>2. disk' \in [task: [Tasks -> TaskRecord], run: [RunId -> RunRecord]]
      BY <1>2 DEF Commit, GoodStep, Typed
    <2>3. Continues(disk.task, disk.run, task', run')
      BY <1>0, <1>2, ContinuesTransitive DEF GoodStep
    <2> QED
      BY <1>2, <2>1, <2>2, <2>3, ContinuesReflexive DEF GoodStep, History
  <1>3. CASE Rollback
    BY <1>0, <1>3, ContinuesReflexive DEF Rollback, History
  <1> QED
    BY <1>1, <1>2, <1>3 DEF RowStep

(* The rest of the state: memory, files, the position of the tick.          *)
RestOK ==
  /\ receipt \in [RunId -> WorkerResults \union AuditResults \union {"none", "invalid"}]
  /\ scope \in SUBSET Tasks
  /\ active \in [Tasks -> RunId \union {NoRun}]
  /\ drv \in [RunId -> {"none", "queued", "turn", "closing", "done"}]
  /\ reply \in [RunId -> WorkerResults \union AuditResults \union {"none"}]
  /\ pc \in Phases
  /\ stale \in SUBSET RunId
  /\ todo \in SUBSET Tasks
  /\ aborted \in BOOLEAN
  /\ crashes \in Nat

LEMMA RestKept ==
  ASSUME Inv, Next
  PROVE  RestOK' /\ Listed'
  <1>0. RestOK /\ Listed
    BY DEF Inv, TypeOK, RestOK
  <1>1. ASSUME NEW i \in RunId, DriverStep(i)
        PROVE  RestOK' /\ Listed'
    <2>1. pc' = pc /\ pc \in Awaiting /\ UNCHANGED <<scope, active, stale, todo, aborted, crashes>>
      BY <1>1 DEF DriverStep, StartTurn, HeartbeatLoop, AnswerTurn, CollectReply, FailTurn,
                  ExceedBudget, TimeoutTurn, LoseDriver, DriverDone, DriverUnchanged
    <2>2. Listed'
      BY <2>1 DEF Listed, Awaiting
    <2>3. CASE StartTurn(i)
      BY <1>0, <2>1, <2>2, <2>3 DEF StartTurn, RestOK
    <2>6. CASE HeartbeatLoop(i)
      BY <1>0, <2>1, <2>2, <2>6 DEF HeartbeatLoop, RestOK
    <2>4. CASE \E r \in Results : AnswerTurn(i, r)
      BY <1>0, <2>1, <2>2, <2>4, ResultsType DEF AnswerTurn, RestOK
    <2>5. CASE DriverDone(i)
      BY <1>0, <2>1, <2>2, <2>5 DEF DriverDone, RestOK
    <2> QED
      BY <1>1, <2>2, <2>3, <2>4, <2>5, <2>6
         DEF DriverStep, CollectReply, FailTurn, ExceedBudget, TimeoutTurn, LoseDriver
  <1>2. ASSUME NEW i \in RunId, Age(i)
        PROVE  RestOK' /\ Listed'
    BY <1>0, <1>2 DEF Age, RestOK, Listed, memory, Awaiting
  <1>3. CASE FailStep \/ Crash \/ (\E i \in RunId : CrashInReceipt(i) \/ RefuseReconcile(i))
    <2>1. pc' \in {"sleep", "down"}
      BY <1>3 DEF FailStep, RefuseReconcile, AbortTick, Crash, CrashInReceipt, Kill, Forget
    <2>2. Listed'
      BY <2>1 DEF Listed
    <2>3. CASE FailStep \/ \E i \in RunId : RefuseReconcile(i)
      <3>1. AbortTick /\ crashes' \in {crashes, crashes + 1}
        BY <2>3 DEF FailStep, RefuseReconcile
      <3>2. crashes' \in Nat
        BY <1>0, <3>1 DEF RestOK
      <3> QED
        BY <1>0, <2>2, <3>1, <3>2 DEF AbortTick, RestOK, Phases
    <2>4. ASSUME Kill,
                 receipt' \in [RunId -> WorkerResults \union AuditResults \union {"none", "invalid"}]
          PROVE  RestOK' /\ Listed'
      <3>1. crashes' \in Nat
        BY <1>0, <2>4 DEF Kill, RestOK
      <3>2. /\ active' \in [Tasks -> RunId \union {NoRun}]
            /\ drv' \in [RunId -> {"none", "queued", "turn", "closing", "done"}]
            /\ reply' \in [RunId -> WorkerResults \union AuditResults \union {"none"}]
        BY <2>4 DEF Kill, Forget
      <3> QED
        BY <1>0, <2>2, <2>4, <3>1, <3>2 DEF Kill, Forget, RestOK, Phases
    <2>5. Crash \/ (\E i \in RunId : CrashInReceipt(i)) =>
             /\ Kill
             /\ receipt' \in [RunId -> WorkerResults \union AuditResults \union {"none", "invalid"}]
      BY <1>0 DEF Crash, CrashInReceipt, RestOK
    <2> QED
      BY <1>3, <2>3, <2>4, <2>5
  <1>4. CASE \E t \in Tasks : Answer(t)
    BY <1>0, <1>4 DEF Answer, RestOK, Listed, memory, rows
  <1>5. CASE Shutdown \/ Exit \/ Restart
    <2>1. Listed'
      BY <1>5 DEF Shutdown, Exit, Restart, Forget, Listed
    <2>2. CASE Shutdown
      BY <1>0, <2>1, <2>2 DEF Shutdown, RestOK, memory, Phases
    <2>3. CASE Exit
      BY <1>0, <2>1, <2>3 DEF Exit, Forget, RestOK, Phases
    <2>4. CASE Restart
      BY <1>0, <2>1, <2>4 DEF Restart, RestOK, memory, Phases
    <2> QED
      BY <1>5, <2>2, <2>3, <2>4
  <1>6. CASE BeginTick \/ CommitReconcile \/ EndLoop \/ RequeueBlocked \/ EndTick
    BY <1>0, <1>6 DEF BeginTick, CommitReconcile, EndLoop, RequeueBlocked, EndTick,
                      TickUnchanged, OrphanCandidates, RestOK, Listed, Phases
  <1>7. ASSUME NEW i \in RunId, ReconcileRun(i)
        PROVE  RestOK' /\ Listed'
    BY <1>0, <1>7 DEF ReconcileRun, TickUnchanged, RestOK, Listed
  <1>8. CASE Gate
    BY <1>0, <1>8, SchedulerAssumption DEF Gate, TickUnchanged, RestOK, Listed, Phases,
                                           SchedulerAssumption
  <1>9. CASE BeginAudits \/ BeginDispatch \/ BeginBeat
    BY <1>0, <1>9 DEF BeginAudits, BeginDispatch, BeginBeat, TickUnchanged, rows,
                      RestOK, Listed, Phases
  <1>10. ASSUME NEW t \in Tasks, AuditTask(t) \/ DispatchTask(t)
         PROVE  RestOK' /\ Listed'
    <2>1. PICK role \in {"worker", "auditor"} : Dispatch(t, role) \/ RefuseDispatch(t, role)
      BY <1>10 DEF AuditTask, DispatchTask
    <2>2. /\ UNCHANGED <<scope, pc, stale, aborted, receipt, reply, crashes>>
          /\ todo' = todo \ {t} /\ pc \in {"audit", "dispatch"}
      BY <1>10 DEF AuditTask, DispatchTask, Visit
    <2>3. RestOK'
      BY <1>0, <2>1, <2>2 DEF Dispatch, RefuseDispatch, RestOK
    <2>4. pc = "dispatch" => role = "worker" \/ task' = task
      BY <2>1 DEF Dispatch, RefuseDispatch
    <2>5. \A u \in Tasks : u # t => task'[u] = task[u]
      BY <2>1, InvRows DEF Dispatch, RefuseDispatch, Typed
    <2> QED
      BY <1>0, <2>2, <2>3, <2>5 DEF Listed, RestOK
  <1>11. ASSUME NEW t \in Tasks, SkipTask(t)
         PROVE  RestOK' /\ Listed'
    BY <1>0, <1>11 DEF SkipTask, Visit, TickUnchanged, rows, RestOK, Listed
  <1>12. ASSUME NEW t \in Tasks, BeatActive(t)
         PROVE  RestOK' /\ Listed'
    BY <1>0, <1>12 DEF BeatActive, Visit, TickUnchanged, RestOK, Listed
  <1> QED
    BY <1>1, <1>2, <1>3, <1>4, <1>5, <1>6, <1>7, <1>8, <1>9, <1>10, <1>11, <1>12
       DEF Next, TickStep

LEMMA InitInv == Init => Inv
  <1> SUFFICES ASSUME Init PROVE Inv
    OBVIOUS
  <1>1. BlankRun \in RunRecord
    BY DEF BlankRun, RunRecord, RunStatus
  <1>2. Typed(task, run)
    BY <1>1 DEF Init, Typed, TaskRecord, TaskStatus
  <1>3. disk.task = task /\ disk.run = run
    BY DEF Init
  <1>4. disk \in [task: [Tasks -> TaskRecord], run: [RunId -> RunRecord]]
    BY <1>2 DEF Init, Typed
  <1>5. RestOK
    BY DEF Init, RestOK, Phases
  <1>6. TypeOK
    BY <1>2, <1>4, <1>5 DEF TypeOK, RestOK, Typed
  <1>7. \A t \in Tasks : task[t].cur = NoRun /\ task[t].status = "READY"
    BY DEF Init
  <1>8. \A i \in RunId : run[i].subject = NoRun /\ run[i].result = "none"
    BY DEF Init, BlankRun
  <1>9. Rooted(task, run)
    BY <1>7, <1>8 DEF Rooted
  <1>10. History
    BY <1>3, <1>9, ContinuesReflexive DEF History
  <1>11. Listed
    BY DEF Init, Listed
  <1> QED
    BY <1>6, <1>10, <1>11 DEF Inv

LEMMA NextInv == Inv /\ [Next]_vars => Inv'
  <1> SUFFICES ASSUME Inv, [Next]_vars PROVE Inv'
    OBVIOUS
  <1>1. CASE Next
    <2>1. /\ History' /\ Typed(task', run')
          /\ disk' \in [task: [Tasks -> TaskRecord], run: [RunId -> RunRecord]]
      BY <1>1, NextRows, HistoryKept
    <2>2. RestOK' /\ Listed'
      BY <1>1, RestKept
    <2>3. TypeOK'
      BY <2>1, <2>2 DEF TypeOK, RestOK, Typed
    <2> QED
      BY <2>1, <2>2, <2>3 DEF Inv
  <1>2. CASE UNCHANGED vars
    BY <1>2 DEF vars, Inv, TypeOK, History, Listed
  <1> QED
    BY <1>1, <1>2

(* The invariant is inductive. *)
THEOREM Invariance == Spec => []Inv
  BY InitInv, NextInv, PTL DEF Spec

-----------------------------------------------------------------------------
(* The results.                                                            *)

(* Every variable keeps its type, for any constants. *)
THEOREM TypeCorrect == Spec => []TypeOK
  <1>1. Inv => TypeOK
    BY DEF Inv
  <1> QED
    BY <1>1, Invariance, PTL

(* Only the audit gate completes a task (apply_audit_result): whichever       *)
(* driver, recovery or error path comes first, and whatever is killed, a       *)
(* COMPLETED task has an accepted audit of a fully passed submission of its own. *)
THEOREM OnlyAuditedComplete == Spec => []CompletedWasAudited
  <1>1. Inv => CompletedWasAudited
    BY DEF Inv, History, Rooted, CompletedWasAudited
  <1> QED
    BY <1>1, Invariance, PTL

(* No commit and no rollback rewrites a committed terminal state.             *)
THEOREM HistoryStays == Spec => TerminalStays
  <1> DEFINE Stays ==
        /\ \A t \in Tasks : disk.task[t].status \in TaskTerminal => disk'.task[t] = disk.task[t]
        /\ \A i \in RunId : disk.run[i].status \in RunTerminal =>
              /\ disk'.run[i].status = disk.run[i].status
              /\ disk'.run[i].result = disk.run[i].result
  <1>1. Inv /\ [Next]_vars => [Stays]_vars
    <2> SUFFICES ASSUME Inv, Next PROVE Stays
      OBVIOUS
    <2>1. Continues(disk.task, disk.run, disk'.task, disk'.run)
      BY NextRows, HistoryKept
    <2> QED
      BY <2>1 DEF Continues
  <1>2. [][Inv /\ [Next]_vars]_vars => [][Stays]_vars
    BY <1>1, PTL
  <1> QED
    BY <1>1, Invariance, PTL DEF Spec, TerminalStays

-----------------------------------------------------------------------------
(* Runs and tasks in step.  As long as a tick that is not aborted takes less   *)
(* than the 300 seconds of a lease ("slow" is not among the faults), the rows   *)
(* also say who works on what.                                                 *)

(* A RUNNING run i holds its lease, and its task waits for it: a worker run is  *)
(* the current run of a task that is RUNNING, an audit looks at the current run *)
(* of a task in REVIEW.  A lease expires only together with the heartbeat.      *)
Awaited(tk, rn, i) ==
  /\ rn[i].lease \in {"live", "expired"}
  /\ rn[i].lease = "expired" => rn[i].hb # "fresh"
  /\ rn[i].role = "worker" => tk[rn[i].task].status = "RUNNING" /\ tk[rn[i].task].cur = i
  /\ rn[i].role = "auditor" =>
        tk[rn[i].task].status = "REVIEW" /\ tk[rn[i].task].cur = rn[i].subject

(* An audit that succeeded is the only one of its submission, and the task has  *)
(* left REVIEW with it for good.                                               *)
Decided(tk, rn, i) ==
  /\ rn[i].subject # NoRun
  /\ tk[rn[i].task].cur = rn[i].subject => tk[rn[i].task].status \notin {"RUNNING", "REVIEW"}

Running(rn, i) == rn[i].status = "RUNNING"
Verdict(rn, i) == rn[i].status = "SUCCEEDED" /\ rn[i].role = "auditor"

OneAudit(rn) ==
  \A i, j \in RunId :
     /\ Running(rn, i) /\ rn[i].role = "auditor"
     /\ Running(rn, j) /\ rn[j].role = "auditor"
     /\ rn[i].task = rn[j].task
     => i = j

OneVerdictIn(rn) ==
  \A i, j \in RunId :
     Verdict(rn, i) /\ Verdict(rn, j) /\ rn[i].subject = rn[j].subject => i = j

Coupled(tk, rn) ==
  /\ \A i \in RunId : rn[i].status # "NONE" => rn[i].task \in Tasks
  /\ \A t \in Tasks : tk[t].status = "RUNNING" => tk[t].cur # NoRun /\ Running(rn, tk[t].cur)
  /\ \A i \in RunId : Running(rn, i) => Awaited(tk, rn, i)
  /\ OneAudit(rn)
  /\ \A i \in RunId : Verdict(rn, i) => Decided(tk, rn, i)
  /\ OneVerdictIn(rn)

LEMMA CurIsRun ==
  ASSUME Typed(task, run) PROVE \A t \in Tasks : task[t].cur # NoRun => task[t].cur \in RunId
  BY DEF Typed, TaskRecord

(* Heartbeats, ages, and tasks that move between READY and BLOCKED keep it.     *)
LEMMA AttendsIsCoupled ==
  ASSUME Typed(task, run), Coupled(task, run),
         \A i \in RunId :
            /\ run'[i].task = run[i].task /\ run'[i].role = run[i].role
            /\ run'[i].status = run[i].status /\ run'[i].subject = run[i].subject
            /\ Running(run, i) => /\ run'[i].lease \in {"live", "expired"}
                                  /\ run'[i].lease = "expired" => run'[i].hb # "fresh",
         \A t \in Tasks :
            /\ task'[t].cur = task[t].cur
            /\ \/ task'[t].status = task[t].status
               \/ task[t].status \in {"READY", "BLOCKED"} /\ task'[t].status \in {"READY", "BLOCKED"}
  PROVE  Coupled(task', run')
  <1>1. \A i \in RunId : /\ Running(run', i) <=> Running(run, i)
                         /\ Verdict(run', i) <=> Verdict(run, i)
    BY DEF Running, Verdict
  <1>2. \A i \in RunId : run'[i].status # "NONE" => run'[i].task \in Tasks
    BY DEF Coupled
  <1>3. \A t \in Tasks : task'[t].status = "RUNNING" =>
           task'[t].cur # NoRun /\ Running(run', task'[t].cur)
    BY <1>1, CurIsRun DEF Coupled
  <1>4. ASSUME NEW i \in RunId, Running(run', i)
        PROVE  Awaited(task', run', i)
    <2>1. Running(run, i) /\ Awaited(task, run, i) /\ run[i].task \in Tasks
      BY <1>1, <1>4 DEF Coupled, Running
    <2> QED
      BY <2>1 DEF Awaited
  <1>5. ASSUME NEW i \in RunId, Verdict(run', i)
        PROVE  Decided(task', run', i)
    <2>1. Verdict(run, i) /\ Decided(task, run, i) /\ run[i].task \in Tasks
      BY <1>1, <1>5 DEF Coupled, Verdict
    <2> QED
      BY <2>1 DEF Decided
  <1>6. OneAudit(run') /\ OneVerdictIn(run')
    BY <1>1 DEF Coupled, OneAudit, OneVerdictIn
  <1> QED
    BY <1>2, <1>3, <1>4, <1>5, <1>6 DEF Coupled

(* A RUNNING run i ends without a verdict; the task of a worker run leaves      *)
(* RUNNING, and does not enter REVIEW.                                         *)
LEMMA EndsIsCoupled ==
  ASSUME Typed(task, run), Rooted(task, run), Coupled(task, run),
         NEW i \in RunId, Running(run, i),
         \A j \in RunId : j # i => run'[j] = run[j],
         run'[i].task = run[i].task, run'[i].status \in RunTerminal \ {"SUCCEEDED"},
         \A t \in Tasks : t # run[i].task \/ run[i].role # "worker" => task'[t] = task[t],
         run[i].role = "worker" =>
            /\ task'[run[i].task].cur = task[run[i].task].cur
            /\ task'[run[i].task].status \notin {"RUNNING", "REVIEW"}
  PROVE  Coupled(task', run')
  <1>0. /\ Awaited(task, run, i) /\ run[i].task \in Tasks
        /\ run[i].role \in {"worker", "auditor"}
    BY DEF Coupled, Running, Typed, RunRecord
  <1>1. /\ \A j \in RunId : Running(run', j) => j # i /\ Running(run, j)
        /\ \A j \in RunId : Verdict(run', j) => j # i /\ Verdict(run, j)
    BY DEF Running, Verdict, RunTerminal
  <1>2. \A j \in RunId : run'[j].status # "NONE" => run'[j].task \in Tasks
    BY <1>0 DEF Coupled
  <1>3. ASSUME NEW t \in Tasks, task'[t].status = "RUNNING"
        PROVE  task'[t].cur # NoRun /\ Running(run', task'[t].cur)
    <2>1. task'[t] = task[t]
      BY <1>3
    <2>2. task[t].cur # NoRun /\ task[t].cur \in RunId /\ Running(run, task[t].cur)
      BY <1>3, <2>1, CurIsRun DEF Coupled
    <2>3. task[t].cur # i
      <3>1. SUFFICES ASSUME task[t].cur = i PROVE FALSE
        OBVIOUS
      <3>2. run[i].task = t /\ run[i].role = "worker"
        BY <2>2, <3>1 DEF Rooted
      <3> QED
        BY <3>2, <1>3
    <2> QED
      BY <2>1, <2>2, <2>3 DEF Running
  <1>4. ASSUME NEW j \in RunId, Running(run', j)
        PROVE  Awaited(task', run', j)
    <2>1. j # i /\ Running(run, j) /\ Awaited(task, run, j) /\ run'[j] = run[j]
      BY <1>1, <1>4 DEF Coupled
    <2>2. run[j].task \in Tasks /\ run[j].role \in {"worker", "auditor"}
      BY <2>1 DEF Coupled, Running, Typed, RunRecord
    <2>3. run[i].role = "worker" => run[j].task # run[i].task
      BY <1>0, <2>1, <2>2 DEF Awaited
    <2>4. task'[run[j].task] = task[run[j].task]
      BY <2>2, <2>3
    <2> QED
      BY <2>1, <2>4 DEF Awaited
  <1>5. ASSUME NEW j \in RunId, Verdict(run', j)
        PROVE  Decided(task', run', j)
    <2>1. j # i /\ Verdict(run, j) /\ Decided(task, run, j) /\ run'[j] = run[j]
      BY <1>1, <1>5 DEF Coupled
    <2>2. run[j].task \in Tasks
      BY <2>1 DEF Coupled, Verdict
    <2> QED
      BY <2>1, <2>2 DEF Decided
  <1>6. OneAudit(run') /\ OneVerdictIn(run')
    BY <1>1 DEF Coupled, OneAudit, OneVerdictIn
  <1> QED
    BY <1>2, <1>3, <1>4, <1>5, <1>6 DEF Coupled

(* A RUNNING run i ends with a result: a worker run's task leaves RUNNING, and   *)
(* an audit's leaves REVIEW.                                                   *)
LEMMA CollectsIsCoupled ==
  ASSUME Typed(task, run), Rooted(task, run), Coupled(task, run),
         NEW i \in RunId, Running(run, i),
         \A j \in RunId : j # i => run'[j] = run[j],
         run'[i].task = run[i].task, run'[i].role = run[i].role,
         run'[i].subject = run[i].subject, run'[i].status = "SUCCEEDED",
         \A t \in Tasks : t # run[i].task => task'[t] = task[t],
         task'[run[i].task].cur = task[run[i].task].cur,
         task'[run[i].task].status # "RUNNING",
         run[i].role = "auditor" =>
            run[i].subject # NoRun /\ task'[run[i].task].status # "REVIEW"
  PROVE  Coupled(task', run')
  <1>0. /\ Awaited(task, run, i) /\ run[i].task \in Tasks
        /\ run[i].role \in {"worker", "auditor"}
    BY DEF Coupled, Running, Typed, RunRecord
  <1>1. /\ \A j \in RunId : Running(run', j) => j # i /\ Running(run, j)
        /\ \A j \in RunId : Verdict(run', j) /\ j # i => Verdict(run, j)
    BY DEF Running, Verdict
  <1>2. \A j \in RunId : run'[j].status # "NONE" => run'[j].task \in Tasks
    BY <1>0 DEF Coupled
  <1>3. ASSUME NEW t \in Tasks, task'[t].status = "RUNNING"
        PROVE  task'[t].cur # NoRun /\ Running(run', task'[t].cur)
    <2>1. task'[t] = task[t] /\ t # run[i].task
      BY <1>3
    <2>2. task[t].cur # NoRun /\ task[t].cur \in RunId /\ Running(run, task[t].cur)
      BY <1>3, <2>1, CurIsRun DEF Coupled
    <2>3. task[t].cur # i
      BY <2>1, <2>2 DEF Rooted
    <2> QED
      BY <2>1, <2>2, <2>3 DEF Running
  <1>4. ASSUME NEW j \in RunId, Running(run', j)
        PROVE  Awaited(task', run', j)
    <2>1. j # i /\ Running(run, j) /\ Awaited(task, run, j) /\ run'[j] = run[j]
      BY <1>1, <1>4 DEF Coupled
    <2>2. run[j].task \in Tasks /\ run[j].role \in {"worker", "auditor"}
      BY <2>1 DEF Coupled, Running, Typed, RunRecord
    <2>3. run[j].task # run[i].task
      <3>1. run[i].role = "auditor" /\ run[j].role = "auditor" => run[j].task # run[i].task
        BY <2>1 DEF Coupled, OneAudit
      <3> QED
        BY <1>0, <2>1, <2>2, <3>1 DEF Awaited
    <2> QED
      BY <2>1, <2>2, <2>3 DEF Awaited
  <1>5. ASSUME NEW j \in RunId, Verdict(run', j)
        PROVE  Decided(task', run', j)
    <2>1. CASE j = i
      BY <1>0, <1>5, <2>1 DEF Decided, Verdict
    <2>2. CASE j # i
      <3>1. Verdict(run, j) /\ Decided(task, run, j) /\ run'[j] = run[j] /\ run[j].task \in Tasks
        BY <1>1, <1>5, <2>2 DEF Coupled, Verdict
      <3>2. CASE run[j].task # run[i].task
        BY <3>1, <3>2 DEF Decided
      <3>3. CASE run[j].task = run[i].task
        <4>1. task[run[i].task].status \in {"RUNNING", "REVIEW"}
          BY <1>0 DEF Awaited
        <4>2. task[run[i].task].cur # run[j].subject
          BY <3>1, <3>3, <4>1 DEF Decided
        <4> QED
          BY <3>1, <3>3, <4>2 DEF Decided
      <3> QED
        BY <3>2, <3>3
    <2> QED
      BY <2>1, <2>2
  <1>6. OneAudit(run')
    BY <1>1 DEF Coupled, OneAudit
  <1>7. ASSUME NEW j \in RunId, Verdict(run, j), j # i, run[i].role = "auditor"
        PROVE  run[j].subject # run[i].subject
    <2>1. Decided(task, run, j) /\ run[j].subject # NoRun
      BY <1>7 DEF Coupled, Decided
    <2> SUFFICES ASSUME run[j].subject = run[i].subject PROVE FALSE
      OBVIOUS
    <2>2. run[j].task = run[i].task
      BY <2>1 DEF Rooted
    <2> QED
      BY <1>0, <1>7, <2>1, <2>2 DEF Awaited, Decided
  <1>8. OneVerdictIn(run')
    <2> SUFFICES ASSUME NEW j \in RunId, NEW k \in RunId, Verdict(run', j), Verdict(run', k),
                        run'[j].subject = run'[k].subject
                 PROVE  j = k
      BY DEF OneVerdictIn
    <2>1. CASE j # i /\ k # i
      BY <1>1, <2>1 DEF Coupled, OneVerdictIn
    <2>2. CASE j = i /\ k # i
      BY <1>1, <1>7, <2>2 DEF Verdict
    <2>3. CASE j # i /\ k = i
      BY <1>1, <1>7, <2>3 DEF Verdict
    <2> QED
      BY <2>1, <2>2, <2>3
  <1> QED
    BY <1>2, <1>3, <1>4, <1>5, <1>6, <1>8 DEF Coupled

(* Row i becomes a run of task t: STARTING, or RUNNING with a lease and the      *)
(* task to itself.                                                             *)
LEMMA BeginsIsCoupled ==
  ASSUME Typed(task, run), Rooted(task, run), Coupled(task, run),
         NEW i \in RunId, NEW t \in Tasks,
         run[i].status = "NONE", \A j \in RunId : j # i => run'[j] = run[j],
         run'[i].task = t,
         \A u \in Tasks : u # t => task'[u] = task[u],
         \/ run'[i].status = "STARTING" /\ task'[t] = task[t]
         \/ /\ run'[i].status = "RUNNING" /\ run'[i].role = "worker" /\ run'[i].lease = "live"
            /\ task[t].status = "READY" /\ task'[t].status = "RUNNING" /\ task'[t].cur = i
         \/ /\ run'[i].status = "RUNNING" /\ run'[i].role = "auditor" /\ run'[i].lease = "live"
            /\ run'[i].subject = task[t].cur /\ task[t].status = "REVIEW" /\ task'[t] = task[t]
            /\ \A j \in RunId : run[j].task = t /\ run[j].role = "auditor" => ~ Running(run, j)
  PROVE  Coupled(task', run')
  <1>1. \A u \in Tasks : task[u].cur # NoRun => task[u].cur \in RunId \ {i}
    BY CurIsRun DEF Rooted
  <1>2. \A j \in RunId : run[j].subject # NoRun => run[j].subject # i
    BY DEF Rooted
  <1>3. /\ \A j \in RunId : Running(run', j) /\ j # i => Running(run, j)
        /\ \A j \in RunId : Verdict(run', j) => j # i /\ Verdict(run, j)
        /\ ~ Running(run, i)
    BY DEF Running, Verdict
  <1>4. \A j \in RunId : run'[j].status # "NONE" => run'[j].task \in Tasks
    BY DEF Coupled
  <1>5. ASSUME NEW u \in Tasks, task'[u].status = "RUNNING"
        PROVE  task'[u].cur # NoRun /\ Running(run', task'[u].cur)
    <2>1. CASE task'[u] = task[u]
      BY <1>1, <1>5, <2>1 DEF Coupled, Running
    <2>2. CASE task'[u] # task[u]
      BY <2>2, RunIds DEF Running
    <2> QED
      BY <2>1, <2>2
  <1>6. ASSUME NEW j \in RunId, Running(run', j)
        PROVE  Awaited(task', run', j)
    <2>1. CASE j = i
      BY <1>6, <2>1 DEF Awaited, Running
    <2>2. CASE j # i
      <3>1. Running(run, j) /\ Awaited(task, run, j) /\ run'[j] = run[j]
        BY <1>3, <1>6, <2>2 DEF Coupled
      <3>2. run[j].task \in Tasks /\ run[j].role \in {"worker", "auditor"}
        BY <3>1 DEF Coupled, Running, Typed, RunRecord
      <3>3. task'[run[j].task] = task[run[j].task]
        BY <3>1, <3>2 DEF Awaited
      <3> QED
        BY <3>1, <3>3 DEF Awaited
    <2> QED
      BY <2>1, <2>2
  <1>7. ASSUME NEW j \in RunId, Verdict(run', j)
        PROVE  Decided(task', run', j)
    <2>1. j # i /\ Verdict(run, j) /\ Decided(task, run, j) /\ run'[j] = run[j]
      BY <1>3, <1>7 DEF Coupled
    <2>2. run[j].task \in Tasks /\ run[j].subject # i
      BY <1>2, <2>1 DEF Coupled, Verdict, Decided
    <2>3. CASE run[j].task # t
      BY <2>1, <2>2, <2>3 DEF Decided
    <2>4. CASE run[j].task = t
      BY <2>1, <2>2, <2>4 DEF Decided
    <2> QED
      BY <2>3, <2>4
  <1>8. OneAudit(run')
    <2> SUFFICES ASSUME NEW j \in RunId, NEW k \in RunId, Running(run', j), Running(run', k),
                        run'[j].role = "auditor", run'[k].role = "auditor",
                        run'[j].task = run'[k].task
                 PROVE  j = k
      BY DEF OneAudit
    <2>1. CASE j # i /\ k # i
      BY <1>3, <2>1 DEF Coupled, OneAudit
    <2>2. CASE j = i /\ k # i
      BY <1>3, <2>2 DEF Running
    <2>3. CASE j # i /\ k = i
      BY <1>3, <2>3 DEF Running
    <2> QED
      BY <2>1, <2>2, <2>3
  <1>9. OneVerdictIn(run')
    BY <1>3 DEF Coupled, OneVerdictIn
  <1> QED
    BY <1>4, <1>5, <1>6, <1>7, <1>8, <1>9 DEF Coupled

(* A run that was dispatched: its row is past STARTING. *)
Begun(rn, i) == rn[i].status \notin {"NONE", "STARTING"}

(* What an operation on the rows does to them. *)
CoupledStep ==
  /\ Coupled(task', run')
  /\ \A j \in RunId : Begun(run, j) => Begun(run', j)

LEMMA BeatIsCoupled ==
  ASSUME Typed(task, run), Coupled(task, run), NEW i \in RunId, BeatRow(i)
  PROVE  CoupledStep
  <1>1. task' = task /\ run' = [run EXCEPT ![i].hb = "fresh", ![i].lease = Renewed(run[i].lease)]
    BY DEF BeatRow
  <1>2. \A j \in RunId :
           /\ run'[j].task = run[j].task /\ run'[j].role = run[j].role
           /\ run'[j].status = run[j].status /\ run'[j].subject = run[j].subject
           /\ j # i => run'[j] = run[j]
    BY <1>1 DEF Typed, RunRecord
  <1>3. run'[i].lease = Renewed(run[i].lease)
    BY <1>1 DEF Typed, RunRecord
  <1>4. ASSUME NEW j \in RunId, Running(run, j)
        PROVE  /\ run'[j].lease \in {"live", "expired"}
               /\ run'[j].lease = "expired" => run'[j].hb # "fresh"
    <2>1. /\ run[j].lease \in {"live", "expired"}
          /\ run[j].lease = "expired" => run[j].hb # "fresh"
      BY <1>4 DEF Coupled, Awaited
    <2> QED
      BY <1>2, <1>3, <2>1 DEF Renewed
  <1>5. Coupled(task', run')
    BY <1>1, <1>2, <1>4, AttendsIsCoupled
  <1> QED
    BY <1>2, <1>5 DEF CoupledStep, Begun

LEMMA AgeIsCoupled ==
  ASSUME Typed(task, run), Coupled(task, run), NEW i \in RunId, Age(i)
  PROVE  CoupledStep
  <1>1. /\ task' = task
        /\ run' = [run EXCEPT ![i].hb = IF run[i].hb = "fresh" THEN "stale" ELSE run[i].hb,
                              ![i].lease = IF run[i].lease = "live" THEN "expired" ELSE run[i].lease]
    BY DEF Age
  <1>2. \A j \in RunId :
           /\ run'[j].task = run[j].task /\ run'[j].role = run[j].role
           /\ run'[j].status = run[j].status /\ run'[j].subject = run[j].subject
           /\ j # i => run'[j] = run[j]
    BY <1>1 DEF Typed, RunRecord
  <1>3. /\ run'[i].hb # "fresh"
        /\ run[i].lease \in {"live", "expired"} => run'[i].lease = "expired"
    BY <1>1 DEF Typed, RunRecord
  <1>4. ASSUME NEW j \in RunId, Running(run, j)
        PROVE  /\ run'[j].lease \in {"live", "expired"}
               /\ run'[j].lease = "expired" => run'[j].hb # "fresh"
    <2>1. /\ run[j].lease \in {"live", "expired"}
          /\ run[j].lease = "expired" => run[j].hb # "fresh"
      BY <1>4 DEF Coupled, Awaited
    <2> QED
      BY <1>2, <1>3, <2>1
  <1>5. Coupled(task', run')
    BY <1>1, <1>2, <1>4, AttendsIsCoupled
  <1> QED
    BY <1>2, <1>5 DEF CoupledStep, Begun

(* Gate and RequeueBlocked move tasks between READY and BLOCKED, no run. *)
LEMMA HoldsIsCoupled ==
  ASSUME Typed(task, run), Coupled(task, run), Gate \/ RequeueBlocked
  PROVE  CoupledStep
  <1>1. run' = run
    BY DEF Gate, RequeueBlocked
  <1>2. ASSUME NEW t \in Tasks
        PROVE  /\ task'[t].cur = task[t].cur
               /\ \/ task'[t].status = task[t].status
                  \/ task[t].status \in {"READY", "BLOCKED"} /\ task'[t].status \in {"READY", "BLOCKED"}
    <2>0. task[t] \in TaskRecord
      BY DEF Typed
    <2>1. CASE Gate
      <3>1. task'[t] = AfterGate(t, scope')
        BY <2>1 DEF Gate
      <3> QED
        BY <2>0, <3>1 DEF AfterGate, TaskRecord
    <2>2. CASE RequeueBlocked
      <3>1. task'[t] = IF Unblockable(t) THEN [task[t] EXCEPT !.status = "READY"] ELSE task[t]
        BY <2>2 DEF RequeueBlocked
      <3> QED
        BY <2>0, <3>1 DEF Unblockable, TaskRecord
    <2> QED
      BY <2>1, <2>2
  <1>3. \A j \in RunId : Running(run, j) =>
           /\ run'[j].lease \in {"live", "expired"}
           /\ run'[j].lease = "expired" => run'[j].hb # "fresh"
    BY <1>1 DEF Coupled, Awaited
  <1>4. Coupled(task', run')
    BY <1>1, <1>2, <1>3, AttendsIsCoupled
  <1> QED
    BY <1>1, <1>4 DEF CoupledStep, Begun

(* The end of a RUNNING run, by an error, an interrupt or as an orphan. *)
LEMMA EndingIsCoupled ==
  ASSUME Typed(task, run), Rooted(task, run), Coupled(task, run),
         NEW i \in RunId, Running(run, i),
         NEW s \in RunTerminal \ {"SUCCEEDED"}, NEW ts \in {"READY", "FAILED"},
         NEW l \in {"none", "live", "expired", "released"},
         run' = [run EXCEPT ![i].status = s, ![i].lease = l],
         task' = IF TaskOf(i).status = "RUNNING"
                 THEN [task EXCEPT ![run[i].task].status = ts]
                 ELSE task
  PROVE  CoupledStep
  <1>0. task \in [Tasks -> TaskRecord] /\ run \in [RunId -> RunRecord] /\ run[i].task \in Tasks
    BY DEF Typed, Coupled, Running
  <1>1. /\ \A j \in RunId : j # i => run'[j] = run[j]
        /\ run'[i].task = run[i].task /\ run'[i].status = s
    BY <1>0 DEF RunRecord
  <1>2. /\ run[i].role = "worker" => TaskOf(i).status = "RUNNING"
        /\ run[i].role = "auditor" => TaskOf(i).status = "REVIEW"
        /\ run[i].role \in {"worker", "auditor"}
    BY <1>0 DEF Coupled, Awaited, TaskOf, RunRecord
  <1>3. \A t \in Tasks : t # run[i].task \/ run[i].role # "worker" => task'[t] = task[t]
    BY <1>0, <1>2
  <1>4. run[i].role = "worker" =>
           /\ task'[run[i].task].cur = task[run[i].task].cur
           /\ task'[run[i].task].status \notin {"RUNNING", "REVIEW"}
    BY <1>0, <1>2 DEF TaskRecord
  <1>5. Coupled(task', run')
    BY <1>1, <1>3, <1>4, EndsIsCoupled
  <1> QED
    BY <1>1, <1>5 DEF CoupledStep, Begun, RunTerminal

LEMMA OrphanRowIsCoupled ==
  ASSUME Typed(task, run), Rooted(task, run), Coupled(task, run),
         NEW i \in RunId, CanOrphan(i), OrphanRow(i)
  PROVE  CoupledStep /\ Running(run, i)
  <1>1. Running(run, i)
    BY OrphansOnlyRunning DEF CanOrphan, Typed, RunRecord, Running
  <1>2. run' = [run EXCEPT ![i].status = "ORPHANED", ![i].lease = run[i].lease]
    BY DEF OrphanRow, Typed, RunRecord
  <1>3. "ORPHANED" \in RunTerminal \ {"SUCCEEDED"}
    BY DEF RunTerminal
  <1>4. run[i].lease \in {"none", "live", "expired", "released"}
    BY DEF Typed, RunRecord
  <1> QED
    BY <1>1, <1>2, <1>3, <1>4, EndingIsCoupled DEF OrphanRow

LEMMA CollectRowsIsCoupled ==
  ASSUME Typed(task, run), Rooted(task, run), Coupled(task, run),
         NEW i \in RunId, NEW r, CanCollect(i, r), CollectRows(i, r)
  PROVE  CoupledStep /\ Running(run, i)
  <1>0. task \in [Tasks -> TaskRecord] /\ run \in [RunId -> RunRecord]
    BY DEF Typed
  <1>1. Running(run, i)
    BY SucceedsOnlyRunning DEF CanCollect, Typed, RunRecord, Running
  <1>2. run[i].task \in Tasks /\ run[i].role \in {"worker", "auditor"}
    BY <1>0, <1>1 DEF Coupled, Running, RunRecord
  <1>3. /\ \A j \in RunId : j # i => run'[j] = run[j]
        /\ run'[i].task = run[i].task /\ run'[i].role = run[i].role
        /\ run'[i].subject = run[i].subject /\ run'[i].status = "SUCCEEDED"
    BY <1>0 DEF CollectRows, RunRecord
  <1>4. /\ \A t \in Tasks : t # run[i].task => task'[t] = task[t]
        /\ task'[run[i].task].cur = task[run[i].task].cur
        /\ task'[run[i].task].status = Target(i, r)
    BY <1>0, <1>2 DEF CollectRows, TaskRecord
  <1>5. /\ Target(i, r) # "RUNNING"
        /\ run[i].role = "auditor" => run[i].subject # NoRun /\ Target(i, r) # "REVIEW"
    BY DEF Target, WorkTarget, AuditTarget, CanCollect, CanCollectAudit
  <1>6. Coupled(task', run')
    BY <1>1, <1>3, <1>4, <1>5, CollectsIsCoupled
  <1> QED
    BY <1>1, <1>3, <1>6 DEF CoupledStep, Begun

LEMMA RefuseDispatchIsCoupled ==
  ASSUME Typed(task, run), Rooted(task, run), Coupled(task, run), NEW t \in Tasks,
         NEW role \in {"worker", "auditor"}, RefuseDispatch(t, role)
  PROVE  CoupledStep
  <1>1. CASE run' = run
    BY <1>1 DEF RefuseDispatch, CoupledStep
  <1>2. CASE run' # run
    <2>1. PICK i \in RunId : NewRun(i) /\ run' = [run EXCEPT ![i] = RunRow(t, role, "STARTING", "none")]
      BY <1>2 DEF RefuseDispatch
    <2>2. run[i].status = "NONE" /\ task' = task
      BY <2>1 DEF NewRun, Unused, RefuseDispatch
    <2>3. /\ run'[i].task = t /\ run'[i].status = "STARTING"
          /\ \A j \in RunId : j # i => run'[j] = run[j]
      BY <2>1, RunRowTyped DEF Typed
    <2>4. Coupled(task', run')
      BY <2>2, <2>3, BeginsIsCoupled
    <2> QED
      BY <2>2, <2>3, <2>4 DEF CoupledStep, Begun
  <1> QED
    BY <1>1, <1>2

(* A dispatch: of a worker to a READY task, or of an audit to a task in REVIEW   *)
(* whose RUNNING audit, if it had one, would hold a live lease.                  *)
LEMMA DispatchIsCoupled ==
  ASSUME Typed(task, run), Rooted(task, run), Coupled(task, run), NEW t \in Tasks,
         NEW role \in {"worker", "auditor"}, Dispatch(t, role),
         role = "worker" => task[t].status = "READY",
         role = "auditor" =>
            /\ task[t].status = "REVIEW"
            /\ \A i \in RunId : Running(run, i) => run[i].lease = "live"
  PROVE  CoupledStep
  <1>1. PICK i \in RunId :
          /\ NewRun(i)
          /\ run' = [run EXCEPT ![i] = RunRow(t, role, "RUNNING", "live")]
          /\ task' = IF role = "worker"
                     THEN [task EXCEPT ![t].status = "RUNNING", ![t].cur = i]
                     ELSE task
    BY DEF Dispatch
  <1>2. run[i].status = "NONE"
    BY <1>1 DEF NewRun, Unused
  <1>3. run'[i] = RunRow(t, role, "RUNNING", "live") /\ \A j \in RunId : j # i => run'[j] = run[j]
    BY <1>1 DEF Typed
  <1>4. /\ run'[i].task = t /\ run'[i].status = "RUNNING" /\ run'[i].role = role
        /\ run'[i].lease = "live"
        /\ role = "auditor" => run'[i].subject = task[t].cur
    BY <1>3 DEF RunRow
  <1>5. /\ \A u \in Tasks : u # t => task'[u] = task[u]
        /\ role = "worker" => task'[t].status = "RUNNING" /\ task'[t].cur = i
        /\ role = "auditor" => task' = task
    BY <1>1 DEF Typed, TaskRecord
  <1>6. ASSUME role = "auditor"
        PROVE  \A j \in RunId : run[j].task = t /\ run[j].role = "auditor" => ~ Running(run, j)
    BY <1>6 DEF Dispatch, LeaseFree, Rows
  <1>7. CASE role = "worker"
    <2>1. Coupled(task', run')
      BY <1>2, <1>3, <1>4, <1>5, <1>7, BeginsIsCoupled
    <2> QED
      BY <1>2, <1>3, <2>1 DEF CoupledStep, Begun
  <1>8. CASE role = "auditor"
    <2>1. Coupled(task', run')
      BY <1>2, <1>3, <1>4, <1>5, <1>6, <1>8, BeginsIsCoupled
    <2> QED
      BY <1>2, <1>3, <2>1 DEF CoupledStep, Begun
  <1> QED
    BY <1>7, <1>8

(* The steps of the tick after its reconciliation. *)
Working == {"gate", "plan", "audit", "unblock", "deliver", "dispatch", "yield", "beat"}

(* Nothing is uncommitted but STARTING rows of dispatches that were refused. *)
Flushed ==
  /\ task = disk.task
  /\ \A i \in RunId :
        \/ run[i] = disk.run[i]
        \/ disk.run[i].status = "NONE" /\ run[i].status = "STARTING"

(* The invariant of ticks that take less than 300 seconds.  A lease can only    *)
(* have expired between two ticks; the reconciliation, which takes a run whose   *)
(* heartbeat went stale with its lease, leaves none that expired, so that a live *)
(* lease and the REVIEW of the task keep a second audit away.                    *)
Timely ==
  /\ Coupled(task, run) /\ Coupled(disk.task, disk.run)
  /\ pc \in Working => \A i \in RunId : Running(run, i) => run[i].lease = "live"
  /\ pc = "reconcile" =>
        \A i \in RunId : Running(run, i) /\ run[i].lease = "expired" => i \in stale
  /\ pc # "reconcile" => Flushed
  /\ \A i \in RunId : drv[i] # "none" => Begun(run, i) /\ Begun(disk.run, i)
  /\ pc = "audit" => \A t \in todo : task[t].status = "REVIEW"

(* What a step does to rows and disk. *)
CoupledRowStep ==
  \/ CoupledStep /\ (disk' = disk \/ Commit)
  \/ Rollback

LEMMA UnchangedCoupled ==
  ASSUME Coupled(task, run), UNCHANGED rows
  PROVE  CoupledRowStep
  BY DEF CoupledRowStep, CoupledStep, rows

(* The error and the interrupt path of the loop, for a run that was dispatched. *)
LEMMA EndRunCoupled ==
  ASSUME Typed(task, run), Rooted(task, run), Coupled(task, run), NEW i \in RunId,
         Begun(run, i), FailRun(i) \/ InterruptRun(i)
  PROVE  CoupledRowStep
  <1>1. CASE ~ IsLive(i)
    BY <1>1, UnchangedCoupled DEF FailRun, InterruptRun, EndRun
  <1>2. CASE IsLive(i)
    <2>1. Running(run, i)
      BY <1>2 DEF Begun, IsLive, RunLive, Running
    <2>2. Released(run[i].lease) \in {"none", "live", "expired", "released"}
      BY DEF Released
    <2>3. CASE FailRun(i)
      <3>1. EndRows(i, "FAILED", "FAILED") /\ Commit /\ "FAILED" \in RunTerminal \ {"SUCCEEDED"}
        BY <1>2, <2>3 DEF FailRun, EndRun, RunTerminal
      <3> QED
        BY <2>1, <2>2, <3>1, EndingIsCoupled DEF EndRows, CoupledRowStep
    <2>4. CASE InterruptRun(i)
      <3>1. /\ EndRows(i, "INTERRUPTED", "READY") /\ Commit
            /\ "INTERRUPTED" \in RunTerminal \ {"SUCCEEDED"}
        BY <1>2, <2>4 DEF InterruptRun, EndRun, RunTerminal
      <3> QED
        BY <2>1, <2>2, <3>1, EndingIsCoupled DEF EndRows, CoupledRowStep
    <2> QED
      BY <2>3, <2>4
  <1> QED
    BY <1>1, <1>2

LEMMA DriverCoupled ==
  ASSUME Inv, Timely, NEW i \in RunId, DriverStep(i)
  PROVE  CoupledRowStep
  <1>0. /\ Typed(task, run) /\ Rooted(task, run) /\ Coupled(task, run)
        /\ drv[i] # "none" => Begun(run, i)
    BY InvRows DEF Timely
  <1>1. CASE StartTurn(i)
    BY <1>0, <1>1, UnchangedCoupled DEF StartTurn
  <1>2. CASE HeartbeatLoop(i)
    BY <1>0, <1>2, BeatIsCoupled DEF HeartbeatLoop, BeatRow, CoupledRowStep
  <1>3. CASE \E r \in Results : AnswerTurn(i, r)
    BY <1>0, <1>3, UnchangedCoupled DEF AnswerTurn
  <1>4. CASE CollectReply(i)
    <2>1. Begun(run, i)
      BY <1>0, <1>4 DEF CollectReply
    <2> QED
      BY <1>0, <1>4, <2>1, CollectRowsIsCoupled, EndRunCoupled DEF CollectReply, CoupledRowStep
  <1>5. CASE FailTurn(i) \/ ExceedBudget(i) \/ TimeoutTurn(i)
    <2>1. Begun(run, i)
      BY <1>0, <1>5 DEF FailTurn, ExceedBudget, TimeoutTurn, Executing
    <2> QED
      BY <1>0, <1>5, <2>1, EndRunCoupled DEF FailTurn, ExceedBudget, TimeoutTurn
  <1>6. CASE LoseDriver(i)
    BY <1>0, <1>6, UnchangedCoupled DEF LoseDriver
  <1> QED
    BY <1>1, <1>2, <1>3, <1>4, <1>5, <1>6 DEF DriverStep

LEMMA TickCoupled ==
  ASSUME Inv, Timely, TickStep
  PROVE  CoupledRowStep
  <1>0. Typed(task, run) /\ Rooted(task, run) /\ Coupled(task, run)
    BY InvRows DEF Timely
  <1>1. CASE BeginTick \/ BeginAudits \/ BeginDispatch \/ BeginBeat \/ EndTick
    BY <1>0, <1>1, UnchangedCoupled DEF BeginTick, BeginAudits, BeginDispatch, BeginBeat, EndTick
  <1>2. ASSUME NEW i \in RunId, ReconcileRun(i)
        PROVE  CoupledRowStep
    <2>1. disk' = disk
      BY <1>2 DEF ReconcileRun
    <2>2. CASE CanRecover(i) /\ CollectRows(i, receipt[i])
      BY <1>0, <2>1, <2>2, CollectRowsIsCoupled DEF CanRecover, CoupledRowStep
    <2>3. CASE CanOrphan(i) /\ OrphanRow(i)
      BY <1>0, <2>1, <2>3, OrphanRowIsCoupled DEF CoupledRowStep
    <2> QED
      BY <1>2, <2>2, <2>3 DEF ReconcileRun
  <1>3. CASE EndLoop \/ \E i \in RunId : RefuseReconcile(i)
    BY <1>3 DEF EndLoop, RefuseReconcile, AbortTick, CoupledRowStep
  <1>4. CASE CommitReconcile
    BY <1>0, <1>4 DEF CommitReconcile, CoupledRowStep, CoupledStep
  <1>5. CASE Gate \/ RequeueBlocked
    BY <1>0, <1>5, HoldsIsCoupled DEF Gate, RequeueBlocked, CoupledRowStep
  <1>6. ASSUME NEW t \in Tasks, AuditTask(t)
        PROVE  CoupledRowStep
    <2>1. /\ task[t].status = "REVIEW"
          /\ \A i \in RunId : Running(run, i) => run[i].lease = "live"
      BY <1>6 DEF AuditTask, Visit, Timely, Working
    <2>2. CASE Dispatch(t, "auditor")
      BY <1>0, <2>1, <2>2, DispatchIsCoupled DEF Dispatch, CoupledRowStep
    <2>3. CASE RefuseDispatch(t, "auditor")
      BY <1>0, <2>3, RefuseDispatchIsCoupled DEF RefuseDispatch, CoupledRowStep
    <2> QED
      BY <1>6, <2>2, <2>3 DEF AuditTask
  <1>7. ASSUME NEW t \in Tasks, DispatchTask(t)
        PROVE  CoupledRowStep
    <2>1. task[t].status = "READY"
      BY <1>7 DEF DispatchTask, Visit, Inv, Listed
    <2>2. CASE Dispatch(t, "worker")
      BY <1>0, <2>1, <2>2, DispatchIsCoupled DEF Dispatch, CoupledRowStep
    <2>3. CASE RefuseDispatch(t, "worker")
      BY <1>0, <2>3, RefuseDispatchIsCoupled DEF RefuseDispatch, CoupledRowStep
    <2> QED
      BY <1>7, <2>2, <2>3 DEF DispatchTask
  <1>8. ASSUME NEW t \in Tasks, SkipTask(t)
        PROVE  CoupledRowStep
    BY <1>0, <1>8, UnchangedCoupled DEF SkipTask
  <1>9. ASSUME NEW t \in Tasks, BeatActive(t)
        PROVE  CoupledRowStep
    <2>1. active[t] \in RunId
      BY <1>9 DEF BeatActive, Visit, Inv, Listed, TypeOK
    <2> QED
      BY <1>0, <1>9, <2>1, BeatIsCoupled, UnchangedCoupled DEF BeatActive, BeatRow, CoupledRowStep
  <1> QED
    BY <1>1, <1>2, <1>3, <1>4, <1>5, <1>6, <1>7, <1>8, <1>9 DEF TickStep

LEMMA NextCoupled ==
  ASSUME Inv, Timely, Next
  PROVE  CoupledRowStep
  <1>0. Typed(task, run) /\ Coupled(task, run)
    BY InvRows DEF Timely
  <1>1. CASE TickStep
    BY <1>1, TickCoupled
  <1>2. CASE FailStep \/ Crash \/ \E i \in RunId : CrashInReceipt(i)
    BY <1>2 DEF FailStep, AbortTick, Crash, CrashInReceipt, Kill, CoupledRowStep
  <1>3. CASE \E i \in RunId : DriverStep(i)
    BY <1>3, DriverCoupled
  <1>4. CASE \E i \in RunId : Age(i)
    BY <1>0, <1>4, AgeIsCoupled DEF Age, CoupledRowStep
  <1>5. CASE (\E t \in Tasks : Answer(t)) \/ Shutdown \/ Exit \/ Restart
    BY <1>0, <1>5, UnchangedCoupled DEF Answer, Shutdown, Exit, Restart
  <1> QED
    BY <1>1, <1>2, <1>3, <1>4, <1>5 DEF Next

(* The first and the fifth part of Timely. *)
LEMMA CoupledKept ==
  ASSUME Inv, Timely, CoupledRowStep
  PROVE  /\ Coupled(task', run') /\ Coupled(disk'.task, disk'.run)
         /\ \A i \in RunId : Begun(run, i) /\ Begun(disk.run, i) =>
               Begun(run', i) /\ Begun(disk'.run, i)
  <1>0. Coupled(task, run) /\ Coupled(disk.task, disk.run)
    BY DEF Timely
  <1>1. CASE CoupledStep /\ disk' = disk
    BY <1>0, <1>1 DEF CoupledStep
  <1>2. CASE CoupledStep /\ Commit
    <2>1. disk'.task = task' /\ disk'.run = run'
      BY <1>2 DEF Commit
    <2> QED
      BY <1>2, <2>1 DEF CoupledStep
  <1>3. CASE Rollback
    BY <1>0, <1>3 DEF Rollback
  <1> QED
    BY <1>1, <1>2, <1>3 DEF CoupledRowStep

LEMMA BegunKept ==
  ASSUME Inv, Timely, Next, NEW i \in RunId, drv'[i] # "none"
  PROVE  Begun(run', i) /\ Begun(disk'.run, i)
  <1>1. CASE drv[i] # "none"
    BY <1>1, NextCoupled, CoupledKept DEF Timely
  <1>2. CASE drv[i] = "none"
    <2>1. PICK t \in Tasks, role \in {"worker", "auditor"} : Dispatch(t, role)
      <3>1. CASE \E t \in Tasks : AuditTask(t) \/ DispatchTask(t)
        BY <1>2, <3>1 DEF AuditTask, DispatchTask, RefuseDispatch
      <3>2. CASE \E j \in RunId : DriverStep(j)
        <4>1. PICK j \in RunId : DriverStep(j)
          BY <3>2
        <4>2. drv[j] # "none" /\ (drv' = drv \/ \E s : drv' = [drv EXCEPT ![j] = s])
          BY <4>1 DEF DriverStep, StartTurn, HeartbeatLoop, AnswerTurn, CollectReply, FailTurn,
                      ExceedBudget, TimeoutTurn, LoseDriver, DriverDone, Executing
        <4> QED
          BY <1>2, <4>2 DEF Inv, TypeOK
      <3>3. CASE FailStep \/ Crash \/ Exit \/ \E j \in RunId : CrashInReceipt(j)
        BY <1>2, <3>3 DEF FailStep, AbortTick, Crash, CrashInReceipt, Kill, Exit, Forget
      <3>4. CASE (\E j \in RunId : Age(j)) \/ (\E t \in Tasks : Answer(t)) \/ Shutdown \/ Restart
        BY <1>2, <3>4 DEF Age, Answer, Shutdown, Restart, memory
      <3>5. CASE \/ BeginTick \/ CommitReconcile \/ Gate \/ BeginAudits \/ EndLoop
                 \/ RequeueBlocked \/ BeginDispatch \/ BeginBeat \/ EndTick
                 \/ \E j \in RunId : ReconcileRun(j) \/ RefuseReconcile(j)
                 \/ \E t \in Tasks : SkipTask(t) \/ BeatActive(t)
        BY <1>2, <3>5 DEF BeginTick, CommitReconcile, Gate, BeginAudits, EndLoop, RequeueBlocked,
             BeginDispatch, BeginBeat, EndTick, ReconcileRun, RefuseReconcile, AbortTick,
             SkipTask, BeatActive, TickUnchanged
      <3> QED
        BY <3>1, <3>2, <3>3, <3>4, <3>5 DEF Next, TickStep
    <2>2. PICK j \in RunId :
             /\ run' = [run EXCEPT ![j] = RunRow(t, role, "RUNNING", "live")]
             /\ drv' = [drv EXCEPT ![j] = "queued"]
      BY <2>1 DEF Dispatch
    <2>3. j = i
      BY <1>2, <2>2 DEF Inv, TypeOK
    <2>4. run'[i].status = "RUNNING" /\ disk'.run = run'
      BY <2>1, <2>2, <2>3, InvRows DEF Dispatch, Commit, RunRow, Typed
    <2> QED
      BY <2>4 DEF Begun
  <1> QED
    BY <1>1, <1>2

(* A row that is RUNNING after a driver's step was RUNNING before, and its lease *)
(* is the same or renewed.                                                      *)
LEMMA DriverLeases ==
  ASSUME Inv, NEW i \in RunId, DriverStep(i), NEW j \in RunId, Running(run', j)
  PROVE  Running(run, j) /\ (run[j].lease = "live" => run'[j].lease = "live")
  <1>0. Typed(task, run)
    BY InvRows
  <1>1. CASE UNCHANGED rows
    BY <1>1 DEF rows, Running
  <1>2. CASE BeatRow(i)
    BY <1>0, <1>2 DEF BeatRow, Renewed, Running, Typed, RunRecord
  <1>3. CASE CanCollect(i, reply[i]) /\ CollectRows(i, reply[i])
    BY <1>0, <1>3 DEF CollectRows, Running, Typed, RunRecord
  <1>4. CASE EndRows(i, "FAILED", "FAILED") \/ EndRows(i, "INTERRUPTED", "READY")
    BY <1>0, <1>4 DEF EndRows, Running, Typed, RunRecord
  <1> QED
    BY <1>1, <1>2, <1>3, <1>4
       DEF DriverStep, StartTurn, HeartbeatLoop, AnswerTurn, CollectReply, FailTurn, ExceedBudget,
           TimeoutTurn, LoseDriver, FailRun, InterruptRun, EndRun

(* The second part of Timely: after the reconciliation no RUNNING run has an     *)
(* expired lease, and none expires before the tick ends.                         *)
LEMMA LeasesLive ==
  ASSUME Inv, Timely, Next, "slow" \notin Faults, pc' \in Working,
         NEW j \in RunId, Running(run', j)
  PROVE  run'[j].lease = "live"
  <1>0. Typed(task, run)
    BY InvRows
  <1>1. Running(run, j) => run[j].lease \in {"live", "expired"}
    BY DEF Timely, Coupled, Awaited
  <1>2. CASE \E i \in RunId : DriverStep(i)
    <2>1. PICK i \in RunId : DriverStep(i)
      BY <1>2
    <2>2. pc' = pc
      BY <2>1 DEF DriverStep, StartTurn, HeartbeatLoop, AnswerTurn, CollectReply, FailTurn,
                  ExceedBudget, TimeoutTurn, LoseDriver, DriverDone, DriverUnchanged
    <2>3. Running(run, j) /\ run[j].lease = "live"
      BY <2>1, <2>2, DriverLeases DEF Timely
    <2> QED
      BY <2>1, <2>3, DriverLeases
  <1>3. CASE CommitReconcile
    <2>1. run' = run /\ stale = {} /\ pc = "reconcile"
      BY <1>3 DEF CommitReconcile
    <2> QED
      BY <1>1, <2>1 DEF Timely, Running
  <1>4. CASE \/ Gate \/ BeginAudits \/ RequeueBlocked \/ BeginDispatch \/ BeginBeat
             \/ \E t \in Tasks : SkipTask(t) \/ Answer(t)
    <2>1. run' = run /\ pc \in Working
      BY <1>4 DEF Gate, BeginAudits, RequeueBlocked, BeginDispatch, BeginBeat, SkipTask, Answer,
                  rows, Working
    <2> QED
      BY <2>1 DEF Timely, Running
  <1>5. ASSUME NEW t \in Tasks, AuditTask(t) \/ DispatchTask(t)
        PROVE  run'[j].lease = "live"
    <2>1. PICK role \in {"worker", "auditor"} : Dispatch(t, role) \/ RefuseDispatch(t, role)
      BY <1>5 DEF AuditTask, DispatchTask
    <2>2. pc \in Working
      BY <1>5 DEF AuditTask, DispatchTask, Working
    <2>3. \/ run' = run
          \/ \E i \in RunId : run' = [run EXCEPT ![i] = RunRow(t, role, "RUNNING", "live")]
          \/ \E i \in RunId : run' = [run EXCEPT ![i] = RunRow(t, role, "STARTING", "none")]
      BY <2>1 DEF Dispatch, RefuseDispatch
    <2>4. run'[j] = run[j] \/ run'[j].status = "STARTING" \/ run'[j].lease = "live"
      BY <1>0, <2>3 DEF RunRow, Typed
    <2> QED
      BY <2>2, <2>4 DEF Timely, Running
  <1>6. CASE EndLoop
    <2>1. run' = disk.run /\ pc \in Working /\ Flushed
      BY <1>6 DEF EndLoop, Rollback, Working, Timely
    <2>2. run[j] = disk.run[j]
      BY <2>1 DEF Flushed, Running
    <2> QED
      BY <2>1, <2>2 DEF Timely, Running
  <1>7. ASSUME NEW t \in Tasks, BeatActive(t)
        PROVE  run'[j].lease = "live"
    <2>1. pc \in Working /\ active[t] \in RunId
      BY <1>7 DEF BeatActive, Visit, Working, Inv, Listed, TypeOK
    <2>2. CASE UNCHANGED rows
      BY <2>1, <2>2 DEF rows, Timely, Running
    <2>3. CASE BeatRow(active[t])
      BY <1>0, <2>1, <2>3 DEF BeatRow, Renewed, Timely, Running, Typed, RunRecord
    <2> QED
      BY <1>7, <2>2, <2>3 DEF BeatActive
  <1>8. ~ (\/ BeginTick \/ EndTick \/ FailStep \/ Crash \/ Shutdown \/ Exit \/ Restart
           \/ \E i \in RunId : \/ ReconcileRun(i) \/ RefuseReconcile(i)
                               \/ CrashInReceipt(i) \/ Age(i))
    BY DEF BeginTick, EndTick, FailStep, AbortTick, Crash, CrashInReceipt, Kill, Forget, Shutdown,
           Exit, Restart, ReconcileRun, RefuseReconcile, Age, Working
  <1> QED
    BY <1>2, <1>3, <1>4, <1>5, <1>6, <1>7, <1>8 DEF Next, TickStep

(* The third part: the reconciliation has every run it must end among `stale`.   *)
LEMMA ExpiredIsStale ==
  ASSUME Inv, Timely, Next, pc' = "reconcile",
         NEW j \in RunId, Running(run', j), run'[j].lease = "expired"
  PROVE  j \in stale'
  <1>0. Typed(task, run) /\ Rooted(task, run) /\ Coupled(task, run)
    BY InvRows DEF Timely
  <1>1. CASE BeginTick
    <2>1. run' = run /\ stale' = OrphanCandidates
      BY <1>1 DEF BeginTick, rows
    <2>2. Awaited(task, run, j)
      BY <2>1 DEF Timely, Coupled, Running
    <2> QED
      BY <2>1, <2>2 DEF OrphanCandidates, IsLive, RunLive, Running, Awaited
  <1>2. ASSUME NEW i \in RunId, ReconcileRun(i)
        PROVE  j \in stale'
    <2>1. pc = "reconcile" /\ stale' = stale \ {i}
      BY <1>2 DEF ReconcileRun
    <2>2. /\ \A k \in RunId : k # i => run'[k] = run[k]
          /\ run'[i].status # "RUNNING"
      BY <1>0, <1>2 DEF ReconcileRun, CollectRows, OrphanRow, Typed, RunRecord
    <2> QED
      BY <2>1, <2>2 DEF Timely, Running
  <1>3. CASE \E t \in Tasks : Answer(t)
    BY <1>3 DEF Answer, rows, Timely, Running
  <1>4. ~ (\/ CommitReconcile \/ Gate \/ BeginAudits \/ EndLoop \/ RequeueBlocked \/ BeginDispatch
           \/ BeginBeat \/ EndTick \/ FailStep \/ Crash \/ Shutdown \/ Exit \/ Restart
           \/ (\E t \in Tasks : AuditTask(t) \/ DispatchTask(t) \/ SkipTask(t) \/ BeatActive(t))
           \/ (\E i \in RunId : \/ RefuseReconcile(i) \/ CrashInReceipt(i) \/ Age(i)))
    BY DEF CommitReconcile, Gate, BeginAudits, EndLoop, RequeueBlocked, BeginDispatch, BeginBeat,
           EndTick, FailStep, AbortTick, Crash, CrashInReceipt, Kill, Forget, Shutdown, Exit,
           Restart, AuditTask, DispatchTask, SkipTask, BeatActive, RefuseReconcile, Age, Awaiting
  <1>5. ~ \E i \in RunId : DriverStep(i)
    <2> SUFFICES ASSUME NEW i \in RunId, DriverStep(i) PROVE FALSE
      OBVIOUS
    <2>1. pc' = pc /\ pc \in Awaiting
      BY DEF DriverStep, StartTurn, HeartbeatLoop, AnswerTurn, CollectReply, FailTurn,
             ExceedBudget, TimeoutTurn, LoseDriver, DriverDone, DriverUnchanged
    <2> QED
      BY <2>1 DEF Awaiting
  <1> QED
    BY <1>1, <1>2, <1>3, <1>4, <1>5 DEF Next, TickStep

(* The fourth part. *)
LEMMA FlushedKept ==
  ASSUME Inv, Timely, Next, pc' # "reconcile"
  PROVE  Flushed'
  <1>0. Typed(task, run)
    BY InvRows
  <1>1. CASE Commit \/ Rollback
    <2>1. task' = disk'.task /\ run' = disk'.run
      BY <1>1 DEF Commit, Rollback
    <2> QED
      BY <2>1 DEF Flushed
  <1>2. CASE UNCHANGED rows /\ pc # "reconcile"
    BY <1>2 DEF rows, Timely, Flushed
  <1>3. ASSUME NEW t \in Tasks, NEW role \in {"worker", "auditor"}, RefuseDispatch(t, role),
               pc # "reconcile"
        PROVE  Flushed'
    <2>1. Flushed /\ task' = task /\ disk' = disk
      BY <1>3 DEF Timely, RefuseDispatch
    <2>2. CASE run' = run
      BY <2>1, <2>2 DEF Flushed
    <2>3. CASE run' # run
      <3>1. PICK i \in RunId : /\ NewRun(i)
                               /\ run' = [run EXCEPT ![i] = RunRow(t, role, "STARTING", "none")]
        BY <1>3, <2>3 DEF RefuseDispatch
      <3>2. run[i].status = "NONE" /\ run'[i].status = "STARTING"
        BY <1>0, <3>1 DEF NewRun, Unused, RunRow, Typed
      <3>3. \A j \in RunId : j # i => run'[j] = run[j]
        BY <1>0, <3>1 DEF Typed
      <3> QED
        BY <2>1, <3>2, <3>3 DEF Flushed
    <2> QED
      BY <2>2, <2>3
  <1>4. ASSUME NEW i \in RunId, DriverStep(i)
        PROVE  Flushed'
    <2>1. pc # "reconcile" /\ (Commit \/ UNCHANGED rows)
      BY <1>4 DEF DriverStep, StartTurn, HeartbeatLoop, AnswerTurn, CollectReply, FailTurn,
                  ExceedBudget, TimeoutTurn, LoseDriver, FailRun, InterruptRun, EndRun, BeatRow,
                  Awaiting
    <2> QED
      BY <1>1, <1>2, <2>1
  <1>5. ASSUME NEW t \in Tasks, AuditTask(t) \/ DispatchTask(t)
        PROVE  Flushed'
    BY <1>1, <1>3, <1>5 DEF AuditTask, DispatchTask, Dispatch
  <1>6. ASSUME NEW t \in Tasks, SkipTask(t) \/ BeatActive(t) \/ Answer(t)
        PROVE  Flushed'
    <2>1. (pc # "reconcile" /\ (UNCHANGED rows \/ Commit)) \/ UNCHANGED <<rows, pc>>
      BY <1>6 DEF SkipTask, BeatActive, BeatRow, Answer
    <2> QED
      BY <1>1, <1>2, <2>1
  <1>7. CASE \/ CommitReconcile \/ Gate \/ EndLoop \/ RequeueBlocked \/ FailStep \/ Crash
             \/ \E i \in RunId : RefuseReconcile(i) \/ CrashInReceipt(i) \/ Age(i)
    <2>1. Commit \/ Rollback
      BY <1>7 DEF CommitReconcile, Gate, EndLoop, RequeueBlocked, FailStep, AbortTick, Crash,
                  CrashInReceipt, Kill, RefuseReconcile, Age
    <2> QED
      BY <1>1, <2>1
  <1>8. CASE BeginAudits \/ BeginDispatch \/ BeginBeat \/ EndTick \/ Shutdown \/ Exit \/ Restart
    <2>1. UNCHANGED rows /\ pc # "reconcile"
      BY <1>8 DEF BeginAudits, BeginDispatch, BeginBeat, EndTick, Shutdown, Exit, Restart
    <2> QED
      BY <1>2, <2>1
  <1>9. ~ (BeginTick \/ \E i \in RunId : ReconcileRun(i))
    BY DEF BeginTick, ReconcileRun, Timely
  <1> QED
    BY <1>4, <1>5, <1>6, <1>7, <1>8, <1>9 DEF Next, TickStep

(* The last part: a task the audit loop has yet to visit is still in REVIEW. *)
LEMMA StillInReview ==
  ASSUME Inv, Timely, Next, pc' = "audit", NEW t \in todo'
  PROVE  task'[t].status = "REVIEW"
  <1>1. CASE BeginAudits
    BY <1>1 DEF BeginAudits, rows
  <1>2. ASSUME NEW u \in Tasks, AuditTask(u) \/ DispatchTask(u) \/ SkipTask(u)
        PROVE  task'[t].status = "REVIEW"
    <2>1. pc = "audit" /\ todo' = todo \ {u} /\ task' = task
      BY <1>2 DEF AuditTask, DispatchTask, SkipTask, Visit, Dispatch, RefuseDispatch, rows
    <2> QED
      BY <2>1 DEF Timely
  <1>3. CASE \E u \in Tasks : Answer(u)
    BY <1>3 DEF Answer, rows, Timely
  <1>4. ~ (\/ BeginTick \/ CommitReconcile \/ Gate \/ EndLoop \/ RequeueBlocked \/ BeginDispatch
           \/ BeginBeat \/ EndTick \/ FailStep \/ Crash \/ Shutdown \/ Exit \/ Restart
           \/ (\E u \in Tasks : BeatActive(u))
           \/ (\E i \in RunId : \/ ReconcileRun(i) \/ RefuseReconcile(i)
                                \/ CrashInReceipt(i) \/ Age(i)))
    BY DEF BeginTick, CommitReconcile, Gate, EndLoop, RequeueBlocked, BeginDispatch, BeginBeat,
           EndTick, FailStep, AbortTick, Crash, CrashInReceipt, Kill, Forget, Shutdown, Exit,
           Restart, BeatActive, ReconcileRun, RefuseReconcile, Age, Awaiting
  <1>5. ~ \E i \in RunId : DriverStep(i)
    <2> SUFFICES ASSUME NEW i \in RunId, DriverStep(i) PROVE FALSE
      OBVIOUS
    <2>1. pc' = pc /\ pc \in Awaiting
      BY DEF DriverStep, StartTurn, HeartbeatLoop, AnswerTurn, CollectReply, FailTurn,
             ExceedBudget, TimeoutTurn, LoseDriver, DriverDone, DriverUnchanged
    <2> QED
      BY <2>1 DEF Awaiting
  <1> QED
    BY <1>1, <1>2, <1>3, <1>4, <1>5 DEF Next, TickStep

LEMMA InitTimely == Init => Timely
  <1> SUFFICES ASSUME Init PROVE Timely
    OBVIOUS
  <1>1. disk.task = task /\ disk.run = run
    BY DEF Init
  <1>2. \A i \in RunId : run[i].status = "NONE" /\ drv[i] = "none"
    BY DEF Init, BlankRun
  <1>3. \A t \in Tasks : task[t].status = "READY"
    BY DEF Init
  <1>4. Coupled(task, run)
    BY <1>2, <1>3 DEF Coupled, OneAudit, OneVerdictIn, Running, Verdict
  <1>5. pc = "sleep"
    BY DEF Init
  <1> QED
    BY <1>1, <1>2, <1>4, <1>5 DEF Timely, Flushed, Working

LEMMA NextTimely ==
  ASSUME "slow" \notin Faults
  PROVE  Inv /\ Timely /\ [Next]_vars => Timely'
  <1> SUFFICES ASSUME Inv, Timely, [Next]_vars PROVE Timely'
    OBVIOUS
  <1>1. CASE Next
    <2>1. Coupled(task', run') /\ Coupled(disk'.task, disk'.run)
      BY <1>1, NextCoupled, CoupledKept
    <2>2. pc' \in Working => \A i \in RunId : Running(run', i) => run'[i].lease = "live"
      BY <1>1, LeasesLive
    <2>3. pc' = "reconcile" =>
             \A i \in RunId : Running(run', i) /\ run'[i].lease = "expired" => i \in stale'
      BY <1>1, ExpiredIsStale
    <2>4. pc' # "reconcile" => Flushed'
      BY <1>1, FlushedKept
    <2>5. \A i \in RunId : drv'[i] # "none" => Begun(run', i) /\ Begun(disk'.run, i)
      BY <1>1, BegunKept
    <2>6. pc' = "audit" => \A t \in todo' : task'[t].status = "REVIEW"
      BY <1>1, StillInReview
    <2> QED
      BY <2>1, <2>2, <2>3, <2>4, <2>5, <2>6 DEF Timely
  <1>2. CASE UNCHANGED vars
    BY <1>2 DEF vars, Timely, Flushed
  <1> QED
    BY <1>1, <1>2

(* Timely is inductive relative to Inv. *)
THEOREM TimelyInvariance ==
  ASSUME "slow" \notin Faults
  PROVE  Spec => []Timely
  <1>1. Inv /\ Timely /\ [Next]_vars => Timely'
    BY NextTimely
  <1> QED
    BY <1>1, InitTimely, Invariance, PTL DEF Spec

(* dispatch_audit_run, "a crashed/replayed audit can never double-run": with       *)
(* ticks shorter than a lease, kills, torn receipts, lost drivers and failing       *)
(* ticks leave at most one RUNNING audit of a task, of the run the task waits on.    *)
THEOREM AuditsAreOfReview ==
  ASSUME "slow" \notin Faults
  PROVE  Spec => []AuditOfReview
  <1>1. Timely => AuditOfReview
    <2> SUFFICES ASSUME Timely, NEW i \in RunId, run[i].status = "RUNNING", run[i].role = "auditor"
                 PROVE  /\ TaskOf(i).status = "REVIEW"
                        /\ TaskOf(i).cur = run[i].subject
                        /\ \A j \in RunId \ {i} :
                              run[j].status = "RUNNING" /\ run[j].role = "auditor"
                                 => run[j].task # run[i].task
      BY DEF AuditOfReview
    <2>1. Awaited(task, run, i) /\ OneAudit(run)
      BY DEF Timely, Coupled, Running
    <2> QED
      BY <2>1 DEF Awaited, OneAudit, Running, TaskOf
  <1> QED
    BY <1>1, TimelyInvariance, PTL

(* A RUNNING task has its RUNNING worker run and the reverse, so that no task is     *)
(* stuck in RUNNING, through every recovery and late collect.                       *)
THEOREM RunningInPairs ==
  ASSUME "slow" \notin Faults
  PROVE  Spec => []RunningHasItsRun
  <1>1. Inv /\ Timely => RunningHasItsRun
    <2> SUFFICES ASSUME Inv, Timely PROVE RunningHasItsRun
      OBVIOUS
    <2>0. Typed(task, run) /\ Rooted(task, run) /\ Coupled(task, run)
      BY InvRows DEF Timely
    <2>1. \A t \in Tasks : task[t].status = "RUNNING" =>
             /\ task[t].cur # NoRun
             /\ run[task[t].cur].status = "RUNNING"
             /\ run[task[t].cur].role = "worker"
             /\ run[task[t].cur].task = t
      BY <2>0 DEF Coupled, Running, Rooted
    <2>2. \A i \in RunId : run[i].status = "RUNNING" /\ run[i].role = "worker" =>
             TaskOf(i).status = "RUNNING" /\ TaskOf(i).cur = i
      BY <2>0 DEF Coupled, Running, Awaited, TaskOf
    <2> QED
      BY <2>1, <2>2 DEF RunningHasItsRun
  <1> QED
    BY <1>1, Invariance, TimelyInvariance, PTL

(* collect_audit: no submission is judged twice, although its audit may be           *)
(* repeated, orphaned, and collected late or from its receipt.                      *)
THEOREM JudgedOnce ==
  ASSUME "slow" \notin Faults
  PROVE  Spec => []OneVerdict
  <1>1. Timely => OneVerdict
    BY DEF Timely, Coupled, OneVerdictIn, OneVerdict, Verdict
  <1> QED
    BY <1>1, TimelyInvariance, PTL

-----------------------------------------------------------------------------
(* Drivers and slots.  As long as no step of a tick raises before its heartbeat *)
(* step ("abort" is not among the faults; ticks may be slow), a driver owns the  *)
(* run it drives.                                                              *)

Driven(i) == drv[i] \in {"queued", "turn", "closing"}

Busy == {t \in Tasks : active[t] # NoRun}

(* The heartbeat of a driven run is fresh, or the heartbeat step of this tick is *)
(* still to come: a run is dispatched with none.                                *)
WillBeBeaten(i) ==
  \/ run[i].hb = "fresh"
  \/ pc \in {"audit", "unblock", "deliver", "dispatch", "yield"}
  \/ pc = "beat" /\ run[i].task \in todo

Owned(i) ==
  /\ run[i] = disk.run[i] /\ run[i].status = "RUNNING"
  /\ run[i].task \in Tasks /\ active[run[i].task] = i
  /\ WillBeBeaten(i)

(* The invariant: a driven run is owned, the reconciliation takes none away from *)
(* its driver, and no more tasks are active than there are slots.               *)
Driving ==
  /\ \A i \in RunId : Driven(i) => Owned(i)
  /\ pc = "reconcile" => \A i \in stale : ~ Driven(i)
  /\ IsFiniteSet(Busy) /\ Cardinality(Busy) <= MaxParallel

LEMMA MaxParallelType == MaxParallel \in Nat /\ MaxParallel > 0
  BY SchedulerAssumption DEF SchedulerAssumption

(* Every driver that waits finds a permit: the runs that execute and the one     *)
(* that waits are active for as many tasks.                                     *)
LEMMA QueuedHasPermit ==
  ASSUME Inv, Driving, NEW j \in RunId, drv[j] = "queued"
  PROVE  Permits > 0
  <1> DEFINE S == {i \in RunId : Executing(i)}
             T == S \union {j}
             f == [i \in T |-> run[i].task]
  <1>1. \A i \in T : Driven(i)
    BY DEF Executing, Driven
  <1>2. \A i \in T : i \in RunId /\ i # NoRun
    BY RunIds
  <1>3. \A i \in T : run[i].task \in Tasks /\ active[run[i].task] = i
    BY <1>1, <1>2 DEF Driving, Owned
  <1>4. f \in [T -> Busy]
    BY <1>2, <1>3 DEF Busy
  <1>5. \A i, k \in T : f[i] = f[k] => i = k
    BY <1>3
  <1>6. f \in Injection(T, Busy)
    BY <1>4, <1>5 DEF Injection, IsInjective
  <1>7. IsFiniteSet(T) /\ Cardinality(T) <= Cardinality(Busy)
    BY <1>6, FS_Injection DEF Driving
  <1>8. IsFiniteSet(S)
    BY <1>7, FS_Subset
  <1>9. j \notin S
    BY DEF Executing
  <1>10. Cardinality(T) = Cardinality(S) + 1
    BY <1>8, <1>9, FS_AddElement
  <1>11. Cardinality(S) \in Nat /\ Cardinality(Busy) \in Nat
    BY <1>8, FS_CardinalityType DEF Driving
  <1> HIDE DEF S, T, f
  <1>12. Cardinality(S) < MaxParallel
    BY <1>7, <1>10, <1>11, MaxParallelType DEF Driving
  <1> QED
    BY <1>11, <1>12, MaxParallelType DEF Permits, S

(* A run whose row the step leaves alone stays with its driver.                 *)
LEMMA StaysOwned ==
  ASSUME NEW i \in RunId, Owned(i), run'[i] = run[i],
         Commit \/ Rollback \/ disk' = disk,
         active'[run[i].task] = i, WillBeBeaten(i)'
  PROVE  Owned(i)'
  <1>1. disk'.run[i] = run'[i]
    BY DEF Owned, Commit, Rollback
  <1> QED
    BY <1>1 DEF Owned

(* The first part of Driving, for the steps of a driver. *)
LEMMA DriverOwned ==
  ASSUME Inv, Driving, NEW i \in RunId, DriverStep(i), NEW k \in RunId, Driven(k)'
  PROVE  Owned(k)'
  <1>0. /\ run \in [RunId -> RunRecord] /\ drv \in [RunId -> {"none", "queued", "turn", "closing", "done"}]
        /\ task \in [Tasks -> TaskRecord]
    BY DEF Inv, TypeOK
  <1>1. UNCHANGED <<scope, active, pc, stale, todo, aborted, crashes>>
    BY DEF DriverStep, StartTurn, HeartbeatLoop, AnswerTurn, CollectReply, FailTurn,
           ExceedBudget, TimeoutTurn, LoseDriver, DriverDone, DriverUnchanged
  <1>2. disk' = disk \/ Commit
    BY DEF DriverStep, StartTurn, HeartbeatLoop, AnswerTurn, CollectReply, FailTurn, ExceedBudget,
           TimeoutTurn, LoseDriver, BeatRow, FailRun, InterruptRun, EndRun, rows
  <1>3. CASE StartTurn(i) \/ \E r \in Results : AnswerTurn(i, r)
    <2>1. run' = run /\ Driven(k)
      BY <1>0, <1>3 DEF StartTurn, AnswerTurn, rows, Driven
    <2> QED
      BY <1>1, <1>2, <2>1, StaysOwned DEF Driving, Owned, WillBeBeaten
  <1>4. CASE HeartbeatLoop(i)
    <2>1. Driven(k) /\ Owned(k)
      BY <1>4 DEF HeartbeatLoop, Driven, Driving
    <2>2. /\ run'[k].task = run[k].task /\ run'[k].status = run[k].status
          /\ run'[k] = run[k] \/ run'[k].hb = "fresh"
          /\ disk'.run[k] = run'[k]
      BY <1>0, <1>4 DEF HeartbeatLoop, BeatRow, Commit, RunRecord
    <2> QED
      BY <1>1, <2>1, <2>2 DEF Owned, WillBeBeaten
  <1>5. CASE DriverDone(i)
    <2>1. k # i /\ Driven(k) /\ Owned(k)
      BY <1>0, <1>5 DEF DriverDone, Driven, Driving
    <2>2. run'[k] = run[k]
      <3>1. \/ UNCHANGED rows
            \/ CollectRows(i, reply[i])
            \/ EndRows(i, "FAILED", "FAILED") \/ EndRows(i, "INTERRUPTED", "READY")
            \/ StartTurn(i) \/ HeartbeatLoop(i) \/ \E r \in Results : AnswerTurn(i, r)
        BY DEF DriverStep, CollectReply, FailTurn, ExceedBudget, TimeoutTurn, LoseDriver,
               FailRun, InterruptRun, EndRun
      <3> QED
        BY <1>0, <2>1, <3>1 DEF rows, CollectRows, EndRows, StartTurn, HeartbeatLoop, BeatRow, AnswerTurn
    <2> QED
      BY <1>1, <1>2, <2>1, <2>2, StaysOwned DEF Owned, WillBeBeaten
  <1> QED
    BY <1>3, <1>4, <1>5 DEF DriverStep, CollectReply, FailTurn, ExceedBudget, TimeoutTurn, LoseDriver

(* The same for the steps of the tick that visit a task or a run. *)
LEMMA VisitOwned ==
  ASSUME Inv, Driving, NEW k \in RunId, Driven(k)',
         \/ \E i \in RunId : ReconcileRun(i)
         \/ \E t \in Tasks : AuditTask(t) \/ DispatchTask(t) \/ BeatActive(t)
  PROVE  Owned(k)'
  <1>0. /\ run \in [RunId -> RunRecord] /\ drv \in [RunId -> {"none", "queued", "turn", "closing", "done"}]
        /\ task \in [Tasks -> TaskRecord] /\ active \in [Tasks -> RunId \union {NoRun}]
    BY DEF Inv, TypeOK
  <1>1. ASSUME NEW i \in RunId, ReconcileRun(i)
        PROVE  Owned(k)'
    <2>1. /\ Driven(k) /\ Owned(k) /\ ~ Driven(i)
          /\ UNCHANGED <<disk, active, pc, todo>> /\ pc = "reconcile"
      BY <1>1 DEF ReconcileRun, NextStale, TickUnchanged, Driven, Driving
    <2>2. run'[k] = run[k]
      BY <1>0, <1>1, <2>1 DEF ReconcileRun, CollectRows, OrphanRow
    <2> QED
      BY <2>1, <2>2, StaysOwned DEF Owned, WillBeBeaten
  <1>2. ASSUME NEW t \in Tasks, NEW role \in {"worker", "auditor"}, RefuseDispatch(t, role),
               AuditTask(t) \/ DispatchTask(t)
        PROVE  Owned(k)'
    <2>1. Driven(k) /\ Owned(k) /\ disk' = disk /\ active' = active
      BY <1>2 DEF RefuseDispatch, Driven, Driving
    <2>2. run'[k] = run[k]
      <3>1. \A i \in RunId : NewRun(i) => i # k
        BY <2>1 DEF NewRun, Unused, Owned
      <3> QED
        BY <1>0, <1>2, <3>1 DEF RefuseDispatch
    <2>3. pc' = pc /\ pc \in {"audit", "dispatch"}
      BY <1>2 DEF AuditTask, DispatchTask
    <2> QED
      BY <2>1, <2>2, <2>3, StaysOwned DEF Owned, WillBeBeaten
  <1>3. ASSUME NEW t \in Tasks, NEW role \in {"worker", "auditor"}, Dispatch(t, role),
               AuditTask(t) \/ DispatchTask(t)
        PROVE  Owned(k)'
    <2>1. PICK i \in RunId :
             /\ NewRun(i)
             /\ run' = [run EXCEPT ![i] = RunRow(t, role, "RUNNING", "live")]
             /\ drv' = [drv EXCEPT ![i] = "queued"]
             /\ active' = [active EXCEPT ![t] = i]
      BY <1>3 DEF Dispatch
    <2>2. pc' = pc /\ pc \in {"audit", "dispatch"} /\ active[t] = NoRun /\ Commit
      BY <1>3 DEF AuditTask, DispatchTask, Dispatch
    <2>3. CASE k = i
      <3>1. run'[k] = RunRow(t, role, "RUNNING", "live") /\ disk'.run = run' /\ active'[t] = k
        BY <1>0, <2>1, <2>2, <2>3 DEF Commit
      <3>2. run'[k].task = t /\ run'[k].status = "RUNNING"
        BY <3>1 DEF RunRow
      <3> QED
        BY <2>2, <3>1, <3>2 DEF Owned, WillBeBeaten
    <2>4. CASE k # i
      <3>1. run'[k] = run[k] /\ Driven(k) /\ Owned(k)
        BY <1>0, <2>1, <2>4 DEF Driven, Driving
      <3>2. run[k].task \in Tasks /\ run[k].task # t
        BY <2>2, <3>1, RunIds DEF Owned
      <3>3. active'[run[k].task] = k
        BY <1>0, <2>1, <3>1, <3>2 DEF Owned
      <3> QED
        BY <2>2, <3>1, <3>3, StaysOwned DEF WillBeBeaten
    <2> QED
      BY <2>3, <2>4
  <1>4. ASSUME NEW t \in Tasks, BeatActive(t)
        PROVE  Owned(k)'
    <2>0. active[t] \in RunId /\ pc = "beat" /\ pc' = pc /\ todo' = todo \ {t} /\ drv' = drv
      BY <1>0, <1>4 DEF BeatActive, Visit, TickUnchanged, Inv, Listed
    <2>1. Driven(k) /\ Owned(k) /\ run[k].task \in Tasks
      BY <2>0 DEF Driven, Driving, Owned
    <2>2. active[t] = k => drv[active[t]] # "done" /\ IsLive(active[t])
      BY <2>1 DEF Driven, Owned, IsLive, RunLive
    <2>3. CASE drv[active[t]] # "done" /\ IsLive(active[t])
      <3>1. BeatRow(active[t]) /\ active' = active
        BY <1>4, <2>3 DEF BeatActive
      <3>2. CASE active[t] = k
        <4>1. run'[k].hb = "fresh" /\ run'[k].task = run[k].task /\ run'[k].status = run[k].status
          BY <1>0, <3>1, <3>2 DEF BeatRow, RunRecord
        <4>2. disk'.run[k] = run'[k]
          BY <3>1 DEF BeatRow, Commit
        <4> QED
          BY <2>1, <3>1, <4>1, <4>2 DEF Owned, WillBeBeaten
      <3>3. CASE active[t] # k
        <4>1. run'[k] = run[k] /\ Commit
          BY <1>0, <2>0, <3>1, <3>3 DEF BeatRow
        <4>2. run[k].task # t
          BY <2>1, <3>3 DEF Owned
        <4>3. WillBeBeaten(k)'
          BY <2>0, <2>1, <4>1, <4>2 DEF Owned, WillBeBeaten
        <4> QED
          BY <2>1, <3>1, <4>1, <4>3, StaysOwned DEF Owned
      <3> QED
        BY <3>2, <3>3
    <2>4. CASE ~ (drv[active[t]] # "done" /\ IsLive(active[t]))
      <3>1. active' = [active EXCEPT ![t] = NoRun] /\ run' = run /\ disk' = disk /\ active[t] # k
        BY <1>4, <2>2, <2>4 DEF BeatActive, rows
      <3>2. run[k].task # t
        BY <2>1, <3>1 DEF Owned
      <3>3. active'[run[k].task] = k
        BY <1>0, <2>1, <3>1, <3>2 DEF Owned
      <3>4. WillBeBeaten(k)'
        BY <2>0, <2>1, <3>1, <3>2 DEF Owned, WillBeBeaten
      <3> QED
        BY <2>1, <3>1, <3>3, <3>4, StaysOwned
    <2> QED
      BY <2>3, <2>4
  <1> QED
    BY <1>1, <1>2, <1>3, <1>4 DEF AuditTask, DispatchTask

(* Time does not touch a driven run; neither does the rest of the tick. *)
LEMMA RestOwned ==
  ASSUME Inv, Driving, Next, "abort" \notin Faults, NEW k \in RunId, Driven(k)',
         ~ (\E i \in RunId : DriverStep(i)),
         ~ (\/ \E i \in RunId : ReconcileRun(i)
            \/ \E t \in Tasks : AuditTask(t) \/ DispatchTask(t) \/ BeatActive(t))
  PROVE  Owned(k)'
  <1>1. ASSUME NEW i \in RunId, Age(i)
        PROVE  Owned(k)'
    <2>1. Driven(k) /\ Owned(k) /\ UNCHANGED <<active, pc, todo>> /\ Commit
      BY <1>1 DEF Age, memory, Driven, Driving
    <2>2. ~ Driven(i)
      <3>1. ~ Executing(i) /\ (drv[i] = "queued" => Permits = 0)
        BY <1>1 DEF Age, Unattended
      <3>2. drv[i] # "queued"
        BY <3>1, QueuedHasPermit
      <3> QED
        BY <3>1, <3>2 DEF Driven, Executing
    <2>3. run'[k] = run[k]
      BY <1>1, <2>1, <2>2 DEF Age, Inv, TypeOK
    <2> QED
      BY <2>1, <2>3, StaysOwned DEF Owned, WillBeBeaten
  <1>2. CASE Crash \/ Exit \/ \E i \in RunId : CrashInReceipt(i)
    <2>1. drv'[k] = "none"
      BY <1>2 DEF Crash, CrashInReceipt, Kill, Exit, Forget
    <2> QED
      BY <2>1 DEF Driven
  <1>3. CASE EndLoop \/ \E i \in RunId : RefuseReconcile(i)
    <2>1. /\ UNCHANGED <<active, drv>> /\ Rollback
          /\ pc = "reconcile" \/ pc' \in {"unblock", "yield"}
      BY <1>3 DEF EndLoop, RefuseReconcile, AbortTick, TickUnchanged
    <2>2. Driven(k) /\ Owned(k)
      BY <2>1 DEF Driven, Driving
    <2>3. run'[k] = run[k] /\ disk' = disk
      BY <2>1, <2>2 DEF Rollback, Owned
    <2> QED
      BY <2>1, <2>2, <2>3, StaysOwned DEF Owned, WillBeBeaten
  <1>4. CASE CommitReconcile \/ Gate \/ RequeueBlocked
    <2>1. /\ UNCHANGED <<active, drv>> /\ Commit /\ run' = run
          /\ pc \in {"reconcile", "gate"} \/ pc' = "deliver"
      BY <1>4 DEF CommitReconcile, Gate, RequeueBlocked, TickUnchanged
    <2>2. Driven(k) /\ Owned(k)
      BY <2>1 DEF Driven, Driving
    <2> QED
      BY <2>1, <2>2, StaysOwned DEF Owned, WillBeBeaten
  <1>5. CASE \/ BeginTick \/ BeginAudits \/ BeginDispatch \/ BeginBeat \/ EndTick
             \/ Shutdown \/ Restart \/ \E t \in Tasks : SkipTask(t) \/ Answer(t)
    <2>1. UNCHANGED <<active, drv>> /\ run' = run /\ disk' = disk
      BY <1>5 DEF BeginTick, BeginAudits, BeginDispatch, BeginBeat, EndTick, Shutdown, Restart,
                  SkipTask, Answer, TickUnchanged, rows, memory
    <2>2. Driven(k) /\ Owned(k)
      BY <2>1 DEF Driven, Driving
    <2>3. WillBeBeaten(k)'
      <3>1. CASE BeginBeat
        <4>1. active[run[k].task] # NoRun /\ run[k].task \in Tasks
          BY <2>2, RunIds DEF Owned
        <4> QED
          BY <2>1, <3>1, <4>1 DEF BeginBeat, WillBeBeaten
      <3>2. CASE BeginTick \/ BeginAudits \/ EndTick \/ Shutdown \/ Restart
        <4>1. /\ pc \notin {"audit", "unblock", "deliver", "dispatch", "yield"}
              /\ pc = "beat" => todo = {}
          BY <3>2 DEF BeginTick, BeginAudits, EndTick, Shutdown, Restart
        <4> QED
          BY <2>1, <2>2, <4>1 DEF Owned, WillBeBeaten
      <3>3. CASE BeginDispatch \/ \E t \in Tasks : SkipTask(t)
        BY <3>3 DEF BeginDispatch, SkipTask, WillBeBeaten
      <3>4. CASE \E t \in Tasks : Answer(t)
        BY <2>1, <2>2, <3>4 DEF Answer, Owned, WillBeBeaten
      <3> QED
        BY <1>5, <3>1, <3>2, <3>3, <3>4
    <2> QED
      BY <2>1, <2>2, <2>3, StaysOwned DEF Owned
  <1>6. ~ FailStep
    BY DEF FailStep
  <1> QED
    BY <1>1, <1>2, <1>3, <1>4, <1>5, <1>6 DEF Next, TickStep

(* The second part of Driving: a driven run is beaten before a tick begins, and  *)
(* so it is no candidate for an orphan.                                         *)
LEMMA StaleIsNotDriven ==
  ASSUME Inv, Driving, Next, pc' = "reconcile", NEW k \in stale'
  PROVE  ~ Driven(k)'
  <1>1. CASE BeginTick
    <2>1. /\ drv' = drv /\ pc = "sleep"
          /\ k \in RunId /\ run[k].hb # "fresh"
      BY <1>1 DEF BeginTick, TickUnchanged, OrphanCandidates
    <2>2. ~ Owned(k)
      BY <2>1 DEF Owned, WillBeBeaten
    <2> QED
      BY <2>1, <2>2 DEF Driven, Driving
  <1>2. ASSUME NEW i \in RunId, ReconcileRun(i)
        PROVE  ~ Driven(k)'
    <2>1. drv' = drv /\ pc = "reconcile" /\ k \in stale
      BY <1>2 DEF ReconcileRun, TickUnchanged
    <2> QED
      BY <2>1 DEF Driving, Driven
  <1>3. CASE \E t \in Tasks : Answer(t)
    <2>1. drv' = drv /\ pc = "reconcile" /\ k \in stale
      BY <1>3 DEF Answer, memory
    <2> QED
      BY <2>1 DEF Driving, Driven
  <1>4. ~ (\/ CommitReconcile \/ Gate \/ BeginAudits \/ EndLoop \/ RequeueBlocked \/ BeginDispatch
           \/ BeginBeat \/ EndTick \/ FailStep \/ Crash \/ Shutdown \/ Exit \/ Restart
           \/ (\E t \in Tasks : AuditTask(t) \/ DispatchTask(t) \/ SkipTask(t) \/ BeatActive(t))
           \/ (\E i \in RunId : \/ RefuseReconcile(i) \/ CrashInReceipt(i) \/ Age(i)))
    BY DEF CommitReconcile, Gate, BeginAudits, EndLoop, RequeueBlocked, BeginDispatch, BeginBeat,
           EndTick, FailStep, AbortTick, Crash, CrashInReceipt, Kill, Forget, Shutdown, Exit,
           Restart, AuditTask, DispatchTask, SkipTask, BeatActive, RefuseReconcile, Age, Awaiting
  <1>5. ~ \E i \in RunId : DriverStep(i)
    <2> SUFFICES ASSUME NEW i \in RunId, DriverStep(i) PROVE FALSE
      OBVIOUS
    <2>1. pc' = pc /\ pc \in Awaiting
      BY DEF DriverStep, StartTurn, HeartbeatLoop, AnswerTurn, CollectReply, FailTurn,
             ExceedBudget, TimeoutTurn, LoseDriver, DriverDone, DriverUnchanged
    <2> QED
      BY <2>1 DEF Awaiting
  <1> QED
    BY <1>1, <1>2, <1>3, <1>4, <1>5 DEF Next, TickStep

(* The third part: a dispatch takes a slot that is free.                         *)
LEMMA BusyKept ==
  ASSUME Inv, Driving, Next
  PROVE  IsFiniteSet(Busy') /\ Cardinality(Busy') <= MaxParallel
  <1>0. /\ active \in [Tasks -> RunId \union {NoRun}]
        /\ IsFiniteSet(Busy) /\ Cardinality(Busy) <= MaxParallel /\ Cardinality(Busy) \in Nat
    BY FS_CardinalityType DEF Inv, TypeOK, Driving
  <1>1. CASE Busy' \subseteq Busy
    <2>1. IsFiniteSet(Busy') /\ Cardinality(Busy') <= Cardinality(Busy)
      BY <1>0, <1>1, FS_Subset
    <2>2. Cardinality(Busy') \in Nat
      BY <2>1, FS_CardinalityType
    <2> QED
      BY <1>0, <2>1, <2>2, MaxParallelType
  <1>2. ASSUME NEW t \in Tasks, NEW role \in {"worker", "auditor"}, Dispatch(t, role),
               active[t] = NoRun, Slots > 0
        PROVE  IsFiniteSet(Busy') /\ Cardinality(Busy') <= MaxParallel
    <2>1. PICK i \in RunId : active' = [active EXCEPT ![t] = i]
      BY <1>2 DEF Dispatch
    <2>2. Busy' = Busy \union {t} /\ t \notin Busy
      BY <1>0, <1>2, <2>1, RunIds DEF Busy
    <2>3. IsFiniteSet(Busy') /\ Cardinality(Busy') = Cardinality(Busy) + 1
      BY <1>0, <2>2, FS_AddElement
    <2>4. MaxParallel - Cardinality(Busy) > 0
      BY <1>2 DEF Slots, Busy
    <2> QED
      BY <1>0, <2>3, <2>4, MaxParallelType
  <1>3. ASSUME NEW t \in Tasks, AuditTask(t) \/ DispatchTask(t)
        PROVE  IsFiniteSet(Busy') /\ Cardinality(Busy') <= MaxParallel
    <2>1. active[t] = NoRun /\ Slots > 0
      BY <1>3 DEF AuditTask, DispatchTask
    <2>2. PICK role \in {"worker", "auditor"} : Dispatch(t, role) \/ RefuseDispatch(t, role)
      BY <1>3 DEF AuditTask, DispatchTask
    <2>3. CASE RefuseDispatch(t, role)
      BY <1>1, <2>3 DEF RefuseDispatch, Busy
    <2> QED
      BY <1>2, <2>1, <2>2, <2>3
  <1>4. ASSUME NEW t \in Tasks, BeatActive(t)
        PROVE  Busy' \subseteq Busy
    BY <1>0, <1>4 DEF BeatActive, Busy
  <1>5. CASE Crash \/ Exit \/ \E i \in RunId : CrashInReceipt(i)
    <2>1. active' = [t \in Tasks |-> NoRun]
      BY <1>5 DEF Crash, CrashInReceipt, Kill, Exit, Forget
    <2>2. Busy' = {}
      BY <2>1 DEF Busy
    <2> QED
      BY <1>1, <2>2
  <1>6. CASE \/ BeginTick \/ CommitReconcile \/ Gate \/ BeginAudits \/ EndLoop \/ RequeueBlocked
             \/ BeginDispatch \/ BeginBeat \/ EndTick \/ FailStep \/ Shutdown \/ Restart
             \/ (\E t \in Tasks : SkipTask(t) \/ Answer(t))
             \/ (\E i \in RunId : ReconcileRun(i) \/ RefuseReconcile(i) \/ Age(i))
    <2>1. active' = active
      BY <1>6 DEF BeginTick, CommitReconcile, Gate, BeginAudits, EndLoop, RequeueBlocked,
             BeginDispatch, BeginBeat, EndTick, FailStep, AbortTick, Shutdown, Restart, SkipTask,
             Answer, ReconcileRun, RefuseReconcile, Age, memory
    <2> QED
      BY <1>1, <2>1 DEF Busy
  <1>7. ASSUME NEW i \in RunId, DriverStep(i)
        PROVE  Busy' \subseteq Busy
    <2>1. active' = active
      BY <1>7 DEF DriverStep, StartTurn, HeartbeatLoop, AnswerTurn, CollectReply, FailTurn,
             ExceedBudget, TimeoutTurn, LoseDriver, DriverDone, DriverUnchanged
    <2> QED
      BY <2>1 DEF Busy
  <1> QED
    BY <1>1, <1>3, <1>4, <1>5, <1>6, <1>7 DEF Next, TickStep

LEMMA InitDriving == Init => Driving
  <1> SUFFICES ASSUME Init PROVE Driving
    OBVIOUS
  <1>1. \A i \in RunId : ~ Driven(i)
    BY DEF Init, Driven
  <1>2. Busy = {}
    BY DEF Init, Busy
  <1>3. pc = "sleep"
    BY DEF Init
  <1> QED
    BY <1>1, <1>2, <1>3, FS_EmptySet, MaxParallelType DEF Driving

LEMMA NextDriving ==
  ASSUME "abort" \notin Faults
  PROVE  Inv /\ Driving /\ [Next]_vars => Driving'
  <1> SUFFICES ASSUME Inv, Driving, [Next]_vars PROVE Driving'
    OBVIOUS
  <1>1. CASE Next
    <2>1. \A k \in RunId : Driven(k)' => Owned(k)'
      BY <1>1, DriverOwned, VisitOwned, RestOwned
    <2>2. pc' = "reconcile" => \A k \in stale' : ~ Driven(k)'
      BY <1>1, StaleIsNotDriven
    <2> QED
      BY <1>1, <2>1, <2>2, BusyKept DEF Driving
  <1>2. CASE UNCHANGED vars
    BY <1>2 DEF vars, Driving, Driven, Owned, WillBeBeaten, Busy
  <1> QED
    BY <1>1, <1>2

(* Driving is inductive relative to Inv. *)
THEOREM DrivingInvariance ==
  ASSUME "abort" \notin Faults
  PROVE  Spec => []Driving
  <1>1. Inv /\ Driving /\ [Next]_vars => Driving'
    BY NextDriving
  <1> QED
    BY <1>1, InitDriving, Invariance, PTL DEF Spec

(* _drive_run: whatever is killed, recovered, late or slow, a coroutine that waits   *)
(* for the semaphore or executes a turn drives a run that is RUNNING in the          *)
(* database and that the loop counts in `active`.                                  *)
THEOREM DriversOwnTheirRuns ==
  ASSUME "abort" \notin Faults
  PROVE  Spec => []DriverOwnsItsRun
  <1>1. Driving => DriverOwnsItsRun
    BY DEF Driving, Driven, Owned, DriverOwnsItsRun
  <1> QED
    BY <1>1, DrivingInvariance, PTL

-----------------------------------------------------------------------------
(* Scheduler implements Lifecycle, in ticks that take less than a lease: the   *)
(* invariants Inv and Timely say what a run may do to its task, and what is      *)
(* left is that a transaction of several steps, the reconciliation, takes no     *)
(* task further than one.                                                       *)

LifeKept(t) == LifeOf(task', run', t) = LifeOf(task, run, t)

Moves(t) == LifeKept(t) \/ Life!Step(LifeOf(task, run, t), LifeOf(task', run', t))

LifeStep == \A t \in Tasks : Moves(t)

(* Run i ends, and its task is left without a run.                              *)
Releases(i) ==
  /\ \A t \in Tasks : t # run[i].task => LifeKept(t)
  /\ Moves(run[i].task)
  /\ WorkingOn(run', run[i].task) = {}

LifeRecord(s, a, r, w, g, j) ==
  [status |-> s, attempt |-> a, reported |-> r, working |-> w, given |-> g, judged |-> j]

(* The steps of a life, written out: one field after the other.                 *)
LEMMA LoseRecord ==
  ASSUME NEW s, NEW a, NEW r, NEW w, NEW g, NEW j, NEW s2 \in {"READY", "FAILED"},
         NEW l, l = LifeRecord(s, a, r, w, g, j), s = "RUNNING",
         NEW m, m = LifeRecord(s2, a, r, {}, g, j)
  PROVE  Life!Lose(l, m)
  <1>1. [l EXCEPT !.status = s2] = LifeRecord(s2, a, r, w, g, j)
    BY DEF LifeRecord
  <1>2. [LifeRecord(s2, a, r, w, g, j) EXCEPT !.working = {}] = m
    BY DEF LifeRecord
  <1>3. m = [l EXCEPT !.status = s2, !.working = {}]
    BY <1>1, <1>2
  <1>4. l.status = "RUNNING"
    BY DEF LifeRecord
  <1> QED
    BY <1>3, <1>4 DEF Life!Lose

LEMMA LoseAuditRecord ==
  ASSUME NEW s, NEW a, NEW r, NEW w, NEW g, NEW j,
         NEW l, l = LifeRecord(s, a, r, w, g, j), s = "REVIEW",
         NEW m, m = LifeRecord(s, a, r, {}, g, j)
  PROVE  Life!LoseAudit(l, m)
  <1>1. [l EXCEPT !.working = {}] = m
    BY DEF LifeRecord
  <1>2. l.status = "REVIEW"
    BY DEF LifeRecord
  <1> QED
    BY <1>1, <1>2 DEF Life!LoseAudit

LEMMA HandInRecord ==
  ASSUME NEW s, NEW a, NEW r, NEW w, NEW g, NEW j,
         NEW h \in {<<"submit", "REVIEW">>, <<"partial", "REVIEW">>,
                    <<"blocked", "BLOCKED">>, <<"failed", "FAILED">>},
         NEW l, l = LifeRecord(s, a, r, w, g, j), s = "RUNNING", w = {a},
         NEW m, m = LifeRecord(h[2], a, h[1], {}, g, j)
  PROVE  Life!HandIn(l, m)
  <1> DEFINE r2 == h[1]
             s2 == h[2]
  <1>0. m = LifeRecord(s2, a, r2, {}, g, j)
    OBVIOUS
  <1>1. l.status = "RUNNING" /\ l.working = {l.attempt}
    BY DEF LifeRecord
  <1>2. m = [l EXCEPT !.reported = r2, !.status = s2, !.working = {}]
    <2> HIDE DEF r2, s2
    <2>1. [l EXCEPT !.reported = r2] = LifeRecord(s, a, r2, w, g, j)
      BY DEF LifeRecord
    <2>2. [LifeRecord(s, a, r2, w, g, j) EXCEPT !.status = s2] = LifeRecord(s2, a, r2, w, g, j)
      BY DEF LifeRecord
    <2>3. [LifeRecord(s2, a, r2, w, g, j) EXCEPT !.working = {}] = m
      BY <1>0 DEF LifeRecord
    <2> QED
      BY <2>1, <2>2, <2>3
  <1> QED
    BY <1>1, <1>2 DEF Life!HandIn

LEMMA JudgeRecord ==
  ASSUME NEW s, NEW a, NEW r, NEW w, NEW g, NEW j, NEW s2 \in {"READY", "FAILED", "COMPLETED"},
         s2 = "COMPLETED" => r = "submit",
         NEW l, l = LifeRecord(s, a, r, w, g, j), s = "REVIEW", w # {}, a \notin j,
         NEW m, m = LifeRecord(s2, a, r, {}, g, j \union {a})
  PROVE  Life!Judge(l, m)
  <1>0. /\ l.status = "REVIEW" /\ l.working # {} /\ l.attempt \notin l.judged
        /\ l.judged = j /\ l.attempt = a /\ l.reported = r
    BY DEF LifeRecord
  <1>1. [l EXCEPT !.status = s2] = LifeRecord(s2, a, r, w, g, j)
    BY DEF LifeRecord
  <1>2. [LifeRecord(s2, a, r, w, g, j) EXCEPT !.working = {}] = LifeRecord(s2, a, r, {}, g, j)
    BY DEF LifeRecord
  <1>3. [LifeRecord(s2, a, r, {}, g, j) EXCEPT !.judged = j \union {a}] = m
    BY DEF LifeRecord
  <1>4. m = [l EXCEPT !.status = s2, !.working = {}, !.judged = @ \union {l.attempt}]
    BY <1>0, <1>1, <1>2, <1>3
  <1> QED
    BY <1>0, <1>4 DEF Life!Judge

LEMMA BeginAuditRecord ==
  ASSUME NEW s, NEW a, NEW r, NEW w, NEW g, NEW j, NEW i \in RunId \ g,
         NEW l, l = LifeRecord(s, a, r, w, g, j), s = "REVIEW", w = {},
         NEW m, m = LifeRecord(s, a, r, {i}, g \union {i}, j)
  PROVE  Life!BeginAudit(l, m)
  <1>0. l.status = "REVIEW" /\ l.working = {} /\ l.given = g
    BY DEF LifeRecord
  <1>1. [l EXCEPT !.working = {i}] = LifeRecord(s, a, r, {i}, g, j)
    BY DEF LifeRecord
  <1>2. [LifeRecord(s, a, r, {i}, g, j) EXCEPT !.given = g \union {i}] = m
    BY DEF LifeRecord
  <1>3. m = [l EXCEPT !.working = {i}, !.given = @ \union {i}]
    BY <1>0, <1>1, <1>2
  <1> QED
    BY <1>0, <1>3 DEF Life!BeginAudit

LEMMA StartRecord ==
  ASSUME NEW s, NEW a, NEW r, NEW w, NEW g, NEW j, NEW i \in RunId \ g,
         NEW l, l = LifeRecord(s, a, r, w, g, j), s = "READY", w = {},
         NEW m, m = LifeRecord("RUNNING", i, "none", {i}, g \union {i}, j)
  PROVE  Life!Start(l, m)
  <1>0. l.status = "READY" /\ l.working = {} /\ l.given = g
    BY DEF LifeRecord
  <1>1. [l EXCEPT !.status = "RUNNING"] = LifeRecord("RUNNING", a, r, w, g, j)
    BY DEF LifeRecord
  <1>2. [LifeRecord("RUNNING", a, r, w, g, j) EXCEPT !.attempt = i]
          = LifeRecord("RUNNING", i, r, w, g, j)
    BY DEF LifeRecord
  <1>3. [LifeRecord("RUNNING", i, r, w, g, j) EXCEPT !.reported = "none"]
          = LifeRecord("RUNNING", i, "none", w, g, j)
    BY DEF LifeRecord
  <1>4. [LifeRecord("RUNNING", i, "none", w, g, j) EXCEPT !.working = {i}]
          = LifeRecord("RUNNING", i, "none", {i}, g, j)
    BY DEF LifeRecord
  <1>5. [LifeRecord("RUNNING", i, "none", {i}, g, j) EXCEPT !.given = g \union {i}] = m
    BY DEF LifeRecord
  <1>6. [l EXCEPT !.status = "RUNNING", !.attempt = i, !.reported = "none"]
          = LifeRecord("RUNNING", i, "none", w, g, j)
    BY <1>1, <1>2, <1>3
  <1>7. m = [l EXCEPT !.status = "RUNNING", !.attempt = i, !.reported = "none",
                      !.working = {i}, !.given = @ \union {i}]
    BY <1>0, <1>4, <1>5, <1>6
  <1> QED
    BY <1>0, <1>7 DEF Life!Start

(* A life depends on the rows of the runs that have begun.                      *)
LEMMA SameLife ==
  ASSUME NEW tk, NEW rn, NEW tk2, NEW rn2, NEW t \in Tasks,
         tk2[t].status = tk[t].status, tk2[t].cur = tk[t].cur,
         Reported(tk2, rn2, t) = Reported(tk, rn, t),
         \A i \in RunId :
            \/ /\ rn2[i].task = rn[i].task /\ rn2[i].role = rn[i].role
               /\ rn2[i].status = rn[i].status /\ rn2[i].subject = rn[i].subject
            \/ /\ rn[i].task # t \/ ~ Begun(rn, i)
               /\ rn2[i].task # t \/ ~ Begun(rn2, i)
  PROVE  LifeOf(tk2, rn2, t) = LifeOf(tk, rn, t)
  <1>1. WorkingOn(rn2, t) = WorkingOn(rn, t)
    BY DEF WorkingOn, Begun
  <1>2. GivenTo(rn2, t) = GivenTo(rn, t)
    BY DEF GivenTo, Begun
  <1>3. JudgedOf(rn2, t) = JudgedOf(rn, t)
    BY DEF JudgedOf, Begun
  <1> QED
    BY <1>1, <1>2, <1>3 DEF LifeOf

(* The run at work on a task is its only one.                                  *)
LEMMA WorksAlone ==
  ASSUME Typed(task, run), Coupled(task, run), NEW i \in RunId, Running(run, i)
  PROVE  WorkingOn(run, run[i].task) = {i}
  <1>1. ASSUME NEW j \in RunId, Running(run, j), run[j].task = run[i].task PROVE j = i
    <2>1. Awaited(task, run, i) /\ Awaited(task, run, j) /\ OneAudit(run)
      BY <1>1 DEF Coupled
    <2>2. run[i].role \in {"worker", "auditor"} /\ run[j].role \in {"worker", "auditor"}
      BY DEF Typed, RunRecord
    <2> QED
      BY <1>1, <2>1, <2>2 DEF Awaited, OneAudit
  <1> QED
    BY <1>1 DEF WorkingOn, Running

(* Only row i changes, and it belongs to another task.                         *)
LEMMA OthersLive ==
  ASSUME Typed(task, run), Rooted(task, run), NEW i \in RunId, NEW u \in Tasks,
         \A j \in RunId : j # i => run'[j] = run[j],
         run'[i].task = u, run[i].task = u \/ run[i].status = "NONE",
         NEW t \in Tasks, t # u, task'[t] = task[t]
  PROVE  LifeKept(t)
  <1>1. task[t].cur # NoRun => task[t].cur \in RunId \ {i}
    BY CurIsRun DEF Rooted
  <1>2. Reported(task', run', t) = Reported(task, run, t)
    BY <1>1 DEF Reported
  <1>3. ~ Begun(run, i) \/ run[i].task # t
    BY DEF Begun
  <1> QED
    BY <1>2, <1>3, SameLife DEF LifeKept

(* Heartbeats and ages change no life; the gate holds and frees tasks.          *)
LEMMA AttendsLives ==
  ASSUME \A i \in RunId :
            /\ run'[i].task = run[i].task /\ run'[i].role = run[i].role
            /\ run'[i].status = run[i].status /\ run'[i].subject = run[i].subject
            /\ run'[i].result = run[i].result,
         Typed(task, run),
         \A t \in Tasks :
            /\ task'[t].cur = task[t].cur
            /\ \/ task'[t].status = task[t].status
               \/ task[t].status \in {"READY", "BLOCKED"} /\ task'[t].status \in {"READY", "BLOCKED"}
  PROVE  LifeStep
  <1> SUFFICES ASSUME NEW t \in Tasks PROVE Moves(t)
    BY DEF LifeStep
  <1>1. Reported(task', run', t) = Reported(task, run, t)
    BY CurIsRun DEF Reported
  <1>2. CASE task'[t].status = task[t].status
    <2>1. LifeOf(task', run', t) = LifeOf(task, run, t)
      BY <1>1, <1>2, SameLife
    <2> QED
      BY <2>1 DEF Moves, LifeKept
  <1>3. CASE task'[t].status # task[t].status
    <2> DEFINE l == LifeOf(task, run, t)
               m == LifeOf(task', run', t)
    <2>1. m = [l EXCEPT !.status = task'[t].status]
      <3>1. WorkingOn(run', t) = WorkingOn(run, t) /\ GivenTo(run', t) = GivenTo(run, t)
        BY DEF WorkingOn, GivenTo
      <3>2. JudgedOf(run', t) = JudgedOf(run, t)
        BY DEF JudgedOf
      <3> QED
        BY <1>1, <3>1, <3>2 DEF LifeOf
    <2>2. l.status = task[t].status
      BY DEF LifeOf
    <2> HIDE DEF l, m
    <2>3. Life!Hold(l, m) \/ Life!Free(l, m)
      BY <1>3, <2>1, <2>2 DEF Life!Hold, Life!Free
    <2> QED
      BY <2>3 DEF Moves, Life!Step, l, m
  <1> QED
    BY <1>2, <1>3

(* Run i ends: no run works on its task any more.                              *)
LEMMA NoLongerWorking ==
  ASSUME Typed(task, run), Coupled(task, run), NEW i \in RunId, Running(run, i),
         \A j \in RunId : j # i => run'[j] = run[j],
         run'[i].task = run[i].task, run'[i].role = run[i].role,
         run'[i].status \in RunTerminal
  PROVE  /\ WorkingOn(run, run[i].task) = {i}
         /\ WorkingOn(run', run[i].task) = {}
         /\ GivenTo(run', run[i].task) = GivenTo(run, run[i].task)
  <1> DEFINE u == run[i].task
  <1>1. WorkingOn(run, u) = {i}
    BY WorksAlone
  <1>2. ASSUME NEW j \in WorkingOn(run', u) PROVE FALSE
    <2>1. j # i
      BY <1>2 DEF WorkingOn, RunTerminal
    <2>2. j \in WorkingOn(run, u)
      BY <1>2, <2>1 DEF WorkingOn
    <2> QED
      BY <1>1, <2>1, <2>2
  <1>3. GivenTo(run', u) = GivenTo(run, u)
    BY DEF GivenTo, Running, RunTerminal
  <1> QED
    BY <1>1, <1>2, <1>3

(* A RUNNING run ends without a result.                                        *)
LEMMA EndsLives ==
  ASSUME Typed(task, run), Rooted(task, run), Coupled(task, run),
         NEW i \in RunId, Running(run, i),
         \A j \in RunId : j # i => run'[j] = run[j],
         run'[i].task = run[i].task, run'[i].role = run[i].role,
         run'[i].subject = run[i].subject, run'[i].result = run[i].result,
         run'[i].status \in RunTerminal \ {"SUCCEEDED"},
         \A t \in Tasks : t # run[i].task \/ run[i].role # "worker" => task'[t] = task[t],
         run[i].role = "worker" =>
            /\ task'[run[i].task].cur = task[run[i].task].cur
            /\ task'[run[i].task].status \in {"READY", "FAILED"}
  PROVE  Releases(i)
  <1> DEFINE u == run[i].task
             l == LifeOf(task, run, u)
             m == LifeOf(task', run', u)
  <1>0. Awaited(task, run, i) /\ u \in Tasks /\ run[i].role \in {"worker", "auditor"}
    BY DEF Coupled, Running, Typed, RunRecord
  <1>1. ASSUME NEW t \in Tasks, t # u PROVE LifeKept(t)
    <2>1. task'[t] = task[t]
      BY <1>1
    <2> QED
      BY <1>0, <1>1, <2>1, OthersLive
  <1>2. task'[u].cur = task[u].cur
    BY <1>0
  <1>3. Reported(task', run', u) = Reported(task, run, u)
    BY <1>0, <1>2, CurIsRun DEF Reported
  <1>4. WorkingOn(run, u) = {i} /\ WorkingOn(run', u) = {} /\ GivenTo(run', u) = GivenTo(run, u)
    BY NoLongerWorking
  <1>6. JudgedOf(run', u) = JudgedOf(run, u)
    <2>1. \A j \in RunId : run'[j].status = "SUCCEEDED" <=> run[j].status = "SUCCEEDED"
      BY DEF Running
    <2> QED
      BY <2>1 DEF JudgedOf
  <1>7. /\ l = LifeRecord(task[u].status, task[u].cur, Reported(task, run, u), {i},
                          GivenTo(run, u), JudgedOf(run, u))
        /\ m = LifeRecord(task'[u].status, task[u].cur, Reported(task, run, u), {},
                          GivenTo(run, u), JudgedOf(run, u))
    BY <1>2, <1>3, <1>4, <1>6 DEF LifeOf, LifeRecord
  <1>9. Moves(u)
    <2>1. CASE run[i].role = "worker"
      <3>1. task[u].status = "RUNNING" /\ task'[u].status \in {"READY", "FAILED"}
        BY <1>0, <2>1 DEF Awaited
      <3>2. Life!Lose(l, m)
        <4> HIDE DEF l, m, u
        <4> QED
          BY <1>7, <3>1, LoseRecord
      <3> QED
        BY <3>2 DEF Moves, Life!Step
    <2>2. CASE run[i].role = "auditor"
      <3>1. task[u].status = "REVIEW" /\ task'[u].status = task[u].status
        BY <1>0, <2>2 DEF Awaited
      <3>2. Life!LoseAudit(l, m)
        <4> HIDE DEF l, m, u
        <4> QED
          BY <1>7, <3>1, LoseAuditRecord
      <3> QED
        BY <3>2 DEF Moves, Life!Step
    <2> QED
      BY <1>0, <2>1, <2>2
  <1> QED
    BY <1>1, <1>4, <1>9 DEF Releases

(* A RUNNING worker run hands its result in.                                   *)
LEMMA HandsInLives ==
  ASSUME Typed(task, run), Rooted(task, run), Coupled(task, run),
         NEW i \in RunId, Running(run, i), run[i].role = "worker",
         \A j \in RunId : j # i => run'[j] = run[j],
         run'[i].task = run[i].task, run'[i].role = run[i].role,
         run'[i].subject = run[i].subject, run'[i].status = "SUCCEEDED",
         NEW r, NEW s, run'[i].result = r,
         <<r, s>> \in {<<"submit", "REVIEW">>, <<"partial", "REVIEW">>,
                       <<"blocked", "BLOCKED">>, <<"failed", "FAILED">>},
         \A t \in Tasks : t # run[i].task => task'[t] = task[t],
         task'[run[i].task].cur = task[run[i].task].cur,
         task'[run[i].task].status = s
  PROVE  Releases(i)
  <1> DEFINE u == run[i].task
             l == LifeOf(task, run, u)
             m == LifeOf(task', run', u)
  <1>0. /\ u \in Tasks /\ task[u].status = "RUNNING" /\ task[u].cur = i /\ i # NoRun
    BY RunIds DEF Coupled, Awaited, Running
  <1>1. ASSUME NEW t \in Tasks, t # u PROVE LifeKept(t)
    <2>1. task'[t] = task[t]
      BY <1>1
    <2> QED
      BY <1>0, <1>1, <2>1, OthersLive
  <1>2. task'[u].cur = i
    BY <1>0
  <1>3. Reported(task', run', u) = r
    BY <1>0, <1>2 DEF Reported
  <1>4. WorkingOn(run, u) = {i} /\ WorkingOn(run', u) = {} /\ GivenTo(run', u) = GivenTo(run, u)
    BY NoLongerWorking DEF RunTerminal
  <1>6. JudgedOf(run', u) = JudgedOf(run, u)
    BY DEF JudgedOf
  <1>7. /\ l = LifeRecord(task[u].status, i, Reported(task, run, u), {i},
                          GivenTo(run, u), JudgedOf(run, u))
        /\ m = LifeRecord(s, i, r, {}, GivenTo(run, u), JudgedOf(run, u))
    BY <1>0, <1>2, <1>3, <1>4, <1>6 DEF LifeOf, LifeRecord
  <1>8. Life!HandIn(l, m)
    <2>1. task[u].status = "RUNNING" /\ <<r, s>>[1] = r /\ <<r, s>>[2] = s
      BY <1>0
    <2> HIDE DEF l, m, u
    <2> QED
      BY <1>7, <2>1, HandInRecord
  <1> QED
    BY <1>1, <1>4, <1>8 DEF Releases, Moves, Life!Step

(* A RUNNING audit judges what its task handed in.                              *)
LEMMA JudgesLives ==
  ASSUME Typed(task, run), Rooted(task, run), Coupled(task, run),
         NEW i \in RunId, Running(run, i), run[i].role = "auditor", run[i].subject # NoRun,
         \A j \in RunId : j # i => run'[j] = run[j],
         run'[i].task = run[i].task, run'[i].role = run[i].role,
         run'[i].subject = run[i].subject, run'[i].status = "SUCCEEDED",
         NEW s \in {"READY", "FAILED", "COMPLETED"},
         s = "COMPLETED" => run[run[i].subject].result = "submit",
         \A t \in Tasks : t # run[i].task => task'[t] = task[t],
         task'[run[i].task].cur = task[run[i].task].cur,
         task'[run[i].task].status = s
  PROVE  Releases(i)
  <1> DEFINE u == run[i].task
             w == run[i].subject
             l == LifeOf(task, run, u)
             m == LifeOf(task', run', u)
  <1>0. /\ u \in Tasks /\ task[u].status = "REVIEW" /\ task[u].cur = w /\ w # NoRun
    BY DEF Coupled, Awaited, Running
  <1>1. ASSUME NEW t \in Tasks, t # u PROVE LifeKept(t)
    <2>1. task'[t] = task[t]
      BY <1>1
    <2> QED
      BY <1>0, <1>1, <2>1, OthersLive
  <1>2. task'[u].cur = w
    BY <1>0
  <1>3. Reported(task', run', u) = Reported(task, run, u) /\ Reported(task, run, u) = run[w].result
    <2>1. w \in RunId /\ w # i
      BY <1>0, CurIsRun DEF Rooted
    <2> QED
      BY <1>0, <1>2, <2>1 DEF Reported
  <1>4. WorkingOn(run, u) = {i} /\ WorkingOn(run', u) = {} /\ GivenTo(run', u) = GivenTo(run, u)
    BY NoLongerWorking DEF RunTerminal
  <1>5. w \notin JudgedOf(run, u)
    <2> SUFFICES ASSUME NEW j \in RunId, run[j].task = u, Verdict(run, j), run[j].subject = w
                 PROVE  FALSE
      BY DEF JudgedOf, Verdict
    <2>1. Decided(task, run, j)
      BY DEF Coupled
    <2> QED
      BY <1>0, <2>1 DEF Decided
  <1>6. JudgedOf(run', u) = JudgedOf(run, u) \union {w}
    <2>1. {j \in RunId : run'[j].task = u /\ run'[j].role = "auditor" /\ run'[j].status = "SUCCEEDED"}
            = {j \in RunId : run[j].task = u /\ run[j].role = "auditor" /\ run[j].status = "SUCCEEDED"}
                 \union {i}
      OBVIOUS
    <2>2. \A j \in RunId : run'[j].subject = run[j].subject
      OBVIOUS
    <2> QED
      BY <2>1, <2>2 DEF JudgedOf
  <1>7. /\ l = LifeRecord(task[u].status, w, Reported(task, run, u), {i},
                          GivenTo(run, u), JudgedOf(run, u))
        /\ m = LifeRecord(s, w, Reported(task, run, u), {},
                          GivenTo(run, u), JudgedOf(run, u) \union {w})
    BY <1>0, <1>2, <1>3, <1>4, <1>6 DEF LifeOf, LifeRecord
  <1>8. Life!Judge(l, m)
    <2>1. task[u].status = "REVIEW" /\ (s = "COMPLETED" => Reported(task, run, u) = "submit")
      BY <1>0, <1>3
    <2> HIDE DEF l, m, u, w
    <2> QED
      BY <1>5, <1>7, <2>1, JudgeRecord
  <1> QED
    BY <1>1, <1>4, <1>8 DEF Releases, Moves, Life!Step

(* Row i becomes a run of task t.                                              *)
LEMMA BeginsLives ==
  ASSUME Typed(task, run), Rooted(task, run), Coupled(task, run),
         NEW i \in RunId, NEW t \in Tasks,
         run[i].status = "NONE", \A j \in RunId : j # i => run'[j] = run[j],
         run'[i].task = t, run'[i].result = "none",
         \A u \in Tasks : u # t => task'[u] = task[u],
         \/ run'[i].status = "STARTING" /\ task'[t] = task[t]
         \/ /\ run'[i].status = "RUNNING" /\ run'[i].role = "worker"
            /\ task[t].status = "READY" /\ task'[t].status = "RUNNING" /\ task'[t].cur = i
         \/ /\ run'[i].status = "RUNNING" /\ run'[i].role = "auditor"
            /\ task[t].status = "REVIEW" /\ task'[t] = task[t]
            /\ \A j \in RunId : run[j].task = t /\ run[j].role = "auditor" => ~ Running(run, j)
  PROVE  LifeStep
  <1> DEFINE l == LifeOf(task, run, t)
             m == LifeOf(task', run', t)
             w == GivenTo(run, t)
             g == JudgedOf(run, t)
             r == Reported(task, run, t)
  <1>1. ASSUME NEW u \in Tasks, u # t PROVE Moves(u)
    BY <1>1, OthersLive DEF Moves
  <1>2. i \notin w
    BY DEF GivenTo
  <1>3. task[t].cur # NoRun => task[t].cur \in RunId \ {i}
    BY CurIsRun DEF Rooted
  <1>4. CASE run'[i].status = "STARTING" /\ task'[t] = task[t]
    <2>1. Reported(task', run', t) = r
      BY <1>3, <1>4 DEF Reported
    <2>2. LifeKept(t)
      BY <1>4, <2>1, SameLife DEF LifeKept, Begun
    <2> QED
      BY <1>1, <2>2 DEF Moves, LifeStep
  <1>5. ASSUME run'[i].status = "RUNNING", task[t].status \in {"READY", "REVIEW"},
               task[t].status = "REVIEW" =>
                  \A j \in RunId : run[j].task = t /\ run[j].role = "auditor" => ~ Running(run, j)
        PROVE  /\ WorkingOn(run, t) = {} /\ WorkingOn(run', t) = {i}
               /\ GivenTo(run', t) = w \union {i}
               /\ JudgedOf(run', t) = g
    <2>1. WorkingOn(run, t) = {}
      <3> SUFFICES ASSUME NEW j \in RunId, Running(run, j), run[j].task = t PROVE FALSE
        BY DEF WorkingOn, Running
      <3>1. Awaited(task, run, j) /\ run[j].role \in {"worker", "auditor"}
        BY DEF Coupled, Typed, RunRecord
      <3> QED
        BY <1>5, <3>1 DEF Awaited
    <2>2. WorkingOn(run', t) = {i}
      BY <1>5, <2>1 DEF WorkingOn
    <2>3. GivenTo(run', t) = w \union {i}
      BY <1>5 DEF GivenTo
    <2>4. JudgedOf(run', t) = g
      BY <1>5 DEF JudgedOf
    <2> QED
      BY <2>1, <2>2, <2>3, <2>4
  <1>6. CASE /\ run'[i].status = "RUNNING" /\ run'[i].role = "worker"
             /\ task[t].status = "READY" /\ task'[t].status = "RUNNING" /\ task'[t].cur = i
    <2>1. Reported(task', run', t) = "none"
      BY <1>6, RunIds DEF Reported
    <2>2. /\ l = LifeRecord(task[t].status, task[t].cur, r, {}, w, g)
          /\ m = LifeRecord("RUNNING", i, "none", {i}, w \union {i}, g)
      BY <1>5, <1>6, <2>1 DEF LifeOf, LifeRecord
    <2>3. Life!Start(l, m)
      <3> HIDE DEF l, m, w, g, r
      <3> QED
        BY <1>2, <1>6, <2>2, StartRecord
    <2> QED
      BY <1>1, <2>3 DEF Moves, LifeStep, Life!Step
  <1>7. CASE /\ run'[i].status = "RUNNING" /\ run'[i].role = "auditor"
             /\ task[t].status = "REVIEW" /\ task'[t] = task[t]
             /\ \A j \in RunId : run[j].task = t /\ run[j].role = "auditor" => ~ Running(run, j)
    <2>1. Reported(task', run', t) = r
      BY <1>3, <1>7 DEF Reported
    <2>2. /\ l = LifeRecord(task[t].status, task[t].cur, r, {}, w, g)
          /\ m = LifeRecord(task[t].status, task[t].cur, r, {i}, w \union {i}, g)
      BY <1>5, <1>7, <2>1 DEF LifeOf, LifeRecord
    <2>3. Life!BeginAudit(l, m)
      <3> HIDE DEF l, m, w, g, r
      <3> QED
        BY <1>2, <1>7, <2>2, BeginAuditRecord
    <2> QED
      BY <1>1, <2>3 DEF Moves, LifeStep, Life!Step
  <1> QED
    BY <1>4, <1>6, <1>7

(* The operations on rows.                                                     *)
LEMMA ReleasesStep ==
  ASSUME NEW i \in RunId, Releases(i)
  PROVE  LifeStep
  BY DEF Releases, LifeStep, Moves

LEMMA BeatLives ==
  ASSUME Typed(task, run), NEW i \in RunId, BeatRow(i)
  PROVE  LifeStep
  <1>1. task' = task /\ run' = [run EXCEPT ![i].hb = "fresh", ![i].lease = Renewed(run[i].lease)]
    BY DEF BeatRow
  <1>2. \A j \in RunId :
           /\ run'[j].task = run[j].task /\ run'[j].role = run[j].role
           /\ run'[j].status = run[j].status /\ run'[j].subject = run[j].subject
           /\ run'[j].result = run[j].result
    BY <1>1 DEF Typed, RunRecord
  <1> QED
    BY <1>1, <1>2, AttendsLives

LEMMA AgeLives ==
  ASSUME Typed(task, run), NEW i \in RunId, Age(i)
  PROVE  LifeStep
  <1>1. /\ task' = task
        /\ run' = [run EXCEPT ![i].hb = IF run[i].hb = "fresh" THEN "stale" ELSE run[i].hb,
                              ![i].lease = IF run[i].lease = "live" THEN "expired" ELSE run[i].lease]
    BY DEF Age
  <1>2. \A j \in RunId :
           /\ run'[j].task = run[j].task /\ run'[j].role = run[j].role
           /\ run'[j].status = run[j].status /\ run'[j].subject = run[j].subject
           /\ run'[j].result = run[j].result
    BY <1>1 DEF Typed, RunRecord
  <1> QED
    BY <1>1, <1>2, AttendsLives

LEMMA HoldsLives ==
  ASSUME Typed(task, run), Gate \/ RequeueBlocked
  PROVE  LifeStep
  <1>1. run' = run
    BY DEF Gate, RequeueBlocked
  <1>2. ASSUME NEW t \in Tasks
        PROVE  /\ task'[t].cur = task[t].cur
               /\ \/ task'[t].status = task[t].status
                  \/ task[t].status \in {"READY", "BLOCKED"} /\ task'[t].status \in {"READY", "BLOCKED"}
    <2>0. task[t] \in TaskRecord
      BY DEF Typed
    <2>1. CASE Gate
      <3>1. task'[t] = AfterGate(t, scope')
        BY <2>1 DEF Gate
      <3> QED
        BY <2>0, <3>1 DEF AfterGate, TaskRecord
    <2>2. CASE RequeueBlocked
      <3>1. task'[t] = IF Unblockable(t) THEN [task[t] EXCEPT !.status = "READY"] ELSE task[t]
        BY <2>2 DEF RequeueBlocked
      <3> QED
        BY <2>0, <3>1 DEF Unblockable, TaskRecord
    <2> QED
      BY <2>1, <2>2
  <1> QED
    BY <1>1, <1>2, AttendsLives

(* The end of a RUNNING run, by an error, an interrupt or as an orphan. *)
LEMMA EndingLives ==
  ASSUME Typed(task, run), Rooted(task, run), Coupled(task, run),
         NEW i \in RunId, Running(run, i),
         NEW s \in RunTerminal \ {"SUCCEEDED"}, NEW ts \in {"READY", "FAILED"},
         NEW l \in {"none", "live", "expired", "released"},
         run' = [run EXCEPT ![i].status = s, ![i].lease = l],
         task' = IF TaskOf(i).status = "RUNNING"
                 THEN [task EXCEPT ![run[i].task].status = ts]
                 ELSE task
  PROVE  Releases(i)
  <1>0. task \in [Tasks -> TaskRecord] /\ run \in [RunId -> RunRecord] /\ run[i].task \in Tasks
    BY DEF Typed, Coupled, Running
  <1>1. /\ \A j \in RunId : j # i => run'[j] = run[j]
        /\ run'[i].task = run[i].task /\ run'[i].status = s /\ run'[i].role = run[i].role
        /\ run'[i].subject = run[i].subject /\ run'[i].result = run[i].result
    BY <1>0 DEF RunRecord
  <1>2. /\ run[i].role = "worker" => TaskOf(i).status = "RUNNING"
        /\ run[i].role = "auditor" => TaskOf(i).status = "REVIEW"
        /\ run[i].role \in {"worker", "auditor"}
    BY <1>0 DEF Coupled, Awaited, TaskOf, RunRecord
  <1>3. \A t \in Tasks : t # run[i].task \/ run[i].role # "worker" => task'[t] = task[t]
    BY <1>0, <1>2
  <1>4. run[i].role = "worker" =>
           /\ task'[run[i].task].cur = task[run[i].task].cur
           /\ task'[run[i].task].status \in {"READY", "FAILED"}
    BY <1>0, <1>2 DEF TaskRecord
  <1> QED
    BY <1>1, <1>3, <1>4, EndsLives

LEMMA OrphanRowLives ==
  ASSUME Typed(task, run), Rooted(task, run), Coupled(task, run),
         NEW i \in RunId, CanOrphan(i), OrphanRow(i)
  PROVE  Releases(i) /\ Running(run, i)
  <1>1. Running(run, i)
    BY OrphansOnlyRunning DEF CanOrphan, Typed, RunRecord, Running
  <1>2. run' = [run EXCEPT ![i].status = "ORPHANED", ![i].lease = run[i].lease]
    BY DEF OrphanRow, Typed, RunRecord
  <1>3. "ORPHANED" \in RunTerminal \ {"SUCCEEDED"}
    BY DEF RunTerminal
  <1>4. run[i].lease \in {"none", "live", "expired", "released"}
    BY DEF Typed, RunRecord
  <1> QED
    BY <1>1, <1>2, <1>3, <1>4, EndingLives DEF OrphanRow

LEMMA CollectRowsLives ==
  ASSUME Typed(task, run), Rooted(task, run), Coupled(task, run),
         NEW i \in RunId, NEW r, CanCollect(i, r), CollectRows(i, r)
  PROVE  Releases(i) /\ Running(run, i)
  <1>0. task \in [Tasks -> TaskRecord] /\ run \in [RunId -> RunRecord]
    BY DEF Typed
  <1>1. Running(run, i)
    BY SucceedsOnlyRunning DEF CanCollect, Typed, RunRecord, Running
  <1>2. run[i].task \in Tasks /\ run[i].role \in {"worker", "auditor"}
    BY <1>0, <1>1 DEF Coupled, Running, RunRecord
  <1>3. /\ \A j \in RunId : j # i => run'[j] = run[j]
        /\ run'[i].task = run[i].task /\ run'[i].role = run[i].role
        /\ run'[i].subject = run[i].subject /\ run'[i].status = "SUCCEEDED"
        /\ run'[i].result = r
    BY <1>0 DEF CollectRows, RunRecord
  <1>4. /\ \A t \in Tasks : t # run[i].task => task'[t] = task[t]
        /\ task'[run[i].task].cur = task[run[i].task].cur
        /\ task'[run[i].task].status = Target(i, r)
    BY <1>0, <1>2 DEF CollectRows, TaskRecord
  <1>5. CASE run[i].role = "worker"
    <2>1. r \in WorkerResults \ {"rejected"} /\ Target(i, r) = WorkTarget(r)
      BY <1>5 DEF CanCollect, CanCollectWork, Target
    <2>2. <<r, Target(i, r)>> \in {<<"submit", "REVIEW">>, <<"partial", "REVIEW">>,
                                  <<"blocked", "BLOCKED">>, <<"failed", "FAILED">>}
      BY <2>1 DEF WorkerResults, WorkTarget
    <2> QED
      BY <1>1, <1>3, <1>4, <1>5, <2>2, HandsInLives
  <1>6. CASE run[i].role = "auditor"
    <2>1. r \in AuditResults /\ run[i].subject # NoRun /\ Target(i, r) = AuditTarget(i, r)
      BY <1>6 DEF CanCollect, CanCollectAudit, Target
    <2>2. /\ Target(i, r) \in {"READY", "FAILED", "COMPLETED"}
          /\ Target(i, r) = "COMPLETED" => run[run[i].subject].result = "submit"
      BY <2>1 DEF AuditResults, AuditTarget
    <2> QED
      BY <1>1, <1>3, <1>4, <1>6, <2>1, <2>2, JudgesLives
  <1> QED
    BY <1>2, <1>5, <1>6

LEMMA RefuseDispatchLives ==
  ASSUME Typed(task, run), Rooted(task, run), Coupled(task, run), NEW t \in Tasks,
         NEW role \in {"worker", "auditor"}, RefuseDispatch(t, role)
  PROVE  LifeStep
  <1>1. task' = task
    BY DEF RefuseDispatch
  <1>2. CASE run' = run
    BY <1>1, <1>2 DEF LifeStep, Moves, LifeKept
  <1>3. CASE run' # run
    <2>1. PICK i \in RunId : NewRun(i) /\ run' = [run EXCEPT ![i] = RunRow(t, role, "STARTING", "none")]
      BY <1>3 DEF RefuseDispatch
    <2>2. run[i].status = "NONE"
      BY <2>1 DEF NewRun, Unused
    <2>3. /\ run'[i].task = t /\ run'[i].status = "STARTING" /\ run'[i].result = "none"
          /\ \A j \in RunId : j # i => run'[j] = run[j]
      BY <2>1 DEF Typed, RunRow
    <2> QED
      BY <1>1, <2>2, <2>3, BeginsLives
  <1> QED
    BY <1>2, <1>3

LEMMA DispatchLives ==
  ASSUME Typed(task, run), Rooted(task, run), Coupled(task, run), NEW t \in Tasks,
         NEW role \in {"worker", "auditor"}, Dispatch(t, role),
         role = "worker" => task[t].status = "READY",
         role = "auditor" =>
            /\ task[t].status = "REVIEW"
            /\ \A i \in RunId : Running(run, i) => run[i].lease = "live"
  PROVE  LifeStep
  <1>1. PICK i \in RunId :
          /\ NewRun(i)
          /\ run' = [run EXCEPT ![i] = RunRow(t, role, "RUNNING", "live")]
          /\ task' = IF role = "worker"
                     THEN [task EXCEPT ![t].status = "RUNNING", ![t].cur = i]
                     ELSE task
    BY DEF Dispatch
  <1>2. run[i].status = "NONE"
    BY <1>1 DEF NewRun, Unused
  <1>3. run'[i] = RunRow(t, role, "RUNNING", "live") /\ \A j \in RunId : j # i => run'[j] = run[j]
    BY <1>1 DEF Typed
  <1>4. /\ run'[i].task = t /\ run'[i].status = "RUNNING" /\ run'[i].role = role
        /\ run'[i].result = "none"
    BY <1>3 DEF RunRow
  <1>5. /\ \A u \in Tasks : u # t => task'[u] = task[u]
        /\ role = "worker" => task'[t].status = "RUNNING" /\ task'[t].cur = i
        /\ role = "auditor" => task' = task
    BY <1>1 DEF Typed, TaskRecord
  <1>6. ASSUME role = "auditor"
        PROVE  \A j \in RunId : run[j].task = t /\ run[j].role = "auditor" => ~ Running(run, j)
    BY <1>6 DEF Dispatch, LeaseFree, Rows
  <1>7. CASE role = "worker"
    BY <1>2, <1>3, <1>4, <1>5, <1>7, BeginsLives
  <1>8. CASE role = "auditor"
    BY <1>2, <1>3, <1>4, <1>5, <1>6, <1>8, BeginsLives
  <1> QED
    BY <1>7, <1>8

(* What a step does to rows and disk. *)
LifeRowStep ==
  \/ LifeStep /\ (disk' = disk \/ Commit)
  \/ Rollback

LEMMA UnchangedLives ==
  ASSUME UNCHANGED rows
  PROVE  LifeRowStep
  BY DEF LifeRowStep, LifeStep, Moves, LifeKept, rows

LEMMA EndRunLives ==
  ASSUME Typed(task, run), Rooted(task, run), Coupled(task, run), NEW i \in RunId,
         Begun(run, i), FailRun(i) \/ InterruptRun(i)
  PROVE  LifeRowStep
  <1>1. CASE ~ IsLive(i)
    BY <1>1, UnchangedLives DEF FailRun, InterruptRun, EndRun
  <1>2. CASE IsLive(i)
    <2>1. Running(run, i)
      BY <1>2 DEF Begun, IsLive, RunLive, Running
    <2>2. Released(run[i].lease) \in {"none", "live", "expired", "released"}
      BY DEF Typed, RunRecord, Released
    <2>3. CASE FailRun(i)
      <3>1. EndRows(i, "FAILED", "FAILED") /\ Commit /\ "FAILED" \in RunTerminal \ {"SUCCEEDED"}
        BY <1>2, <2>3 DEF FailRun, EndRun, RunTerminal
      <3> QED
        BY <2>1, <2>2, <3>1, EndingLives, ReleasesStep DEF EndRows, LifeRowStep
    <2>4. CASE InterruptRun(i)
      <3>1. /\ EndRows(i, "INTERRUPTED", "READY") /\ Commit
            /\ "INTERRUPTED" \in RunTerminal \ {"SUCCEEDED"}
        BY <1>2, <2>4 DEF InterruptRun, EndRun, RunTerminal
      <3> QED
        BY <2>1, <2>2, <3>1, EndingLives, ReleasesStep DEF EndRows, LifeRowStep
    <2> QED
      BY <2>3, <2>4
  <1> QED
    BY <1>1, <1>2

LEMMA DriverLives ==
  ASSUME Inv, Timely, NEW i \in RunId, DriverStep(i)
  PROVE  LifeRowStep
  <1>0. /\ Typed(task, run) /\ Rooted(task, run) /\ Coupled(task, run)
        /\ drv[i] # "none" => Begun(run, i)
    BY InvRows DEF Timely
  <1>1. CASE StartTurn(i) \/ LoseDriver(i) \/ \E r \in Results : AnswerTurn(i, r)
    BY <1>1, UnchangedLives DEF StartTurn, LoseDriver, AnswerTurn
  <1>2. CASE HeartbeatLoop(i)
    BY <1>0, <1>2, BeatLives DEF HeartbeatLoop, BeatRow, LifeRowStep
  <1>3. CASE CollectReply(i)
    <2>1. Begun(run, i)
      BY <1>0, <1>3 DEF CollectReply
    <2> QED
      BY <1>0, <1>3, <2>1, CollectRowsLives, ReleasesStep, EndRunLives
         DEF CollectReply, LifeRowStep
  <1>4. CASE FailTurn(i) \/ ExceedBudget(i) \/ TimeoutTurn(i)
    <2>1. Begun(run, i) /\ (FailRun(i) \/ InterruptRun(i))
      BY <1>0, <1>4 DEF FailTurn, ExceedBudget, TimeoutTurn, Executing
    <2> QED
      BY <1>0, <2>1, EndRunLives
  <1> QED
    BY <1>1, <1>2, <1>3, <1>4 DEF DriverStep

LEMMA TickLives ==
  ASSUME Inv, Timely, TickStep
  PROVE  LifeRowStep
  <1>0. Typed(task, run) /\ Rooted(task, run) /\ Coupled(task, run)
    BY InvRows DEF Timely
  <1>1. CASE BeginTick \/ BeginAudits \/ BeginDispatch \/ BeginBeat \/ EndTick
    BY <1>1, UnchangedLives DEF BeginTick, BeginAudits, BeginDispatch, BeginBeat, EndTick
  <1>2. ASSUME NEW i \in RunId, ReconcileRun(i)
        PROVE  LifeRowStep
    BY <1>0, <1>2, CollectRowsLives, OrphanRowLives, ReleasesStep
       DEF ReconcileRun, CanRecover, LifeRowStep
  <1>3. CASE EndLoop \/ \E i \in RunId : RefuseReconcile(i)
    BY <1>3 DEF EndLoop, RefuseReconcile, AbortTick, LifeRowStep
  <1>4. CASE CommitReconcile
    BY <1>4 DEF CommitReconcile, LifeRowStep, LifeStep, Moves, LifeKept
  <1>5. CASE Gate \/ RequeueBlocked
    BY <1>0, <1>5, HoldsLives DEF Gate, RequeueBlocked, LifeRowStep
  <1>6. ASSUME NEW t \in Tasks, AuditTask(t)
        PROVE  LifeRowStep
    <2>1. /\ task[t].status = "REVIEW"
          /\ \A i \in RunId : Running(run, i) => run[i].lease = "live"
      BY <1>6 DEF AuditTask, Visit, Timely, Working
    <2>2. CASE Dispatch(t, "auditor")
      BY <1>0, <2>1, <2>2, DispatchLives DEF Dispatch, LifeRowStep
    <2>3. CASE RefuseDispatch(t, "auditor")
      BY <1>0, <2>3, RefuseDispatchLives DEF RefuseDispatch, LifeRowStep
    <2> QED
      BY <1>6, <2>2, <2>3 DEF AuditTask
  <1>7. ASSUME NEW t \in Tasks, DispatchTask(t)
        PROVE  LifeRowStep
    <2>1. task[t].status = "READY"
      BY <1>7 DEF DispatchTask, Visit, Inv, Listed
    <2>2. CASE Dispatch(t, "worker")
      BY <1>0, <2>1, <2>2, DispatchLives DEF Dispatch, LifeRowStep
    <2>3. CASE RefuseDispatch(t, "worker")
      BY <1>0, <2>3, RefuseDispatchLives DEF RefuseDispatch, LifeRowStep
    <2> QED
      BY <1>7, <2>2, <2>3 DEF DispatchTask
  <1>8. ASSUME NEW t \in Tasks, SkipTask(t)
        PROVE  LifeRowStep
    BY <1>8, UnchangedLives DEF SkipTask
  <1>9. ASSUME NEW t \in Tasks, BeatActive(t)
        PROVE  LifeRowStep
    <2>1. active[t] \in RunId
      BY <1>9 DEF BeatActive, Visit, Inv, Listed, TypeOK
    <2> QED
      BY <1>0, <1>9, <2>1, BeatLives, UnchangedLives DEF BeatActive, BeatRow, LifeRowStep
  <1> QED
    BY <1>1, <1>2, <1>3, <1>4, <1>5, <1>6, <1>7, <1>8, <1>9 DEF TickStep

LEMMA NextLives ==
  ASSUME Inv, Timely, Next
  PROVE  LifeRowStep
  <1>0. Typed(task, run)
    BY InvRows
  <1>1. CASE TickStep
    BY <1>1, TickLives
  <1>2. CASE FailStep \/ Crash \/ \E i \in RunId : CrashInReceipt(i)
    BY <1>2 DEF FailStep, AbortTick, Crash, CrashInReceipt, Kill, LifeRowStep
  <1>3. CASE \E i \in RunId : DriverStep(i)
    BY <1>3, DriverLives
  <1>4. CASE \E i \in RunId : Age(i)
    BY <1>0, <1>4, AgeLives DEF Age, LifeRowStep
  <1>5. CASE (\E t \in Tasks : Answer(t)) \/ Shutdown \/ Exit \/ Restart
    BY <1>5, UnchangedLives DEF Answer, Shutdown, Exit, Restart
  <1> QED
    BY <1>1, <1>2, <1>3, <1>4, <1>5 DEF Next

DiskLife(t) == LifeOf(disk.task, disk.run, t)

(* Outside the reconciliation nothing is uncommitted that a life shows.         *)
LEMMA FlushedLives ==
  ASSUME Inv, Timely, pc # "reconcile", NEW t \in Tasks
  PROVE  LifeOf(task, run, t) = DiskLife(t)
  <1>1. Flushed /\ Rooted(disk.task, disk.run)
    BY DEF Inv, History, Timely
  <1>2. task[t].cur # NoRun => task[t].cur \in RunId
    BY CurIsRun, InvRows
  <1>3. Reported(task, run, t) = Reported(disk.task, disk.run, t)
    BY <1>1, <1>2 DEF Flushed, Rooted, Reported
  <1>4. \A i \in RunId : run[i] = disk.run[i] \/ (~ Begun(disk.run, i) /\ ~ Begun(run, i))
    BY <1>1 DEF Flushed, Begun
  <1> QED
    BY <1>1, <1>3, <1>4, SameLife DEF Flushed, DiskLife

(* The reconciliation ends at most one run of each task before it commits: the  *)
(* task has no RUNNING run left that it could end too.                          *)
Behind(t) ==
  \/ LifeOf(task, run, t) = DiskLife(t)
  \/ Life!Step(DiskLife(t), LifeOf(task, run, t)) /\ WorkingOn(run, t) = {}

Pending == pc = "reconcile" => \A t \in Tasks : Behind(t)

LEMMA NextPending ==
  ASSUME Inv, Timely, Pending, Next
  PROVE  Pending'
  <1> SUFFICES ASSUME pc' = "reconcile", NEW t \in Tasks
               PROVE  Behind(t)'
    BY DEF Pending
  <1>0. Typed(task, run) /\ Rooted(task, run) /\ Coupled(task, run)
    BY InvRows DEF Timely
  <1>1. CASE BeginTick
    <2>1. LifeOf(task, run, t) = DiskLife(t) /\ UNCHANGED rows
      BY <1>1, FlushedLives DEF BeginTick
    <2> QED
      BY <2>1 DEF rows, Behind, DiskLife
  <1>2. ASSUME NEW i \in RunId, ReconcileRun(i)
        PROVE  Behind(t)'
    <2>1. Releases(i) /\ Running(run, i) /\ disk' = disk /\ Behind(t)
      BY <1>0, <1>2, CollectRowsLives, OrphanRowLives DEF ReconcileRun, CanRecover, Pending
    <2>2. DiskLife(t)' = DiskLife(t)
      BY <2>1 DEF DiskLife
    <2>3. CASE t # run[i].task
      <3>1. LifeOf(task', run', t) = LifeOf(task, run, t)
        BY <2>1, <2>3 DEF Releases, LifeKept
      <3>2. WorkingOn(run', t) = WorkingOn(run, t)
        BY <3>1 DEF LifeOf
      <3> QED
        BY <2>1, <2>2, <3>1, <3>2 DEF Behind
    <2>4. CASE t = run[i].task
      <3>1. LifeOf(task, run, t) = DiskLife(t)
        BY <2>1, <2>4 DEF Behind, WorkingOn, Running
      <3>2. WorkingOn(run', t) = {} /\ Moves(t)
        BY <2>1, <2>4 DEF Releases
      <3> QED
        BY <2>2, <3>1, <3>2 DEF Behind, Moves, LifeKept
    <2> QED
      BY <2>3, <2>4
  <1>3. CASE \E u \in Tasks : Answer(u)
    BY <1>3 DEF Answer, rows, Pending, Behind, DiskLife
  <1>4. ~ (\/ CommitReconcile \/ Gate \/ BeginAudits \/ EndLoop \/ RequeueBlocked \/ BeginDispatch
           \/ BeginBeat \/ EndTick \/ FailStep \/ Crash \/ Shutdown \/ Exit \/ Restart
           \/ (\E u \in Tasks : AuditTask(u) \/ DispatchTask(u) \/ SkipTask(u) \/ BeatActive(u))
           \/ (\E i \in RunId : \/ RefuseReconcile(i) \/ CrashInReceipt(i) \/ Age(i)))
    BY DEF CommitReconcile, Gate, BeginAudits, EndLoop, RequeueBlocked, BeginDispatch, BeginBeat,
           EndTick, FailStep, AbortTick, Crash, CrashInReceipt, Kill, Forget, Shutdown, Exit,
           Restart, AuditTask, DispatchTask, SkipTask, BeatActive, RefuseReconcile, Age, Awaiting
  <1>5. ~ \E i \in RunId : DriverStep(i)
    <2> SUFFICES ASSUME NEW i \in RunId, DriverStep(i) PROVE FALSE
      OBVIOUS
    <2>1. pc' = pc /\ pc \in Awaiting
      BY DEF DriverStep, StartTurn, HeartbeatLoop, AnswerTurn, CollectReply, FailTurn,
             ExceedBudget, TimeoutTurn, LoseDriver, DriverDone, DriverUnchanged
    <2> QED
      BY <2>1 DEF Awaiting
  <1> QED
    BY <1>1, <1>2, <1>3, <1>4, <1>5 DEF Next, TickStep

(* A commit in the middle of the reconciliation is its last step.               *)
LEMMA ReconcileCommits ==
  ASSUME Inv, Next, pc = "reconcile", disk' # disk
  PROVE  UNCHANGED <<task, run>> /\ Commit
  <1>1. CASE CommitReconcile
    BY <1>1 DEF CommitReconcile
  <1>2. ~ (\/ BeginTick \/ Gate \/ BeginAudits \/ EndLoop \/ RequeueBlocked \/ BeginDispatch
           \/ BeginBeat \/ EndTick \/ FailStep \/ Crash \/ Shutdown \/ Exit \/ Restart
           \/ (\E u \in Tasks : AuditTask(u) \/ DispatchTask(u) \/ SkipTask(u) \/ BeatActive(u)
                                \/ Answer(u))
           \/ (\E i \in RunId : \/ ReconcileRun(i) \/ RefuseReconcile(i)
                                \/ CrashInReceipt(i) \/ Age(i)))
    BY DEF BeginTick, Gate, BeginAudits, EndLoop, RequeueBlocked, BeginDispatch, BeginBeat,
           EndTick, FailStep, AbortTick, Rollback, Crash, CrashInReceipt, Kill, Shutdown, Exit,
           Restart, AuditTask, DispatchTask, SkipTask, BeatActive, Answer, ReconcileRun,
           RefuseReconcile, Age, Awaiting, rows
  <1>3. ~ \E i \in RunId : DriverStep(i)
    <2> SUFFICES ASSUME NEW i \in RunId, DriverStep(i) PROVE FALSE
      OBVIOUS
    <2>1. pc \in Awaiting
      BY DEF DriverStep, StartTurn, HeartbeatLoop, AnswerTurn, CollectReply, FailTurn,
             ExceedBudget, TimeoutTurn, LoseDriver
    <2> QED
      BY <2>1 DEF Awaiting
  <1> QED
    BY <1>1, <1>2, <1>3 DEF Next, TickStep

(* What a step commits takes each task at most one step further.                *)
LEMMA DiskLives ==
  ASSUME Inv, Timely, Pending, Next, disk' # disk, NEW t \in Tasks
  PROVE  DiskLife(t)' = DiskLife(t) \/ Life!Step(DiskLife(t), DiskLife(t)')
  <1>1. CASE pc = "reconcile"
    <2>1. UNCHANGED <<task, run>> /\ Commit /\ Behind(t)
      BY <1>1, ReconcileCommits DEF Pending
    <2>2. DiskLife(t)' = LifeOf(task, run, t)
      BY <2>1 DEF Commit, DiskLife
    <2> QED
      BY <2>1, <2>2 DEF Behind
  <1>2. CASE pc # "reconcile"
    <2>1. LifeStep /\ Commit
      BY NextLives DEF LifeRowStep, Rollback
    <2>2. DiskLife(t)' = LifeOf(task', run', t)
      BY <2>1 DEF Commit, DiskLife
    <2>3. DiskLife(t) = LifeOf(task, run, t)
      BY <1>2, FlushedLives
    <2> QED
      BY <2>1, <2>2, <2>3 DEF LifeStep, Moves, LifeKept
  <1> QED
    BY <1>1, <1>2

(* Together with Inv and Timely, Pending is inductive.                          *)
THEOREM PendingInvariance ==
  ASSUME "slow" \notin Faults
  PROVE  Spec => []Pending
  <1>1. Init => Pending
    BY DEF Init, Pending
  <1>2. Inv /\ Timely /\ Pending /\ [Next]_vars => Pending'
    <2> SUFFICES ASSUME Inv, Timely, Pending, [Next]_vars PROVE Pending'
      OBVIOUS
    <2>1. CASE Next
      BY <2>1, NextPending
    <2>2. CASE UNCHANGED vars
      BY <2>2 DEF vars, Pending, Behind, DiskLife
    <2> QED
      BY <2>1, <2>2
  <1> QED
    BY <1>1, <1>2, Invariance, TimelyInvariance, PTL DEF Spec

(* Scheduler implements Lifecycle: what the transactions commit of a task is a   *)
(* behaviour of the abstract specification, for any number of tasks, runs, slots *)
(* and kills, and with every fault but a tick that outlives a lease.             *)
THEOREM ImplementsLifecycle ==
  ASSUME "slow" \notin Faults
  PROVE  Spec => KeepsLifecycle
  <1>1. Init => Life!Init
    <2> SUFFICES ASSUME Init, NEW t \in Tasks
                 PROVE  LifeOf(disk.task, disk.run, t) = Life!Created
      BY DEF Life!Init
    <2>1. /\ disk.task[t] = [status |-> "READY", cur |-> NoRun, held |-> FALSE]
          /\ \A i \in RunId : disk.run[i] = BlankRun
      BY DEF Init
    <2>2. /\ WorkingOn(disk.run, t) = {} /\ GivenTo(disk.run, t) = {}
          /\ JudgedOf(disk.run, t) = {}
      BY <2>1 DEF WorkingOn, GivenTo, JudgedOf, BlankRun
    <2>3. Reported(disk.task, disk.run, t) = "none"
      BY <2>1 DEF Reported
    <2> QED
      BY <2>1, <2>2, <2>3 DEF LifeOf, Life!Created
  <1>2. Inv /\ Timely /\ Pending /\ [Next]_vars => [disk' = disk \/ Life!Next]_disk
    <2> SUFFICES ASSUME Inv, Timely, Pending, [Next]_vars, disk' # disk
                 PROVE  Life!Next
      OBVIOUS
    <2>1. Next
      BY DEF vars
    <2>2. \A t \in Tasks : DiskLife(t)' = DiskLife(t) \/ Life!Step(DiskLife(t), DiskLife(t)')
      BY <2>1, DiskLives
    <2> QED
      BY <2>2 DEF Life!Next, DiskLife
  <1> QED
    BY <1>1, <1>2, Invariance, TimelyInvariance, PendingInvariance, PTL
       DEF Spec, KeepsLifecycle

(* The same, as the formula of the abstract specification.                      *)
THEOREM SchedulerIsLifecycle ==
  ASSUME "slow" \notin Faults
  PROVE  Spec => Life!Spec
  <1>1. Spec => KeepsLifecycle
    BY ImplementsLifecycle
  <1>2. [disk' = disk \/ Life!Next]_disk
           => [Life!Next]_[t \in Tasks |-> LifeOf(disk.task, disk.run, t)]
    OBVIOUS
  <1> QED
    BY <1>1, <1>2, PTL DEF KeepsLifecycle, Life!Spec
=============================================================================
