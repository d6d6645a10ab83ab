--------------------------- MODULE DecisionsProofs ---------------------------
(***************************************************************************)
(* Proofs about Decisions, for every number of tasks, questions, options and *)
(* threads, and every bound.  The invariant relates what the gate and each   *)
(* request have read to the database as it is now: what they act upon may be *)
(* old, but not in the way that would let them do harm.                      *)
(* From it follow the safety of the answers, and that the gate and the       *)
(* requests, with their reads and writes apart, implement the one-step gate  *)
(* of Inquiry.                                                               *)
(***************************************************************************)
EXTENDS Decisions, FiniteSetTheorems, WellFoundedInduction, TLAPS

(* Only BLOCKED tasks are held.                                             *)
HeldIsBlocked == \A t \in Tasks : task[t].status # "BLOCKED" => task[t].held = {}

(* A question that the gate found new is still new when it writes, and the    *)
(* scope it pauses is at least that of the OPEN decisions.                    *)
GateReads ==
    tick.at \in {"resolve", "block"} =>
        \A q \in Questions :
            /\ q \in tick.fresh => ~ Exists(q)
            /\ q \in tick.fresh \/ decision[q].status = "OPEN" => Scope[q] \subseteq tick.scope

(* A request holds an old version of its decision or the decision as it is,   *)
(* and to answer it has seen the decision OPEN.                               *)
Reads(r) ==
    /\ Exists(r.q)
    /\ r.row.version <= decision[r.q].version
    /\ r.row.version = decision[r.q].version => r.row = decision[r.q]
    /\ r.at = "answer" => r.row.status = "OPEN"

ThreadReads == \A w \in Threads : thread[w] # Free => Reads(thread[w])

Inv == TypeOK /\ HeldIsBlocked /\ GateReads /\ ThreadReads

-----------------------------------------------------------------------------
(* Rows of tasks.                                                          *)

LEMMA ReleasedType ==
  ASSUME NEW row \in TaskRow, NEW qs \in SUBSET Questions,
         row.status # "BLOCKED" => row.held = {}
  PROVE  /\ Released(row, qs) \in TaskRow
         /\ Released(row, qs).status # "BLOCKED" => Released(row, qs).held = {}
  BY DEF Released, TaskRow

LEMMA BlockedType ==
  ASSUME NEW t \in Tasks, NEW row \in TaskRow, NEW born,
         row.status # "BLOCKED" => row.held = {}
  PROVE  /\ Blocked(t, row, born) \in TaskRow
         /\ Blocked(t, row, born).status # "BLOCKED" => Blocked(t, row, born).held = {}
         /\ t \in tick.scope => Blocked(t, row, born).status # "READY"
  <1>1. Blocker(t, born) \in SUBSET Questions
    BY DEF Blocker
  <1>2. HeldBy(row, Blocker(t, born)) \in SUBSET Questions
    BY <1>1 DEF HeldBy, TaskRow
  <1>3. row.status = "READY" => Blocker(t, born) \intersect row.held = {}
    OBVIOUS
  <1>4. QED
    BY <1>2, <1>3 DEF Blocked, TaskRow

LEMMA StartedType ==
  ASSUME NEW row \in TaskRow
  PROVE  Started(row) \in TaskRow /\ Started(row).held = row.held
  <1>1. row.runs \in Nat /\ row.runs + 1 \in Nat
    BY DEF TaskRow
  <1> DEFINE n == row.runs + 1
  <1>2. Started(row) = [row EXCEPT !.status = "RUNNING", !.runs = n, !.cur = n]
    BY DEF Started
  <1> HIDE DEF n
  <1>3. [row EXCEPT !.status = "RUNNING", !.runs = n, !.cur = n] \in TaskRow
    BY <1>1 DEF TaskRow, n
  <1>4. QED
    BY <1>2, <1>3 DEF TaskRow

LEMMA AfterGateType ==
  ASSUME Inv, NEW t \in Tasks, NEW born
  PROVE  /\ AfterGate(t, born) \in TaskRow
         /\ AfterGate(t, born).status # "BLOCKED" => AfterGate(t, born).held = {}
         /\ t \in tick.scope => AfterGate(t, born).status # "READY"
  <1> DEFINE row == IF t \in Freed(tick.resolved) THEN Released(task[t], tick.resolved)
                                                  ELSE task[t]
  <1>1. /\ task[t] \in TaskRow /\ tick.resolved \in SUBSET Questions
        /\ task[t].status # "BLOCKED" => task[t].held = {}
    BY DEF Inv, TypeOK, HeldIsBlocked
  <1>2. row \in TaskRow /\ (row.status # "BLOCKED" => row.held = {})
    BY <1>1, ReleasedType
  <1>3. AfterGate(t, born) = Blocked(t, row, born)
    BY DEF AfterGate
  <1> HIDE DEF row
  <1>4. QED
    BY <1>2, <1>3, BlockedType

(* A decision that is written by the gate is new, and all others are as they *)
(* were.                                                                    *)
LEMMA OpenedType ==
  ASSUME Inv, tick.at = "block", NEW born \in Births, NEW q \in Questions
  PROVE  /\ Opened(q, born[q]) \in DecisionRow
         /\ Exists(q) => Opened(q, born[q]) = decision[q]
         /\ Opened(q, born[q]).status # "none" \/ Opened(q, born[q]) = decision[q]
         /\ Opened(q, born[q]).status = "OPEN" => Scope[q] \subseteq tick.scope
  <1>1. born[q] \in Nat
    BY DEF Births
  <1>2. decision[q] \in DecisionRow
    BY DEF Inv, TypeOK
  <1>3. CASE q \in tick.fresh
    BY <1>1, <1>3 DEF Inv, GateReads, Opened, DecisionRow
  <1>4. CASE q \notin tick.fresh
    BY <1>2, <1>4 DEF Inv, GateReads, Opened
  <1>5. QED
    BY <1>3, <1>4

-----------------------------------------------------------------------------
(* The invariant.                                                          *)

LEMMA Initially == Init => Inv
  <1> SUFFICES ASSUME Init PROVE Inv
    OBVIOUS
  <1>1. TypeOK
    BY DEF Init, TypeOK, NoDecision, DecisionRow, TaskRow, Waiting
  <1>2. HeldIsBlocked /\ GateReads /\ ThreadReads
    BY DEF Init, HeldIsBlocked, GateReads, ThreadReads, Waiting
  <1>3. QED
    BY <1>1, <1>2 DEF Inv

(* Requests keep what they have read while the decisions stay.               *)
LEMMA SameDecisions ==
  ASSUME Inv, decision' = decision, thread' = thread
  PROVE  ThreadReads'
  BY DEF Inv, ThreadReads, Reads, Exists

LEMMA EvaluateKeepsInv == ASSUME Inv, Evaluate PROVE Inv'
  <1>1. TypeOK'
    BY DecisionsAssumption
    DEF Inv, TypeOK, Evaluate, DatabaseUnchanged, RestUnchanged, InScope, NotAsked, With,
        Raised, SucceededRun
  <1>2. HeldIsBlocked'
    BY DEF Inv, HeldIsBlocked, Evaluate, DatabaseUnchanged
  <1>3. GateReads'
    BY DEF Inv, TypeOK, GateReads, Evaluate, DatabaseUnchanged, InScope, NotAsked, With, Exists
  <1>4. ThreadReads'
    BY SameDecisions DEF Evaluate, DatabaseUnchanged, RestUnchanged
  <1>5. QED
    BY <1>1, <1>2, <1>3, <1>4 DEF Inv

LEMMA ResolveKeepsInv == ASSUME Inv, Resolve PROVE Inv'
  <1>1. /\ tick' = [tick EXCEPT !.at = "block", !.resolved = With("ANSWERED")]
        /\ With("ANSWERED") \in SUBSET Questions
    BY DEF Resolve, With
  <1>2. TypeOK'
    BY <1>1 DEF Inv, TypeOK, Resolve, DatabaseUnchanged, RestUnchanged
  <1>3. HeldIsBlocked' /\ GateReads'
    BY <1>1 DEF Inv, TypeOK, HeldIsBlocked, GateReads, Resolve, DatabaseUnchanged, Exists
  <1>4. ThreadReads'
    BY SameDecisions DEF Resolve, DatabaseUnchanged, RestUnchanged
  <1>5. QED
    BY <1>2, <1>3, <1>4 DEF Inv

LEMMA BlockKeepsInv == ASSUME Inv, Block PROVE Inv'
  <1>1. PICK born \in Births :
           /\ decision' = [q \in Questions |-> Opened(q, born[q])]
           /\ task' = [t \in Tasks |-> AfterGate(t, born)]
    BY DEF Block
  <1>2. /\ tick.at = "block" /\ tick'.at = "requeue" /\ pending' = {}
        /\ tick' \in [at: {"sleep", "resolve", "block", "requeue", "dispatch"},
                      fresh: SUBSET Questions, scope: SUBSET Tasks, resolved: SUBSET Questions]
        /\ UNCHANGED <<keys, thread, links, kills>>
    BY DEF Block, Waiting, RestUnchanged
  <1>3. decision' \in [Questions -> DecisionRow] /\ task' \in [Tasks -> TaskRow]
    BY <1>1, <1>2, OpenedType, AfterGateType
  <1>4. TypeOK'
    BY <1>2, <1>3 DEF Inv, TypeOK
  <1>5. HeldIsBlocked'
    BY <1>1, AfterGateType DEF HeldIsBlocked
  <1>6. \A q \in Questions : Exists(q) => decision'[q] = decision[q]
    BY <1>1, <1>2, OpenedType
  <1>7. ASSUME NEW w \in Threads, thread[w] # Free PROVE Reads(thread[w])'
    <2>1. Reads(thread[w]) /\ thread[w].q \in Questions
      BY <1>7 DEF Inv, TypeOK, ThreadReads
    <2>2. QED
      BY <1>2, <1>6, <2>1 DEF Reads, Exists
  <1>8. ThreadReads'
    BY <1>2, <1>7 DEF ThreadReads
  <1>9. GateReads'
    BY <1>2 DEF GateReads
  <1>10. QED
    BY <1>4, <1>5, <1>8, <1>9 DEF Inv

(* The steps that touch neither decisions nor requests, nor start a gate.    *)
LEMMA TasksMove ==
  ASSUME Inv, UNCHANGED <<decision, thread, links>>,
         task' \in [Tasks -> TaskRow], HeldIsBlocked',
         pending' \in SUBSET SucceededRun, keys' \in SUBSET (Tasks \X Nat),
         kills' \in Nat,
         tick' = tick \/ tick' = Waiting \/ tick' = [Waiting EXCEPT !.at = "dispatch"]
  PROVE  Inv'
  <1>1. TypeOK'
    BY DEF Inv, TypeOK, Waiting
  <1>2. GateReads'
    BY DEF Inv, GateReads, Waiting, Exists
  <1>3. QED
    BY <1>1, <1>2, SameDecisions DEF Inv

LEMMA RequeueKeepsInv == ASSUME Inv, Requeue PROVE Inv'
  <1>1. \A t \in Tasks : /\ task[t] \in TaskRow
                         /\ [task[t] EXCEPT !.status = "READY"] \in TaskRow
                         /\ [task[t] EXCEPT !.status = "READY"].held = task[t].held
    BY DEF Inv, TypeOK, TaskRow
  <1>2. task' \in [Tasks -> TaskRow] /\ HeldIsBlocked'
    BY <1>1 DEF Inv, HeldIsBlocked, Requeue, Unheld
  <1>3. RequeueKeys \in SUBSET (Tasks \X Nat)
    <2>1. \A t \in Tasks : <<t, task[t].cur>> \in Tasks \X Nat
      BY <1>1 DEF TaskRow
    <2>2. QED
      BY <2>1 DEF RequeueKeys, Unheld
  <1>4. QED
    BY <1>2, <1>3, TasksMove DEF Inv, TypeOK, Requeue, RestUnchanged

LEMMA DispatchKeepsInv == ASSUME Inv, Dispatch PROVE Inv'
  <1>1. PICK now \in SUBSET Dispatchable :
           task' = [t \in Tasks |-> IF t \in now THEN Started(task[t]) ELSE task[t]]
    BY DEF Dispatch
  <1>2. \A t \in Tasks : task[t] \in TaskRow
    BY DEF Inv, TypeOK
  <1>3. \A t \in now : task[t].held = {}
    BY DEF Dispatchable, Inv, HeldIsBlocked
  <1>4. task' \in [Tasks -> TaskRow] /\ HeldIsBlocked'
    BY <1>1, <1>2, <1>3, StartedType DEF Inv, HeldIsBlocked
  <1>5. QED
    BY <1>4, TasksMove DEF Inv, TypeOK, Dispatch, RestUnchanged

(* A task whose run ends is not held.                                       *)
LEMMA RowMoves ==
  ASSUME Inv, NEW t \in Tasks, task[t].status # "BLOCKED", NEW row \in TaskRow,
         row.held = task[t].held, task' = [task EXCEPT ![t] = row]
  PROVE  task' \in [Tasks -> TaskRow] /\ HeldIsBlocked'
  BY DEF Inv, TypeOK, HeldIsBlocked

LEMMA DriversKeepInv ==
  ASSUME Inv, NEW t \in Tasks,
         \/ \E status \in {"REVIEW", "BLOCKED"}, asks \in SUBSET Questions :
               WorkerSucceeds(t, status, asks)
         \/ WorkerInterrupted(t)
         \/ Revise(t)
  PROVE  Inv'
  <1>0. task[t] \in TaskRow /\ task \in [Tasks -> TaskRow]
    BY DEF Inv, TypeOK
  <1>1. ASSUME NEW status \in {"REVIEW", "BLOCKED"}, NEW asks \in SUBSET Questions,
               WorkerSucceeds(t, status, asks)
        PROVE  Inv'
    <2> DEFINE row == [task[t] EXCEPT !.status = status]
               run == [task |-> t, run |-> task[t].cur, asks |-> asks]
    <2>1. row \in TaskRow /\ row.held = task[t].held /\ run \in SucceededRun
      BY <1>0 DEF TaskRow, SucceededRun
    <2>2. /\ task[t].status = "RUNNING" /\ task' = [task EXCEPT ![t] = row]
          /\ pending' = pending \union {run}
          /\ UNCHANGED <<decision, keys, tick, thread, links, kills>>
      BY <1>0, <1>1 DEF WorkerSucceeds, DriverUnchanged, RestUnchanged, Inv, TypeOK
    <2> HIDE DEF row, run
    <2>3. task' \in [Tasks -> TaskRow] /\ HeldIsBlocked'
      BY <2>1, <2>2, RowMoves
    <2>4. QED
      BY <2>1, <2>2, <2>3, TasksMove DEF Inv, TypeOK
  <1>2. ASSUME WorkerInterrupted(t) PROVE Inv'
    <2> DEFINE row == [task[t] EXCEPT !.status = "READY"]
    <2>1. row \in TaskRow /\ row.held = task[t].held
      BY <1>0 DEF TaskRow
    <2>2. /\ task[t].status = "RUNNING" /\ task' = [task EXCEPT ![t] = row]
          /\ UNCHANGED <<decision, pending, keys, tick, thread, links, kills>>
      BY <1>0, <1>2 DEF WorkerInterrupted, DriverUnchanged, RestUnchanged
    <2> HIDE DEF row
    <2>3. task' \in [Tasks -> TaskRow] /\ HeldIsBlocked'
      BY <2>1, <2>2, RowMoves
    <2>4. QED
      BY <2>2, <2>3, TasksMove DEF Inv, TypeOK
  <1>3. ASSUME Revise(t) PROVE Inv'
    <2> DEFINE n == task[t].runs + 1
               row == [task[t] EXCEPT !.status = "READY", !.runs = n]
    <2>0. n \in Nat
      BY <1>0 DEF TaskRow
    <2> HIDE DEF n
    <2>1. row \in TaskRow /\ row.held = task[t].held
      BY <1>0, <2>0 DEF TaskRow
    <2>2. /\ task[t].status = "REVIEW" /\ task' = [task EXCEPT ![t] = row]
          /\ UNCHANGED <<decision, pending, keys, tick, thread, links, kills>>
      BY <1>0, <1>3 DEF Revise, DriverUnchanged, RestUnchanged, n
    <2> HIDE DEF row
    <2>3. task' \in [Tasks -> TaskRow] /\ HeldIsBlocked'
      BY <2>1, <2>2, RowMoves
    <2>4. QED
      BY <2>2, <2>3, TasksMove DEF Inv, TypeOK
  <1>4. QED
    BY <1>1, <1>2, <1>3

-----------------------------------------------------------------------------
(* Requests.                                                               *)

LEMMA ReadKeepsInv ==
  ASSUME Inv, NEW w \in Threads, NEW q \in Questions,
         \/ \E o \in Options : ReadToAnswer(w, q, o)
         \/ ReadToLink(w, q)
  PROVE  Inv'
  <1>0. decision[q] \in DecisionRow
    BY DEF Inv, TypeOK
  <1>1. PICK r : /\ thread' = [thread EXCEPT ![w] = r]
                 /\ \/ r \in [at: {"answer"}, q: Questions, option: Options, row: DecisionRow]
                    \/ r \in [at: {"link"}, q: Questions, option: {NoAnswer}, row: DecisionRow]
                 /\ r.q = q /\ r.row = decision[q] /\ Exists(q)
                 /\ r.at = "answer" => decision[q].status = "OPEN"
    <2>1. ASSUME NEW o \in Options, ReadToAnswer(w, q, o)
          PROVE  thread' = [thread EXCEPT ![w] = Serving("answer", q, o)]
                 /\ decision[q].status = "OPEN"
      BY <2>1 DEF ReadToAnswer
    <2>2. ASSUME ReadToLink(w, q)
          PROVE  thread' = [thread EXCEPT ![w] = Serving("link", q, NoAnswer)] /\ Exists(q)
      BY <2>2 DEF ReadToLink
    <2>3. \A o \in Options :
             LET r == Serving("answer", q, o)
             IN /\ r \in [at: {"answer"}, q: Questions, option: Options, row: DecisionRow]
                /\ r.q = q /\ r.row = decision[q]
      BY <1>0 DEF Serving
    <2>4. LET r == Serving("link", q, NoAnswer)
          IN /\ r \in [at: {"link"}, q: Questions, option: {NoAnswer}, row: DecisionRow]
             /\ r.q = q /\ r.row = decision[q] /\ r.at # "answer"
      BY <1>0 DEF Serving
    <2>5. CASE \E o \in Options : ReadToAnswer(w, q, o)
      <3>1. PICK o \in Options : ReadToAnswer(w, q, o)
        BY <2>5
      <3>2. decision[q].status = "OPEN" /\ Exists(q)
        BY <2>1, <3>1 DEF Exists
      <3>3. QED
        BY <2>1, <2>3, <3>1, <3>2
    <2>6. CASE ReadToLink(w, q)
      BY <2>2, <2>4, <2>6
    <2>7. QED
      BY <2>5, <2>6
  <1>2. UNCHANGED <<decision, task, pending, keys, tick, kills>> /\ links' \in Nat
    BY DEF Inv, TypeOK, ReadToAnswer, ReadToLink, ThreadUnchanged
  <1>3. TypeOK'
    BY <1>1, <1>2 DEF Inv, TypeOK
  <1>4. HeldIsBlocked' /\ GateReads'
    BY <1>2 DEF Inv, HeldIsBlocked, GateReads, Exists
  <1>5. Reads(r)
    BY <1>0, <1>1 DEF Reads, DecisionRow
  <1>6. ThreadReads'
    BY <1>1, <1>2, <1>5 DEF Inv, TypeOK, ThreadReads, Reads, Exists
  <1>7. QED
    BY <1>3, <1>4, <1>6 DEF Inv

(* What a request writes: the next version of the decision it has read, and   *)
(* nothing over an answer.                                                  *)
LEMMA SavedRow ==
  ASSUME Inv, NEW w \in Threads, thread[w] # Free, IsCurrent(thread[w].row, thread[w].q)
  PROVE  LET d == decision[thread[w].q]
         IN /\ Saved(thread[w]) \in DecisionRow
            /\ Saved(thread[w]).version = d.version + 1
            /\ Saved(thread[w]).born = d.born
            /\ Saved(thread[w]).status # "none"
            /\ Saved(thread[w]).status = "OPEN" => d.status = "OPEN"
            /\ d.status = "ANSWERED" => /\ Saved(thread[w]).status = "ANSWERED"
                                        /\ Saved(thread[w]).answer = d.answer
  <1> DEFINE r == thread[w]
             n == r.row.version + 1
  <1>1. \/ r \in [at: {"answer"}, q: Questions, option: Options, row: DecisionRow]
        \/ r \in [at: {"link"}, q: Questions, option: {NoAnswer}, row: DecisionRow]
    BY DEF Inv, TypeOK
  <1>2. /\ r.row = decision[r.q] /\ Exists(r.q)
        /\ r.at = "answer" => r.row.status = "OPEN"
    BY DEF Inv, ThreadReads, Reads, IsCurrent
  <1>3. r.row \in DecisionRow /\ n \in Nat
    BY <1>1 DEF DecisionRow
  <1>4. Saved(r) = IF r.at = "answer"
                   THEN [r.row EXCEPT !.status = "ANSWERED", !.answer = r.option, !.version = n]
                   ELSE [r.row EXCEPT !.version = n]
    BY <1>3 DEF Saved, DecisionRow
  <1>5. n = decision[r.q].version + 1
    BY <1>2
  <1>6. r.at = "answer" => r.option \in Options
    BY <1>1
  <1> HIDE DEF n, r
  <1>7. CASE r.at = "answer"
    BY <1>2, <1>3, <1>4, <1>5, <1>6, <1>7 DEF DecisionRow, r
  <1>8. CASE r.at # "answer"
    BY <1>2, <1>3, <1>4, <1>5, <1>8 DEF DecisionRow, Exists, r
  <1>9. QED
    BY <1>7, <1>8

LEMMA SaveMoves ==
  ASSUME Inv, NEW w \in Threads, Save(w), NEW q \in Questions
  PROVE  \/ decision'[q] = decision[q]
         \/ /\ q = thread[w].q /\ IsCurrent(thread[w].row, q)
            /\ decision'[q] = Saved(thread[w])
  <1>1. decision \in [Questions -> DecisionRow]
    BY DEF Inv, TypeOK
  <1>2. \/ decision' = decision
        \/ /\ decision' = [decision EXCEPT ![thread[w].q] = Saved(thread[w])]
           /\ IsCurrent(thread[w].row, thread[w].q)
    BY DEF Save
  <1>3. QED
    BY <1>1, <1>2

LEMMA SaveKeepsInv == ASSUME Inv, NEW w \in Threads, Save(w) PROVE Inv'
  <1>0. thread[w] # Free /\ decision \in [Questions -> DecisionRow]
    BY DEF Save, Inv, TypeOK
  <1>1. thread' = [thread EXCEPT ![w] = Free]
        /\ UNCHANGED <<task, pending, keys, tick, links, kills>>
    BY DEF Save, ThreadUnchanged
  <1>2. \A q \in Questions :
           /\ decision'[q] \in DecisionRow
           /\ Exists(q)' => Exists(q)
           /\ Exists(q) => Exists(q)'
           /\ decision'[q].status = "OPEN" => decision[q].status = "OPEN"
           /\ decision'[q] = decision[q] \/ decision'[q].version = decision[q].version + 1
    <2> SUFFICES ASSUME NEW q \in Questions
                 PROVE  /\ decision'[q] \in DecisionRow
                        /\ Exists(q)' => Exists(q)
                        /\ Exists(q) => Exists(q)'
                        /\ decision'[q].status = "OPEN" => decision[q].status = "OPEN"
                        /\ decision'[q] = decision[q]
                           \/ decision'[q].version = decision[q].version + 1
      OBVIOUS
    <2>1. CASE decision'[q] = decision[q]
      BY <1>0, <2>1 DEF Exists
    <2>2. CASE /\ q = thread[w].q /\ IsCurrent(thread[w].row, q)
               /\ decision'[q] = Saved(thread[w])
      <3>1. Exists(q)
        BY <1>0, <2>2 DEF Inv, ThreadReads, Reads
      <3>2. QED
        BY <1>0, <2>2, <3>1, SavedRow DEF Exists
    <2>3. QED
      BY <2>1, <2>2, SaveMoves
  <1>3. decision' \in [Questions -> DecisionRow]
    <2>1. decision' = [q \in Questions |-> decision'[q]]
      BY <1>0 DEF Save
    <2>2. QED
      BY <1>2, <2>1
  <1>4. TypeOK'
    BY <1>1, <1>3 DEF Inv, TypeOK
  <1>5. HeldIsBlocked' /\ GateReads'
    BY <1>1, <1>2 DEF Inv, HeldIsBlocked, GateReads
  <1>6. ASSUME NEW u \in Threads, thread'[u] # Free PROVE Reads(thread[u])'
    <2>1. thread'[u] = thread[u] /\ thread[u] # Free /\ thread[u].q \in Questions
          /\ thread[u].row \in DecisionRow
      BY <1>1, <1>6 DEF Inv, TypeOK
    <2>2. Reads(thread[u])
      BY <2>1 DEF Inv, ThreadReads
    <2>3. /\ thread[u].row.version \in Nat
          /\ decision[thread[u].q].version \in Nat
      BY <1>0, <2>1 DEF DecisionRow
    <2>4. QED
      BY <1>2, <2>1, <2>2, <2>3 DEF Reads
  <1>7. QED
    BY <1>4, <1>5, <1>6 DEF Inv, ThreadReads

-----------------------------------------------------------------------------
LEMMA StepKeepsInv == Inv /\ [Next]_vars => Inv'
  <1> SUFFICES ASSUME Inv, [Next]_vars PROVE Inv'
    OBVIOUS
  <1>1. CASE Tick
    <2>1. ASSUME RequeueCollides PROVE Inv'
      BY <2>1, TasksMove
      DEF Inv, TypeOK, HeldIsBlocked, RequeueCollides, DatabaseUnchanged, RestUnchanged
    <2>2. QED
      BY <1>1, <2>1, EvaluateKeepsInv, ResolveKeepsInv, BlockKeepsInv, RequeueKeepsInv,
         DispatchKeepsInv DEF Tick
  <1>2. CASE EndTick
    <2>1. /\ UNCHANGED <<decision, task, pending, keys, links>>
          /\ kills' \in Nat /\ tick' = Waiting
          /\ thread' \in {thread, [w \in Threads |-> Free]}
      BY <1>2 DEF EndTick, Interrupted, Inv, TypeOK
    <2>2. TypeOK'
      BY <2>1 DEF Inv, TypeOK, Waiting
    <2>3. HeldIsBlocked' /\ GateReads'
      BY <2>1 DEF Inv, HeldIsBlocked, GateReads, Waiting
    <2>4. ThreadReads'
      BY <2>1 DEF Inv, ThreadReads, Reads, Exists
    <2>5. QED
      BY <2>2, <2>3, <2>4 DEF Inv
  <1>3. ASSUME NEW t \in Tasks,
               \/ \E status \in {"REVIEW", "BLOCKED"}, asks \in SUBSET Questions :
                     WorkerSucceeds(t, status, asks)
               \/ WorkerInterrupted(t)
               \/ Revise(t)
        PROVE  Inv'
    BY <1>3, DriversKeepInv
  <1>4. ASSUME NEW w \in Threads,
               \/ \E q \in Questions : \/ \E o \in Options : ReadToAnswer(w, q, o)
                                       \/ ReadToLink(w, q)
               \/ Save(w)
        PROVE  Inv'
    BY <1>4, ReadKeepsInv, SaveKeepsInv
  <1>5. CASE UNCHANGED vars
    BY <1>5 DEF vars, Inv, TypeOK, HeldIsBlocked, GateReads, ThreadReads, Reads, Exists
  <1>6. QED
    BY <1>1, <1>2, <1>3, <1>4, <1>5 DEF Next

(* The invariant holds in every behaviour.                                  *)
THEOREM InvHolds == Spec => []Inv
  <1>1. QED
    BY Initially, StepKeepsInv, PTL DEF Spec

(* The state keeps its type: in particular blocked_by only ever names          *)
(* decisions.                                                               *)
THEOREM TypeCorrect == Spec => []TypeOK
  <1>1. Inv => TypeOK
    BY DEF Inv
  <1>2. QED
    BY <1>1, InvHolds, PTL

(* The steps that write decisions.                                          *)
LEMMA DecisionsChange ==
  ASSUME Inv, [Next]_vars, NEW q \in Questions
  PROVE  \/ decision'[q] = decision[q]
         \/ Block
         \/ \E w \in Threads : Save(w)
  BY DEF Next, Tick, Evaluate, Resolve, Requeue, RequeueCollides, Dispatch, EndTick, Interrupted,
         WorkerSucceeds, WorkerInterrupted, Revise, ReadToAnswer, ReadToLink,
         DatabaseUnchanged, DriverUnchanged, vars

LEMMA BlockKeepsDecisions ==
  ASSUME Inv, Block, NEW q \in Questions, Exists(q)
  PROVE  decision'[q] = decision[q]
  BY OpenedType DEF Block

LEMMA SaveKeepsAnswer ==
  ASSUME Inv, NEW w \in Threads, Save(w), NEW q \in Questions, Exists(q)
  PROVE  /\ decision'[q].born = decision[q].born
         /\ decision[q].status = "ANSWERED" => /\ decision'[q].status = "ANSWERED"
                                               /\ decision'[q].answer = decision[q].answer
  BY SaveMoves, SavedRow DEF Save

(* What the PI answered stands, however many requests write the same row:     *)
(* update with the version as a condition in persistence/repositories.py,     *)
(* and the check of the status before it.                                    *)
THEOREM AnswersStand == Spec => AnswerStands
  <1>1. ASSUME Inv, [Next]_vars
        PROVE  \A q \in Questions : decision[q].status = "ANSWERED" =>
                  decision'[q].status = "ANSWERED" /\ decision'[q].answer = decision[q].answer
    BY <1>1, DecisionsChange, BlockKeepsDecisions, SaveKeepsAnswer DEF Exists
  <1>2. Inv /\ [Next]_vars =>
           [\A q \in Questions : decision[q].status = "ANSWERED" =>
               decision'[q].status = "ANSWERED" /\ decision'[q].answer = decision[q].answer]_vars
    BY <1>1
  <1>3. QED
    BY <1>2, InvHolds, PTL DEF AnswerStands, Spec

(* A question is put to the PI once: the fingerprints the gate read are still  *)
(* all there are when it commits.                                            *)
THEOREM QuestionsAreAskedOnce == Spec => AskedOnce
  <1>1. ASSUME Inv, [Next]_vars
        PROVE  \A q \in Questions : Exists(q) => decision'[q].born = decision[q].born
    BY <1>1, DecisionsChange, BlockKeepsDecisions, SaveKeepsAnswer
  <1>2. Inv /\ [Next]_vars =>
           [\A q \in Questions : Exists(q) => decision'[q].born = decision[q].born]_vars
    BY <1>1
  <1>3. QED
    BY <1>2, InvHolds, PTL DEF AskedOnce, Spec

-----------------------------------------------------------------------------
(* What a pass has read, and what it makes of it.                          *)

(* Of the decisions in O, one is born last.                                 *)
LEMMA LastOne ==
  ASSUME NEW born \in [Questions -> Nat], NEW O \in SUBSET Questions, O # {}
  PROVE  \E q \in O : \A p \in O : born[p] <= born[q]
  <1> DEFINE Later(q) == {p \in O : born[p] > born[q]}
             Laters == {Later(q) : q \in O}
  <1>1. IsFiniteSet(Questions)
    BY DecisionsAssumption DEF DecisionsAssumption
  <1>2. \A q \in O : Later(q) \in SUBSET Questions /\ IsFiniteSet(Later(q))
    BY <1>1, FS_Subset
  <1>3. Laters \subseteq FiniteSubsetsOf(Questions) /\ Laters # {}
    BY <1>2 DEF FiniteSubsetsOf
  <1> HIDE DEF Laters
  <1>4. PICK L \in Laters : \A M \in Laters : <<M, L>> \notin StrictSubsetOrdering(Questions)
    BY <1>3, WFMin, FS_StrictSubsetOrderingWellFounded
  <1>5. PICK q \in O : L = Later(q)
    BY <1>4 DEF Laters
  <1>6. ASSUME NEW p \in O, born[p] > born[q]
        PROVE  FALSE
    <2>1. born[p] \in Nat /\ born[q] \in Nat /\ \A r \in O : born[r] \in Nat
      OBVIOUS
    <2>2. Later(p) \subseteq Later(q) /\ p \in Later(q) /\ p \notin Later(p)
      BY <1>6, <2>1
    <2>3. <<Later(p), Later(q)>> \in StrictSubsetOrdering(Questions)
      BY <1>2, <2>2 DEF StrictSubsetOrdering
    <2>4. Later(p) \in Laters
      BY DEF Laters
    <2>5. QED
      BY <1>4, <1>5, <2>3, <2>4
  <1>7. \A p \in O : born[p] \in Nat /\ born[q] \in Nat
    OBVIOUS
  <1>8. QED
    BY <1>6, <1>7

(* What LastBorn is.                                                       *)
LEMMA LastBornIsLast ==
  ASSUME TypeOK, NEW q \in Questions
  PROVE  LastBorn \in Nat /\ decision[q].born <= LastBorn
  <1> DEFINE born == [p \in Questions |-> decision[p].born]
             S == {decision[p].born : p \in Questions}
  <1>1. \A p \in Questions : decision[p].born \in Nat
    BY DEF TypeOK, DecisionRow
  <1>2. born \in [Questions -> Nat] /\ \A p \in Questions : born[p] = decision[p].born
    BY <1>1
  <1> HIDE DEF born
  <1>3. \E p \in Questions : \A r \in Questions : born[r] <= born[p]
    BY <1>2, LastOne
  <1>4. PICK p \in Questions : \A r \in Questions : decision[r].born <= decision[p].born
    BY <1>2, <1>3
  <1>5. \E x \in S : \A y \in S : x >= y
    BY <1>1, <1>4
  <1>6. LastBorn \in S /\ \A y \in S : LastBorn >= y
    BY <1>5 DEF LastBorn, Max
  <1>7. QED
    BY <1>1, <1>6

(* Nothing is answered but by the PI; no two decisions were created at one    *)
(* time; a pass holds no task that no decision is about; what it found        *)
(* answered is answered.                                                     *)
UnansweredIsBlank ==
    \A q \in Questions : decision[q].status # "ANSWERED" => decision[q].answer = NoAnswer

BornApart ==
    \A p, q \in Questions :
        Exists(p) /\ Exists(q) /\ decision[p].born = decision[q].born => p = q

PassReads ==
    /\ tick.at \in {"resolve", "block"} =>
          \A t \in tick.scope : \E q \in Questions :
              t \in Scope[q] /\ (q \in tick.fresh \/ Exists(q))
    /\ tick.at = "block" => \A q \in tick.resolved : decision[q].status = "ANSWERED"

Asking == UnansweredIsBlank /\ BornApart /\ PassReads

(* What a request saves is blank until it is an answer.                      *)
LEMMA SaveKeepsBlank ==
  ASSUME Inv, UnansweredIsBlank, NEW w \in Threads, Save(w), NEW q \in Questions
  PROVE  /\ decision'[q].status # "ANSWERED" => decision'[q].answer = NoAnswer
         /\ Exists(q)' => Exists(q)
  <1>1. thread[w] # Free
    BY DEF Save
  <1>2. CASE decision'[q] = decision[q]
    BY <1>2 DEF UnansweredIsBlank, Exists
  <1>3. CASE /\ q = thread[w].q /\ IsCurrent(thread[w].row, q)
             /\ decision'[q] = Saved(thread[w])
    <2>1. thread[w].row = decision[q] /\ Exists(q) /\ decision[q] \in DecisionRow
      BY <1>1, <1>3 DEF Inv, TypeOK, ThreadReads, Reads, IsCurrent
    <2>2. \/ Saved(thread[w]).status = "ANSWERED"
          \/ Saved(thread[w]).status = decision[q].status /\ Saved(thread[w]).answer = decision[q].answer
      BY <2>1 DEF Saved, DecisionRow
    <2>3. QED
      BY <1>3, <2>1, <2>2 DEF UnansweredIsBlank
  <1>4. QED
    BY <1>2, <1>3, SaveMoves

(* The decisions that a pass creates are blank, and born after all others.   *)
LEMMA BlockKeepsApart ==
  ASSUME Inv, Asking, Block
  PROVE  UnansweredIsBlank' /\ BornApart'
  <1>1. PICK born \in Births : decision' = [q \in Questions |-> Opened(q, born[q])]
    BY DEF Block
  <1>2. \A q \in Questions :
           IF q \in tick.fresh
           THEN LastBorn < born[q] /\ \A p \in tick.fresh \ {q} : born[p] # born[q]
           ELSE born[q] = decision[q].born
    BY <1>1 DEF Births
  <1>3. ASSUME NEW q \in Questions
        PROVE  /\ born[q] \in Nat
               /\ q \in tick.fresh => /\ decision'[q].status = "OPEN"
                                      /\ decision'[q].answer = NoAnswer
                                      /\ decision'[q].born = born[q]
               /\ q \notin tick.fresh => decision'[q] = decision[q]
    <2>1. born[q] \in Nat /\ decision'[q] = Opened(q, born[q])
      BY <1>1 DEF Births
    <2>2. QED
      BY <2>1 DEF Opened
  <1>4. UnansweredIsBlank'
    BY <1>3 DEF Asking, UnansweredIsBlank
  <1>5. \A q \in Questions : /\ LastBorn \in Nat /\ decision[q].born \in Nat
                             /\ decision[q].born <= LastBorn
    BY LastBornIsLast DEF Inv, TypeOK, DecisionRow
  <1>6. ASSUME NEW p \in Questions, NEW q \in Questions, Exists(p)', Exists(q)',
               decision'[p].born = decision'[q].born
        PROVE  p = q
    <2>1. decision'[p].born = born[p] /\ decision'[q].born = born[q]
      BY <1>2, <1>3
    <2>2. CASE p \in tick.fresh /\ q \in tick.fresh
      BY <1>2, <1>6, <2>1, <2>2
    <2>3. CASE p \notin tick.fresh /\ q \notin tick.fresh
      BY <1>3, <1>6, <2>3 DEF Asking, BornApart, Exists
    <2>4. ASSUME NEW new \in Questions, NEW old \in Questions,
                 new \in tick.fresh, old \notin tick.fresh
          PROVE  decision'[new].born # decision'[old].born
      <3>1. decision'[new].born = born[new] /\ decision'[old].born = decision[old].born
        BY <1>3, <2>4
      <3>2. born[new] \in Nat /\ LastBorn < born[new]
        BY <1>2, <1>3, <2>4
      <3>3. LastBorn \in Nat /\ decision[old].born \in Nat /\ decision[old].born <= LastBorn
        BY <1>5
      <3>4. born[new] # decision[old].born
        BY <3>2, <3>3
      <3>5. QED
        BY <3>1, <3>4
    <2>5. QED
      BY <1>6, <2>2, <2>3, <2>4
  <1>7. QED
    BY <1>4, <1>6 DEF BornApart

LEMMA StepKeepsAsking ==
  ASSUME Inv, Asking, [Next]_vars
  PROVE  Asking'
  <1>1. UnansweredIsBlank' /\ BornApart'
    <2>1. CASE Block
      BY <2>1, BlockKeepsApart
    <2>2. ASSUME NEW w \in Threads, Save(w) PROVE UnansweredIsBlank' /\ BornApart'
      <3>1. \A q \in Questions : /\ decision'[q].status # "ANSWERED" => decision'[q].answer = NoAnswer
                                 /\ Exists(q)' => Exists(q)
        BY <2>2, SaveKeepsBlank DEF Asking
      <3>2. \A q \in Questions : Exists(q) => decision'[q].born = decision[q].born
        BY <2>2, SaveKeepsAnswer
      <3>3. QED
        BY <3>1, <3>2 DEF Asking, UnansweredIsBlank, BornApart
    <2>3. CASE \A q \in Questions : decision'[q] = decision[q]
      BY <2>3 DEF Asking, UnansweredIsBlank, BornApart, Exists
    <2>4. QED
      BY <2>1, <2>2, <2>3, DecisionsChange DEF Next, Tick, Evaluate, Resolve, Requeue,
         RequeueCollides, Dispatch, EndTick, Interrupted, WorkerSucceeds, WorkerInterrupted,
         Revise, ReadToAnswer, ReadToLink, DatabaseUnchanged, DriverUnchanged, vars
  <1>2. \A q \in Questions : /\ Exists(q) => Exists(q)'
                             /\ decision[q].status = "ANSWERED" => decision'[q].status = "ANSWERED"
    <2>1. ASSUME NEW q \in Questions, Exists(q)
          PROVE  /\ Exists(q)'
                 /\ decision[q].status = "ANSWERED" => decision'[q].status = "ANSWERED"
      <3>1. CASE decision'[q] = decision[q]
        BY <2>1, <3>1 DEF Exists
      <3>2. ASSUME NEW w \in Threads, Save(w) PROVE Exists(q)'
        BY <2>1, <3>2, SaveMoves, SavedRow DEF Save, Exists
      <3>3. QED
        BY <2>1, <3>1, <3>2, DecisionsChange, BlockKeepsDecisions, SaveKeepsAnswer DEF Exists
    <2>2. QED
      BY <2>1 DEF Exists
  <1>3. PassReads'
    <2>1. CASE Evaluate
      <3>1. tick'.at = "resolve" /\ decision' = decision
        BY <2>1 DEF Evaluate, DatabaseUnchanged
      <3>2. ASSUME NEW t \in tick'.scope
            PROVE  \E q \in Questions : t \in Scope[q] /\ (q \in tick'.fresh \/ Exists(q))
        <4>1. /\ tick'.fresh = NotAsked(Raised)
              /\ tick'.scope = InScope(NotAsked(Raised) \union With("OPEN"))
          BY <2>1 DEF Evaluate
        <4>2. Raised \subseteq Questions
          BY DEF Inv, TypeOK, Raised, SucceededRun
        <4>3. PICK q \in NotAsked(Raised) \union With("OPEN") : t \in Scope[q]
          BY <3>2, <4>1 DEF InScope
        <4>4. q \in Questions /\ (q \in tick'.fresh \/ Exists(q))
          BY <4>1, <4>2, <4>3 DEF NotAsked, With, Exists
        <4>5. QED
          BY <4>3, <4>4
      <3>3. QED
        BY <3>1, <3>2 DEF PassReads, Exists
    <2>2. CASE Resolve
      <3>1. /\ tick'.at = "block" /\ tick.at = "resolve" /\ decision' = decision
            /\ tick'.scope = tick.scope /\ tick'.fresh = tick.fresh
            /\ tick'.resolved = With("ANSWERED")
        BY <2>2 DEF Resolve, DatabaseUnchanged, Inv, TypeOK
      <3>2. QED
        BY <3>1 DEF Asking, PassReads, With, Exists
    <2>3. CASE tick'.at \notin {"resolve", "block"}
      BY <2>3 DEF PassReads
    <2>4. CASE tick' = tick
      <3>1. tick.resolved \subseteq Questions
        BY DEF Inv, TypeOK
      <3>2. ASSUME NEW t \in tick'.scope, tick'.at \in {"resolve", "block"}
            PROVE  \E q \in Questions : t \in Scope[q] /\ (q \in tick'.fresh \/ Exists(q)')
        <4>1. PICK q \in Questions : t \in Scope[q] /\ (q \in tick.fresh \/ Exists(q))
          BY <2>4, <3>2 DEF Asking, PassReads
        <4>2. QED
          BY <1>2, <2>4, <4>1
      <3>3. ASSUME tick'.at = "block", NEW q \in tick'.resolved
            PROVE  decision'[q].status = "ANSWERED"
        BY <1>2, <2>4, <3>1, <3>3 DEF Asking, PassReads
      <3>4. QED
        BY <3>2, <3>3 DEF PassReads, Exists
    <2>5. CASE Block \/ Requeue \/ RequeueCollides \/ Dispatch \/ EndTick
      <3>1. tick'.at \in {"requeue", "dispatch", "sleep"}
        BY <2>5 DEF Block, Requeue, RequeueCollides, Dispatch, EndTick, Interrupted, Waiting
      <3>2. QED
        BY <2>3, <3>1
    <2>6. CASE ~ Tick /\ ~ EndTick
      <3>1. tick' = tick
        BY <2>6 DEF Next, WorkerSucceeds, WorkerInterrupted, Revise, ReadToAnswer, ReadToLink, Save,
           ThreadUnchanged, DriverUnchanged, vars
      <3>2. QED
        BY <2>4, <3>1
    <2>7. QED
      BY <2>1, <2>2, <2>5, <2>6 DEF Tick
  <1>4. QED
    BY <1>1, <1>3 DEF Asking

(* Asking is inductive relative to Inv: pauses, answers and releases keep to   *)
(* what the decisions are, not only to what the pass has read of them.          *)
THEOREM AskingInvariance == Spec => []Asking
  <1>1. Init => Asking
    BY DEF Init, Asking, UnansweredIsBlank, BornApart, PassReads, NoDecision, Exists, Waiting
  <1>2. Inv /\ Asking /\ [Next]_vars => Asking'
    BY StepKeepsAsking
  <1>3. QED
    BY <1>1, <1>2, InvHolds, PTL DEF Spec
-----------------------------------------------------------------------------
(* Decisions implements Inquiry.                                           *)

(* A task as Inquiry sees it.                                              *)
Seen(row) == [status |-> row.status, held |-> row.held]

IsOpenNext(q) == decision'[q].status = "OPEN"

(* Of the decisions that are OPEN at the end of a pass, one blocks a task.   *)
LEMMA BlockerIsOne ==
  ASSUME Inv, Asking, Block, NEW born \in Births,
         decision' = [q \in Questions |-> Opened(q, born[q])], NEW t \in Tasks
  PROVE  IF \E q \in Questions : IsOpenNext(q) /\ t \in Scope[q]
         THEN \E q \in Questions : IsOpenNext(q) /\ t \in Scope[q] /\ Blocker(t, born) = {q}
         ELSE Blocker(t, born) = {}
  <1>1. \A q \in Questions : IsOpen(q) <=> IsOpenNext(q)
    BY DEF IsOpen, IsOpenNext, Opened
  <1>2. born \in [Questions -> Nat]
    BY DEF Births
  <1>3. \A q \in Questions : IsOpenNext(q) => decision'[q].born = born[q] /\ Exists(q)'
    <2>1. ASSUME NEW q \in Questions, q \in tick.fresh
          PROVE  decision'[q].born = born[q]
      BY <2>1 DEF Opened
    <2>2. ASSUME NEW q \in Questions, q \notin tick.fresh
          PROVE  decision'[q].born = born[q]
      BY <2>2 DEF Opened, Births
    <2>3. QED
      BY <2>1, <2>2 DEF IsOpenNext, Exists
  <1>4. BornApart'
    BY BlockKeepsApart
  <1> DEFINE O == {q \in Questions : IsOpenNext(q) /\ t \in Scope[q]}
  <1>5. Blocker(t, born) = {q \in O : \A p \in O : born[p] <= born[q]}
    BY <1>1 DEF Blocker
  <1>6. CASE O = {}
    BY <1>5, <1>6
  <1>7. CASE O # {}
    <2>1. PICK q \in O : \A p \in O : born[p] <= born[q]
      BY <1>2, <1>7, LastOne
    <2>2. ASSUME NEW p \in O, \A r \in O : born[r] <= born[p]
          PROVE  p = q
      <3>1. born[p] <= born[q] /\ born[q] <= born[p] /\ born[p] \in Nat /\ born[q] \in Nat
        BY <1>2, <2>1, <2>2
      <3>2. born[p] = born[q]
        BY <3>1
      <3>3. QED
        BY <1>3, <1>4, <3>2 DEF BornApart
    <2>3. Blocker(t, born) = {q}
      BY <1>5, <2>1, <2>2
    <2>4. QED
      BY <2>3
  <1>8. QED
    BY <1>6, <1>7

(* What a pass makes of one task.                                          *)
LEMMA PassedTask ==
  ASSUME Inv, Asking, Block, NEW born \in Births,
         decision' = [q \in Questions |-> Opened(q, born[q])], NEW t \in Tasks
  PROVE  Promise!PassTask(t, Seen(task[t]), Seen(AfterGate(t, born)))
  <1>1. Promise!Paused(t)' <=> \E q \in Questions : IsOpenNext(q) /\ t \in Scope[q]
    BY DEF Promise!Paused, Promise!About, IsOpenNext
  <1>2. t \notin tick.scope => ~ Promise!Paused(t)'
    BY <1>1, OpenedType DEF Block, IsOpenNext
  <1>3. /\ task[t] \in TaskRow /\ tick.resolved \subseteq Questions
        /\ task[t].status # "BLOCKED" => task[t].held = {}
        /\ \A q \in tick.resolved : decision[q].status = "ANSWERED"
    BY DEF Inv, TypeOK, HeldIsBlocked, Asking, PassReads, Block
  <1> DEFINE paused == [status |-> "BLOCKED", held |-> Blocker(t, born)]
  <1>4. ASSUME t \in tick.scope
        PROVE  Promise!Pause(t, paused)
    <2>1. CASE Promise!Paused(t)'
      <3>1. PICK q \in Questions : IsOpenNext(q) /\ t \in Scope[q] /\ Blocker(t, born) = {q}
        BY <1>1, <2>1, BlockerIsOne
      <3>2. QED
        BY <2>1, <3>1 DEF Promise!Pause, Promise!PausedBy, Promise!About, IsOpenNext
    <2>2. CASE ~ Promise!Paused(t)'
      <3>1. Blocker(t, born) = {}
        BY <1>1, <2>2, BlockerIsOne
      <3>2. PICK q \in Questions : t \in Scope[q] /\ (q \in tick.fresh \/ Exists(q))
        BY <1>4 DEF Asking, PassReads, Block
      <3>3. decision'[q].status # "OPEN"
        BY <1>1, <2>2, <3>2 DEF IsOpenNext
      <3>4. q \notin tick.fresh /\ decision[q].status # "OPEN" /\ decision[q] \in DecisionRow
        BY <3>3 DEF Opened, Inv, TypeOK
      <3>5. decision[q].status = "ANSWERED"
        BY <3>2, <3>4 DEF Exists, DecisionRow
      <3>6. QED
        BY <2>2, <3>1, <3>2, <3>5 DEF Promise!Pause, Promise!PausedBy, Promise!About
    <2>3. QED
      BY <2>1, <2>2
  <1>5. ASSUME NEW row \in TaskRow, row.status = "READY", row.held = {}, t \in tick.scope
        PROVE  Seen(Blocked(t, row, born)) = paused
    BY <1>5 DEF Seen, Blocked, HeldBy, TaskRow
  <1>6. ASSUME NEW row \in TaskRow, row.status # "READY" \/ t \notin tick.scope
        PROVE  Blocked(t, row, born) = row
    BY <1>6 DEF Blocked
  <1> HIDE DEF paused
  <1>7. CASE t \notin Freed(tick.resolved)
    <2>1. AfterGate(t, born) = Blocked(t, task[t], born)
      BY <1>7 DEF AfterGate
    <2>2. CASE task[t].status = "READY" /\ t \in tick.scope
      <3>1. Seen(AfterGate(t, born)) = paused
        BY <1>3, <1>5, <2>1, <2>2
      <3>2. QED
        BY <1>4, <2>2, <3>1 DEF Promise!PassTask, Seen
    <2>3. CASE task[t].status # "READY" \/ t \notin tick.scope
      <3>1. AfterGate(t, born) = task[t]
        BY <1>3, <1>6, <2>1, <2>3
      <3>2. QED
        BY <1>2, <2>3, <3>1 DEF Promise!PassTask, Promise!LeaveAlone, Seen
    <2>4. QED
      BY <2>2, <2>3
  <1>8. CASE t \in Freed(tick.resolved)
    <2> DEFINE row == Released(task[t], tick.resolved)
               freed == task[t].held \intersect tick.resolved
    <2>1. /\ AfterGate(t, born) = Blocked(t, row, born)
          /\ task[t].status = "BLOCKED" /\ freed # {}
      BY <1>8 DEF AfterGate, Freed, SomeOfTheseHold
    <2>2. row \in TaskRow
      BY <1>3, ReleasedType
    <2>3. freed \in SUBSET {q \in task[t].held : decision[q].status = "ANSWERED"}
      BY <1>3
    <2>4. task[t].held \subseteq Questions
      BY <1>3 DEF TaskRow
    <2>5. ASSUME IF freed = task[t].held
                 THEN \/ Promise!Free(t, Seen(AfterGate(t, born)))
                      \/ Promise!Pause(t, Seen(AfterGate(t, born)))
                 ELSE Seen(AfterGate(t, born)) = [Seen(task[t]) EXCEPT !.held = @ \ freed]
          PROVE  Promise!Release(t, Seen(task[t]), Seen(AfterGate(t, born)))
      <3>1. Seen(task[t]).held = task[t].held /\ Seen(task[t]).status = "BLOCKED"
        BY <2>1 DEF Seen
      <3>2. freed \in SUBSET {q \in Seen(task[t]).held :
                [p \in Questions |-> [status |-> decision[p].status,
                                      answer |-> decision[p].answer]][q].status = "ANSWERED"}
        BY <2>3, <2>4, <3>1
      <3> HIDE DEF freed
      <3>3. QED
        BY <2>1, <2>5, <3>1, <3>2 DEF Promise!Release
    <2>6. CASE task[t].held \ tick.resolved = {}
      <3>1. row.status = "READY" /\ row.held = {} /\ freed = task[t].held
        BY <1>3, <2>6 DEF Released, TaskRow
      <3>2. CASE t \in tick.scope
        <4>1. Seen(AfterGate(t, born)) = paused
          BY <1>5, <2>1, <2>2, <3>1, <3>2
        <4>2. QED
          BY <1>4, <2>5, <3>1, <3>2, <4>1 DEF Promise!PassTask
      <3>3. CASE t \notin tick.scope
        <4>1. AfterGate(t, born) = row
          BY <1>6, <2>1, <2>2, <3>3
        <4>2. Promise!Free(t, Seen(AfterGate(t, born)))
          BY <1>2, <3>1, <3>3, <4>1 DEF Promise!Free, Seen
        <4>3. QED
          BY <2>5, <3>1, <4>2 DEF Promise!PassTask
      <3>4. QED
        BY <3>2, <3>3
    <2>7. CASE task[t].held \ tick.resolved # {}
      <3>1. /\ row.status = "BLOCKED" /\ row.held = task[t].held \ tick.resolved
            /\ freed # task[t].held
        BY <1>3, <2>1, <2>7 DEF Released, TaskRow
      <3>2. AfterGate(t, born) = row
        BY <1>6, <2>1, <2>2, <3>1
      <3>3. task[t].held \ tick.resolved = task[t].held \ freed
        OBVIOUS
      <3>4. Seen(AfterGate(t, born)) = [Seen(task[t]) EXCEPT !.held = @ \ freed]
        BY <2>1, <3>1, <3>2, <3>3 DEF Seen
      <3>5. QED
        BY <2>5, <3>1, <3>4 DEF Promise!PassTask
    <2>8. QED
      BY <2>6, <2>7
  <1>9. QED
    BY <1>7, <1>8

(* A pass of three reads is one pass of Inquiry.                            *)
LEMMA BlockIsPass ==
  ASSUME Inv, Asking, Block
  PROVE  Promise!Pass
  <1> DEFINE question == [q \in Questions |-> [status |-> decision[q].status,
                                              answer |-> decision[q].answer]]
             tasks == [t \in Tasks |-> [status |-> task[t].status, held |-> task[t].held]]
             new == {q \in Questions : q \in tick.fresh}
  <1>1. PICK born \in Births :
          /\ decision' = [q \in Questions |-> Opened(q, born[q])]
          /\ task' = [t \in Tasks |-> AfterGate(t, born)]
    BY DEF Block
  <1>2. ASSUME NEW q \in Questions
        PROVE  question'[q] = IF q \in new THEN Promise!Asked ELSE question[q]
    BY <1>1 DEF Opened, Promise!Asked
  <1>3. question' = [q \in Questions |-> IF q \in new THEN Promise!Asked ELSE question[q]]
    BY <1>2
  <1>4. \A q \in new : question[q] = Promise!Unasked
    BY DEF Block, Inv, GateReads, Exists, Asking, UnansweredIsBlank, Promise!Unasked
  <1>5. new \in SUBSET {q \in Questions : question[q] = Promise!Unasked}
    BY <1>4
  <1>6. ASSUME NEW t \in Tasks
        PROVE  Promise!PassTask(t, tasks[t], tasks'[t])
    <2>1. tasks[t] = Seen(task[t]) /\ tasks'[t] = Seen(AfterGate(t, born))
      BY <1>1 DEF Seen
    <2>2. Promise!PassTask(t, Seen(task[t]), Seen(AfterGate(t, born)))
      BY <1>1, PassedTask
    <2> HIDE DEF tasks
    <2>3. QED
      BY <2>1, <2>2 DEF Promise!PassTask, Promise!LeaveAlone, Promise!Release, Promise!Free,
         Promise!Pause, Promise!PausedBy
  <1> HIDE DEF question, new
  <1>7. \E n \in SUBSET {q \in Questions : question[q] = Promise!Unasked} :
           question' = [q \in Questions |-> IF q \in n THEN Promise!Asked ELSE question[q]]
    BY <1>3, <1>5
  <1>8. QED
    BY <1>6, <1>7 DEF Promise!Pass, question

(* A request writes an answer to an OPEN decision, or nothing the PI sees.   *)
LEMMA SaveIsAnswer ==
  ASSUME Inv, Asking, NEW w \in Threads, Save(w)
  PROVE  Promise!Answer \/ UNCHANGED Promise!vars
  <1> DEFINE question == [q \in Questions |-> [status |-> decision[q].status,
                                              answer |-> decision[q].answer]]
             r == thread[w]
  <1>1. /\ r # Free /\ task' = task
        /\ \/ decision' = decision
           \/ IsCurrent(r.row, r.q) /\ decision' = [decision EXCEPT ![r.q] = Saved(r)]
    BY DEF Save, ThreadUnchanged
  <1>2. CASE decision' = decision
    BY <1>1, <1>2 DEF Promise!vars
  <1>3. CASE IsCurrent(r.row, r.q) /\ decision' = [decision EXCEPT ![r.q] = Saved(r)]
    <2>1. /\ r.q \in Questions /\ r.row = decision[r.q] /\ decision[r.q] \in DecisionRow
          /\ r.at = "answer" => r.option \in Options /\ decision[r.q].status = "OPEN"
      BY <1>1, <1>3 DEF Inv, TypeOK, ThreadReads, Reads, IsCurrent
    <2>2. /\ decision'[r.q] = Saved(r)
          /\ \A q \in Questions \ {r.q} : decision'[q] = decision[q]
      BY <1>3, <2>1 DEF Inv, TypeOK
    <2>3. CASE r.at = "answer"
      <3>1. Saved(r).status = "ANSWERED" /\ Saved(r).answer = r.option
        BY <2>1, <2>3 DEF Saved, DecisionRow
      <3>2. question[r.q] = Promise!Asked
        BY <2>1, <2>3 DEF Asking, UnansweredIsBlank, Promise!Asked
      <3>3. \A q \in Questions :
               question'[q] = IF q = r.q THEN Promise!Answered(r.option) ELSE question[q]
        BY <2>2, <3>1 DEF Promise!Answered
      <3>4. question' = [question EXCEPT ![r.q] = Promise!Answered(r.option)]
        BY <2>1, <3>3
      <3> HIDE DEF question, r
      <3>5. \E q \in Questions, option \in Options :
               /\ question[q] = Promise!Asked
               /\ question' = [question EXCEPT ![q] = Promise!Answered(option)]
        BY <2>1, <2>3, <3>2, <3>4
      <3>6. QED
        BY <1>1, <3>5 DEF Promise!Answer, question
    <2>4. CASE r.at # "answer"
      <3>1. Saved(r).status = decision[r.q].status /\ Saved(r).answer = decision[r.q].answer
        BY <2>1, <2>4 DEF Saved, DecisionRow
      <3>2. \A q \in Questions : question'[q] = question[q]
        BY <2>2, <3>1
      <3>3. question' = question
        BY <3>2
      <3>4. QED
        BY <1>1, <3>3 DEF Promise!vars
    <2>5. QED
      BY <2>3, <2>4
  <1>4. QED
    BY <1>1, <1>2, <1>3

(* Tasks that start, end and are requeued.                                  *)
LEMMA StepsAreWork ==
  ASSUME Inv, decision' = decision,
         task' \in [Tasks -> TaskRow],
         \A t \in Tasks : \/ Seen(task'[t]) = Seen(task[t])
                          \/ Promise!Begin(t, Seen(task[t]), Seen(task'[t]))
                          \/ Promise!End(Seen(task[t]), Seen(task'[t]))
                          \/ Promise!Requeue(Seen(task[t]), Seen(task'[t]))
  PROVE  Promise!Work
  BY DEF Promise!Work, Seen

LEMMA RequeueIsWork ==
  ASSUME Inv, Requeue
  PROVE  Promise!Work
  <1>1. /\ decision' = decision
        /\ task' = [t \in Tasks |-> IF t \in Unheld THEN [task[t] EXCEPT !.status = "READY"]
                                                    ELSE task[t]]
    BY DEF Requeue
  <1>2. \A t \in Tasks : task[t] \in TaskRow
    BY DEF Inv, TypeOK
  <1>3. task' \in [Tasks -> TaskRow]
    BY <1>1, <1>2 DEF TaskRow
  <1>4. ASSUME NEW t \in Tasks, t \in Unheld
        PROVE  Promise!Requeue(Seen(task[t]), Seen(task'[t]))
    <2>1. /\ task'[t].status = "READY" /\ task'[t].held = task[t].held
          /\ task[t].status = "BLOCKED" /\ task[t].held = {}
      BY <1>1, <1>2, <1>4 DEF TaskRow, Unheld
    <2>2. QED
      BY <2>1 DEF Promise!Requeue, Seen
  <1>5. QED
    BY <1>1, <1>3, <1>4, StepsAreWork

LEMMA DispatchIsWork ==
  ASSUME Inv, Dispatch
  PROVE  Promise!Work
  <1>1. PICK now \in SUBSET Dispatchable :
          task' = [t \in Tasks |-> IF t \in now THEN Started(task[t]) ELSE task[t]]
    BY DEF Dispatch
  <1>2. decision' = decision /\ \A t \in Tasks : task[t] \in TaskRow
    BY DEF Dispatch, Inv, TypeOK
  <1>3. task' \in [Tasks -> TaskRow]
    BY <1>1, <1>2, StartedType
  <1>4. ASSUME NEW t \in Tasks, t \in now
        PROVE  Promise!Begin(t, Seen(task[t]), Seen(task'[t]))
    <2>1. task[t].status = "READY" /\ t \notin InScope(With("OPEN"))
      BY <1>4 DEF Dispatchable
    <2>2. ~ Promise!Paused(t)
      BY <2>1 DEF Promise!Paused, Promise!About, InScope, With
    <2>3. task'[t].status = "RUNNING" /\ task'[t].held = task[t].held
      <3>1. task'[t] = Started(task[t])
        BY <1>1, <1>4
      <3>2. Started(task[t]).held = task[t].held
        BY <1>2, StartedType
      <3>3. Started(task[t]).status = "RUNNING"
        BY <1>2 DEF Started, TaskRow
      <3>4. QED
        BY <3>1, <3>2, <3>3
    <2>4. QED
      BY <2>1, <2>2, <2>3 DEF Promise!Begin, Seen
  <1>5. QED
    BY <1>1, <1>2, <1>3, <1>4, StepsAreWork

LEMMA DriversAreWork ==
  ASSUME Inv, NEW t \in Tasks,
         \/ \E status \in {"REVIEW", "BLOCKED"}, asks \in SUBSET Questions :
               WorkerSucceeds(t, status, asks)
         \/ WorkerInterrupted(t)
         \/ Revise(t)
  PROVE  Promise!Work
  <1>1. task[t] \in TaskRow /\ task \in [Tasks -> TaskRow]
    BY DEF Inv, TypeOK
  <1>2. decision' = decision
    BY DEF WorkerSucceeds, WorkerInterrupted, Revise, DriverUnchanged
  <1>3. PICK row \in TaskRow :
          /\ task' = [task EXCEPT ![t] = row]
          /\ row.held = task[t].held /\ row.status \in {"READY", "REVIEW", "BLOCKED"}
          /\ task[t].status \in {"RUNNING", "REVIEW"}
    <2>1. ASSUME NEW status \in {"REVIEW", "BLOCKED", "READY"}
          PROVE  LET row == [task[t] EXCEPT !.status = status]
                 IN row \in TaskRow /\ row.held = task[t].held /\ row.status = status
      BY <1>1 DEF TaskRow
    <2>2. CASE \E status \in {"REVIEW", "BLOCKED"}, asks \in SUBSET Questions :
                  WorkerSucceeds(t, status, asks)
      <3>1. PICK status \in {"REVIEW", "BLOCKED"} :
              task[t].status = "RUNNING" /\ task' = [task EXCEPT ![t].status = status]
        BY <2>2 DEF WorkerSucceeds
      <3>2. QED
        BY <1>1, <2>1, <3>1
    <2>3. CASE WorkerInterrupted(t)
      BY <1>1, <2>1, <2>3 DEF WorkerInterrupted
    <2>4. CASE Revise(t)
      <3> DEFINE n == task[t].runs + 1
                 row == [task[t] EXCEPT !.status = "READY", !.runs = n]
      <3>1. n \in Nat
        BY <1>1 DEF TaskRow
      <3> HIDE DEF n
      <3>2. row \in TaskRow /\ row.held = task[t].held /\ row.status = "READY"
        BY <1>1, <3>1 DEF TaskRow
      <3>3. task' = [task EXCEPT ![t] = row] /\ task[t].status = "REVIEW"
        BY <1>1, <2>4 DEF Revise, n
      <3> HIDE DEF row
      <3>4. QED
        BY <3>2, <3>3
    <2>5. QED
      BY <2>2, <2>3, <2>4
  <1>4. task' \in [Tasks -> TaskRow] /\ task'[t] = row
        /\ \A u \in Tasks : u # t => task'[u] = task[u]
    BY <1>1, <1>3
  <1>5. Promise!End(Seen(task[t]), Seen(task'[t]))
    BY <1>3, <1>4 DEF Promise!End, Seen
  <1>6. QED
    BY <1>2, <1>4, <1>5, StepsAreWork

LEMMA StepRefines ==
  ASSUME Inv, Asking, [Next]_vars
  PROVE  [Promise!Next]_(Promise!vars)
  <1>1. CASE Block
    BY <1>1, BlockIsPass DEF Promise!Next
  <1>2. CASE Requeue
    BY <1>2, RequeueIsWork DEF Promise!Next
  <1>3. CASE Dispatch
    BY <1>3, DispatchIsWork DEF Promise!Next
  <1>4. ASSUME NEW t \in Tasks,
               \/ \E status \in {"REVIEW", "BLOCKED"}, asks \in SUBSET Questions :
                     WorkerSucceeds(t, status, asks)
               \/ WorkerInterrupted(t)
               \/ Revise(t)
        PROVE  Promise!Work
    BY <1>4, DriversAreWork
  <1>5. ASSUME NEW w \in Threads, Save(w)
        PROVE  Promise!Answer \/ UNCHANGED Promise!vars
    BY <1>5, SaveIsAnswer
  <1>6. CASE UNCHANGED <<decision, task>>
    BY <1>6 DEF Promise!vars
  <1>7. CASE \/ Evaluate \/ Resolve \/ RequeueCollides \/ EndTick \/ UNCHANGED vars
             \/ \E w \in Threads, q \in Questions :
                   (\E o \in Options : ReadToAnswer(w, q, o)) \/ ReadToLink(w, q)
    BY <1>6, <1>7 DEF Evaluate, Resolve, RequeueCollides, EndTick, Interrupted, ReadToAnswer,
       ReadToLink, DatabaseUnchanged, ThreadUnchanged, vars
  <1>8. QED
    BY <1>1, <1>2, <1>3, <1>4, <1>5, <1>7 DEF Next, Tick, Promise!Next

(* The gate of three reads, with requests in threads that hold rows they read  *)
(* long ago, is a gate of one step: for any tasks, scopes, threads and kills, a  *)
(* question is asked once and answered once, no run begins under an OPEN one,   *)
(* and tasks are let go by the answers of all that held them.                   *)
THEOREM ImplementsInquiry == Spec => KeepsInquiry
  <1>1. Init => Promise!Init
    BY DEF Init, Promise!Init, Promise!Unasked, NoDecision
  <1>2. Inv /\ Asking /\ [Next]_vars => [Promise!Next]_(Promise!vars)
    BY StepRefines
  <1>3. QED
    BY <1>1, <1>2, InvHolds, AskingInvariance, PTL DEF Spec, KeepsInquiry, Promise!Spec

=============================================================================
