--------------------------- MODULE EvidenceProofs ---------------------------
(***************************************************************************)
(* Theorems about Evidence, for any tasks, artifacts, results and files, and  *)
(* any number of runs: the type invariant, that an audit judges what is       *)
(* registered, that VERIFIED evidence is what was judged, and that it is      *)
(* frozen together with the artifacts it refers to.                          *)
(*                                                                         *)
(* The argument: only a RUNNING run applies a result, it supersedes only      *)
(* artifacts of its own task, and no run of a task is RUNNING while the task   *)
(* is in REVIEW.  So a package stays what it was, the verdict compares        *)
(* provenance with what the auditor was shown, and afterwards the supersession *)
(* rules protect what VERIFIED evidence refers to.                           *)
(***************************************************************************)
EXTENDS Evidence, TLAPS

(* A RUNNING run is the only one of its task, which is RUNNING too.           *)
RunsOwnTasks ==
    /\ \A r \in Runs : run[r].status = "RUNNING" => task[run[r].task] = "RUNNING"
    /\ \A r, q \in Runs : /\ run[r].status = "RUNNING" /\ run[q].status = "RUNNING"
                          /\ run[r].task = run[q].task
                          => r = q

(* An artifact is of the task of the run it is registered for.                *)
ArtifactsOwned ==
    \A a \in Artifacts : Exists(artifact[a]) => IsOf(artifact[a].run, artifact[a].task)

(* An evidence row is as the run that it stems from offered it.               *)
EvidenceOffered ==
    \A e \in EvidenceIds : Exists(evidence[e]) =>
        /\ run[evidence[e].run].status = "SUCCEEDED"
        /\ e \in DOMAIN run[evidence[e].run].candidates
        /\ run[evidence[e].run].candidates[e] = [type |-> evidence[e].type, refs |-> evidence[e].refs]

(* A package shows all artifacts of the run under review, as they are.        *)
PackageIsWhole ==
    \A t \in Tasks : Exists(package[t]) =>
        /\ task[t] = "REVIEW"
        /\ IsOf(package[t].run, t) /\ run[package[t].run].status # "RUNNING"
        /\ DOMAIN package[t].hash = RegisteredFor(package[t].run)
        /\ \A a \in DOMAIN package[t].hash : package[t].hash[a] = artifact[a].sha

(* The artifact that VERIFIED evidence rests on exists.                       *)
VerifiedRests ==
    \A e \in EvidenceIds : IsVerifiedRow(e) /\ evidence[e].type = "computational" =>
        evidence[e].refs # <<>> /\ IsRegistered(e)

IInv == /\ TypeOK /\ RunsOwnTasks /\ ArtifactsOwned /\ EvidenceOffered
        /\ PackageIsWhole /\ VerifiedRests /\ VerifiedAsJudged

TaskStatus == {"READY", "RUNNING", "REVIEW", "BLOCKED", "COMPLETED", "FAILED"}

-----------------------------------------------------------------------------
(* Partial functions are functions on a part.                                *)
LEMMA PartialFunction ==
    ASSUME NEW S, NEW T, NEW f
    PROVE  f \in PartialFunctions(S, T) <=> DOMAIN f \in SUBSET S /\ f \in [DOMAIN f -> T]
  BY DEF PartialFunctions

(* No run has delivered anything at first.                                   *)
LEMMA NoCandidates == <<>> \in PartialFunctions(EvidenceIds, Candidate)
<1>1. DOMAIN <<>> = {}
  OBVIOUS
<1>2. <<>> \in [{} -> Candidate]
  OBVIOUS
<1> QED
  BY <1>1, <1>2, PartialFunction

(* What a result is made of.                                                 *)
LEMMA ResultParts ==
    ASSUME NEW result \in Results
    PROVE  /\ result.outcome \in {"SUBMIT_FOR_REVIEW", "BLOCKED", "FAILED"}
           /\ result.candidates \in PartialFunctions(EvidenceIds, Candidate)
           /\ \A a \in DOMAIN result.declares : result.declares[a] \in Declared
           /\ \A e \in DOMAIN result.candidates : result.candidates[e] \in Candidate
           /\ DOMAIN result.candidates \in SUBSET EvidenceIds
           /\ \A c \in DOMAIN result.changes : result.changes[c] \in Change
<1>1. result \in Result
  BY EvidenceAssumption
<1>2. /\ result.outcome \in {"SUBMIT_FOR_REVIEW", "BLOCKED", "FAILED"}
      /\ result.declares \in PartialFunctions(Artifacts, Declared)
      /\ result.candidates \in PartialFunctions(EvidenceIds, Candidate)
      /\ result.changes \in PartialFunctions(Claims, Change)
  BY <1>1 DEF Result
<1>3. result.declares \in [DOMAIN result.declares -> Declared]
  BY <1>2, PartialFunction
<1>4. /\ result.candidates \in [DOMAIN result.candidates -> Candidate]
      /\ DOMAIN result.candidates \in SUBSET EvidenceIds
  BY <1>2, PartialFunction
<1>5. result.changes \in [DOMAIN result.changes -> Change]
  BY <1>2, PartialFunction
<1> QED
  BY <1>2, <1>3, <1>4, <1>5

(* A row that exists is a row.                                               *)
LEMMA RowTypes ==
    ASSUME TypeOK
    PROVE  /\ \A a \in Artifacts : Exists(artifact[a]) => artifact[a] \in ArtifactRow
           /\ \A e \in EvidenceIds : Exists(evidence[e]) => evidence[e] \in EvidenceRow
           /\ \A t \in Tasks : Exists(package[t]) => package[t] \in Package
           /\ \A r \in Runs : Exists(run[r]) => run[r] \in RunRow
  BY DEF TypeOK, Exists, Absent

(* The database is empty at first.                                           *)
LEMMA InitIInv == Init => IInv
<1> SUFFICES ASSUME Init PROVE IInv
  OBVIOUS
<1>1. TypeOK
  BY EvidenceAssumption DEF Init, TypeOK, Absent, NoHash
<1>2. RunsOwnTasks /\ ArtifactsOwned /\ EvidenceOffered
  BY DEF Init, RunsOwnTasks, ArtifactsOwned, EvidenceOffered, Exists, Absent
<1>3. PackageIsWhole /\ VerifiedRests /\ VerifiedAsJudged
  BY DEF Init, PackageIsWhole, VerifiedRests, VerifiedAsJudged, IsVerifiedRow, Exists, Absent
<1> QED
  BY <1>1, <1>2, <1>3 DEF IInv

-----------------------------------------------------------------------------
(* Workers.                                                                  *)

Rows == <<artifact, evidence, claim>>
History == <<accepted, judged>>

(* A dispatched run is the only one of its task: the task was READY.          *)
LEMMA DispatchStep ==
    ASSUME IInv, NEW t \in Tasks, NEW r \in Runs, Dispatch(t, r)
    PROVE  IInv'
<1> USE DEF IInv, DatabaseUnchanged, HistoryUnchanged, Exists
<1>1. /\ UNCHANGED <<artifact, evidence, claim, accepted, judged, file, package, writes>>
      /\ task[t] = "READY" /\ run[r].status = "absent"
      /\ task' = [task EXCEPT ![t] = "RUNNING"]
      /\ run' = [run EXCEPT ![r] = [status |-> "RUNNING", task |-> t, candidates |-> <<>>]]
  BY DEF Dispatch
<1>2. run' \in [Runs -> RunRow \union {Absent}]
  <2>1. [status |-> "RUNNING", task |-> t, candidates |-> <<>>] \in RunRow
    BY NoCandidates DEF RunRow
  <2> QED
    BY <1>1, <2>1 DEF TypeOK
<1>3. TypeOK'
  BY <1>1, <1>2 DEF TypeOK
<1>4. /\ \A q \in Runs \ {r} : run'[q] = run[q]
      /\ run'[r] = [status |-> "RUNNING", task |-> t, candidates |-> <<>>]
      /\ task'[t] = "RUNNING" /\ \A u \in Tasks \ {t} : task'[u] = task[u]
  BY <1>1 DEF TypeOK
<1>5. \A q \in Runs : run[q].status = "RUNNING" => run[q].task \in Tasks /\ run[q].task # t
  BY <1>1 DEF TypeOK, RunRow, Absent, RunsOwnTasks
<1>6. RunsOwnTasks'
  BY <1>4, <1>5 DEF RunsOwnTasks
<1>7. ArtifactsOwned'
  BY <1>1, <1>4 DEF ArtifactsOwned, IsOf, TypeOK, ArtifactRow
<1>8. EvidenceOffered'
  BY <1>1, <1>4 DEF EvidenceOffered, TypeOK, EvidenceRow
<1>9. PackageIsWhole'
  BY <1>1, <1>4 DEF PackageIsWhole, IsOf, TypeOK, Package, RegisteredFor
<1>10. VerifiedRests'
  BY <1>1 DEF VerifiedRests, IsVerifiedRow, IsRegistered
<1>11. VerifiedAsJudged'
  BY <1>1, <1>4 DEF VerifiedAsJudged, IsVerifiedRow, EvidenceOffered, TypeOK, EvidenceRow
<1> QED
  BY <1>3, <1>6, <1>7, <1>8, <1>9, <1>10, <1>11

(* A write to the workspace touches no row.                                  *)
LEMMA WriteStep ==
    ASSUME IInv, NEW p \in Paths, NEW what \in Contents \union {"dir", "absent"},
           WriteFile(p, what)
    PROVE  IInv'
<1> USE DEF IInv, DatabaseUnchanged, HistoryUnchanged
<1>1. TypeOK'
  BY DEF WriteFile, TypeOK
<1>2. RunsOwnTasks' /\ ArtifactsOwned' /\ EvidenceOffered'
  BY DEF WriteFile, RunsOwnTasks, ArtifactsOwned, EvidenceOffered, Exists, IsOf
<1>3. PackageIsWhole' /\ VerifiedRests' /\ VerifiedAsJudged'
  BY DEF WriteFile, PackageIsWhole, VerifiedRests, VerifiedAsJudged, IsVerifiedRow, Exists, IsOf,
     IsRegistered, RegisteredFor
<1> QED
  BY <1>1, <1>2, <1>3

(* A worker-blocked task has no run that could be affected.                   *)
LEMMA RequeueStep ==
    ASSUME IInv, NEW t \in Tasks, Requeue(t)
    PROVE  IInv'
<1> USE DEF IInv, DatabaseUnchanged, HistoryUnchanged
<1>1. /\ UNCHANGED <<artifact, evidence, claim, accepted, judged, file, run, package, writes>>
      /\ task[t] = "BLOCKED" /\ task' = [task EXCEPT ![t] = "READY"]
  BY DEF Requeue
<1>2. TypeOK'
  BY <1>1 DEF TypeOK
<1>3. RunsOwnTasks'
  BY <1>1 DEF RunsOwnTasks, TypeOK
<1>4. PackageIsWhole'
  BY <1>1 DEF PackageIsWhole, TypeOK, Exists, IsOf, RegisteredFor
<1>5. ArtifactsOwned' /\ EvidenceOffered' /\ VerifiedRests' /\ VerifiedAsJudged'
  BY <1>1 DEF ArtifactsOwned, EvidenceOffered, VerifiedRests, VerifiedAsJudged, IsVerifiedRow,
     Exists, IsOf, IsRegistered
<1> QED
  BY <1>2, <1>3, <1>4, <1>5

(* The run that ends was the only one of its task, and no audit looks at it.  *)
LEMMA EndRunFacts ==
    ASSUME IInv, NEW r \in Runs,
           NEW status \in {"SUCCEEDED", "FAILED", "INTERRUPTED"},
           NEW candidates \in PartialFunctions(EvidenceIds, Candidate),
           NEW taskStatus \in TaskStatus \ {"RUNNING"},
           EndRun(r, status, candidates, taskStatus)
    PROVE  /\ run[r] \in RunRow /\ run[r].status = "RUNNING"
           /\ run' \in [Runs -> RunRow \union {Absent}]
           /\ task' \in [Tasks -> TaskStatus]
           /\ run'[r].status = status /\ run'[r].candidates = candidates
           /\ run'[r].task = run[r].task
           /\ \A q \in Runs \ {r} : run'[q] = run[q]
           /\ \A t \in Tasks : Exists(package[t]) =>
                 task'[t] = task[t] /\ t # run[r].task /\ package[t].run # r
           /\ RunsOwnTasks'
           /\ UNCHANGED <<file, package, writes, accepted, judged>>
<1> USE DEF IInv
<1>1. /\ run[r].status = "RUNNING"
      /\ run' = [run EXCEPT ![r].status = status, ![r].candidates = candidates]
      /\ task' = [task EXCEPT ![run[r].task] = taskStatus]
      /\ UNCHANGED <<file, package, writes, accepted, judged>>
  BY DEF EndRun, HistoryUnchanged
<1>2. run[r] \in RunRow
  BY <1>1 DEF TypeOK, Absent
<1>3. run' \in [Runs -> RunRow \union {Absent}]
  BY <1>1, <1>2 DEF TypeOK, RunRow
<1>4. task' \in [Tasks -> TaskStatus]
  BY <1>1 DEF TypeOK, TaskStatus
<1>5. /\ run'[r].status = status /\ run'[r].candidates = candidates
      /\ run'[r].task = run[r].task
      /\ \A q \in Runs \ {r} : run'[q] = run[q]
  BY <1>1, <1>2 DEF TypeOK, RunRow
<1>6. \A t \in Tasks : t # run[r].task => task'[t] = task[t]
  BY <1>1, <1>2 DEF TypeOK, RunRow
<1>7. \A t \in Tasks : Exists(package[t]) => t # run[r].task /\ package[t].run # r
  BY <1>1, <1>2 DEF PackageIsWhole, RunsOwnTasks
<1>8. RunsOwnTasks'
  <2>1. ASSUME NEW q \in Runs, run'[q].status = "RUNNING"
        PROVE  /\ q # r /\ run[q].status = "RUNNING" /\ run[q] \in RunRow
               /\ run[q].task # run[r].task
    <3>1. q # r
      BY <1>5, <2>1
    <3>2. run[q].status = "RUNNING"
      BY <1>5, <2>1, <3>1
    <3>3. run[q] \in RunRow
      BY <3>2 DEF TypeOK, Absent
    <3> QED
      BY <1>1, <3>1, <3>2, <3>3 DEF RunsOwnTasks
  <2> QED
    BY <1>5, <1>6, <2>1 DEF RunsOwnTasks, RunRow
<1> QED
  BY <1>1, <1>2, <1>3, <1>4, <1>5, <1>6, <1>7, <1>8

(* What follows for the rows that a run that ends does not change.            *)
LEMMA EndedRunKeeps ==
    ASSUME IInv, NEW r \in Runs,
           NEW status \in {"SUCCEEDED", "FAILED", "INTERRUPTED"},
           NEW candidates \in PartialFunctions(EvidenceIds, Candidate),
           NEW taskStatus \in TaskStatus \ {"RUNNING"},
           EndRun(r, status, candidates, taskStatus), DatabaseUnchanged
    PROVE  IInv'
<1> USE DEF IInv, DatabaseUnchanged
<1>1. /\ run[r] \in RunRow /\ run[r].status = "RUNNING"
      /\ run' \in [Runs -> RunRow \union {Absent}]
      /\ task' \in [Tasks -> TaskStatus]
      /\ run'[r].status = status /\ run'[r].task = run[r].task
      /\ \A q \in Runs \ {r} : run'[q] = run[q]
      /\ \A t \in Tasks : Exists(package[t]) =>
            task'[t] = task[t] /\ t # run[r].task /\ package[t].run # r
      /\ RunsOwnTasks'
      /\ UNCHANGED <<file, package, writes, accepted, judged>>
  BY EndRunFacts
<1>2. TypeOK'
  BY <1>1 DEF TypeOK, TaskStatus
<1>3. \A q \in Runs, t \in Tasks : IsOf(q, t) => IsOf(q, t)'
  BY <1>1 DEF IsOf, Exists
<1>4. ArtifactsOwned'
  <2>1. ASSUME NEW a \in Artifacts, Exists(artifact[a])
        PROVE  artifact[a].run \in Runs /\ artifact[a].task \in Tasks
    BY <2>1, RowTypes DEF ArtifactRow
  <2> QED
    BY <1>3, <2>1 DEF ArtifactsOwned, Exists
<1>5. EvidenceOffered' /\ VerifiedAsJudged'
  <2>1. ASSUME NEW e \in EvidenceIds, Exists(evidence[e])
        PROVE  evidence[e].run \in Runs \ {r}
    BY <1>1, <2>1, RowTypes DEF EvidenceOffered, EvidenceRow
  <2>2. EvidenceOffered'
    BY <1>1, <2>1 DEF EvidenceOffered, Exists
  <2>3. VerifiedAsJudged'
    BY <1>1, <2>1 DEF VerifiedAsJudged, IsVerifiedRow, Exists
  <2> QED
    BY <2>2, <2>3
<1>6. PackageIsWhole'
  <2>1. ASSUME NEW t \in Tasks, Exists(package[t])
        PROVE  package[t].run \in Runs \ {r} /\ task'[t] = task[t]
    BY <1>1, <2>1, RowTypes DEF Package
  <2> QED
    BY <1>1, <1>3, <2>1 DEF PackageIsWhole, RegisteredFor, Exists
<1>7. VerifiedRests'
  BY DEF VerifiedRests, IsVerifiedRow, IsRegistered, Exists
<1> QED
  BY <1>1, <1>2, <1>4, <1>5, <1>6, <1>7

(* A run that is interrupted, or whose result is rejected.                    *)
LEMMA NoResult ==
    ASSUME IInv, NEW r \in Runs, Interrupt(r) \/ \E result \in Results : Reject(r, result)
    PROVE  IInv'
<1>1. CASE Interrupt(r)
  BY <1>1, EndedRunKeeps, NoCandidates DEF Interrupt, TaskStatus
<1>2. CASE \E result \in Results : Reject(r, result)
  BY <1>2, EndedRunKeeps, NoCandidates DEF Reject, TaskStatus
<1> QED
  BY <1>1, <1>2

-----------------------------------------------------------------------------
(* The result of a worker.                                                   *)

(* An artifact that a result changes becomes the run's.  It was of the same   *)
(* task, and no basis of VERIFIED evidence.                                  *)
LEMMA ChangedArtifact ==
    ASSUME TypeOK, NEW r \in Runs, NEW result \in Results, run[r] \in RunRow,
           IsApplicable(run[r].task, result), RegisterArtifacts(r, result),
           NEW a \in Artifacts, artifact'[a] # artifact[a]
    PROVE  /\ artifact'[a] \in ArtifactRow
           /\ artifact'[a].run = r /\ artifact'[a].task = run[r].task
           /\ Exists(artifact[a]) => artifact[a].task = run[r].task /\ ~ VerifiedRefersTo(a)
<1> DEFINE d == result.declares[a]
<1>1. a \in DOMAIN result.declares /\ artifact'[a] = ArtifactAfter(r, a, d)
  BY DEF RegisterArtifacts
<1>2. MayDeclare(run[r].task, a, d) /\ d \in Declared
  BY <1>1, ResultParts DEF IsApplicable
<1> HIDE DEF d
<1>3. ~ IsSkipped(d)
  BY <1>1 DEF ArtifactAfter
<1>4. d.path \in Paths /\ file[d.path] \in Contents
  BY <1>2, <1>3 DEF MayDeclare, IsFile, IsThere, TypeOK, Declared
<1>5. CASE ~ Exists(artifact[a])
  <2>1. artifact'[a] = [status |-> "REGISTERED", task |-> run[r].task, run |-> r,
                        path |-> d.path, sha |-> file[d.path]]
    BY <1>1, <1>3, <1>5 DEF ArtifactAfter
  <2> QED
    BY <1>4, <1>5, <2>1 DEF ArtifactRow, RunRow
<1>6. CASE Exists(artifact[a])
  <2>1. artifact[a] \in ArtifactRow
    BY <1>6, RowTypes
  <2>2. Changed(a, d.path) /\ artifact'[a] = [artifact[a] EXCEPT !.sha = file[d.path], !.run = r]
    BY <1>1, <1>3, <1>6 DEF ArtifactAfter
  <2>3. MaySupersede(run[r].task, a)
    BY <1>2, <1>3, <1>6, <2>2 DEF MayDeclare
  <2>4. artifact[a].task = run[r].task /\ ~ VerifiedRefersTo(a)
    BY <2>3 DEF MaySupersede, IsOwn, IsNoBasis
  <2> QED
    BY <1>4, <2>1, <2>2, <2>4 DEF ArtifactRow
<1> QED
  BY <1>5, <1>6

(* Evidence that a result changes becomes the run's, as it was offered, and    *)
(* neither was nor is VERIFIED.                                              *)
LEMMA ChangedEvidence ==
    ASSUME TypeOK, NEW r \in Runs, NEW result \in Results, RecordEvidence(r, result),
           NEW e \in EvidenceIds, evidence'[e] # evidence[e]
    PROVE  /\ evidence'[e] \in EvidenceRow /\ evidence'[e].run = r
           /\ e \in DOMAIN result.candidates
           /\ result.candidates[e] = [type |-> evidence'[e].type, refs |-> evidence'[e].refs]
           /\ ~ IsVerifiedRow(e) /\ ~ IsVerifiedRow(e)'
<1> DEFINE c == result.candidates[e]
<1>1. e \in DOMAIN result.candidates /\ evidence'[e] = EvidenceAfter(r, e, c)
  BY DEF RecordEvidence
<1>2. c \in Candidate
  BY <1>1, ResultParts
<1> HIDE DEF c
<1>3. evidence[e].status # "VERIFIED"
  BY <1>1 DEF EvidenceAfter
<1>4. PICK status \in {"CANDIDATE", "CONTESTED"} :
        evidence'[e] = [status |-> status, type |-> c.type, refs |-> c.refs, run |-> r]
  <2>1. CASE Exists(evidence[e])
    <3>1. evidence[e].status \in {"CANDIDATE", "CONTESTED"}
      BY <1>3, <2>1, RowTypes DEF EvidenceRow
    <3> QED
      BY <1>1, <1>3, <2>1, <3>1 DEF EvidenceAfter
  <2>2. CASE ~ Exists(evidence[e])
    BY <1>1, <1>3, <2>2 DEF EvidenceAfter
  <2> QED
    BY <2>1, <2>2
<1>5. c.type \in Types /\ c.refs \in Seq(Artifacts) /\ c = [type |-> c.type, refs |-> c.refs]
  BY <1>2, EvidenceAssumption DEF Candidate
<1>6. evidence'[e] \in EvidenceRow /\ evidence'[e].run = r
  BY <1>4, <1>5 DEF EvidenceRow
<1>7. c = [type |-> evidence'[e].type, refs |-> evidence'[e].refs]
  BY <1>4, <1>5
<1>8. ~ IsVerifiedRow(e) /\ ~ IsVerifiedRow(e)'
  BY <1>3, <1>4 DEF IsVerifiedRow
<1> QED
  BY <1>1, <1>6, <1>7, <1>8 DEF c

(* The types of the claims.                                                  *)
LEMMA ChangedClaims ==
    ASSUME TypeOK, NEW result \in Results, ChangeClaims(result)
    PROVE  claim' \in [Claims -> [state: {"none", "DRAFT", "RETIRED"}, links: SUBSET EvidenceIds]]
<1>1. ASSUME NEW c \in Claims, c \in DOMAIN result.changes
      PROVE  ClaimAfter(c, result.changes[c]) \in
                [state: {"none", "DRAFT", "RETIRED"}, links: SUBSET EvidenceIds]
  <2>1. result.changes[c] \in Change
    BY <1>1, ResultParts
  <2>2. claim[c] \in [state: {"none", "DRAFT", "RETIRED"}, links: SUBSET EvidenceIds]
    BY DEF TypeOK
  <2> QED
    BY <2>1, <2>2 DEF ClaimAfter, Change
<1> QED
  BY <1>1 DEF ChangeClaims, TypeOK

(* The basis of VERIFIED computational evidence is referred to.               *)
LEMMA BasisIsReferredTo ==
    ASSUME TypeOK, NEW e \in EvidenceIds, Exists(evidence[e]), evidence[e].refs # <<>>
    PROVE  Head(evidence[e].refs) \in RefsOf(evidence[e]) /\ Head(evidence[e].refs) \in Artifacts
<1>1. evidence[e].refs \in Seq(Artifacts)
  BY RowTypes DEF EvidenceRow
<1> QED
  BY <1>1 DEF RefsOf

(* So no package changes, and no basis of VERIFIED evidence.                  *)
LEMMA ApplyStep ==
    ASSUME IInv, NEW r \in Runs, NEW result \in Results, Apply(r, result)
    PROVE  IInv'
<1> USE DEF IInv
<1>1. /\ IsApplicable(run[r].task, result)
      /\ EndRun(r, "SUCCEEDED", result.candidates, StatusAfter(result.outcome))
      /\ RegisterArtifacts(r, result) /\ RecordEvidence(r, result) /\ ChangeClaims(result)
  BY DEF Apply
<1>2. StatusAfter(result.outcome) \in TaskStatus \ {"RUNNING"}
  BY ResultParts DEF StatusAfter, TaskStatus
<1>3. /\ run[r] \in RunRow /\ run[r].status = "RUNNING"
      /\ run' \in [Runs -> RunRow \union {Absent}]
      /\ task' \in [Tasks -> TaskStatus]
      /\ run'[r].status = "SUCCEEDED" /\ run'[r].candidates = result.candidates
      /\ run'[r].task = run[r].task
      /\ \A q \in Runs \ {r} : run'[q] = run[q]
      /\ \A t \in Tasks : Exists(package[t]) =>
            task'[t] = task[t] /\ t # run[r].task /\ package[t].run # r
      /\ RunsOwnTasks'
      /\ UNCHANGED <<file, package, writes, accepted, judged>>
  BY <1>1, <1>2, ResultParts, EndRunFacts
<1>4. \A a \in Artifacts : artifact'[a] # artifact[a] =>
        /\ artifact'[a] \in ArtifactRow
        /\ artifact'[a].run = r /\ artifact'[a].task = run[r].task
        /\ Exists(artifact[a]) => artifact[a].task = run[r].task /\ ~ VerifiedRefersTo(a)
  BY <1>1, <1>3, ChangedArtifact
<1>5. \A e \in EvidenceIds : evidence'[e] # evidence[e] =>
        /\ evidence'[e] \in EvidenceRow /\ evidence'[e].run = r
        /\ e \in DOMAIN result.candidates
        /\ result.candidates[e] = [type |-> evidence'[e].type, refs |-> evidence'[e].refs]
        /\ ~ IsVerifiedRow(e) /\ ~ IsVerifiedRow(e)'
  BY <1>1, ChangedEvidence
<1>6. TypeOK'
  <2>1. artifact' \in [Artifacts -> ArtifactRow \union {Absent}]
    BY <1>1, <1>4 DEF RegisterArtifacts, TypeOK
  <2>2. evidence' \in [EvidenceIds -> EvidenceRow \union {Absent}]
    BY <1>1, <1>5 DEF RecordEvidence, TypeOK
  <2>3. claim' \in [Claims -> [state: {"none", "DRAFT", "RETIRED"}, links: SUBSET EvidenceIds]]
    BY <1>1, ChangedClaims
  <2> QED
    BY <1>3, <2>1, <2>2, <2>3 DEF TypeOK, TaskStatus
<1>7. \A q \in Runs, t \in Tasks : IsOf(q, t) => IsOf(q, t)'
  BY <1>3 DEF IsOf, Exists
<1>8. ArtifactsOwned'
  <2>1. ASSUME NEW a \in Artifacts, artifact'[a] # artifact[a]
        PROVE  IsOf(artifact[a].run, artifact[a].task)'
    <3>1. artifact'[a].run = r /\ artifact'[a].task = run[r].task
      BY <1>4, <2>1
    <3>2. run'[r].status = "SUCCEEDED" /\ run'[r].task = run[r].task
      BY <1>3
    <3> QED
      BY <3>1, <3>2 DEF IsOf, Exists
  <2>2. ASSUME NEW a \in Artifacts, Exists(artifact[a])', artifact'[a] = artifact[a]
        PROVE  IsOf(artifact[a].run, artifact[a].task)'
    <3>1. Exists(artifact[a]) /\ artifact[a] \in ArtifactRow
      BY <2>2, RowTypes DEF Exists
    <3> QED
      BY <1>7, <3>1, <2>2 DEF ArtifactsOwned, ArtifactRow
  <2> QED
    BY <2>1, <2>2 DEF ArtifactsOwned
<1>9. EvidenceOffered'
  <2>1. ASSUME NEW e \in EvidenceIds, Exists(evidence[e])', evidence'[e] = evidence[e]
        PROVE  evidence[e].run \in Runs \ {r} /\ Exists(evidence[e])
    BY <1>3, <2>1, RowTypes DEF EvidenceOffered, EvidenceRow, Exists
  <2> QED
    BY <1>3, <1>5, <2>1 DEF EvidenceOffered
<1>10. PackageIsWhole'
  <2>1. ASSUME NEW t \in Tasks, Exists(package[t])
        PROVE  /\ package[t].run \in Runs \ {r} /\ task'[t] = task[t]
               /\ RegisteredFor(package[t].run)' = RegisteredFor(package[t].run)
               /\ \A a \in RegisteredFor(package[t].run) : artifact'[a] = artifact[a]
    <3>1. package[t].run \in Runs \ {r} /\ task'[t] = task[t]
      BY <1>3, <2>1, RowTypes DEF Package
    <3>2. ASSUME NEW a \in RegisteredFor(package[t].run)
          PROVE  artifact'[a] = artifact[a]
      <4>1. artifact[a].task = t
        BY <2>1, <3>2 DEF RegisteredFor, ArtifactsOwned, PackageIsWhole, IsOf
      <4> QED
        BY <1>3, <1>4, <2>1, <3>2, <4>1 DEF RegisteredFor
    <3>3. ASSUME NEW a \in Artifacts, Exists(artifact[a])', artifact'[a].run = package[t].run
          PROVE  artifact'[a] = artifact[a]
      BY <1>4, <3>1, <3>3
    <3>4. RegisteredFor(package[t].run)' = {a \in Artifacts : Exists(artifact[a])'
                                              /\ artifact'[a].run = package[t].run}
      BY <1>3 DEF RegisteredFor
    <3> QED
      BY <3>1, <3>2, <3>3, <3>4 DEF RegisteredFor, Exists
  <2> QED
    BY <1>3, <1>7, <2>1 DEF PackageIsWhole, Exists
<1>11. ASSUME NEW e \in EvidenceIds, IsVerifiedRow(e)'
       PROVE  /\ evidence'[e] = evidence[e] /\ IsVerifiedRow(e)
              /\ evidence[e].run \in Runs \ {r}
              /\ evidence[e].type = "computational" =>
                    artifact'[Head(evidence[e].refs)] = artifact[Head(evidence[e].refs)]
  <2>1. evidence'[e] = evidence[e] /\ IsVerifiedRow(e)
    BY <1>5, <1>11 DEF IsVerifiedRow
  <2>2. Exists(evidence[e])
    BY <2>1 DEF IsVerifiedRow, Exists
  <2>3. evidence[e].run \in Runs \ {r}
    BY <1>3, <2>2, RowTypes DEF EvidenceOffered, EvidenceRow
  <2>4. ASSUME evidence[e].type = "computational"
        PROVE  artifact'[Head(evidence[e].refs)] = artifact[Head(evidence[e].refs)]
    <3>1. evidence[e].refs # <<>> /\ IsRegistered(e)
      BY <2>1, <2>4 DEF VerifiedRests
    <3>2. /\ Head(evidence[e].refs) \in RefsOf(evidence[e])
          /\ Head(evidence[e].refs) \in Artifacts
      BY <2>2, <3>1, BasisIsReferredTo
    <3> QED
      BY <1>4, <2>1, <3>1, <3>2 DEF IsRegistered, VerifiedRefersTo, IsVerifiedRow
  <2> QED
    BY <2>1, <2>3, <2>4
<1>12. VerifiedRests'
  BY <1>11 DEF VerifiedRests, IsRegistered, Exists
<1>13. VerifiedAsJudged'
  BY <1>3, <1>11 DEF VerifiedAsJudged
<1> QED
  BY <1>3, <1>6, <1>8, <1>9, <1>10, <1>12, <1>13

-----------------------------------------------------------------------------
(* The audit.                                                                *)

(* The package shows what is registered when the audit begins.                *)
LEMMA BeginAuditStep ==
    ASSUME IInv, NEW t \in Tasks, NEW r \in Runs, BeginAudit(t, r)
    PROVE  IInv'
<1> USE DEF IInv, DatabaseUnchanged, HistoryUnchanged
<1> DEFINE shown == [status |-> "shown", run |-> r,
                     hash |-> [a \in RegisteredFor(r) |-> artifact[a].sha]]
<1>1. /\ UNCHANGED <<artifact, evidence, claim, accepted, judged, file, task, run, writes>>
      /\ task[t] = "REVIEW" /\ IsOf(r, t)
      /\ package' = [package EXCEPT ![t] = shown]
  BY DEF BeginAudit, IsLastOf
<1>2. shown.hash \in PartialFunctions(Artifacts, Contents)
  <2>1. \A a \in RegisteredFor(r) : a \in Artifacts /\ artifact[a].sha \in Contents
    BY RowTypes DEF RegisteredFor, ArtifactRow
  <2>2. DOMAIN shown.hash = RegisteredFor(r) /\ shown.hash \in [RegisteredFor(r) -> Contents]
    BY <2>1
  <2> HIDE DEF shown
  <2> QED
    BY <2>1, <2>2, PartialFunction
<1>3. shown \in Package
  BY <1>2 DEF Package
<1>4. package'[t] = shown /\ \A u \in Tasks \ {t} : package'[u] = package[u]
  BY <1>1 DEF TypeOK
<1>5. TypeOK'
  BY <1>1, <1>3 DEF TypeOK
<1>6. RunsOwnTasks' /\ ArtifactsOwned' /\ EvidenceOffered' /\ VerifiedRests' /\ VerifiedAsJudged'
  BY <1>1 DEF RunsOwnTasks, ArtifactsOwned, EvidenceOffered, VerifiedRests, VerifiedAsJudged,
     IsVerifiedRow, Exists, IsOf, IsRegistered
<1>7. run[r].status # "RUNNING"
  BY <1>1 DEF RunsOwnTasks, IsOf
<1>8. PackageIsWhole'
  <2>1. /\ package'[t].run = r /\ DOMAIN package'[t].hash = RegisteredFor(r)
        /\ \A a \in RegisteredFor(r) : package'[t].hash[a] = artifact[a].sha
    BY <1>4
  <2>2. \A q \in Runs : RegisteredFor(q)' = RegisteredFor(q)
    BY <1>1 DEF RegisteredFor, Exists
  <2>3. \A u \in Tasks : Exists(package[u]) => package[u].run \in Runs
    BY RowTypes DEF Package
  <2> HIDE DEF shown
  <2>4. ASSUME NEW u \in Tasks \ {t}, Exists(package[u])'
        PROVE  /\ Exists(package[u]) /\ package'[u] = package[u]
    BY <1>4, <2>4 DEF Exists
  <2> QED
    BY <1>1, <1>7, <2>1, <2>2, <2>3, <2>4 DEF PackageIsWhole, IsOf, Exists
<1> QED
  BY <1>5, <1>6, <1>8

(* An audit that ends takes its package along.                                *)
LEMMA PackageDropped ==
    ASSUME PackageIsWhole, TypeOK, NEW t \in Tasks,
           package' = [package EXCEPT ![t] = Absent],
           UNCHANGED <<artifact, run>>, \A u \in Tasks \ {t} : task'[u] = task[u]
    PROVE  PackageIsWhole'
<1>1. ASSUME NEW u \in Tasks, Exists(package[u])'
      PROVE  u # t /\ package'[u] = package[u] /\ Exists(package[u])
  BY <1>1 DEF TypeOK, Exists, Absent
<1> QED
  BY <1>1 DEF PackageIsWhole, RegisteredFor, IsOf, Exists

(* An audit without verdict.                                                 *)
LEMMA AuditEndsStep ==
    ASSUME IInv, NEW t \in Tasks, AuditEnds(t)
    PROVE  IInv'
<1> USE DEF IInv, DatabaseUnchanged, HistoryUnchanged
<1>1. TypeOK' /\ PackageIsWhole'
  BY PackageDropped DEF AuditEnds, TypeOK
<1>2. RunsOwnTasks' /\ ArtifactsOwned' /\ EvidenceOffered' /\ VerifiedRests' /\ VerifiedAsJudged'
  BY DEF AuditEnds, RunsOwnTasks, ArtifactsOwned, EvidenceOffered, VerifiedRests,
     VerifiedAsJudged, IsVerifiedRow, Exists, IsOf, IsRegistered
<1> QED
  BY <1>1, <1>2

(* A verdict concerns a task in REVIEW, which has no RUNNING run.             *)
LEMMA EndAuditFacts ==
    ASSUME IInv, NEW t \in Tasks, NEW status \in TaskStatus \ {"RUNNING"}, EndAudit(t, status)
    PROVE  /\ task' \in [Tasks -> TaskStatus]
           /\ package' \in [Tasks -> Package \union {Absent}]
           /\ RunsOwnTasks' /\ ArtifactsOwned' /\ PackageIsWhole'
           /\ UNCHANGED <<file, artifact, claim, run, writes>>
           /\ Exists(package[t])
<1> USE DEF IInv, EndAudit
<1>1. task' \in [Tasks -> TaskStatus] /\ package' \in [Tasks -> Package \union {Absent}]
  BY DEF TypeOK, TaskStatus
<1>2. \A u \in Tasks \ {t} : task'[u] = task[u]
  BY DEF TypeOK
<1>3. PackageIsWhole'
  BY <1>2, PackageDropped
<1>4. \A r \in Runs : run[r].status = "RUNNING" => run[r].task \in Tasks \ {t}
  BY RowTypes DEF RunsOwnTasks, Exists, RunRow
<1>5. RunsOwnTasks'
  BY <1>2, <1>4 DEF RunsOwnTasks
<1>6. ArtifactsOwned'
  BY DEF ArtifactsOwned, IsOf, Exists
<1> QED
  BY <1>1, <1>3, <1>5, <1>6

(* A verdict other than ACCEPT leaves evidence alone.                         *)
LEMMA NotAccepted ==
    ASSUME IInv, NEW t \in Tasks, SendBack(t) \/ Refuse(t)
    PROVE  IInv'
<1> USE DEF IInv, HistoryUnchanged
<1>1. PICK status \in TaskStatus \ {"RUNNING"} : EndAudit(t, status)
  BY DEF SendBack, Refuse, TaskStatus
<1>2. /\ task' \in [Tasks -> TaskStatus]
      /\ package' \in [Tasks -> Package \union {Absent}]
      /\ RunsOwnTasks' /\ ArtifactsOwned' /\ PackageIsWhole'
      /\ UNCHANGED <<file, artifact, claim, run, writes>>
  BY <1>1, EndAuditFacts
<1>3. UNCHANGED <<evidence, accepted, judged>>
  BY DEF SendBack, Refuse
<1>4. TypeOK'
  BY <1>2, <1>3 DEF TypeOK, TaskStatus
<1>5. EvidenceOffered' /\ VerifiedRests' /\ VerifiedAsJudged'
  BY <1>2, <1>3 DEF EvidenceOffered, VerifiedRests, VerifiedAsJudged, IsVerifiedRow, Exists,
     IsRegistered
<1> QED
  BY <1>2, <1>4, <1>5

(* What a verdict makes of one row.                                          *)
LEMMA JudgedRow ==
    ASSUME TypeOK, NEW t \in Tasks, NEW r \in Runs, NEW wanted, JudgeEvidence(t, r, wanted),
           NEW e \in EvidenceIds, Exists(evidence[e])
    PROVE  /\ evidence'[e] \in EvidenceRow /\ Exists(evidence[e])'
           /\ evidence'[e].type = evidence[e].type /\ evidence'[e].refs = evidence[e].refs
           /\ evidence'[e].run = evidence[e].run
           /\ IsVerifiedRow(e) => evidence'[e] = evidence[e] /\ judged'[e] = judged[e]
           /\ IsVerifiedRow(e)' /\ ~ IsVerifiedRow(e) =>
                 IsVerified(e, r, wanted) /\ judged'[e] = HashShown(t, e)
<1>1. evidence[e] \in EvidenceRow
  BY RowTypes
<1>2. /\ evidence'[e] = [evidence[e] EXCEPT !.status = StatusGiven(e, r, wanted)]
      /\ judged'[e] = IF IsVerified(e, r, wanted) THEN HashShown(t, e) ELSE judged[e]
  BY DEF JudgeEvidence
<1>3. StatusGiven(e, r, wanted) \in {"CANDIDATE", "VERIFIED", "CONTESTED"}
  BY <1>1 DEF StatusGiven, EvidenceRow
<1>4. /\ evidence'[e] \in EvidenceRow /\ evidence'[e].status = StatusGiven(e, r, wanted)
      /\ evidence'[e].type = evidence[e].type /\ evidence'[e].refs = evidence[e].refs
      /\ evidence'[e].run = evidence[e].run
  BY <1>1, <1>2, <1>3 DEF EvidenceRow
<1>5. Exists(evidence[e])'
  BY <1>3, <1>4 DEF Exists
<1>6. ASSUME IsVerifiedRow(e) PROVE evidence'[e] = evidence[e] /\ judged'[e] = judged[e]
  <2>1. ~ IsJudgedWith(e, r)
    BY <1>6 DEF IsVerifiedRow, IsJudgedWith
  <2>2. StatusGiven(e, r, wanted) = evidence[e].status /\ ~ IsVerified(e, r, wanted)
    BY <2>1 DEF StatusGiven, IsVerified
  <2> QED
    BY <1>1, <1>2, <2>2 DEF EvidenceRow
<1>7. ASSUME IsVerifiedRow(e)', ~ IsVerifiedRow(e)
      PROVE  IsVerified(e, r, wanted) /\ judged'[e] = HashShown(t, e)
  BY <1>2, <1>4, <1>7 DEF IsVerifiedRow, StatusGiven
<1> QED
  BY <1>4, <1>5, <1>6, <1>7

(* The hash shown is one, or none.                                           *)
LEMMA HashShownType ==
    ASSUME TypeOK, NEW t \in Tasks, Exists(package[t]), NEW e \in EvidenceIds
    PROVE  HashShown(t, e) \in Contents \union {NoHash}
<1>1. package[t].hash \in PartialFunctions(Artifacts, Contents)
  BY RowTypes DEF Package
<1>2. package[t].hash \in [DOMAIN package[t].hash -> Contents]
  BY <1>1, PartialFunction
<1> QED
  BY <1>2 DEF HashShown

(* Evidence is VERIFIED on an artifact that its run produced, which therefore  *)
(* was in the package, and still is what the package shows.                   *)
LEMMA AcceptStep ==
    ASSUME IInv, NEW t \in Tasks, NEW wanted, NEW allPass \in BOOLEAN, Accept(t, wanted, allPass)
    PROVE  IInv'
<1> USE DEF IInv
<1> DEFINE r == package[t].run
<1>1. PICK status \in TaskStatus \ {"RUNNING"} : EndAudit(t, status)
  BY DEF Accept, TaskStatus
<1>2. JudgeEvidence(t, r, wanted) /\ accepted' = accepted \union {r}
  BY DEF Accept
<1>3. /\ task' \in [Tasks -> TaskStatus]
      /\ package' \in [Tasks -> Package \union {Absent}]
      /\ RunsOwnTasks' /\ ArtifactsOwned' /\ PackageIsWhole'
      /\ UNCHANGED <<file, artifact, claim, run, writes>>
      /\ Exists(package[t])
  BY <1>1, EndAuditFacts
<1>4. /\ r \in Runs /\ IsOf(r, t)
      /\ DOMAIN package[t].hash = RegisteredFor(r)
      /\ \A a \in RegisteredFor(r) : package[t].hash[a] = artifact[a].sha
  BY <1>3, RowTypes DEF PackageIsWhole, Package
<1> HIDE DEF r
<1>5. \A e \in EvidenceIds : Exists(evidence[e]) =>
         /\ evidence'[e] \in EvidenceRow /\ Exists(evidence[e])'
         /\ evidence'[e].type = evidence[e].type /\ evidence'[e].refs = evidence[e].refs
         /\ evidence'[e].run = evidence[e].run
         /\ IsVerifiedRow(e) => evidence'[e] = evidence[e] /\ judged'[e] = judged[e]
         /\ IsVerifiedRow(e)' /\ ~ IsVerifiedRow(e) =>
               IsVerified(e, r, wanted) /\ judged'[e] = HashShown(t, e)
  BY <1>2, <1>4, JudgedRow
<1>6. \A e \in EvidenceIds : ~ Exists(evidence[e]) => evidence'[e] = Absent
  BY <1>2 DEF JudgeEvidence
<1>7. TypeOK'
  <2>1. evidence' \in [EvidenceIds -> EvidenceRow \union {Absent}]
    BY <1>2, <1>5, <1>6 DEF JudgeEvidence
  <2>2. judged' \in [EvidenceIds -> Contents \union {NoHash}]
    BY <1>2, <1>3, HashShownType DEF JudgeEvidence, TypeOK
  <2>3. accepted' \in SUBSET Runs
    BY <1>2, <1>4 DEF TypeOK
  <2> QED
    BY <1>3, <2>1, <2>2, <2>3 DEF TypeOK, TaskStatus
<1>8. EvidenceOffered'
  <2>1. \A e \in EvidenceIds : Exists(evidence[e])' => Exists(evidence[e])
    BY <1>6 DEF Exists, Absent
  <2> QED
    BY <1>3, <1>5, <2>1 DEF EvidenceOffered
<1>9. ASSUME NEW e \in EvidenceIds, IsVerifiedRow(e)', ~ IsVerifiedRow(e)
      PROVE  /\ Exists(evidence[e]) /\ evidence[e].run = r
             /\ evidence[e].type = "computational" =>
                   /\ evidence[e].refs # <<>> /\ IsRegistered(e)
                   /\ artifact[Head(evidence[e].refs)].run = r
                   /\ artifact[Head(evidence[e].refs)].sha = judged'[e]
  <2>1. Exists(evidence[e])
    BY <1>6, <1>9 DEF Exists, Absent, IsVerifiedRow
  <2>2. IsVerified(e, r, wanted) /\ judged'[e] = HashShown(t, e)
    BY <1>5, <1>9, <2>1
  <2>3. evidence[e].run = r /\ HasProvenance(e)
    BY <2>2 DEF IsVerified, IsJudgedWith
  <2>4. ASSUME evidence[e].type = "computational"
        PROVE  /\ evidence[e].refs # <<>> /\ IsRegistered(e)
               /\ artifact[Head(evidence[e].refs)].run = r
               /\ artifact[Head(evidence[e].refs)].sha = judged'[e]
    <3>1. evidence[e].refs # <<>> /\ ProducedByItsRun(e)
      BY <2>3, <2>4 DEF HasProvenance
    <3>2. Head(evidence[e].refs) \in Artifacts
      BY <2>1, <3>1, BasisIsReferredTo
    <3>3. IsRegistered(e) /\ artifact[Head(evidence[e].refs)].run = r
      BY <2>3, <3>1 DEF ProducedByItsRun
    <3>4. Head(evidence[e].refs) \in RegisteredFor(r)
      BY <3>2, <3>3 DEF RegisteredFor, IsRegistered
    <3>5. HashShown(t, e) = artifact[Head(evidence[e].refs)].sha
      BY <1>4, <2>4, <3>4 DEF HashShown
    <3> QED
      BY <2>2, <3>1, <3>3, <3>5
  <2> QED
    BY <2>1, <2>3, <2>4
<1>10. ASSUME NEW e \in EvidenceIds, IsVerifiedRow(e)
       PROVE  Exists(evidence[e]) /\ evidence'[e] = evidence[e] /\ judged'[e] = judged[e]
  <2>1. Exists(evidence[e])
    BY <1>10 DEF IsVerifiedRow, Exists
  <2> QED
    BY <1>5, <1>10, <2>1
<1>11. VerifiedRests'
  <2>1. ASSUME NEW e \in EvidenceIds, IsVerifiedRow(e)', evidence'[e].type = "computational"
        PROVE  (evidence[e].refs # <<>> /\ IsRegistered(e))'
    <3>1. CASE IsVerifiedRow(e)
      BY <1>3, <1>10, <2>1, <3>1 DEF VerifiedRests, IsRegistered, Exists
    <3>2. CASE ~ IsVerifiedRow(e)
      BY <1>3, <1>5, <1>9, <2>1, <3>2 DEF IsRegistered, Exists
    <3> QED
      BY <3>1, <3>2
  <2> QED
    BY <2>1 DEF VerifiedRests
<1>12. VerifiedAsJudged'
  <2>1. ASSUME NEW e \in EvidenceIds, IsVerifiedRow(e)'
        PROVE  /\ evidence'[e].run \in accepted'
               /\ e \in DOMAIN run'[evidence'[e].run].candidates
               /\ run'[evidence'[e].run].candidates[e]
                     = [type |-> evidence'[e].type, refs |-> evidence'[e].refs]
               /\ evidence'[e].type = "computational" =>
                     /\ artifact'[Head(evidence'[e].refs)].run = evidence'[e].run
                     /\ artifact'[Head(evidence'[e].refs)].sha = judged'[e]
    <3>1. CASE IsVerifiedRow(e)
      BY <1>2, <1>3, <1>10, <3>1 DEF VerifiedAsJudged
    <3>2. CASE ~ IsVerifiedRow(e)
      BY <1>2, <1>3, <1>5, <1>9, <2>1, <3>2 DEF EvidenceOffered
    <3> QED
      BY <3>1, <3>2
  <2> QED
    BY <2>1 DEF VerifiedAsJudged
<1> QED
  BY <1>3, <1>7, <1>8, <1>11, <1>12

-----------------------------------------------------------------------------
(* Every step keeps the invariant.                                           *)
LEMMA NextIInv == IInv /\ [Next]_vars => IInv'
<1> SUFFICES ASSUME IInv, [Next]_vars PROVE IInv'
  OBVIOUS
<1>1. CASE WorkerNext
  BY <1>1, DispatchStep, WriteStep, NoResult, ApplyStep, RequeueStep DEF WorkerNext
<1>2. CASE AuditNext
  BY <1>2, BeginAuditStep, AuditEndsStep, AcceptStep, NotAccepted DEF AuditNext
<1>3. CASE UNCHANGED vars
  BY <1>3 DEF vars, IInv, TypeOK, RunsOwnTasks, ArtifactsOwned, EvidenceOffered, PackageIsWhole,
     VerifiedRests, VerifiedAsJudged, IsVerifiedRow, IsRegistered, RegisteredFor, IsOf, Exists
<1> QED
  BY <1>1, <1>2, <1>3 DEF Next

(* So the invariant holds throughout.                                        *)
THEOREM Invariance == Spec => []IInv
  BY InitIInv, NextIInv, PTL DEF Spec

(* Every variable keeps its type.                                            *)
THEOREM TypeCorrect == Spec => []TypeOK
<1>1. IInv => TypeOK
  BY DEF IInv
<1> QED
  BY Invariance, <1>1, PTL

(* However many tasks submit to one workspace, an auditor judges what is      *)
(* registered while the audit lasts.                                         *)
THEOREM AuditsAreCurrent == Spec => []PackageIsCurrent
<1>1. IInv => PackageIsCurrent
  BY DEF IInv, PackageIsWhole, PackageIsCurrent, RegisteredFor
<1> QED
  BY Invariance, <1>1, PTL

(* VERIFIED evidence was offered by an accepted run, and rests on what the     *)
(* auditor of that run was shown.                                            *)
THEOREM VerifiedWasJudged == Spec => []VerifiedAsJudged
<1>1. IInv => VerifiedAsJudged
  BY DEF IInv
<1> QED
  BY Invariance, <1>1, PTL

(* What is VERIFIED changes no more, nor do the artifacts it refers to.       *)
THEOREM VerifiedStays == Spec => VerifiedIsFrozen
<1> DEFINE Frozen == \A e \in EvidenceIds : IsVerifiedRow(e) =>
                        /\ evidence'[e] = evidence[e]
                        /\ \A a \in RefsOf(evidence[e]) :
                              Exists(artifact[a]) => artifact'[a] = artifact[a]
<1>1. IInv /\ [Next]_vars => [Frozen]_vars
  <2> SUFFICES ASSUME IInv, Next PROVE Frozen
    OBVIOUS
  <2>1. ASSUME NEW r \in Runs, NEW result \in Results, Apply(r, result) PROVE Frozen
    <3>1. /\ IsApplicable(run[r].task, result) /\ run[r] \in RunRow
          /\ RegisterArtifacts(r, result) /\ RecordEvidence(r, result)
      BY <2>1, RowTypes DEF Apply, IInv
    <3>2. \A e \in EvidenceIds : IsVerifiedRow(e) => evidence'[e] = evidence[e]
      BY <3>1, ChangedEvidence DEF IInv
    <3>3. \A a \in Artifacts : Exists(artifact[a]) /\ artifact'[a] # artifact[a] =>
             ~ VerifiedRefersTo(a)
      BY <3>1, ChangedArtifact DEF IInv
    <3>4. ASSUME NEW e \in EvidenceIds, IsVerifiedRow(e), NEW a \in RefsOf(evidence[e])
          PROVE  a \in Artifacts /\ VerifiedRefersTo(a)
      <4>1. Exists(evidence[e])
        BY <3>4 DEF IsVerifiedRow, Exists
      <4>2. evidence[e].refs \in Seq(Artifacts)
        BY <4>1, RowTypes DEF IInv, EvidenceRow
      <4> QED
        BY <3>4, <4>2 DEF RefsOf, VerifiedRefersTo, IsVerifiedRow
    <3> QED
      BY <3>2, <3>3, <3>4
  <2>2. ASSUME NEW t \in Tasks, NEW allPass \in BOOLEAN, NEW wanted, Accept(t, wanted, allPass)
        PROVE  Frozen
    <3>1. JudgeEvidence(t, package[t].run, wanted) /\ package[t].run \in Runs
      BY <2>2, RowTypes DEF Accept, EndAudit, IInv, Package
    <3>2. ASSUME NEW e \in EvidenceIds, IsVerifiedRow(e) PROVE evidence'[e] = evidence[e]
      BY <3>1, <3>2, JudgedRow DEF IInv, IsVerifiedRow, Exists
    <3>3. artifact' = artifact
      BY <2>2 DEF Accept, EndAudit
    <3> QED
      BY <3>2, <3>3
  <2>3. ASSUME UNCHANGED <<artifact, evidence>> PROVE Frozen
    BY <2>3
  <2>4. CASE WorkerNext
    BY <2>1, <2>3, <2>4 DEF WorkerNext, Dispatch, WriteFile, Interrupt, Reject, Requeue,
       DatabaseUnchanged
  <2>5. CASE AuditNext
    BY <2>2, <2>3, <2>5 DEF AuditNext, BeginAudit, AuditEnds, SendBack, Refuse, EndAudit,
       DatabaseUnchanged
  <2> QED
    BY <2>4, <2>5 DEF Next
<1> QED
  BY Invariance, <1>1, PTL DEF Spec, VerifiedIsFrozen
=============================================================================
