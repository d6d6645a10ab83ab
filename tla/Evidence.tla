------------------------------ MODULE Evidence ------------------------------
(***************************************************************************)
(* What a worker delivers and what becomes of it: files in the workspace,   *)
(* the registry of artifacts, evidence rows, claims, and the verdict that   *)
(* verifies evidence (application/apply_result.py, evidence_validation.py,  *)
(* audit_gate.py, paths.py, the auditor's package of context_package.py).   *)
(*                                                                         *)
(* A result is applied in one transaction, which one violation rejects as a  *)
(* whole, and so is a verdict.  In between the auditor judges a package     *)
(* that was built when the audit began, other tasks of the project submit,  *)
(* and workers write to the one workspace.                                  *)
(*                                                                         *)
(* Ids of artifacts and evidence are the worker's local references, as in    *)
(* the code.  Statements, kinds, sizes and MIME types are data: an evidence  *)
(* row says which run it stems from.  Leases, kills and late collects are    *)
(* the subject of Scheduler.                                                *)
(***************************************************************************)
EXTENDS Naturals, FiniteSets, Sequences

CONSTANTS Tasks,
          Artifacts,   \* ids of artifacts
          EvidenceIds,
          Claims,
          Paths,       \* paths relative to the workspace root
          Contents,    \* contents of files, standing for their hashes
          Refs,        \* the lists of artifacts a candidate may refer to
          Results,     \* the results workers may return
          MaxRuns,     \* bound: worker runs
          MaxWrites    \* bound: writes to the workspace

(* "stated" stands for evidence whose own fields are its provenance, as a     *)
(* literature source, "bare" for evidence that lacks what its type requires. *)
Types == {"computational", "stated", "bare"}
Candidate == [type: Types, refs: Refs]
Declared == [path: Paths, prefixed: BOOLEAN]
Change == [op: {"upsert", "retire"}, relates: SUBSET EvidenceIds]
PartialFunctions(S, T) == UNION {[D -> T] : D \in SUBSET S}

Result == [outcome: {"SUBMIT_FOR_REVIEW", "BLOCKED", "FAILED"},
           declares: PartialFunctions(Artifacts, Declared),
           candidates: PartialFunctions(EvidenceIds, Candidate),
           changes: PartialFunctions(Claims, Change)]

RefsOf(candidate) == {candidate.refs[i] : i \in DOMAIN candidate.refs}

(* WorkResult: every artifact that a candidate refers to is declared.        *)
HonorsContract(result) ==
    \A e \in DOMAIN result.candidates :
        RefsOf(result.candidates[e]) \subseteq DOMAIN result.declares

ASSUME EvidenceAssumption ==
    /\ Refs \subseteq Seq(Artifacts)
    /\ Results \subseteq Result
    /\ \A result \in Results : HonorsContract(result)
    /\ Contents \intersect {"absent", "dir"} = {}
    /\ MaxRuns \in Nat
    /\ MaxWrites \in Nat

VARIABLES
    file,     \* what is at a path of the workspace
    artifact, \* artifact rows: [task, run, path, sha]
    evidence, \* evidence rows: [status, type, refs, run]
    claim,    \* [state: use_state, "none" if there is no row, links: claim_evidence rows]
    task,     \* the status of each task
    run,      \* worker runs: [task, status, candidates: those of its result]
    package,  \* what the auditor of a task was shown
    accepted, \* history: the runs whose submission an auditor accepted
    judged,   \* history: the hash the auditor of VERIFIED evidence was shown
    writes    \* writes to the workspace so far

vars == <<file, artifact, evidence, claim, task, run, package, accepted, judged, writes>>

Runs == 1..MaxRuns
Absent == [status |-> "absent"]
NoHash == "none"

ArtifactRow == [status: {"REGISTERED"}, task: Tasks, run: Runs, path: Paths, sha: Contents]
EvidenceRow == [status: {"CANDIDATE", "VERIFIED", "CONTESTED"}, type: Types,
                refs: Seq(Artifacts), run: Runs]
RunRow == [status: {"RUNNING", "SUCCEEDED", "FAILED", "INTERRUPTED"}, task: Tasks,
           candidates: PartialFunctions(EvidenceIds, Candidate)]
Package == [status: {"shown"}, run: Runs, hash: PartialFunctions(Artifacts, Contents)]

TypeOK ==
    /\ file \in [Paths -> Contents \union {"absent", "dir"}]
    /\ artifact \in [Artifacts -> ArtifactRow \union {Absent}]
    /\ evidence \in [EvidenceIds -> EvidenceRow \union {Absent}]
    /\ claim \in [Claims -> [state: {"none", "DRAFT", "RETIRED"}, links: SUBSET EvidenceIds]]
    /\ task \in [Tasks -> {"READY", "RUNNING", "REVIEW", "BLOCKED", "COMPLETED", "FAILED"}]
    /\ run \in [Runs -> RunRow \union {Absent}]
    /\ package \in [Tasks -> Package \union {Absent}]
    /\ accepted \in SUBSET Runs
    /\ judged \in [EvidenceIds -> Contents \union {NoHash}]
    /\ writes \in Nat

Init ==
    /\ file \in [Paths -> Contents \union {"absent", "dir"}]
    /\ artifact = [a \in Artifacts |-> Absent]
    /\ evidence = [e \in EvidenceIds |-> Absent]
    /\ claim = [c \in Claims |-> [state |-> "none", links |-> {}]]
    /\ task = [t \in Tasks |-> "READY"]
    /\ run = [r \in Runs |-> Absent]
    /\ package = [t \in Tasks |-> Absent]
    /\ accepted = {}
    /\ judged = [e \in EvidenceIds |-> NoHash]
    /\ writes = 0

Exists(row) == row.status # "absent"
DatabaseUnchanged == UNCHANGED <<artifact, evidence, claim>>
HistoryUnchanged == UNCHANGED <<accepted, judged>>

-----------------------------------------------------------------------------
(* Workers.  Dispatch and the ways a run ends are those of Scheduler.        *)

IsOf(r, t) == Exists(run[r]) /\ run[r].task = t
IsLastOf(r, t) == IsOf(r, t) /\ \A q \in Runs : IsOf(q, t) => q <= r

(* The run rows are used in the order of their numbers.                      *)
Dispatch(t, r) ==
    /\ task[t] = "READY"
    /\ ~ Exists(run[r])
    /\ \A q \in Runs : q < r => Exists(run[q])
    /\ run' = [run EXCEPT ![r] = [status |-> "RUNNING", task |-> t, candidates |-> <<>>]]
    /\ task' = [task EXCEPT ![t] = "RUNNING"]
    /\ DatabaseUnchanged /\ HistoryUnchanged
    /\ UNCHANGED <<file, package, writes>>

(* All workers of a project share its workspace.                             *)
WriteFile(p, what) ==
    /\ \E t \in Tasks : task[t] = "RUNNING"
    /\ writes < MaxWrites
    /\ file[p] # what
    /\ file' = [file EXCEPT ![p] = what]
    /\ writes' = writes + 1
    /\ DatabaseUnchanged /\ HistoryUnchanged
    /\ UNCHANGED <<task, run, package>>

EndRun(r, status, candidates, taskStatus) ==
    /\ run[r].status = "RUNNING"
    /\ run' = [run EXCEPT ![r].status = status, ![r].candidates = candidates]
    /\ task' = [task EXCEPT ![run[r].task] = taskStatus]
    /\ UNCHANGED <<file, package, writes>>
    /\ HistoryUnchanged

(* The turn times out: the task goes back for another run.                   *)
Interrupt(r) ==
    /\ EndRun(r, "INTERRUPTED", <<>>, "READY")
    /\ DatabaseUnchanged

(* A task whose worker reported BLOCKED goes back, decided or not.           *)
Requeue(t) ==
    /\ task[t] = "BLOCKED"
    /\ task' = [task EXCEPT ![t] = "READY"]
    /\ DatabaseUnchanged /\ HistoryUnchanged
    /\ UNCHANGED <<file, run, package, writes>>

-----------------------------------------------------------------------------
(* apply_work_result: artifacts.                                             *)

(* A path that starts with the name of the workspace directory is rewritten  *)
(* only when a file is there, so a directory is recognised as one only by its *)
(* plain path.  "absent" stands for every path that is no file in the root.  *)
IsThere(p) == file[p] # "absent"
IsFile(p) == IsThere(p) /\ file[p] # "dir"
IsSkipped(d) == file[d.path] = "dir" /\ ~ d.prefixed

VerifiedRefersTo(a) ==
    \E e \in EvidenceIds : evidence[e].status = "VERIFIED" /\ a \in RefsOf(evidence[e])

(* A changed file of the same task supersedes its row, unless evidence that   *)
(* was VERIFIED refers to it.                                                *)
IsOwn(t, a) == artifact[a].task = t
IsNoBasis(t, a) == ~ VerifiedRefersTo(a)
MaySupersede(t, a) == IsOwn(t, a) /\ IsNoBasis(t, a)
Changed(a, p) == artifact[a].sha # file[p]

MayDeclare(t, a, d) ==
    \/ IsSkipped(d)
    \/ /\ IsFile(d.path)
       /\ Exists(artifact[a]) =>
            /\ artifact[a].path = d.path
            /\ Changed(a, d.path) => MaySupersede(t, a)

(* register_artifact, the superseding update, or validation alone.           *)
ArtifactAfter(r, a, d) ==
    IF IsSkipped(d) THEN artifact[a]
    ELSE IF ~ Exists(artifact[a])
    THEN [status |-> "REGISTERED", task |-> run[r].task, run |-> r,
          path |-> d.path, sha |-> file[d.path]]
    ELSE IF Changed(a, d.path)
    THEN [artifact[a] EXCEPT !.sha = file[d.path], !.run = r]
    ELSE artifact[a]

RegisterArtifacts(r, result) ==
    artifact' = [a \in Artifacts |->
                   IF a \in DOMAIN result.declares
                   THEN ArtifactAfter(r, a, result.declares[a])
                   ELSE artifact[a]]

-----------------------------------------------------------------------------
(* apply_work_result: evidence and claims.                                   *)

(* VERIFIED evidence is never overwritten; any other row with the same id is  *)
(* superseded, whosever it was, and keeps its status.                        *)
EvidenceAfter(r, e, candidate) ==
    IF evidence[e].status = "VERIFIED" THEN evidence[e]
    ELSE [status |-> IF Exists(evidence[e]) THEN evidence[e].status ELSE "CANDIDATE",
          type |-> candidate.type, refs |-> candidate.refs, run |-> r]

RecordEvidence(r, result) ==
    evidence' = [e \in EvidenceIds |->
                   IF e \in DOMAIN result.candidates
                   THEN EvidenceAfter(r, e, result.candidates[e])
                   ELSE evidence[e]]

(* claim_evidence has a foreign key to evidence.                             *)
RelatesToRows(result) ==
    \A c \in DOMAIN result.changes :
        result.changes[c].op = "upsert" =>
            \A e \in result.changes[c].relates :
                Exists(evidence[e]) \/ e \in DOMAIN result.candidates

ClaimAfter(c, change) ==
    IF change.op = "retire"
    THEN [claim[c] EXCEPT !.state = IF @ = "none" THEN @ ELSE "RETIRED"]
    ELSE [state |-> IF claim[c].state = "none" THEN "DRAFT" ELSE claim[c].state,
          links |-> claim[c].links \union change.relates]

ChangeClaims(result) ==
    claim' = [c \in Claims |->
                IF c \in DOMAIN result.changes
                THEN ClaimAfter(c, result.changes[c])
                ELSE claim[c]]

-----------------------------------------------------------------------------
(* collect_success applies the result in its transaction; when that raises,  *)
(* the transaction is gone and the driver fails the run and the task.        *)

IsApplicable(t, result) ==
    /\ \A a \in DOMAIN result.declares : MayDeclare(t, a, result.declares[a])
    /\ RelatesToRows(result)

StatusAfter(outcome) == CASE outcome = "SUBMIT_FOR_REVIEW" -> "REVIEW"
                          [] outcome = "BLOCKED" -> "BLOCKED"
                          [] outcome = "FAILED" -> "FAILED"

Apply(r, result) ==
    /\ Exists(run[r])
    /\ IsApplicable(run[r].task, result)
    /\ EndRun(r, "SUCCEEDED", result.candidates, StatusAfter(result.outcome))
    /\ RegisterArtifacts(r, result)
    /\ RecordEvidence(r, result)
    /\ ChangeClaims(result)

Reject(r, result) ==
    /\ Exists(run[r])
    /\ ~ IsApplicable(run[r].task, result)
    /\ EndRun(r, "FAILED", <<>>, "FAILED")
    /\ DatabaseUnchanged

-----------------------------------------------------------------------------
(* The audit: the package the auditor is shown, and the verdict.             *)

(* The artifacts are those registered for the run under review; one that the  *)
(* run declared unchanged still belongs to an earlier run and is missing.    *)
RegisteredFor(r) == {a \in Artifacts : Exists(artifact[a]) /\ artifact[a].run = r}

BeginAudit(t, r) ==
    /\ task[t] = "REVIEW"
    /\ ~ Exists(package[t])
    /\ IsLastOf(r, t)
    /\ package' = [package EXCEPT ![t] =
         [status |-> "shown", run |-> r, hash |-> [a \in RegisteredFor(r) |-> artifact[a].sha]]]
    /\ DatabaseUnchanged /\ HistoryUnchanged
    /\ UNCHANGED <<file, task, run, writes>>

(* The auditor fails or is interrupted; the next audit gets a new package.    *)
AuditEnds(t) ==
    /\ Exists(package[t])
    /\ package' = [package EXCEPT ![t] = Absent]
    /\ DatabaseUnchanged /\ HistoryUnchanged
    /\ UNCHANGED <<file, task, run, writes>>

(* verify_evidence and provenance_ok.                                        *)
IsRegistered(e) == Exists(artifact[Head(evidence[e].refs)])
ProducedByItsRun(e) ==
    IsRegistered(e) /\ artifact[Head(evidence[e].refs)].run = evidence[e].run

HasProvenance(e) ==
    \/ evidence[e].type = "stated"
    \/ /\ evidence[e].type = "computational"
       /\ evidence[e].refs # <<>>
       /\ ProducedByItsRun(e)

IsJudgedWith(e, r) == evidence[e].status = "CANDIDATE" /\ evidence[e].run = r

(* What the auditor wants of a candidate: without a list, all is to be        *)
(* VERIFIED; with one, what it does not name stays a candidate.  "CONTESTED"  *)
(* stands for INVALID and SUPERSEDED too.                                    *)
Wanted(e, wanted) ==
    IF DOMAIN wanted = {} THEN "VERIFIED"
    ELSE IF e \in DOMAIN wanted THEN wanted[e] ELSE "CANDIDATE"

IsVerified(e, r, wanted) ==
    IsJudgedWith(e, r) /\ Wanted(e, wanted) = "VERIFIED" /\ HasProvenance(e)

StatusGiven(e, r, wanted) ==
    IF IsVerified(e, r, wanted) THEN "VERIFIED"
    ELSE IF IsJudgedWith(e, r) /\ Wanted(e, wanted) = "CONTESTED" THEN "CONTESTED"
    ELSE evidence[e].status

(* The hash shown for the artifact that computational evidence rests on.      *)
HashShown(t, e) ==
    IF evidence[e].type = "computational" /\ Head(evidence[e].refs) \in DOMAIN package[t].hash
    THEN package[t].hash[Head(evidence[e].refs)]
    ELSE NoHash

JudgeEvidence(t, r, wanted) ==
    /\ evidence' = [e \in EvidenceIds |->
                      IF Exists(evidence[e])
                      THEN [evidence[e] EXCEPT !.status = StatusGiven(e, r, wanted)]
                      ELSE Absent]
    /\ judged' = [e \in EvidenceIds |->
                    IF IsVerified(e, r, wanted) THEN HashShown(t, e) ELSE judged[e]]

EndAudit(t, taskStatus) ==
    /\ task[t] = "REVIEW"
    /\ Exists(package[t])
    /\ package' = [package EXCEPT ![t] = Absent]
    /\ task' = [task EXCEPT ![t] = taskStatus]
    /\ UNCHANGED <<file, artifact, claim, run, writes>>

(* ACCEPT with no check at FAIL; the task completes when all criteria PASS.   *)
Accept(t, wanted, allPass) ==
    /\ EndAudit(t, IF allPass THEN "COMPLETED" ELSE "FAILED")
    /\ JudgeEvidence(t, package[t].run, wanted)
    /\ accepted' = accepted \union {package[t].run}

(* REVISE, BLOCK, or ACCEPT with a check at FAIL; REJECT.                     *)
SendBack(t) ==
    /\ EndAudit(t, "READY")
    /\ UNCHANGED evidence /\ HistoryUnchanged

Refuse(t) ==
    /\ EndAudit(t, "FAILED")
    /\ UNCHANGED evidence /\ HistoryUnchanged

WorkerNext ==
    \/ \E t \in Tasks, r \in Runs : Dispatch(t, r)
    \/ \E p \in Paths, what \in Contents \union {"dir", "absent"} : WriteFile(p, what)
    \/ \E r \in Runs : Interrupt(r)
    \/ \E r \in Runs, result \in Results : Apply(r, result)
    \/ \E r \in Runs, result \in Results : Reject(r, result)
    \/ \E t \in Tasks : Requeue(t)

AuditNext ==
    \/ \E t \in Tasks, r \in Runs : BeginAudit(t, r)
    \/ \E t \in Tasks : AuditEnds(t)
    \/ \E t \in Tasks, allPass \in BOOLEAN,
          wanted \in PartialFunctions(EvidenceIds, {"VERIFIED", "CONTESTED"}) :
         Accept(t, wanted, allPass)
    \/ \E t \in Tasks : SendBack(t)
    \/ \E t \in Tasks : Refuse(t)

Next == WorkerNext \/ AuditNext

Spec == Init /\ [][Next]_vars

-----------------------------------------------------------------------------
(* Properties.                                                             *)

IsVerifiedRow(e) == evidence[e].status = "VERIFIED"

(* While a submission is under audit, the registry says of its artifacts what  *)
(* the auditor was shown: no result of another task, nor a write to the       *)
(* workspace, changes the hash or the owner of an artifact in the package     *)
(* (apply_result.py supersedes within one task only; context_package.py       *)
(* lists the artifacts once, before the auditor's turn).                     *)
PackageIsCurrent ==
    \A t \in Tasks : Exists(package[t]) =>
        \A a \in DOMAIN package[t].hash :
            /\ artifact[a].run = package[t].run
            /\ artifact[a].sha = package[t].hash[a]

(* VERIFIED evidence is what an accepted submission offered, and computational *)
(* evidence rests on an artifact that the same run produced and that still    *)
(* has the hash which the accepting auditor was shown (audit_gate.py,         *)
(* verify_evidence; the superseding rules of apply_result.py).               *)
VerifiedAsJudged ==
    \A e \in EvidenceIds : IsVerifiedRow(e) =>
        LET row == evidence[e]
            a == Head(row.refs)
        IN /\ row.run \in accepted
           /\ e \in DOMAIN run[row.run].candidates
           /\ run[row.run].candidates[e] = [type |-> row.type, refs |-> row.refs]
           /\ row.type = "computational" =>
                artifact[a].run = row.run /\ artifact[a].sha = judged[e]

(* VERIFIED evidence never changes again, nor does any artifact row it refers  *)
(* to, of whichever task: not by a resubmission, by a result that reuses the id,  *)
(* or by a later verdict (apply_result.py:141-180, 227-230).                 *)
VerifiedIsFrozen ==
    [][\A e \in EvidenceIds : IsVerifiedRow(e) =>
          /\ evidence'[e] = evidence[e]
          /\ \A a \in RefsOf(evidence[e]) :
                Exists(artifact[a]) => artifact'[a] = artifact[a]]_vars
=============================================================================
