----------------------------- MODULE Reporting -----------------------------
(***************************************************************************)
(* What the principal investigator is told: decision cards, reports on new   *)
(* verified evidence and milestones (reporting/reporter.py, eligibility.py,  *)
(* spec.py, check_milestones of scheduler/extensions.py).                   *)
(*                                                                         *)
(* A pass of the reporter takes a snapshot of the project, compares it with  *)
(* the baseline the last pass stored, compiles a card for each newly open    *)
(* decision and a report for newly verified evidence, drops what the linter  *)
(* refuses, and commits the rest with the new baseline.  Decisions may be    *)
(* answered, and evidence linked to them, over the API between any two of    *)
(* its statements; all other writers share its event loop, and the template  *)
(* compressor never yields.                                                 *)
(*                                                                         *)
(* Texts are data: a "malformed" decision has an option without consequence, *)
(* an unknown task or a hollow phrase, a "procedural" one is of a category    *)
(* that needs no evidence, the statements of the evidence in Hollow have a    *)
(* hollow phrase, and so has the objective of a task while it is wordy: a      *)
(* report on evidence lists the objectives of the tasks at hand, and the       *)
(* linter reads them too.  Delivery is that of Outbox.                        *)
(***************************************************************************)
EXTENDS Naturals, FiniteSets

CONSTANTS Decisions,
          EvidenceIds, \* numbers: their order is that of the ids
          Citable,     \* bound: the evidence that decisions cite
          Hollow,      \* evidence whose statement has a hollow phrase
          MaxNamed,    \* a report quotes this many of its first evidence, and
                       \* refers to this many of its last
          MaxIncidents \* bound: changes of claims and issues, pauses of the project,
                       \* passes that are killed or fail to commit

ASSUME ReportingAssumption ==
    /\ EvidenceIds \subseteq Nat /\ IsFiniteSet(EvidenceIds)
    /\ Citable \subseteq EvidenceIds /\ Hollow \subseteq EvidenceIds
    /\ MaxNamed \in Nat /\ MaxIncidents \in Nat

Milestones == {"first-completed", "first-decision-applied"}

VARIABLES
    active,    \* the project is ACTIVE
    completed, \* a task of the project is COMPLETED
    verified,  \* the VERIFIED evidence
    wordy,     \* a task whose objective has a hollow phrase is READY or RUNNING, was, or never was
    others,    \* claim states and unresolved issues, as one value
    decision,  \* [status, kind, refs: evidence_refs]
    baseline,  \* the snapshot of the "report-state" row
    reached,   \* the milestones with a milestone.reached event
    cards,     \* history: cards queued for each decision
    told,      \* history: reports queued that name each evidence
    refused,   \* history: decisions whose card the linter refused
    silenced,  \* history: evidence of the reports that the linter refused
    pass,      \* the pass of the reporter: where it is, snapshot and specs
    incidents  \* so far

vars == <<active, completed, verified, wordy, others, decision, baseline, reached,
          cards, told, refused, silenced, pass, incidents>>

Status == {"none", "OPEN", "ANSWERED", "APPLIED"}
Kinds == {"scientific", "procedural", "malformed"}
Snapshot == [verified: SUBSET EvidenceIds, others: Nat,
             open: SUBSET Decisions, answered: SUBSET Decisions]
NoBaseline == [verified |-> {}, others |-> 0, open |-> {}, answered |-> {}]

(* The specs of a pass: refs of each decision to ask, evidence to report, and  *)
(* whether an objective that the report lists has a hollow phrase.            *)
NoSpecs == [ask |-> {}, refs |-> [d \in Decisions |-> {}], report |-> {}, wordy |-> FALSE]
Specs == [ask: SUBSET Decisions, refs: [Decisions -> SUBSET EvidenceIds],
          report: SUBSET EvidenceIds, wordy: BOOLEAN]
Idle == [at |-> "idle", snapshot |-> NoBaseline, specs |-> NoSpecs]

TypeOK ==
    /\ active \in BOOLEAN /\ completed \in BOOLEAN
    /\ verified \in SUBSET EvidenceIds
    /\ wordy \in {"never", "active", "inactive"}
    /\ others \in Nat
    /\ decision \in [Decisions -> [status: Status, kind: Kinds, refs: SUBSET EvidenceIds]]
    /\ baseline \in Snapshot
    /\ reached \in SUBSET Milestones
    /\ cards \in [Decisions -> Nat]
    /\ told \in [EvidenceIds -> Nat]
    /\ refused \in SUBSET Decisions
    /\ silenced \in SUBSET EvidenceIds
    /\ pass \in [at: {"idle", "compare", "emit"}, snapshot: Snapshot, specs: Specs]
    /\ incidents \in Nat

Init ==
    /\ active = TRUE /\ completed = FALSE
    /\ verified = {} /\ wordy = "never" /\ others = 0
    /\ decision = [d \in Decisions |-> [status |-> "none", kind |-> "scientific", refs |-> {}]]
    /\ baseline = NoBaseline
    /\ reached = {}
    /\ cards = [d \in Decisions |-> 0]
    /\ told = [e \in EvidenceIds |-> 0]
    /\ refused = {} /\ silenced = {}
    /\ pass = Idle
    /\ incidents = 0

-----------------------------------------------------------------------------
(* Writers on the event loop of the service: never within a pass.            *)

BetweenPasses == pass.at = "idle"
Incident == incidents < MaxIncidents /\ incidents' = incidents + 1
ReporterUnchanged == UNCHANGED <<baseline, reached, cards, told, refused, silenced, pass>>

Verify(e) ==
    /\ BetweenPasses
    /\ verified' = verified \union {e}
    /\ UNCHANGED <<active, completed, wordy, others, decision, incidents>>
    /\ ReporterUnchanged

ChangeOthers ==
    /\ BetweenPasses
    /\ Incident
    /\ others' = others + 1
    /\ UNCHANGED <<active, completed, verified, wordy, decision>>
    /\ ReporterUnchanged

CompleteTask ==
    /\ BetweenPasses
    /\ completed' = TRUE
    /\ UNCHANGED <<active, verified, wordy, others, decision, incidents>>
    /\ ReporterUnchanged

(* A task with such an objective becomes READY, is RUNNING, or leaves both.   *)
ChangeTasks ==
    /\ BetweenPasses
    /\ wordy' = IF wordy = "active" THEN "inactive" ELSE "active"
    /\ UNCHANGED <<active, completed, verified, others, decision, incidents>>
    /\ ReporterUnchanged

(* The gate opens a decision with the evidence its candidate cites.          *)
Raise(d, kind, refs) ==
    /\ BetweenPasses
    /\ decision[d].status = "none"
    /\ decision' = [decision EXCEPT ![d] = [status |-> "OPEN", kind |-> kind, refs |-> refs]]
    /\ UNCHANGED <<active, completed, verified, wordy, others, incidents>>
    /\ ReporterUnchanged

(* Bootstrap, with the service stopped, imports a decision that was taken.    *)
Import(d) ==
    /\ BetweenPasses
    /\ decision[d].status = "none"
    /\ decision' = [decision EXCEPT ![d].status = "APPLIED"]
    /\ UNCHANGED <<active, completed, verified, wordy, others, incidents>>
    /\ ReporterUnchanged

-----------------------------------------------------------------------------
(* Writers on the threads of the API: at any time.                           *)

Answer(d) ==
    /\ decision[d].status = "OPEN"
    /\ decision' = [decision EXCEPT ![d].status = "ANSWERED"]
    /\ UNCHANGED <<active, completed, verified, wordy, others, incidents>>
    /\ ReporterUnchanged

Link(d, e) ==
    /\ decision[d].status # "none"
    /\ e \notin decision[d].refs
    /\ decision' = [decision EXCEPT ![d].refs = @ \union {e}]
    /\ UNCHANGED <<active, completed, verified, wordy, others, incidents>>
    /\ ReporterUnchanged

SetActive ==
    /\ IF active THEN Incident ELSE UNCHANGED incidents
    /\ active' = ~ active
    /\ UNCHANGED <<completed, verified, wordy, others, decision>>
    /\ ReporterUnchanged

-----------------------------------------------------------------------------
(* schedule_report.                                                         *)

WithStatus(status) == {d \in Decisions : decision[d].status = status}

WorldUnchanged == UNCHANGED <<active, completed, verified, wordy, others, decision, incidents>>

(* build_snapshot; the pass ends here if nothing differs from the baseline.  *)
Current == [verified |-> verified, others |-> others,
            open |-> WithStatus("OPEN"), answered |-> WithStatus("ANSWERED")]

DecisionsDiffer(snapshot) ==
    <<snapshot.open, snapshot.answered>> # <<baseline.open, baseline.answered>>
Differs(snapshot) == snapshot # baseline

TakeSnapshot ==
    /\ active /\ BetweenPasses
    /\ Differs(Current)
    /\ pass' = [Idle EXCEPT !.at = "compare", !.snapshot = Current]
    /\ UNCHANGED <<baseline, reached, cards, told, refused, silenced>>
    /\ WorldUnchanged

(* _specs_for_snapshot reads the decisions again: one answered meanwhile      *)
(* gets no card.                                                             *)
AnyOpen(d, seen) == d \in pass.snapshot.open
NewlyOpen(d, seen) == d \in pass.snapshot.open \ seen

NewRows == {decision[d] : d \in WithStatus("OPEN")}
NewDecisions == {d \in WithStatus("OPEN") : NewlyOpen(d, baseline.open)}

AddedIfNoCards == IF NewDecisions = {} THEN pass.snapshot.verified \ baseline.verified ELSE {}
AddedEvidence == pass.snapshot.verified \ baseline.verified

CompileSpecs ==
    /\ pass.at = "compare"
    /\ pass' = [pass EXCEPT !.at = "emit",
                            !.specs = [ask |-> NewDecisions,
                                       refs |-> [d \in Decisions |-> decision[d].refs],
                                       report |-> AddedEvidence,
                                       wordy |-> wordy = "active" /\ AddedEvidence # {}]]
    /\ UNCHANGED <<baseline, reached, cards, told, refused, silenced>>
    /\ WorldUnchanged

(* lint_spec: a bottom line cites evidence, all of it verified in the         *)
(* snapshot; a procedural one may cite none.                                 *)
IsSendable(d, refs, known) ==
    /\ decision[d].kind # "malformed"
    /\ refs # {} \/ decision[d].kind = "procedural"
    /\ refs \subseteq known

FirstOf(S) == {e \in S : Cardinality({f \in S : f < e}) < MaxNamed}
LastOf(S) == {e \in S : Cardinality({f \in S : f > e}) < MaxNamed}

(* It scans the statements that the report quotes, and the objectives.        *)
IsHollow(specs) == specs.wordy \/ FirstOf(specs.report) \intersect Hollow # {}

Named(specs) == IF IsHollow(specs) THEN {} ELSE FirstOf(specs.report) \union LastOf(specs.report)

(* The rows of the reports, their messages and the baseline, in one commit.  *)
CardsOf(specs, known) == {d \in specs.ask : IsSendable(d, specs.refs[d], known)}
NewBaseline(snapshot) == snapshot

Emit ==
    /\ pass.at = "emit"
    /\ LET sent == CardsOf(pass.specs, pass.snapshot.verified)
           named == Named(pass.specs)
       IN /\ cards' = [d \in Decisions |-> IF d \in sent THEN cards[d] + 1 ELSE cards[d]]
          /\ told' = [e \in EvidenceIds |-> IF e \in named THEN told[e] + 1 ELSE told[e]]
          /\ refused' = refused \union (pass.specs.ask \ sent)
          /\ silenced' = silenced \union (IF IsHollow(pass.specs) THEN pass.specs.report ELSE {})
    /\ baseline' = NewBaseline(pass.snapshot)
    /\ pass' = Idle
    /\ UNCHANGED reached
    /\ WorldUnchanged

(* The process dies, or the commit fails and is rolled back with the tick.   *)
Kill ==
    /\ ~ BetweenPasses
    /\ Incident
    /\ pass' = Idle
    /\ UNCHANGED <<active, completed, verified, wordy, others, decision, baseline,
                   reached, cards, told, refused, silenced>>

(* check_milestones: report row, message and event, one commit per milestone. *)
IsReached(m) == IF m = "first-completed"
                THEN completed
                ELSE WithStatus("ANSWERED") \union WithStatus("APPLIED") # {}

ReportMilestone(m) ==
    /\ active /\ BetweenPasses
    /\ IsReached(m) /\ m \notin reached
    /\ reached' = reached \union {m}
    /\ UNCHANGED <<baseline, cards, told, refused, silenced, pass>>
    /\ WorldUnchanged

Next ==
    \/ \E e \in EvidenceIds : Verify(e)
    \/ ChangeOthers
    \/ CompleteTask
    \/ ChangeTasks
    \/ \E d \in Decisions : \/ \E kind \in Kinds, refs \in SUBSET Citable :
                                   Raise(d, kind, refs)
                            \/ Import(d)
                            \/ Answer(d)
                            \/ \E e \in Citable : Link(d, e)
    \/ SetActive
    \/ TakeSnapshot \/ CompileSpecs \/ Emit
    \/ Kill
    \/ \E m \in Milestones : ReportMilestone(m)

Spec == Init /\ [][Next]_vars

-----------------------------------------------------------------------------
(* Safety.                                                                 *)

(* schedule_report: "a crash after commit-and-send replays the same key and   *)
(* never double-delivers", reports "for NEW evidence ONLY": over kills, and   *)
(* however answers fall into a pass, no decision gets a second card and no    *)
(* evidence is announced twice.                                              *)
ToldOnce ==
    /\ \A d \in Decisions : cards[d] <= 1
    /\ \A e \in EvidenceIds : told[e] <= 1

(* schedule_report persists the baseline "atomically with the emission": what  *)
(* it covers is never looked at again, so it may cover only what was dealt     *)
(* with.  A decision has its card, or the linter refused it, or it is no        *)
(* longer open; evidence was named, or was in a report that the linter          *)
(* refused, and only for a hollow phrase; what is in the middle of a batch of   *)
(* more than 2 * MaxNamed is named by no report.                              *)
NoneForgotten ==
    /\ \A d \in baseline.open : \/ cards[d] = 1
                                \/ d \in refused
                                \/ decision[d].status # "OPEN"
    /\ \A e \in baseline.verified : \/ told[e] = 1
                                    \/ e \in silenced
                                    \/ Cardinality(baseline.verified) > 2 * MaxNamed
    /\ silenced # {} => wordy # "never" \/ Hollow \intersect baseline.verified # {}

-----------------------------------------------------------------------------
(* Liveness.                                                               *)

(* A tick reports on the active projects and checks their milestones.        *)
Fairness ==
    /\ WF_vars(TakeSnapshot)
    /\ WF_vars(CompileSpecs)
    /\ WF_vars(Emit)
    /\ \A m \in Milestones : WF_vars(ReportMilestone(m))

FairSpec == Spec /\ Fairness

(* The principal investigator of an active project learns of every milestone,  *)
(* of every open decision unless the linter refused its card, and of all        *)
(* verified evidence unless the linter refused the report or a batch was too     *)
(* large to name it.  What was refused once is not told later, nor when the      *)
(* evidence that a card lacked is linked.                                     *)
NewsIsTold ==
    /\ \A d \in Decisions :
          (decision[d].status = "OPEN") ~> \/ cards[d] > 0 \/ d \in refused
                                           \/ decision[d].status # "OPEN" \/ ~ active
    /\ \A e \in EvidenceIds :
          (e \in verified) ~> \/ told[e] > 0 \/ e \in silenced
                              \/ Cardinality(verified) > 2 * MaxNamed \/ ~ active
    /\ \A m \in Milestones : IsReached(m) ~> (m \in reached \/ ~ active)

=============================================================================
