-------------------------- MODULE ReportingProofs --------------------------
(***************************************************************************)
(* Theorems about Reporting, for any number of decisions, pieces of evidence, *)
(* pauses and kills: the type invariant, that nothing is told twice, and that *)
(* what the baseline covers is not forgotten.                               *)
(*                                                                         *)
(* That no decision gets a second card rests on three facts: a card is only   *)
(* queued together with a baseline that covers its decision; a decision       *)
(* leaves the baseline only when it has been answered, and none is opened     *)
(* again; and what a pass is about to send has no card yet.                  *)
(***************************************************************************)
EXTENDS Reporting, FiniteSetTheorems, TLAPS

(* A decision that has a card is in the baseline, or is no longer open.       *)
CardsCovered ==
    \A d \in Decisions : cards[d] > 0 =>
        /\ decision[d].status # "none"
        /\ decision[d].status = "OPEN" => d \in baseline.open

(* Evidence that was named is in the baseline, and no evidence is unverified  *)
(* again.                                                                    *)
ToldCovered ==
    /\ \A e \in EvidenceIds : told[e] > 0 => e \in baseline.verified
    /\ baseline.verified \subseteq verified

(* The snapshot of a pass stays true but for answers: decisions are raised,   *)
(* and evidence is verified, between passes.                                 *)
SnapshotHolds ==
    pass.at # "idle" =>
        /\ pass.snapshot.verified = verified
        /\ \A d \in Decisions : decision[d].status = "OPEN" => d \in pass.snapshot.open

(* What a pass is about to tell was not told.                                *)
SpecsAreNews ==
    pass.at = "emit" =>
        /\ \A d \in pass.specs.ask : /\ cards[d] = 0
                                     /\ decision[d].status # "none"
                                     /\ d \in pass.snapshot.open
        /\ \A e \in pass.specs.report : told[e] = 0 /\ e \in pass.snapshot.verified

IInv == TypeOK /\ ToldOnce /\ CardsCovered /\ ToldCovered /\ SnapshotHolds /\ SpecsAreNews

-----------------------------------------------------------------------------
(* Nothing has been told at the start.                                       *)
LEMMA InitIInv == Init => IInv
<1> SUFFICES ASSUME Init PROVE IInv
  OBVIOUS
<1>1. TypeOK
  <2>1. NoBaseline \in Snapshot /\ NoSpecs \in Specs
    BY DEF NoBaseline, Snapshot, NoSpecs, Specs
  <2>2. pass \in [at: {"idle", "compare", "emit"}, snapshot: Snapshot, specs: Specs]
    BY <2>1 DEF Init, Idle
  <2>3. decision \in [Decisions -> [status: Status, kind: Kinds, refs: SUBSET EvidenceIds]]
    BY DEF Init, Status, Kinds
  <2> QED
    BY <2>1, <2>2, <2>3 DEF Init, TypeOK
<1>2. ToldOnce /\ CardsCovered /\ ToldCovered
  BY DEF Init, ToldOnce, CardsCovered, ToldCovered, NoBaseline
<1>3. SnapshotHolds /\ SpecsAreNews
  BY DEF Init, SnapshotHolds, SpecsAreNews, Idle
<1> QED
  BY <1>1, <1>2, <1>3 DEF IInv

-----------------------------------------------------------------------------
Enters(d) == Import(d) \/ \E kind \in Kinds, refs \in SUBSET Citable : Raise(d, kind, refs)

(* Writers on the event loop, none of which runs within a pass.              *)
LEMMA LoopWriters ==
    ASSUME IInv,
           \/ \E e \in EvidenceIds : Verify(e)
           \/ ChangeOthers \/ CompleteTask \/ ChangeTasks
           \/ \E d \in Decisions : Enters(d)
    PROVE  IInv'
<1> USE DEF IInv, BetweenPasses, ReporterUnchanged
<1>1. ASSUME NEW e \in EvidenceIds, Verify(e) PROVE IInv'
  BY <1>1 DEF Verify, TypeOK, ToldOnce, CardsCovered, ToldCovered, SnapshotHolds, SpecsAreNews
<1>2. ASSUME ChangeOthers \/ CompleteTask \/ ChangeTasks PROVE IInv'
  <2>1. others' \in Nat /\ wordy' \in {"never", "active", "inactive"} /\ incidents' \in Nat
    BY <1>2 DEF ChangeOthers, CompleteTask, ChangeTasks, Incident, TypeOK
  <2>2. completed' \in BOOLEAN
    BY <1>2, Zenon DEF ChangeOthers, CompleteTask, ChangeTasks, TypeOK
  <2>3. /\ UNCHANGED <<active, verified, decision>>
        /\ UNCHANGED <<baseline, reached, cards, told, refused, silenced, pass>>
    BY <1>2 DEF ChangeOthers, CompleteTask, ChangeTasks
  <2>4. TypeOK'
    BY <2>1, <2>2, <2>3 DEF TypeOK
  <2> QED
    BY <2>3, <2>4 DEF ToldOnce, CardsCovered, ToldCovered, SnapshotHolds, SpecsAreNews
<1>3. ASSUME NEW d \in Decisions, Enters(d) PROVE IInv'
  <2>1. decision' \in [Decisions -> [status: Status, kind: Kinds, refs: SUBSET EvidenceIds]]
    <3>1. CASE Import(d)
      BY <3>1 DEF Import, TypeOK, Status
    <3>2. ASSUME NEW kind \in Kinds, NEW refs \in SUBSET Citable, Raise(d, kind, refs)
          PROVE  decision' \in [Decisions -> [status: Status, kind: Kinds, refs: SUBSET EvidenceIds]]
      BY <3>2, ReportingAssumption DEF Raise, TypeOK, Status
    <3> QED
      BY <1>3, <3>1, <3>2 DEF Enters
  <2>2. TypeOK'
    BY <1>3, <2>1 DEF Enters, Import, Raise, TypeOK
  <2>3. cards[d] = 0 /\ \A c \in Decisions \ {d} : decision'[c] = decision[c]
    BY <1>3 DEF Enters, Import, Raise, TypeOK, CardsCovered
  <2>4. CardsCovered'
    BY <1>3, <2>3 DEF Enters, Import, Raise, CardsCovered
  <2>5. ToldOnce' /\ ToldCovered' /\ SnapshotHolds' /\ SpecsAreNews'
    BY <1>3 DEF Enters, Import, Raise, ToldOnce, ToldCovered, SnapshotHolds, SpecsAreNews
  <2> QED
    BY <2>2, <2>4, <2>5
<1> QED
  BY <1>1, <1>2, <1>3

Closes(d) == Answer(d) \/ \E e \in Citable : Link(d, e)

(* Writers on the threads of the API, which only close decisions.             *)
LEMMA ApiWriters ==
    ASSUME IInv,
           \/ \E d \in Decisions : Closes(d)
           \/ SetActive
    PROVE  IInv'
<1> USE DEF IInv, ReporterUnchanged
<1>1. ASSUME NEW d \in Decisions, Closes(d) PROVE IInv'
  <2>1. decision' \in [Decisions -> [status: Status, kind: Kinds, refs: SUBSET EvidenceIds]]
    BY <1>1, ReportingAssumption DEF Closes, Answer, Link, TypeOK, Status
  <2>2. TypeOK'
    BY <1>1, <2>1 DEF Closes, Answer, Link, TypeOK
  <2>3. \A c \in Decisions : /\ decision[c].status # "none" => decision'[c].status # "none"
                             /\ decision'[c].status = "OPEN" => decision[c].status = "OPEN"
    BY <1>1 DEF Closes, Answer, Link, TypeOK
  <2>4. CardsCovered' /\ SnapshotHolds'
    BY <1>1, <2>3 DEF Closes, Answer, Link, CardsCovered, SnapshotHolds
  <2>5. SpecsAreNews'
    BY <1>1, <2>3 DEF Closes, Answer, Link, SpecsAreNews, TypeOK, Specs
  <2>6. ToldOnce' /\ ToldCovered'
    BY <1>1 DEF Closes, Answer, Link, ToldOnce, ToldCovered
  <2> QED
    BY <2>2, <2>4, <2>5, <2>6
<1>2. ASSUME SetActive PROVE IInv'
  BY <1>2 DEF SetActive, Incident, TypeOK, ToldOnce, CardsCovered, ToldCovered, SnapshotHolds, SpecsAreNews
<1> QED
  BY <1>1, <1>2

-----------------------------------------------------------------------------
(* The reporter.                                                             *)

(* The snapshot is a snapshot.                                               *)
LEMMA SnapshotStep ==
    ASSUME IInv, TakeSnapshot
    PROVE  IInv'
<1> USE DEF IInv, TakeSnapshot, WorldUnchanged, BetweenPasses
<1>1. Current \in Snapshot
  BY DEF TypeOK, Current, Snapshot, WithStatus
<1>2. NoSpecs \in Specs
  BY DEF NoSpecs, Specs
<1>3. pass' = [at |-> "compare", snapshot |-> Current, specs |-> NoSpecs]
  BY DEF Idle
<1>4. TypeOK'
  BY <1>1, <1>2, <1>3 DEF TypeOK
<1>5. SnapshotHolds'
  <2>1. Current.verified = verified /\ Current.open = WithStatus("OPEN")
    BY DEF Current
  <2>2. pass'.snapshot = Current
    BY <1>3
  <2> QED
    BY <2>1, <2>2 DEF SnapshotHolds, WithStatus
<1>6. ToldOnce' /\ CardsCovered' /\ ToldCovered' /\ SpecsAreNews'
  BY <1>3 DEF ToldOnce, CardsCovered, ToldCovered, SpecsAreNews
<1> QED
  BY <1>4, <1>5, <1>6

(* What the specs name is in the snapshot and was not in the baseline.        *)
LEMMA CompileStep ==
    ASSUME IInv, CompileSpecs
    PROVE  IInv'
<1> USE DEF IInv, CompileSpecs, WorldUnchanged
<1> DEFINE specs == [ask |-> NewDecisions,
                     refs |-> [d \in Decisions |-> decision[d].refs],
                     report |-> AddedEvidence,
                     wordy |-> wordy = "active" /\ AddedEvidence # {}]
<1>1. specs \in Specs
  <2>1. /\ NewDecisions \in SUBSET Decisions /\ AddedEvidence \in SUBSET EvidenceIds
        /\ [d \in Decisions |-> decision[d].refs] \in [Decisions -> SUBSET EvidenceIds]
    BY DEF TypeOK, NewDecisions, WithStatus, AddedEvidence, Snapshot
  <2>2. (wordy = "active" /\ AddedEvidence # {}) \in BOOLEAN
    BY Zenon
  <2> QED
    BY <2>1, <2>2, Zenon DEF Specs
<1>2. pass' = [at |-> "emit", snapshot |-> pass.snapshot, specs |-> specs]
  BY DEF TypeOK
<1>3. TypeOK'
  BY <1>1, <1>2 DEF TypeOK
<1>4. SnapshotHolds'
  BY <1>2 DEF SnapshotHolds
<1>5. \A d \in NewDecisions : /\ d \in Decisions /\ cards[d] = 0
                              /\ decision[d].status # "none" /\ d \in pass.snapshot.open
  BY DEF NewDecisions, NewlyOpen, WithStatus, CardsCovered, TypeOK
<1>6. \A e \in AddedEvidence : told[e] = 0 /\ e \in pass.snapshot.verified
  BY DEF AddedEvidence, ToldCovered, TypeOK, Snapshot
<1>7. SpecsAreNews'
  <2>1. specs.ask = NewDecisions /\ specs.report = AddedEvidence
    OBVIOUS
  <2>2. pass'.specs = specs /\ pass'.snapshot = pass.snapshot
    <3> HIDE DEF specs, CompileSpecs, IInv, WorldUnchanged
    <3> QED
      BY <1>2
  <2> HIDE DEF specs
  <2> QED
    BY <2>1, <2>2, <1>5, <1>6 DEF SpecsAreNews
<1>8. ToldOnce' /\ CardsCovered' /\ ToldCovered'
  BY DEF ToldOnce, CardsCovered, ToldCovered
<1> QED
  BY <1>3, <1>4, <1>7, <1>8

(* What is sent was not told, and the baseline that goes with it covers it.    *)
LEMMA EmitStep ==
    ASSUME IInv, Emit
    PROVE  IInv'
<1> USE DEF IInv, Emit, WorldUnchanged
<1> DEFINE sent == CardsOf(pass.specs, pass.snapshot.verified)
           named == Named(pass.specs)
<1>1. sent \subseteq pass.specs.ask /\ named \subseteq pass.specs.report
  BY DEF CardsOf, Named, FirstOf, LastOf
<1>2. /\ \A d \in Decisions : cards'[d] = IF d \in sent THEN cards[d] + 1 ELSE cards[d]
      /\ \A e \in EvidenceIds : told'[e] = IF e \in named THEN told[e] + 1 ELSE told[e]
  OBVIOUS
<1>3. cards' \in [Decisions -> Nat] /\ told' \in [EvidenceIds -> Nat]
  BY DEF TypeOK
<1>4. /\ baseline' = pass.snapshot /\ pass' = Idle
      /\ pass.snapshot \in Snapshot /\ pass.specs \in Specs
  BY DEF TypeOK, NewBaseline
<1>5. TypeOK'
  <2>1. refused' \in SUBSET Decisions /\ silenced' \in SUBSET EvidenceIds
    BY <1>4 DEF TypeOK, Specs
  <2>2. Idle \in [at: {"idle", "compare", "emit"}, snapshot: Snapshot, specs: Specs]
    BY DEF Idle, NoBaseline, NoSpecs, Snapshot, Specs
  <2> QED
    BY <1>3, <1>4, <2>1, <2>2 DEF TypeOK
<1>6. ToldOnce'
  <2>1. ASSUME NEW d \in Decisions PROVE cards'[d] <= 1
    BY <1>1, <1>2 DEF SpecsAreNews, ToldOnce
  <2>2. ASSUME NEW e \in EvidenceIds PROVE told'[e] <= 1
    BY <1>1, <1>2 DEF SpecsAreNews, ToldOnce
  <2> QED
    BY <2>1, <2>2 DEF ToldOnce
<1>7. CardsCovered'
  <2>1. ASSUME NEW d \in Decisions, cards'[d] > 0
        PROVE  decision[d].status # "none"
    BY <1>1, <1>2, <2>1 DEF SpecsAreNews, CardsCovered
  <2>2. ASSUME NEW d \in Decisions, decision[d].status = "OPEN"
        PROVE  d \in pass.snapshot.open
    BY <2>2 DEF SnapshotHolds
  <2> QED
    BY <1>4, <2>1, <2>2 DEF CardsCovered
<1>8. ToldCovered'
  <2>1. ASSUME NEW e \in EvidenceIds, told'[e] > 0 PROVE e \in pass.snapshot.verified
    BY <1>1, <1>2, <2>1 DEF SpecsAreNews, ToldCovered, SnapshotHolds
  <2> QED
    BY <1>4, <2>1 DEF ToldCovered, SnapshotHolds
<1>9. SnapshotHolds' /\ SpecsAreNews'
  BY <1>4 DEF SnapshotHolds, SpecsAreNews, Idle
<1> QED
  BY <1>5, <1>6, <1>7, <1>8, <1>9

(* A pass that is killed leaves the baseline as it was; milestones are apart.  *)
LEMMA KillOrMilestone ==
    ASSUME IInv, Kill \/ \E m \in Milestones : ReportMilestone(m)
    PROVE  IInv'
<1> USE DEF IInv
<1>1. CASE Kill
  <2>1. Idle \in [at: {"idle", "compare", "emit"}, snapshot: Snapshot, specs: Specs]
    BY DEF Idle, NoBaseline, NoSpecs, Snapshot, Specs
  <2>2. TypeOK'
    BY <1>1, <2>1 DEF Kill, Incident, TypeOK
  <2> QED
    BY <1>1, <2>2 DEF Kill, ToldOnce, CardsCovered, ToldCovered, SnapshotHolds, SpecsAreNews, Idle
<1>2. ASSUME NEW m \in Milestones, ReportMilestone(m) PROVE IInv'
  BY <1>2 DEF ReportMilestone, WorldUnchanged, TypeOK, ToldOnce, CardsCovered, ToldCovered,
     SnapshotHolds, SpecsAreNews
<1> QED
  BY <1>1, <1>2

-----------------------------------------------------------------------------
(* Every step keeps the invariant.                                           *)
LEMMA NextIInv == IInv /\ [Next]_vars => IInv'
<1> SUFFICES ASSUME IInv, [Next]_vars PROVE IInv'
  OBVIOUS
<1>1. CASE Next
  BY <1>1, LoopWriters, ApiWriters, SnapshotStep, CompileStep, EmitStep, KillOrMilestone
     DEF Next, Enters, Closes
<1>2. CASE UNCHANGED vars
  BY <1>2 DEF vars, IInv, TypeOK, ToldOnce, CardsCovered, ToldCovered, SnapshotHolds, SpecsAreNews
<1> QED
  BY <1>1, <1>2

(* So the invariant holds throughout.                                        *)
LEMMA Invariance == Spec => []IInv
  BY InitIInv, NextIInv, PTL DEF Spec

(* Every variable keeps its type.                                            *)
THEOREM TypeCorrect == Spec => []TypeOK
<1>1. IInv => TypeOK
  BY DEF IInv
<1> QED
  BY Invariance, <1>1, PTL

(* However passes are killed and answers fall into them, no decision gets a    *)
(* second card and no evidence is announced twice.                           *)
THEOREM NothingToldTwice == Spec => []ToldOnce
<1>1. IInv => ToldOnce
  BY DEF IInv
<1> QED
  BY Invariance, <1>1, PTL
-----------------------------------------------------------------------------
(* What the baseline covers was dealt with.  No card and no report goes out    *)
(* for what the baseline covers, so the commit that moves the baseline must    *)
(* deal with all it adds: the specs of a pass are complete, up to decisions   *)
(* answered since, and a report that the linter passes names all of its         *)
(* evidence unless its batch is so large that the middle is neither among the   *)
(* first nor among the last.                                                 *)

(* The parts of NoneForgotten.                                               *)
CardsDealtWith ==
    \A d \in baseline.open : \/ cards[d] = 1
                             \/ d \in refused
                             \/ decision[d].status # "OPEN"

EvidenceDealtWith ==
    \A e \in baseline.verified : \/ told[e] = 1
                                 \/ e \in silenced
                                 \/ Cardinality(baseline.verified) > 2 * MaxNamed

SilencedForCause ==
    silenced # {} => wordy # "never" \/ Hollow \intersect baseline.verified # {}

(* What was seen open was opened, and is never opened again.                  *)
SeenWereRaised ==
    /\ \A d \in baseline.open : decision[d].status # "none"
    /\ pass.at # "idle" => \A d \in pass.snapshot.open : decision[d].status # "none"

(* A pass deals with all that its baseline will add.                         *)
SpecsComplete ==
    pass.at = "emit" =>
        /\ \A d \in pass.snapshot.open : \/ d \in pass.specs.ask
                                         \/ d \in baseline.open
                                         \/ decision[d].status # "OPEN"
        /\ pass.specs.report = pass.snapshot.verified \ baseline.verified

Recorded == SeenWereRaised /\ SpecsComplete /\ CardsDealtWith

(* An objective that a pass found hollow is one of a task there was.           *)
WordySeen == pass.at = "emit" /\ pass.specs.wordy => wordy # "never"

EvidenceRecorded == EvidenceDealtWith /\ WordySeen /\ SilencedForCause

(* Nothing is in a baseline at the start.                                    *)
LEMMA InitRecorded == Init => Recorded /\ EvidenceRecorded
  BY DEF Init, Recorded, SeenWereRaised, SpecsComplete, CardsDealtWith, EvidenceRecorded,
     EvidenceDealtWith, WordySeen, SilencedForCause, NoBaseline, Idle

(* Of a finite set of numbers, what is not among the first n has n before it,  *)
(* what is not among the last n has n after it: more than 2n in all.          *)
LEMMA FirstsAndLasts ==
    ASSUME NEW S \in SUBSET EvidenceIds, Cardinality(S) <= 2 * MaxNamed
    PROVE  FirstOf(S) \union LastOf(S) = S
<1>1. IsFiniteSet(S) /\ S \subseteq Nat /\ MaxNamed \in Nat
  BY FS_Subset, ReportingAssumption
<1>2. ASSUME NEW e \in S, e \notin FirstOf(S), e \notin LastOf(S) PROVE FALSE
  <2> DEFINE before == {f \in S : f < e}
             after == {f \in S : f > e}
  <2>1. /\ IsFiniteSet(before) /\ Cardinality(before) \in Nat
        /\ IsFiniteSet(after) /\ Cardinality(after) \in Nat
    BY <1>1, FS_Subset, FS_CardinalityType
  <2>2. Cardinality(before) >= MaxNamed /\ Cardinality(after) >= MaxNamed
    BY <1>1, <1>2, <2>1 DEF FirstOf, LastOf
  <2>3. before \intersect after = {} /\ before \union after = S \ {e}
    <3>1. \A f \in S : f \in Nat /\ e \in Nat
      BY <1>1
    <3>2. \A f \in S : ~ (f < e /\ f > e) /\ (f # e <=> f < e \/ f > e)
      BY <3>1
    <3> QED
      BY <3>2
  <2>4. Cardinality(S \ {e}) = Cardinality(before) + Cardinality(after)
    <3>1. Cardinality({}) = 0
      BY FS_EmptySet
    <3>2. Cardinality(before \union after) =
              Cardinality(before) + Cardinality(after) - Cardinality(before \intersect after)
      BY <2>1, FS_Union
    <3>3. Cardinality(before \intersect after) = 0
      BY <2>3, <3>1
    <3>4. Cardinality(before \union after) = Cardinality(S \ {e})
      BY <2>3
    <3> HIDE DEF before, after
    <3> QED
      BY <2>1, <3>2, <3>3, <3>4
  <2>5. Cardinality(S \ {e}) = Cardinality(S) - 1 /\ Cardinality(S) \in Nat
    BY <1>1, FS_RemoveElement, FS_CardinalityType
  <2> HIDE DEF before, after
  <2> QED
    BY <1>1, <2>1, <2>2, <2>4, <2>5
<1> QED
  BY <1>2 DEF FirstOf, LastOf

(* A decision that is opened, answered or linked: none is opened twice.        *)
LEMMA DecisionWriters ==
    ASSUME IInv, Recorded, NEW d \in Decisions, Enters(d) \/ Closes(d)
    PROVE  Recorded' /\ UNCHANGED <<baseline, told, silenced, wordy, pass>>
<1>1. UNCHANGED <<baseline, told, cards, refused, silenced, wordy, pass>>
  BY DEF Enters, Import, Raise, Closes, Answer, Link, ReporterUnchanged
<1>2. \A c \in Decisions :
          decision[c].status # "none" =>
              /\ decision'[c].status # "none"
              /\ decision'[c].status = "OPEN" => decision[c].status = "OPEN"
  BY DEF IInv, TypeOK, Enters, Import, Raise, Closes, Answer, Link
<1>3. /\ baseline.open \subseteq Decisions
      /\ pass.snapshot.open \subseteq Decisions
  BY DEF IInv, TypeOK, Snapshot
<1>4. SeenWereRaised'
  BY <1>1, <1>2, <1>3 DEF Recorded, SeenWereRaised
<1>5. SpecsComplete'
  BY <1>1, <1>2, <1>3 DEF Recorded, SeenWereRaised, SpecsComplete
<1>6. CardsDealtWith'
  BY <1>1, <1>2, <1>3 DEF Recorded, SeenWereRaised, CardsDealtWith
<1> QED
  BY <1>1, <1>4, <1>5, <1>6 DEF Recorded

(* The snapshot sees open what is open.                                      *)
LEMMA SnapshotRecords ==
    ASSUME IInv, Recorded, TakeSnapshot
    PROVE  Recorded'
<1>1. pass'.at = "compare" /\ pass'.snapshot.open = WithStatus("OPEN")
  BY DEF TakeSnapshot, Idle, Current
<1>2. UNCHANGED <<baseline, cards, refused, decision>>
  BY DEF TakeSnapshot, WorldUnchanged
<1> QED
  BY <1>1, <1>2 DEF Recorded, SeenWereRaised, SpecsComplete, CardsDealtWith, WithStatus

(* The specs are complete: what is not newly open was in the baseline.         *)
LEMMA CompileRecords ==
    ASSUME IInv, Recorded, CompileSpecs
    PROVE  Recorded'
<1>1. /\ pass.at = "compare" /\ pass'.at = "emit"
      /\ pass'.snapshot = pass.snapshot
      /\ pass'.specs.ask = NewDecisions /\ pass'.specs.report = AddedEvidence
  BY DEF CompileSpecs, IInv, TypeOK
<1>2. UNCHANGED <<baseline, cards, refused, decision>>
  BY DEF CompileSpecs, WorldUnchanged
<1>3. SpecsComplete'
  <2>1. ASSUME NEW d \in pass.snapshot.open, d \notin baseline.open, decision[d].status = "OPEN"
        PROVE  d \in NewDecisions
    BY <2>1 DEF NewDecisions, NewlyOpen, WithStatus, IInv, TypeOK, Snapshot
  <2> QED
    BY <1>1, <1>2, <2>1 DEF SpecsComplete, AddedEvidence
<1> QED
  BY <1>1, <1>2, <1>3 DEF Recorded, SeenWereRaised, CardsDealtWith

(* What the baseline adds has its card now, or was refused, or was answered.   *)
LEMMA EmitRecords ==
    ASSUME IInv, Recorded, Emit
    PROVE  Recorded'
<1> DEFINE sent == CardsOf(pass.specs, pass.snapshot.verified)
<1>1. /\ pass.at = "emit" /\ pass' = Idle /\ baseline' = pass.snapshot
      /\ cards' = [d \in Decisions |-> IF d \in sent THEN cards[d] + 1 ELSE cards[d]]
      /\ refused' = refused \union (pass.specs.ask \ sent)
      /\ UNCHANGED decision
  BY DEF Emit, WorldUnchanged, NewBaseline
<1>2. sent \subseteq pass.specs.ask /\ pass.snapshot.open \subseteq Decisions
  BY DEF CardsOf, IInv, TypeOK, Snapshot
<1>3. pass'.at = "idle"
  BY <1>1 DEF Idle
<1>4. SeenWereRaised' /\ SpecsComplete'
  BY <1>1, <1>3 DEF Recorded, SeenWereRaised, SpecsComplete
<1>5. ASSUME NEW d \in pass.snapshot.open
      PROVE  cards'[d] = 1 \/ d \in refused' \/ decision[d].status # "OPEN"
  <2> HIDE DEF sent
  <2>1. d \in Decisions /\ (d \in pass.specs.ask => cards[d] = 0)
    BY <1>1, <1>2 DEF IInv, SpecsAreNews
  <2>2. CASE d \in pass.specs.ask
    BY <1>1, <1>2, <2>1, <2>2
  <2>3. CASE d \notin pass.specs.ask
    <3>1. d \notin sent /\ cards'[d] = cards[d]
      BY <1>1, <1>2, <2>1, <2>3
    <3>2. d \in baseline.open \/ decision[d].status # "OPEN"
      BY <1>1, <2>3 DEF Recorded, SpecsComplete
    <3> QED
      BY <1>1, <3>1, <3>2 DEF Recorded, CardsDealtWith
  <2> QED
    BY <2>2, <2>3
<1>6. CardsDealtWith'
  <2> HIDE DEF sent
  <2> QED
    BY <1>1, <1>5 DEF CardsDealtWith
<1> QED
  BY <1>4, <1>6 DEF Recorded

(* A report that is not silenced names its whole batch, if that is not too      *)
(* large; and one that is silenced has its cause.                             *)
LEMMA EmitNames ==
    ASSUME IInv, Recorded, EvidenceRecorded, Emit
    PROVE  EvidenceRecorded'
<1> DEFINE report == pass.specs.report
           named == Named(pass.specs)
           known == pass.snapshot.verified
<1>1. /\ pass.at = "emit" /\ pass'.at = "idle" /\ baseline' = pass.snapshot
      /\ told' = [e \in EvidenceIds |-> IF e \in named THEN told[e] + 1 ELSE told[e]]
      /\ silenced' = silenced \union (IF IsHollow(pass.specs) THEN report ELSE {})
      /\ wordy' = wordy
  BY DEF Emit, NewBaseline, WorldUnchanged, Idle
<1>2. report \in SUBSET EvidenceIds /\ known \in SUBSET EvidenceIds
  BY DEF IInv, TypeOK, Specs, Snapshot
<1>3. report = known \ baseline.verified
  BY <1>1 DEF Recorded, SpecsComplete
<1>4. baseline.verified \subseteq known
  BY <1>1 DEF IInv, ToldCovered, SnapshotHolds
<1>5. ASSUME Cardinality(known) <= 2 * MaxNamed PROVE EvidenceDealtWith'
  <2>1. /\ Cardinality(report) \in Nat /\ Cardinality(report) <= Cardinality(known)
        /\ Cardinality(baseline.verified) \in Nat
        /\ Cardinality(baseline.verified) <= Cardinality(known)
        /\ Cardinality(known) \in Nat /\ MaxNamed \in Nat
    <3>1. IsFiniteSet(known)
      BY <1>2, FS_Subset, ReportingAssumption
    <3> QED
      BY <3>1, <1>3, <1>4, FS_Subset, FS_CardinalityType, ReportingAssumption
  <2>2. FirstOf(report) \union LastOf(report) = report
    <3>1. Cardinality(report) <= 2 * MaxNamed
      BY <1>5, <2>1
    <3> QED
      BY <1>2, <3>1, FirstsAndLasts
  <2>3. ASSUME NEW e \in known PROVE told'[e] = 1 \/ e \in silenced'
    <3>1. CASE e \in report /\ IsHollow(pass.specs)
      BY <1>1, <3>1
    <3>2. CASE e \in report /\ ~ IsHollow(pass.specs)
      <4>1. named = report
        BY <2>2, <3>2 DEF Named
      <4>2. told[e] = 0
        BY <1>1, <3>2 DEF IInv, SpecsAreNews
      <4> QED
        BY <1>1, <1>2, <3>2, <4>1, <4>2
    <3>3. CASE e \notin report
      <4>1. e \in baseline.verified /\ e \in EvidenceIds
        BY <1>2, <1>3, <3>3
      <4>2. ~ (Cardinality(baseline.verified) > 2 * MaxNamed)
        BY <1>5, <2>1
      <4>3. told[e] = 1 \/ e \in silenced
        BY <4>1, <4>2 DEF EvidenceRecorded, EvidenceDealtWith
      <4>4. e \notin named
        BY <3>3 DEF Named, FirstOf, LastOf
      <4> QED
        BY <1>1, <4>1, <4>3, <4>4
    <3> QED
      BY <3>1, <3>2, <3>3
  <2> QED
    BY <1>1, <2>3 DEF EvidenceDealtWith
<1>6. ASSUME ~ (Cardinality(known) <= 2 * MaxNamed) PROVE EvidenceDealtWith'
  <2>1. Cardinality(known) \in Nat /\ MaxNamed \in Nat
    <3>1. IsFiniteSet(known)
      BY <1>2, FS_Subset, ReportingAssumption
    <3> QED
      BY <3>1, FS_CardinalityType, ReportingAssumption
  <2>2. baseline'.verified = known
    BY <1>1
  <2> HIDE DEF known
  <2>3. Cardinality(baseline'.verified) > 2 * MaxNamed
    BY <1>6, <2>1, <2>2
  <2> QED
    BY <2>3 DEF EvidenceDealtWith
<1>7. SilencedForCause'
  <2>1. ASSUME silenced # {} PROVE wordy # "never" \/ Hollow \intersect known # {}
    BY <1>4, <2>1 DEF EvidenceRecorded, SilencedForCause
  <2>2. ASSUME IsHollow(pass.specs) PROVE wordy # "never" \/ Hollow \intersect known # {}
    <3>1. FirstOf(report) \subseteq known
      BY <1>3 DEF FirstOf
    <3> QED
      BY <1>1, <2>2, <3>1 DEF IsHollow, EvidenceRecorded, WordySeen
  <2> QED
    BY <1>1, <2>1, <2>2 DEF SilencedForCause
<1>8. WordySeen'
  BY <1>1 DEF WordySeen
<1> QED
  BY <1>5, <1>6, <1>7, <1>8 DEF EvidenceRecorded

(* All other steps leave decisions, cards and baseline as they are.           *)
LEMMA OtherSteps ==
    ASSUME \/ \E e \in EvidenceIds : Verify(e)
           \/ ChangeOthers \/ CompleteTask \/ ChangeTasks \/ SetActive
           \/ Kill
           \/ \E m \in Milestones : ReportMilestone(m)
           \/ UNCHANGED vars
    PROVE  /\ UNCHANGED <<decision, baseline, cards, told, refused, silenced>>
           /\ wordy # "never" => wordy' # "never"
           /\ pass' = pass \/ pass'.at = "idle"
  BY DEF Verify, ChangeOthers, CompleteTask, ChangeTasks, SetActive, ReporterUnchanged, Kill, Idle,
     ReportMilestone, WorldUnchanged, vars

(* Each step keeps the record of what was dealt with ...                      *)
LEMMA NextRecorded == IInv /\ Recorded /\ [Next]_vars => Recorded'
<1> SUFFICES ASSUME IInv, Recorded, [Next]_vars PROVE Recorded'
  OBVIOUS
<1>1. ASSUME UNCHANGED <<decision, baseline, cards, told, refused, silenced>>,
             pass' = pass \/ pass'.at = "idle"
      PROVE  Recorded'
  BY <1>1 DEF Recorded, SeenWereRaised, SpecsComplete, CardsDealtWith
<1> QED
  BY <1>1, OtherSteps, DecisionWriters, SnapshotRecords, CompileRecords, EmitRecords
     DEF Next, Enters, Closes

(* ... and of the evidence that was named or silenced.                        *)
LEMMA NextDealtWith ==
    IInv /\ Recorded /\ EvidenceRecorded /\ [Next]_vars => EvidenceRecorded'
<1> SUFFICES ASSUME IInv, Recorded, EvidenceRecorded, [Next]_vars
             PROVE  EvidenceRecorded'
  OBVIOUS
<1>1. ASSUME UNCHANGED <<baseline, told, silenced>>,
             wordy # "never" => wordy' # "never",
             pass' = pass \/ pass'.at # "emit"
      PROVE  EvidenceRecorded'
  BY <1>1 DEF EvidenceRecorded, EvidenceDealtWith, WordySeen, SilencedForCause
<1>2. CASE TakeSnapshot
  BY <1>1, <1>2 DEF TakeSnapshot, WorldUnchanged, Idle
<1>3. CASE CompileSpecs
  <2>1. UNCHANGED <<baseline, told, silenced, wordy>>
    BY <1>3 DEF CompileSpecs, WorldUnchanged
  <2>2. pass'.specs.wordy => wordy = "active"
    BY <1>3 DEF CompileSpecs, IInv, TypeOK
  <2> QED
    BY <2>1, <2>2 DEF EvidenceRecorded, EvidenceDealtWith, WordySeen, SilencedForCause
<1>4. ASSUME NEW d \in Decisions, Enters(d) \/ Closes(d) PROVE EvidenceRecorded'
  BY <1>1, <1>4, DecisionWriters
<1>5. ASSUME UNCHANGED <<decision, baseline, cards, told, refused, silenced>>,
             wordy # "never" => wordy' # "never",
             pass' = pass \/ pass'.at = "idle"
      PROVE  EvidenceRecorded'
  BY <1>1, <1>5
<1> QED
  BY <1>2, <1>3, <1>4, <1>5, OtherSteps, EmitNames DEF Next, Enters, Closes

(* The invariant of the baseline holds throughout.                            *)
LEMMA AlwaysRecorded == Spec => []Recorded
<1>1. Init => Recorded
  BY InitRecorded
<1> QED
  BY <1>1, NextRecorded, Invariance, PTL DEF Spec

(* However answers fall into the passes, whatever is killed, and whatever the  *)
(* linter refuses of the rest of a pass: what the baseline holds as open has   *)
(* its card, was refused, or is no longer open.  No bound is needed.          *)
THEOREM NoDecisionForgotten == Spec => []CardsDealtWith
<1>1. Recorded => CardsDealtWith
  BY DEF Recorded
<1> QED
  BY <1>1, AlwaysRecorded, PTL

(* Nothing the baseline covers is forgotten: what was not told belonged to a   *)
(* report that the linter refused, for a phrase in evidence the baseline covers  *)
(* or in the objective of a task, or there is more of it than a report names.   *)
THEOREM NothingForgotten == Spec => []NoneForgotten
<1>1. Init => EvidenceRecorded
  BY InitRecorded
<1>2. Recorded /\ EvidenceRecorded => NoneForgotten
  BY DEF Recorded, CardsDealtWith, EvidenceRecorded, EvidenceDealtWith, SilencedForCause,
     NoneForgotten
<1> QED
  BY <1>1, <1>2, NextDealtWith, AlwaysRecorded, Invariance, PTL DEF Spec
=============================================================================
