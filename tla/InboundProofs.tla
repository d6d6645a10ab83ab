--------------------------- MODULE InboundProofs ---------------------------
(***************************************************************************)
(* Theorems about Inbound, for any users, messages, deliveries, calls and     *)
(* submissions given up on: the type invariant, that a message takes effect   *)
(* at most once and is called done only then, that no write is lost, and that *)
(* one creator becomes the owner.                                            *)
(*                                                                         *)
(* Effects and records go together, since both are written in one transaction. *)
(* That no route undoes another's write rests on the versions: two reads of a  *)
(* row at the same version are reads of the same row.                        *)
(***************************************************************************)
EXTENDS Inbound, TLAPS

(* A message is recorded when it takes effect, and called done afterwards.    *)
EffectsRecorded ==
    /\ \A k \in Keys : effects[k] = IF k \in recorded THEN 1 ELSE 0
    /\ settled \subseteq recorded

(* What a call has read is what the row was at that version.                  *)
ReadsAreVersions ==
    \A u \in Users : call[u] # NoCall =>
        /\ call[u].project.version <= project.version
        /\ call[u].project.version = project.version => call[u].project = project
        /\ call[u].decision.version <= decision.version
        /\ call[u].decision.version = decision.version => call[u].decision = decision

(* A call has passed the checks of its route.                                *)
ReadsWereChecked ==
    \A u \in Users :
        /\ call[u].op \in Operations \ {"create"} => call[u].project.version > 0
        /\ call[u].op = "answer" => call[u].decision.answer = "none"

(* Nobody owns a project whose creation is not in the log.                    *)
OwnerCreated == ~ created => \A u \in Users : member[u] # "owner"

IInv == /\ TypeOK /\ EffectsRecorded /\ ReadsAreVersions /\ ReadsWereChecked
        /\ OwnerCreated /\ OneOwner /\ NoLostUpdate

-----------------------------------------------------------------------------
(* At first there is no project, and one open decision.                       *)
LEMMA InitIInv == Init => IInv
<1> SUFFICES ASSUME Init PROVE IInv
  OBVIOUS
<1>1. TypeOK
  <2>1. project \in ProjectRow /\ decision \in DecisionRow
    BY DEF Init, ProjectRow, DecisionRow, Statuses, Person
  <2>2. PICK bound \in BOOLEAN : session = [u \in Users |-> [bound |-> bound, profile |-> "fast"]]
    BY DEF Init
  <2>3. session \in [Users -> [bound: BOOLEAN, profile: {"fast", "deterministic"}]]
    BY <2>2
  <2>4. last \in [status: Statuses, override: Person, answer: Person]
    BY DEF Init, Statuses, Person
  <2>5. created \in BOOLEAN
    BY DEF Init
  <2>6. /\ member \in [Users -> Roles] /\ recorded \in SUBSET Keys
        /\ waiting \in [Users -> Request \union {NoRequest}] /\ requests \in SUBSET Request
        /\ call \in [Users -> Call \union {NoCall}]
        /\ delivered \in Nat /\ calls \in Nat /\ timeouts \in Nat
        /\ effects \in [Keys -> Nat] /\ settled \in SUBSET Keys
    BY DEF Init, Roles
  <2> QED
    BY <2>1, <2>3, <2>4, <2>5, <2>6 DEF TypeOK
<1>2. EffectsRecorded /\ OwnerCreated /\ OneOwner
  BY DEF Init, EffectsRecorded, OwnerCreated, OneOwner
<1>3. ReadsAreVersions /\ ReadsWereChecked /\ NoLostUpdate
  BY DEF Init, ReadsAreVersions, ReadsWereChecked, NoLostUpdate, NoCall, Operations, Exists
<1> QED
  BY <1>1, <1>2, <1>3 DEF IInv

Database == <<project, created, member, decision, recorded, effects, last>>

(* A step that leaves the database, the calls and what was settled alone keeps *)
(* the invariant as far as it keeps the types.                                *)
LEMMA QuietStep ==
    ASSUME IInv, TypeOK', UNCHANGED Database, UNCHANGED <<call, settled>>
    PROVE  IInv'
  BY DEF IInv, Database, EffectsRecorded, ReadsAreVersions, ReadsWereChecked, OwnerCreated,
     OneOwner, NoLostUpdate, Exists

(* A call that is under way has read two rows.                                *)
LEMMA ReadTypes ==
    ASSUME TypeOK
    PROVE  \A u \in Users : call[u] # NoCall =>
              /\ call[u] \in Call /\ call[u].op \in Operations
              /\ call[u].project \in ProjectRow /\ call[u].decision \in DecisionRow
              /\ call[u].project.version \in Nat /\ call[u].decision.version \in Nat
  BY DEF TypeOK, Call, ProjectRow, DecisionRow

-----------------------------------------------------------------------------
(* The shim.                                                                 *)

(* A prompt that is not submitted.                                           *)
LEMMA LocalPrompt ==
    ASSUME IInv, NEW m \in Messages, BindSession(m) \/ SetInteraction(m) \/ Unrecognized(m)
    PROVE  IInv'
<1>1. /\ UNCHANGED Database /\ UNCHANGED <<call, settled>>
      /\ UNCHANGED <<waiting, requests, calls, timeouts>>
  BY DEF BindSession, SetInteraction, Unrecognized, DatabaseUnchanged, Database
<1>2. m.user \in Users
  BY InboundAssumption DEF Message
<1>3. session' \in [Users -> [bound: BOOLEAN, profile: {"fast", "deterministic"}]]
  <2>1. session \in [Users -> [bound: BOOLEAN, profile: {"fast", "deterministic"}]]
    BY DEF IInv, TypeOK
  <2>2. \/ session' = session
        \/ session' = [session EXCEPT ![m.user].bound = TRUE]
        \/ session' = [session EXCEPT ![m.user].profile = "deterministic"]
    BY DEF BindSession, SetInteraction, Unrecognized
  <2>3. CASE session' = session
    BY <2>1, <2>3
  <2>4. CASE session' = [session EXCEPT ![m.user].bound = TRUE]
    BY <1>2, <2>1, <2>4
  <2>5. CASE session' = [session EXCEPT ![m.user].profile = "deterministic"]
    BY <1>2, <2>1, <2>5
  <2> QED
    BY <2>2, <2>3, <2>4, <2>5
<1>4. delivered' \in Nat
  BY DEF IInv, TypeOK, BindSession, SetInteraction, Unrecognized, Prompt
<1>5. TypeOK'
  BY <1>1, <1>3, <1>4 DEF IInv, TypeOK, Database
<1> QED
  BY <1>1, <1>5, QuietStep

(* A prompt that is, or is given up on.                                       *)
LEMMA SubmitStep ==
    ASSUME IInv, NEW m \in Messages, Submit(m)
    PROVE  IInv'
<1> DEFINE bound == session[m.user].bound
           request == [message |-> m, key |-> KeyOf(m, bound), bound |-> bound]
<1>1. m.user \in Users /\ bound \in BOOLEAN
  BY InboundAssumption DEF Message, IInv, TypeOK
<1>2. KeyOf(m, bound) \in Keys
  BY <1>1 DEF Keys
<1>3. request \in Request
  BY <1>1, <1>2 DEF Request
<1>4. /\ waiting' = [waiting EXCEPT ![m.user] = request]
      /\ requests' = requests \union {request}
      /\ delivered' = delivered + 1
      /\ UNCHANGED Database /\ UNCHANGED <<call, settled>> /\ UNCHANGED <<session, calls, timeouts>>
  BY DEF Submit, Prompt, DatabaseUnchanged, Database
<1> HIDE DEF request, bound
<1>5. /\ waiting' \in [Users -> Request \union {NoRequest}]
      /\ requests' \in SUBSET Request /\ delivered' \in Nat
  <2>1. /\ waiting \in [Users -> Request \union {NoRequest}]
        /\ requests \in SUBSET Request /\ delivered \in Nat
    BY DEF IInv, TypeOK
  <2>2. waiting' \in [Users -> Request \union {NoRequest}]
    BY <1>1, <1>3, <1>4, <2>1
  <2>3. requests' \in SUBSET Request
    BY <1>3, <1>4, <2>1
  <2>4. delivered' \in Nat
    BY <1>4, <2>1
  <2> QED
    BY <2>2, <2>3, <2>4
<1>6. TypeOK'
  BY <1>4, <1>5 DEF IInv, TypeOK, Database
<1> QED
  BY <1>4, <1>6, QuietStep

(* A submission that is given up on is still on its way.                      *)
LEMMA GiveUpStep ==
    ASSUME IInv, NEW u \in Users, GiveUp(u)
    PROVE  IInv'
<1>1. /\ UNCHANGED Database /\ UNCHANGED <<call, settled>>
      /\ UNCHANGED <<session, delivered, requests, calls>>
  BY DEF GiveUp, DatabaseUnchanged, Database
<1>2. waiting' \in [Users -> Request \union {NoRequest}] /\ timeouts' \in Nat
  BY DEF GiveUp, IInv, TypeOK
<1>3. TypeOK'
  BY <1>1, <1>2 DEF IInv, TypeOK, Database
<1> QED
  BY <1>1, <1>3, QuietStep

-----------------------------------------------------------------------------
(* The service handles a submission.                                         *)

(* What the shim makes of the answer.                                        *)
LEMMA AnswerFacts ==
    ASSUME IInv, NEW request \in requests, NEW done \in BOOLEAN, AnswerTo(request, done)
    PROVE  /\ request \in Request /\ request.message.user \in Users /\ request.key \in Keys
           /\ waiting' \in [Users -> Request \union {NoRequest}] /\ requests' \in SUBSET Request
           /\ settled' \in SUBSET Keys
           /\ settled' \subseteq settled \union {request.key}
           /\ ~ done => settled' = settled
           /\ UNCHANGED <<session, delivered, call, calls, timeouts>>
<1>1. request \in Request /\ request.message \in Messages /\ request.key \in Keys
  BY DEF IInv, TypeOK, Request
<1>2. request.message.user \in Users
  BY <1>1, InboundAssumption DEF Message
<1>3. waiting' \in [Users -> Request \union {NoRequest}] /\ requests' \in SUBSET Request
  BY DEF AnswerTo, IInv, TypeOK
<1>4. settled' \subseteq settled \union {request.key} /\ (~ done => settled' = settled)
  BY DEF AnswerTo
<1>5. settled' \in SUBSET Keys
  BY <1>1, <1>4 DEF IInv, TypeOK
<1> QED
  BY <1>1, <1>2, <1>3, <1>4, <1>5 DEF AnswerTo

(* A message that was recorded, or refused.                                   *)
LEMMA NoEffect ==
    ASSUME IInv, NEW request \in requests, Duplicate(request) \/ Refuse(request)
    PROVE  IInv'
<1> USE DEF IInv
<1>1. UNCHANGED Database
  BY DEF Duplicate, Refuse, RollBack, DatabaseUnchanged, Database
<1>2. PICK done \in BOOLEAN : AnswerTo(request, done) /\ (done => request.key \in recorded)
  BY DEF Duplicate, Refuse, IsDuplicate
<1>3. /\ waiting' \in [Users -> Request \union {NoRequest}] /\ requests' \in SUBSET Request
      /\ settled' \in SUBSET Keys
      /\ UNCHANGED <<session, delivered, call, calls, timeouts>>
  BY <1>2, AnswerFacts
<1>4. settled' \subseteq recorded
  <2>1. settled' \subseteq settled \union {request.key} /\ (~ done => settled' = settled)
    BY <1>2, AnswerFacts
  <2> QED
    BY <1>2, <2>1 DEF EffectsRecorded
<1>5. TypeOK'
  BY <1>1, <1>3 DEF TypeOK, Database
<1>6. EffectsRecorded'
  BY <1>1, <1>4 DEF EffectsRecorded, Database
<1> QED
  BY <1>1, <1>3, <1>5, <1>6 DEF Database, ReadsAreVersions, ReadsWereChecked, OwnerCreated,
     OneOwner, NoLostUpdate, Exists

(* What a step that writes rows must see to.                                  *)
RowsFollow ==
    /\ project' \in ProjectRow /\ decision' \in DecisionRow
    /\ last' \in [status: Statuses, override: Person, answer: Person]
    /\ project' = project \/ project'.version > project.version
    /\ decision' = decision \/ decision'.version > decision.version
    /\ project'.version > 0
    /\ project'.status = last'.status /\ project'.override = last'.override
    /\ decision'.answer = last'.answer

RowsAgree ==
    /\ project \in ProjectRow /\ decision \in DecisionRow
    /\ last \in [status: Statuses, override: Person, answer: Person]
    /\ project.version > 0
    /\ project.status = last.status /\ project.override = last.override
    /\ decision.answer = last.answer

(* Setting the status of the row as it is.                                    *)
LEMMA StatusRows ==
    ASSUME RowsAgree, NEW status \in Statuses, decision' = decision,
           project' = [project EXCEPT !.status = status, !.version = @ + 1],
           last' = [last EXCEPT !.status = status]
    PROVE  RowsFollow
<1>1. project.version \in Nat /\ project.override \in Person /\ project.version > 0
  BY DEF RowsAgree, ProjectRow
<1>2. project' = [status |-> status, override |-> project.override, version |-> project.version + 1]
  BY DEF RowsAgree, ProjectRow
<1>3. last' = [status |-> status, override |-> last.override, answer |-> last.answer]
  BY DEF RowsAgree
<1>4. project' \in ProjectRow
  BY <1>1, <1>2 DEF ProjectRow
<1>5. project'.version > project.version /\ project'.version > 0
  BY <1>1, <1>2
<1>6. last.override \in Person /\ last.answer \in Person
  BY DEF RowsAgree
<1>7. last' \in [status: Statuses, override: Person, answer: Person]
  BY <1>3, <1>6
<1>8. /\ project'.status = last'.status /\ project'.override = last'.override
      /\ decision'.answer = last'.answer
  BY <1>2, <1>3 DEF RowsAgree
<1> QED
  BY <1>4, <1>5, <1>7, <1>8 DEF RowsFollow, RowsAgree

(* Setting the override of the row as it is.                                  *)
LEMMA OverrideRows ==
    ASSUME RowsAgree, NEW u \in Users, decision' = decision,
           project' = [project EXCEPT !.override = u, !.version = @ + 1],
           last' = [last EXCEPT !.override = u]
    PROVE  RowsFollow
<1>1. project.version \in Nat /\ project.status \in Statuses /\ project.version > 0 /\ u \in Person
  BY DEF RowsAgree, ProjectRow, Person
<1>2. project' = [status |-> project.status, override |-> u, version |-> project.version + 1]
  BY DEF RowsAgree, ProjectRow
<1>3. last' = [status |-> last.status, override |-> u, answer |-> last.answer]
  BY DEF RowsAgree
<1>4. project' \in ProjectRow
  BY <1>1, <1>2 DEF ProjectRow
<1>5. project'.version > project.version /\ project'.version > 0
  BY <1>1, <1>2
<1>6. last.status \in Statuses /\ last.answer \in Person
  BY DEF RowsAgree
<1>7. last' \in [status: Statuses, override: Person, answer: Person]
  BY <1>1, <1>3, <1>6
<1>8. /\ project'.status = last'.status /\ project'.override = last'.override
      /\ decision'.answer = last'.answer
  BY <1>2, <1>3 DEF RowsAgree
<1> QED
  BY <1>4, <1>5, <1>7, <1>8 DEF RowsFollow, RowsAgree

(* Answering the decision as it is.                                           *)
LEMMA AnswerRows ==
    ASSUME RowsAgree, NEW u \in Users, project' = project,
           decision' = [answer |-> u, version |-> decision.version + 1],
           last' = [last EXCEPT !.answer = u]
    PROVE  RowsFollow
<1>1. decision.version \in Nat /\ u \in Person
  BY DEF RowsAgree, DecisionRow, Person
<1>2. last' = [status |-> last.status, override |-> last.override, answer |-> u]
  BY DEF RowsAgree
<1>3. decision' \in DecisionRow
  BY <1>1 DEF DecisionRow
<1>4. decision'.version > decision.version
  BY <1>1
<1>5. last.status \in Statuses /\ last.override \in Person
  BY DEF RowsAgree
<1>6. last' \in [status: Statuses, override: Person, answer: Person]
  BY <1>1, <1>2, <1>5
<1>7. /\ project'.status = last'.status /\ project'.override = last'.override
      /\ decision'.answer = last'.answer
  BY <1>2 DEF RowsAgree
<1> QED
  BY <1>3, <1>4, <1>6, <1>7 DEF RowsFollow, RowsAgree

(* A command moves the version of the row it writes, and says what it wrote.   *)
LEMMA PerformFacts ==
    ASSUME IInv, NEW u \in Users, NEW command \in Commands, Perform(u, command), Exists
    PROVE  /\ project' \in ProjectRow /\ decision' \in DecisionRow
           /\ last' \in [status: Statuses, override: Person, answer: Person]
           /\ project' = project \/ project'.version > project.version
           /\ decision' = decision \/ decision'.version > decision.version
           /\ Exists' /\ NoLostUpdate'
<1> USE DEF IInv
<1>1. RowsAgree
  BY DEF RowsAgree, TypeOK, NoLostUpdate, Exists
<1> HIDE DEF IInv
<1>2. ASSUME NEW status \in Statuses, SetStatus(status)
      PROVE  RowsFollow
  <2>1. /\ project' = [project EXCEPT !.status = status, !.version = @ + 1]
        /\ last' = [last EXCEPT !.status = status] /\ decision' = decision
    BY <1>2 DEF SetStatus
  <2> QED
    BY <1>1, <2>1, StatusRows
<1>3. ASSUME SetOverride(u)
      PROVE  RowsFollow
  <2>1. /\ project' = [project EXCEPT !.override = u, !.version = @ + 1]
        /\ last' = [last EXCEPT !.override = u] /\ decision' = decision
    BY <1>3 DEF SetOverride
  <2> QED
    BY <1>1, <2>1, OverrideRows
<1>4. ASSUME TakeAnswer(u)
      PROVE  RowsFollow
  <2>1. CASE decision.answer = "none"
    <3>1. /\ decision' = [answer |-> u, version |-> decision.version + 1]
          /\ last' = [last EXCEPT !.answer = u] /\ project' = project
      BY <1>4, <2>1 DEF TakeAnswer
    <3> QED
      BY <1>1, <3>1, AnswerRows
  <2>2. CASE decision.answer # "none"
    BY <1>1, <1>4, <2>2 DEF TakeAnswer, RowsFollow, RowsAgree
  <2> QED
    BY <2>1, <2>2
<1>5. \/ \E status \in Statuses : SetStatus(status)
      \/ SetOverride(u) \/ TakeAnswer(u)
      \/ UNCHANGED <<project, decision, last>>
  BY DEF Perform, Statuses
<1>6. RowsFollow
  BY <1>1, <1>2, <1>3, <1>4, <1>5 DEF RowsFollow, RowsAgree
<1> QED
  BY <1>6 DEF RowsFollow, NoLostUpdate, Exists

(* A command takes effect with its record.                                    *)
LEMMA ExecuteStep ==
    ASSUME IInv, NEW request \in requests, Execute(request)
    PROVE  IInv'
<1> USE DEF IInv
<1>1. /\ request.key \notin recorded /\ recorded' = recorded \union {request.key}
      /\ effects' = [effects EXCEPT ![request.key] = @ + 1]
      /\ AnswerTo(request, TRUE) /\ UNCHANGED <<created, member>> /\ Exists
      /\ Perform(request.message.user, request.message.command)
  BY DEF Execute, IsDuplicate, IsPermitted
<1>2. /\ request.key \in Keys /\ request.message.user \in Users
      /\ request.message.command \in Commands
      /\ waiting' \in [Users -> Request \union {NoRequest}] /\ requests' \in SUBSET Request
      /\ settled' \in SUBSET Keys /\ settled' \subseteq settled \union {request.key}
      /\ UNCHANGED <<session, delivered, call, calls, timeouts>>
  BY <1>1, AnswerFacts, InboundAssumption DEF Request, Message
<1>3. /\ project' \in ProjectRow /\ decision' \in DecisionRow
      /\ last' \in [status: Statuses, override: Person, answer: Person]
      /\ project' = project \/ project'.version > project.version
      /\ decision' = decision \/ decision'.version > decision.version
      /\ Exists' /\ NoLostUpdate'
  BY <1>1, <1>2, PerformFacts
<1>4. effects' \in [Keys -> Nat] /\ recorded' \in SUBSET Keys
  BY <1>1, <1>2 DEF TypeOK
<1>5. TypeOK'
  BY <1>1, <1>2, <1>3, <1>4 DEF TypeOK
<1>6. EffectsRecorded'
  BY <1>1, <1>2 DEF EffectsRecorded, TypeOK
<1>7. ReadsAreVersions'
  BY <1>2, <1>3, ReadTypes DEF ReadsAreVersions, ProjectRow, DecisionRow, TypeOK
<1>8. ReadsWereChecked' /\ OwnerCreated' /\ OneOwner'
  BY <1>1, <1>2 DEF ReadsWereChecked, OwnerCreated, OneOwner
<1> QED
  BY <1>3, <1>5, <1>6, <1>7, <1>8

-----------------------------------------------------------------------------
(* The routes.                                                              *)

(* A step that writes rows and ends a call, and leaves the messages alone.     *)
LEMMA SaveStep ==
    ASSUME IInv, NEW u \in Users, EndCall(u), UNCHANGED <<recorded, effects>>,
           project' \in ProjectRow, decision' \in DecisionRow,
           last' \in [status: Statuses, override: Person, answer: Person],
           project' = project \/ project'.version > project.version,
           decision' = decision \/ decision'.version > decision.version,
           member' \in [Users -> Roles], created' \in BOOLEAN,
           OwnerCreated', OneOwner', NoLostUpdate'
    PROVE  IInv'
<1>1. /\ call' = [call EXCEPT ![u] = NoCall]
      /\ UNCHANGED <<requests, calls, timeouts, session, waiting, delivered, settled>>
  BY DEF EndCall, ShimUnchanged
<1>2. call' \in [Users -> Call \union {NoCall}]
  BY <1>1 DEF IInv, TypeOK
<1>3. TypeOK'
  BY <1>1, <1>2 DEF IInv, TypeOK
<1>4. EffectsRecorded'
  BY <1>1 DEF IInv, EffectsRecorded
<1>5. \A v \in Users : call'[v] = NoCall \/ call'[v] = call[v]
  BY <1>1 DEF IInv, TypeOK
<1>6. ReadsAreVersions'
  <2> SUFFICES ASSUME NEW v \in Users, call'[v] # NoCall
               PROVE  /\ call'[v].project.version <= project'.version
                      /\ call'[v].project.version = project'.version => call'[v].project = project'
                      /\ call'[v].decision.version <= decision'.version
                      /\ call'[v].decision.version = decision'.version => call'[v].decision = decision'
    BY DEF ReadsAreVersions
  <2>1. call'[v] = call[v] /\ call[v] # NoCall
    BY <1>5
  <2>2. /\ call[v].project.version \in Nat /\ call[v].decision.version \in Nat
        /\ project.version \in Nat /\ decision.version \in Nat
        /\ project'.version \in Nat /\ decision'.version \in Nat
    BY <2>1, ReadTypes DEF IInv, TypeOK, ProjectRow, DecisionRow
  <2>3. /\ call[v].project.version <= project.version
        /\ call[v].project.version = project.version => call[v].project = project
        /\ call[v].decision.version <= decision.version
        /\ call[v].decision.version = decision.version => call[v].decision = decision
    BY <2>1 DEF IInv, ReadsAreVersions
  <2> QED
    BY <2>1, <2>2, <2>3
<1>7. ReadsWereChecked'
  BY <1>5 DEF IInv, ReadsWereChecked, NoCall, Operations
<1> QED
  BY <1>3, <1>4, <1>6, <1>7 DEF IInv

(* A version that is still current is the row that was read.                  *)
LEMMA CurrentRead ==
    ASSUME IInv, NEW u \in Users, call[u].op \in Operations
    PROVE  /\ call[u] # NoCall
           /\ IsCurrent(project, call[u].project) => call[u].project = project
           /\ IsCurrent(decision, call[u].decision) => call[u].decision = decision
<1>1. call[u] # NoCall
  BY DEF NoCall, Operations
<1> QED
  BY <1>1 DEF IInv, ReadsAreVersions, IsCurrent

(* pause, resume, cancel.                                                    *)
LEMMA SaveStatusStep ==
    ASSUME IInv, NEW u \in Users, SaveStatus(u)
    PROVE  IInv'
<1> DEFINE status == StatusOf(call[u].op)
<1>1. call[u].op \in {"pause", "resume", "cancel"} /\ status \in Statuses
  BY DEF SaveStatus, StatusOf, Statuses
<1>2. call[u].project = project
  BY <1>1, CurrentRead DEF SaveStatus, Operations
<1>3. project.version > 0
  BY <1>1, <1>2 DEF IInv, ReadsWereChecked, Operations
<1>4. RowsAgree
  BY <1>3 DEF IInv, TypeOK, RowsAgree, NoLostUpdate, Exists
<1>5. /\ project' = [project EXCEPT !.status = status, !.version = @ + 1]
      /\ last' = [last EXCEPT !.status = status] /\ decision' = decision
      /\ UNCHANGED <<created, member, recorded, effects>> /\ EndCall(u)
  BY <1>2 DEF SaveStatus
<1> HIDE DEF status
<1>6. RowsFollow
  BY <1>1, <1>4, <1>5, StatusRows
<1>7. NoLostUpdate' /\ OwnerCreated' /\ OneOwner'
  BY <1>5, <1>6 DEF RowsFollow, NoLostUpdate, IInv, OwnerCreated, OneOwner
<1>8. member' \in [Users -> Roles] /\ created' \in BOOLEAN
  BY <1>5 DEF IInv, TypeOK
<1> QED
  BY <1>5, <1>6, <1>7, <1>8, SaveStep DEF RowsFollow

(* config.                                                                   *)
LEMMA SaveOverrideStep ==
    ASSUME IInv, NEW u \in Users, SaveOverride(u)
    PROVE  IInv'
<1>1. call[u].op = "config"
  BY DEF SaveOverride
<1>2. call[u].project = project
  BY <1>1, CurrentRead DEF SaveOverride, Operations
<1>3. project.version > 0
  BY <1>1, <1>2 DEF IInv, ReadsWereChecked, Operations
<1>4. RowsAgree
  BY <1>3 DEF IInv, TypeOK, RowsAgree, NoLostUpdate, Exists
<1>5. /\ project' = [project EXCEPT !.override = u, !.version = @ + 1]
      /\ last' = [last EXCEPT !.override = u] /\ decision' = decision
      /\ UNCHANGED <<created, member, recorded, effects>> /\ EndCall(u)
  BY <1>2 DEF SaveOverride
<1>6. RowsFollow
  BY <1>4, <1>5, OverrideRows
<1>7. NoLostUpdate' /\ OwnerCreated' /\ OneOwner'
  BY <1>5, <1>6 DEF RowsFollow, NoLostUpdate, IInv, OwnerCreated, OneOwner
<1>8. member' \in [Users -> Roles] /\ created' \in BOOLEAN
  BY <1>5 DEF IInv, TypeOK
<1> QED
  BY <1>5, <1>6, <1>7, <1>8, SaveStep DEF RowsFollow

(* answer: the decision that was read was open, so it still is.                *)
LEMMA SaveAnswerStep ==
    ASSUME IInv, NEW u \in Users, SaveAnswer(u)
    PROVE  IInv'
<1>1. call[u].op = "answer"
  BY DEF SaveAnswer
<1>2. call[u].decision = decision
  BY <1>1, CurrentRead DEF SaveAnswer, Operations
<1>4. decision.answer = "none" /\ last.answer = "none"
  BY <1>1, <1>2 DEF IInv, ReadsWereChecked, NoLostUpdate
<1>5. /\ decision' = [answer |-> u, version |-> decision.version + 1]
      /\ project' = project /\ UNCHANGED <<created, member, recorded, effects>> /\ EndCall(u)
  BY <1>2 DEF SaveAnswer
<1>6. last' = [last EXCEPT !.answer = u]
  BY <1>4 DEF SaveAnswer
<1>7. /\ decision \in DecisionRow /\ project \in ProjectRow
      /\ last \in [status: Statuses, override: Person, answer: Person]
      /\ decision.version \in Nat /\ u \in Person
  BY DEF IInv, TypeOK, DecisionRow, Person
<1>8. decision' \in DecisionRow /\ decision'.version > decision.version /\ decision'.answer = u
  BY <1>5, <1>7 DEF DecisionRow
<1>9. last' = [status |-> last.status, override |-> last.override, answer |-> u]
  BY <1>6, <1>7
<1>10. last' \in [status: Statuses, override: Person, answer: Person]
  BY <1>7, <1>9
<1>11. NoLostUpdate'
  BY <1>5, <1>8, <1>9 DEF IInv, NoLostUpdate, Exists
<1>12. OwnerCreated' /\ OneOwner'
  BY <1>5 DEF IInv, OwnerCreated, OneOwner
<1>13. member' \in [Users -> Roles] /\ created' \in BOOLEAN
  BY <1>5 DEF IInv, TypeOK
<1> QED
  BY <1>5, <1>7, <1>8, <1>10, <1>11, <1>12, <1>13, SaveStep

(* create: only the first event project.created is committed.                 *)
LEMMA SaveCreatedStep ==
    ASSUME IInv, NEW u \in Users, SaveCreated(u)
    PROVE  IInv'
<1>1. /\ ~ created /\ created' = TRUE /\ member' = [member EXCEPT ![u] = "owner"]
      /\ project' = [status |-> "ACTIVE", override |-> "none", version |-> project.version + 1]
      /\ last' = [last EXCEPT !.status = "ACTIVE", !.override = "none"]
      /\ decision' = decision /\ UNCHANGED <<recorded, effects>> /\ EndCall(u)
  BY DEF SaveCreated, EventIsNew
<1>2. /\ member \in [Users -> Roles] /\ project.version \in Nat /\ decision \in DecisionRow
      /\ last \in [status: Statuses, override: Person, answer: Person]
  BY DEF IInv, TypeOK, ProjectRow
<1>3. member' \in [Users -> Roles]
  BY <1>1, <1>2 DEF Roles
<1>4. \A v \in Users : member'[v] = "owner" => v = u
  BY <1>1, <1>2 DEF IInv, OwnerCreated
<1>5. OneOwner' /\ OwnerCreated' /\ created' \in BOOLEAN
  BY <1>1, <1>4 DEF OneOwner, OwnerCreated
<1>6. project' \in ProjectRow
  BY <1>1, <1>2 DEF ProjectRow, Statuses, Person
<1>7. project'.version > project.version
  BY <1>1, <1>2
<1>8. last' = [status |-> "ACTIVE", override |-> "none", answer |-> last.answer]
  BY <1>1, <1>2
<1>9. last' \in [status: Statuses, override: Person, answer: Person]
  BY <1>2, <1>8 DEF Statuses, Person
<1>10. NoLostUpdate'
  BY <1>1, <1>8 DEF IInv, NoLostUpdate
<1> QED
  BY <1>1, <1>2, <1>3, <1>5, <1>6, <1>7, <1>9, <1>10, SaveStep

(* A call that is rolled back.                                                *)
LEMMA FailStep ==
    ASSUME IInv, NEW u \in Users, Fail(u)
    PROVE  IInv'
<1>1. EndCall(u) /\ UNCHANGED <<project, created, member, decision, recorded, effects, last>>
  BY DEF Fail, DatabaseUnchanged
<1>2. OwnerCreated' /\ OneOwner' /\ NoLostUpdate'
  BY <1>1 DEF IInv, OwnerCreated, OneOwner, NoLostUpdate, Exists
<1>3. /\ project' \in ProjectRow /\ decision' \in DecisionRow
      /\ last' \in [status: Statuses, override: Person, answer: Person]
      /\ member' \in [Users -> Roles] /\ created' \in BOOLEAN
  BY <1>1 DEF IInv, TypeOK
<1> QED
  BY <1>1, <1>2, <1>3, SaveStep

(* What a route reads is current, and passed its checks.                      *)
LEMMA ReadStep ==
    ASSUME IInv, NEW u \in Users, NEW op \in Operations, Read(u, op)
    PROVE  IInv'
<1> DEFINE seen == [op |-> op, project |-> project, decision |-> decision]
<1>1. /\ call' = [call EXCEPT ![u] = seen] /\ calls' = calls + 1 /\ MayCall(u, op)
      /\ UNCHANGED Database
      /\ UNCHANGED <<requests, timeouts, session, waiting, delivered, settled>>
  BY DEF Read, ShimUnchanged, DatabaseUnchanged, Database
<1>2. /\ seen \in Call /\ seen.op = op /\ seen.project = project /\ seen.decision = decision
      /\ project.version \in Nat /\ decision.version \in Nat
  BY DEF IInv, TypeOK, Call, ProjectRow, DecisionRow
<1> HIDE DEF seen
<1>3. call' \in [Users -> Call \union {NoCall}] /\ calls' \in Nat
  <2>1. call \in [Users -> Call \union {NoCall}] /\ calls \in Nat
    BY DEF IInv, TypeOK
  <2>2. call' \in [Users -> Call \union {NoCall}]
    BY <1>1, <1>2, <2>1
  <2> QED
    BY <1>1, <2>1, <2>2
<1>4. \A v \in Users : call'[v] = IF v = u THEN seen ELSE call[v]
  BY <1>1 DEF IInv, TypeOK
<1>5. TypeOK'
  BY <1>1, <1>3 DEF IInv, TypeOK, Database
<1>6. ReadsAreVersions'
  BY <1>1, <1>2, <1>4 DEF IInv, ReadsAreVersions, Database
<1>7. ReadsWereChecked'
  <2>1. op \in Operations \ {"create"} => project.version > 0
    BY <1>1 DEF MayCall, Exists, Operations
  <2>2. op = "answer" => decision.answer = "none"
    BY <1>1 DEF MayCall
  <2> QED
    BY <1>2, <1>4, <2>1, <2>2 DEF IInv, ReadsWereChecked
<1>8. EffectsRecorded' /\ OwnerCreated' /\ OneOwner' /\ NoLostUpdate'
  BY <1>1 DEF IInv, EffectsRecorded, OwnerCreated, OneOwner, NoLostUpdate, Exists, Database
<1> QED
  BY <1>5, <1>6, <1>7, <1>8 DEF IInv

(* A member that is added does not own, and there is a project already.        *)
LEMMA AddMemberStep ==
    ASSUME IInv, NEW u \in Users, NEW role \in {"member", "approver"}, AddMember(u, role)
    PROVE  IInv'
<1>1. /\ member' = [member EXCEPT ![u] = role] /\ calls' = calls + 1
      /\ UNCHANGED <<project, created, decision, recorded, requests, call, timeouts, effects, last>>
      /\ UNCHANGED <<session, waiting, delivered, settled>>
  BY DEF AddMember, ShimUnchanged
<1>2. member \in [Users -> Roles] /\ calls \in Nat /\ role \in Roles /\ role # "owner"
  BY DEF IInv, TypeOK, Roles
<1>3. member' \in [Users -> Roles]
  BY <1>1, <1>2
<1>4. \A v \in Users : member'[v] = "owner" => member[v] = "owner"
  BY <1>1, <1>2
<1>5. TypeOK'
  BY <1>1, <1>2, <1>3 DEF IInv, TypeOK
<1>6. OwnerCreated' /\ OneOwner'
  BY <1>1, <1>4 DEF IInv, OwnerCreated, OneOwner
<1>7. EffectsRecorded' /\ NoLostUpdate'
  BY <1>1 DEF IInv, EffectsRecorded, NoLostUpdate, Exists
<1>8. ReadsAreVersions' /\ ReadsWereChecked'
  BY <1>1 DEF IInv, ReadsAreVersions, ReadsWereChecked
<1> QED
  BY <1>5, <1>6, <1>7, <1>8 DEF IInv

-----------------------------------------------------------------------------
(* Every step keeps the invariant.                                           *)
LEMMA NextIInv == IInv /\ [Next]_vars => IInv'
<1> SUFFICES ASSUME IInv, [Next]_vars PROVE IInv'
  OBVIOUS
<1>1. CASE \E m \in Messages : BindSession(m) \/ SetInteraction(m) \/ Unrecognized(m) \/ Submit(m)
  BY <1>1, LocalPrompt, SubmitStep
<1>2. CASE \E request \in requests : Handle(request)
  BY <1>2, NoEffect, ExecuteStep DEF Handle
<1>3. CASE \E u \in Users : \/ GiveUp(u)
                            \/ \E op \in Operations : Read(u, op)
                            \/ Save(u) \/ Fail(u)
                            \/ \E role \in {"member", "approver"} : AddMember(u, role)
  BY <1>3, GiveUpStep, ReadStep, SaveStatusStep, SaveOverrideStep, SaveAnswerStep,
     SaveCreatedStep, FailStep, AddMemberStep DEF Save
<1>4. CASE UNCHANGED vars
  <2>1. UNCHANGED Database /\ UNCHANGED <<call, settled>>
    BY <1>4 DEF vars, Database
  <2>2. TypeOK'
    BY <1>4 DEF vars, IInv, TypeOK
  <2> QED
    BY <2>1, <2>2, QuietStep
<1> QED
  BY <1>1, <1>2, <1>3, <1>4 DEF Next

(* The inductive invariant holds.                                            *)
THEOREM Invariance == Spec => []IInv
  BY InitIInv, NextIInv, PTL DEF Spec

(* Every variable keeps its type.                                            *)
THEOREM TypeCorrect == Spec => []TypeOK
<1>1. IInv => TypeOK
  BY DEF IInv
<1> QED
  BY <1>1, Invariance, PTL

(* However often a message is delivered, however many submissions are given up *)
(* on and whatever is refused in between, handle_inbound executes it at most   *)
(* once, and "done" is said of what was.                                      *)
THEOREM MessagesTakeEffectOnce == Spec => []OnceAndDone
<1>1. IInv => OnceAndDone
  BY DEF IInv, EffectsRecorded, OnceAndDone
<1> QED
  BY <1>1, Invariance, PTL

(* No route that writes back rows it read earlier undoes a commit in between.  *)
THEOREM NoWriteIsLost == Spec => []NoLostUpdate
<1>1. IInv => NoLostUpdate
  BY DEF IInv
<1> QED
  BY <1>1, Invariance, PTL

(* Of any number of people that create the project at once one owns it.        *)
THEOREM OneCreatorOwns == Spec => []OneOwner
<1>1. IInv => OneOwner
  BY DEF IInv
<1> QED
  BY <1>1, Invariance, PTL

=============================================================================
