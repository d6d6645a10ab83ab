------------------------------ MODULE Inbound ------------------------------
(***************************************************************************)
(* How people act on a project: chat messages that a gateway delivers to    *)
(* the shim (acp/agent.py, acp/inbound.py), which submits them as commands   *)
(* to the service (api/routes/inbound.py, application/handlers.py), and the  *)
(* routes of the API (api/routes/projects.py).                              *)
(*                                                                         *)
(* The gateway may deliver a message again.  The shim waits for the service  *)
(* for ten seconds and then tells the gateway that it failed; what it        *)
(* submitted is still on its way.  The service runs each request on a thread *)
(* of its own.  An inbound message writes its record first, so it holds the  *)
(* write lock of the database from there to its end; a route reads without   *)
(* it, and saves the row it read if its version still stands.                *)
(*                                                                         *)
(* One project and one open decision of it.  What free text means is data.   *)
(***************************************************************************)
EXTENDS Naturals, FiniteSets

CONSTANTS Users,
          Messages,      \* chat messages: [user, command, free, named]
          MaxDeliveries, \* bound: deliveries of messages
          MaxCalls,      \* bound: calls of the API
          MaxTimeouts    \* bound: submissions the shim gives up on

Statuses == {"ACTIVE", "PAUSED", "CANCELLED"}
Commands == {"pause", "resume", "config", "decision", "status", "explain", "digest",
             "bind", "interaction", "unknown"}

(* free: not a command but text that classify_intent reads as one; named: the *)
(* gateway passes the platform's message id.                                 *)
Message == [user: Users, command: Commands, free: BOOLEAN, named: BOOLEAN, number: Nat]

ASSUME InboundAssumption ==
    /\ Messages \subseteq Message /\ IsFiniteSet(Messages)
    /\ Users \intersect {"none"} = {}
    /\ MaxDeliveries \in Nat /\ MaxCalls \in Nat /\ MaxTimeouts \in Nat

VARIABLES
    project,  \* the row: [status, override, version], version 0 if there is none
    created,  \* the project.created event is in the log
    member,   \* the rows of project_members: "none" if there is none
    decision, \* the row: [answer, version], answered by a user or "none"
    recorded, \* the idempotency keys of the inbound messages
    session,  \* of each user at the shim: [bound, profile]
    waiting,  \* the submission of a user's session that the shim waits for
    requests, \* submissions on their way to the service
    call,     \* of each user on the API: [op, seen: the rows it read]
    delivered, calls, timeouts,
    effects,  \* history: how often the command of a message took effect
    settled,  \* history: messages the shim answered as done, or as done before
    last      \* history: the status and override committed last, and the first answer

vars == <<project, created, member, decision, recorded, session, waiting, requests,
          call, delivered, calls, timeouts, effects, settled, last>>

Person == Users \union {"none"}
(* What a row grants.  The text of its role is data that nothing reads: a row   *)
(* of add_member, of any role, may approve ("approver") or not ("member"); the  *)
(* one create_project writes is the "owner".                                  *)
Roles == {"none", "member", "approver", "owner"}
ProjectRow == [status: Statuses, override: Person, version: Nat]
DecisionRow == [answer: Person, version: Nat]

(* _submit: the id of the platform, or one hashed from session, project and   *)
(* text.                                                                     *)
KeyOf(m, bound) == IF m.named THEN <<"id", m.user, m.number, TRUE>>
                   ELSE <<m.command, m.user, 0, bound>>
Keys == {KeyOf(m, bound) : m \in Messages, bound \in BOOLEAN}

Request == [message: Messages, key: Keys, bound: BOOLEAN]
NoRequest == [message |-> "none"]

Operations == {"create", "pause", "resume", "cancel", "config", "answer"}
NoCall == [op |-> "none"]
Call == [op: Operations, project: ProjectRow, decision: DecisionRow]

TypeOK ==
    /\ project \in ProjectRow
    /\ created \in BOOLEAN
    /\ member \in [Users -> Roles]
    /\ decision \in DecisionRow
    /\ recorded \in SUBSET Keys
    /\ session \in [Users -> [bound: BOOLEAN, profile: {"fast", "deterministic"}]]
    /\ waiting \in [Users -> Request \union {NoRequest}]
    /\ requests \in SUBSET Request
    /\ call \in [Users -> Call \union {NoCall}]
    /\ delivered \in Nat /\ calls \in Nat /\ timeouts \in Nat
    /\ effects \in [Keys -> Nat]
    /\ settled \in SUBSET Keys
    /\ last \in [status: Statuses, override: Person, answer: Person]

Init ==
    /\ project = [status |-> "ACTIVE", override |-> "none", version |-> 0]
    /\ created = FALSE
    /\ member = [u \in Users |-> "none"]
    /\ decision = [answer |-> "none", version |-> 1]
    /\ recorded = {}
    /\ \E bound \in BOOLEAN :  \* whether the gateway names the project
          session = [u \in Users |-> [bound |-> bound, profile |-> "fast"]]
    /\ waiting = [u \in Users |-> NoRequest]
    /\ requests = {}
    /\ call = [u \in Users |-> NoCall]
    /\ delivered = 0 /\ calls = 0 /\ timeouts = 0
    /\ effects = [k \in Keys |-> 0]
    /\ settled = {}
    /\ last = [status |-> "ACTIVE", override |-> "none", answer |-> "none"]

Exists == project.version > 0
DatabaseUnchanged == UNCHANGED <<project, created, member, decision, recorded, effects, last>>
ShimUnchanged == UNCHANGED <<session, waiting, delivered, settled>>

(* _require_actor_authorized: no members, no access.                         *)
IsMember(u) == member[u] # "none"
CanApprove(u) == member[u] \in {"approver", "owner"}

-----------------------------------------------------------------------------
(* The shim answers the prompts of a session one after the other.            *)

(* process_prompt: a command, or what classify_intent makes of free text.    *)
Intents == {"decision", "explain", "status", "pause", "resume", "digest"}
Meaning(m) ==
    IF m.free => m.command \in Intents /\ session[m.user].profile # "deterministic"
    THEN m.command ELSE "unknown"

Prompt(m) ==
    /\ waiting[m.user] = NoRequest
    /\ delivered < MaxDeliveries
    /\ delivered' = delivered + 1

(* Binding asks the service whether there is such a project and whether the   *)
(* user is a member of it; rows of members are never removed.                *)
BindSession(m) ==
    /\ Prompt(m)
    /\ Meaning(m) = "bind"
    /\ session' = IF Exists /\ IsMember(m.user)
                  THEN [session EXCEPT ![m.user].bound = TRUE] ELSE session
    /\ UNCHANGED <<waiting, settled, requests, call, calls, timeouts>>
    /\ DatabaseUnchanged

SetInteraction(m) ==
    /\ Prompt(m)
    /\ Meaning(m) = "interaction"
    /\ session' = [session EXCEPT ![m.user].profile = "deterministic"]
    /\ UNCHANGED <<waiting, settled, requests, call, calls, timeouts>>
    /\ DatabaseUnchanged

Unrecognized(m) ==
    /\ Prompt(m)
    /\ Meaning(m) = "unknown"
    /\ UNCHANGED <<session, waiting, settled, requests, call, calls, timeouts>>
    /\ DatabaseUnchanged

Submit(m) ==
    /\ Prompt(m)
    /\ Meaning(m) \notin {"bind", "interaction", "unknown"}
    /\ LET bound == session[m.user].bound
           request == [message |-> m, key |-> KeyOf(m, bound), bound |-> bound]
       IN /\ waiting' = [waiting EXCEPT ![m.user] = request]
          /\ requests' = requests \union {request}
    /\ UNCHANGED <<session, settled, call, calls, timeouts>>
    /\ DatabaseUnchanged

(* httpx times out and the gateway hears that the service is unreachable.     *)
GiveUp(u) ==
    /\ waiting[u] # NoRequest
    /\ timeouts < MaxTimeouts
    /\ timeouts' = timeouts + 1
    /\ waiting' = [waiting EXCEPT ![u] = NoRequest]
    /\ UNCHANGED <<session, settled, delivered, requests, call, calls>>
    /\ DatabaseUnchanged

(* The service answers a request: the shim hears it if it still waits.        *)
AnswerTo(request, done) ==
    LET u == request.message.user
    IN /\ requests' = requests \ {request}
       /\ IF waiting[u] = request
          THEN /\ waiting' = [waiting EXCEPT ![u] = NoRequest]
               /\ settled' = IF done THEN settled \union {request.key} ELSE settled
          ELSE UNCHANGED <<waiting, settled>>
       /\ UNCHANGED <<session, delivered, call, calls, timeouts>>

-----------------------------------------------------------------------------
(* handle_inbound, in one transaction.                                      *)

SetStatus(status) ==
    /\ project' = [project EXCEPT !.status = status, !.version = @ + 1]
    /\ last' = [last EXCEPT !.status = status]
    /\ UNCHANGED decision

SetOverride(u) ==
    /\ project' = [project EXCEPT !.override = u, !.version = @ + 1]
    /\ last' = [last EXCEPT !.override = u]
    /\ UNCHANGED decision

TakeAnswer(u) ==
    /\ IF decision.answer = "none"
       THEN /\ decision' = [answer |-> u, version |-> decision.version + 1]
            /\ last' = [last EXCEPT !.answer = u]
       ELSE UNCHANGED <<decision, last>>
    /\ UNCHANGED project

(* Queries change nothing; a digest is a message of Outbox.                  *)
Perform(u, command) ==
    CASE command = "pause" -> SetStatus("PAUSED")
      [] command = "resume" -> SetStatus("ACTIVE")
      [] command = "config" -> SetOverride(u)
      [] command = "decision" -> TakeAnswer(u)
      [] OTHER -> UNCHANGED <<project, decision, last>>

(* dispatch: the session is bound, the project exists, the user is a member   *)
(* and, to decide, an approver; otherwise HandlerError.                      *)
IsPermitted(request) ==
    LET u == request.message.user
    IN /\ request.bound /\ Exists
       /\ IsMember(u)
       /\ request.message.command = "decision" => CanApprove(u)

IsDuplicate(key) == key \in recorded

Duplicate(request) ==
    /\ request \in requests
    /\ IsDuplicate(request.key)
    /\ AnswerTo(request, TRUE)
    /\ DatabaseUnchanged

Execute(request) ==
    /\ request \in requests
    /\ ~ IsDuplicate(request.key) /\ IsPermitted(request)
    /\ recorded' = recorded \union {request.key}
    /\ Perform(request.message.user, request.message.command)
    /\ effects' = [effects EXCEPT ![request.key] = @ + 1]
    /\ AnswerTo(request, TRUE)
    /\ UNCHANGED <<created, member>>

(* The error of a handler rolls the record back, too.                        *)
KeepRecord(key) == recorded \union {key}
RollBack(key) == recorded

Refuse(request) ==
    /\ request \in requests
    /\ ~ IsDuplicate(request.key)
    /\ recorded' = RollBack(request.key)
    /\ AnswerTo(request, FALSE)
    /\ UNCHANGED <<project, created, member, decision, effects, last>>

(* Refused by the handler, or the write lock was not to be had in time.      *)
Handle(request) == Duplicate(request) \/ Execute(request) \/ Refuse(request)

-----------------------------------------------------------------------------
(* The routes.                                                             *)

MayCall(u, op) ==
    CASE op = "create" -> ~ Exists
      [] op = "answer" -> Exists /\ CanApprove(u) /\ decision.answer = "none"
      [] OTHER -> Exists /\ IsMember(u)

(* A route checks and reads; a call that fails the checks ends here.         *)
Read(u, op) ==
    /\ call[u] = NoCall
    /\ calls < MaxCalls
    /\ calls' = calls + 1
    /\ MayCall(u, op)
    /\ call' = [call EXCEPT ![u] = [op |-> op, project |-> project, decision |-> decision]]
    /\ UNCHANGED <<requests, timeouts>>
    /\ ShimUnchanged /\ DatabaseUnchanged

(* BaseRepo._update.                                                        *)
AnyVersion(row, seen) == TRUE
IsCurrent(row, seen) == row.version = seen.version

EndCall(u) ==
    /\ call' = [call EXCEPT ![u] = NoCall]
    /\ UNCHANGED <<requests, calls, timeouts>>
    /\ ShimUnchanged

NameOf(op) == op
StatusOf(op) == CASE op = "pause" -> "PAUSED" [] op = "resume" -> "ACTIVE" [] op = "cancel" -> "CANCELLED"

(* The whole row is written: what was read, with the fields that are set.     *)
SaveStatus(u) ==
    /\ call[u].op \in {"pause", "resume", "cancel"}
    /\ IsCurrent(project, call[u].project)
    /\ project' = [call[u].project EXCEPT !.status = StatusOf(call[u].op), !.version = @ + 1]
    /\ last' = [last EXCEPT !.status = StatusOf(call[u].op)]
    /\ EndCall(u)
    /\ UNCHANGED <<created, member, decision, recorded, effects>>

SaveOverride(u) ==
    /\ call[u].op = "config"
    /\ IsCurrent(project, call[u].project)
    /\ project' = [call[u].project EXCEPT !.override = u, !.version = @ + 1]
    /\ last' = [last EXCEPT !.override = u]
    /\ EndCall(u)
    /\ UNCHANGED <<created, member, decision, recorded, effects>>

SaveAnswer(u) ==
    /\ call[u].op = "answer"
    /\ IsCurrent(decision, call[u].decision)
    /\ decision' = [answer |-> u, version |-> call[u].decision.version + 1]
    /\ last' = [last EXCEPT !.answer = IF @ = "none" THEN u ELSE @]
    /\ EndCall(u)
    /\ UNCHANGED <<project, created, member, recorded, effects>>

(* create_project: saving updates the row that another creator inserted since *)
(* the check, if it is still at its first version; the key of the event       *)
(* project.created refuses the commit.                                       *)
NoEventKey == TRUE
EventIsNew == ~ created

SaveCreated(u) ==
    /\ call[u].op = "create"
    /\ project.version \in {0, 1}
    /\ EventIsNew
    /\ project' = [status |-> "ACTIVE", override |-> "none", version |-> project.version + 1]
    /\ member' = [member EXCEPT ![u] = "owner"]
    /\ created' = TRUE
    /\ last' = [last EXCEPT !.status = "ACTIVE", !.override = "none"]
    /\ EndCall(u)
    /\ UNCHANGED <<decision, recorded, effects>>

(* A stale version, a taken key or a busy database: rolled back.              *)
Fail(u) ==
    /\ call[u] # NoCall
    /\ EndCall(u)
    /\ DatabaseUnchanged

Save(u) == SaveStatus(u) \/ SaveOverride(u) \/ SaveAnswer(u) \/ SaveCreated(u)

(* add_member: nothing if the user is a member already.                      *)
AddMember(u, role) ==
    /\ Exists
    /\ member[u] = "none"
    /\ calls < MaxCalls
    /\ calls' = calls + 1
    /\ member' = [member EXCEPT ![u] = role]
    /\ UNCHANGED <<project, created, decision, recorded, requests, call, timeouts, effects, last>>
    /\ ShimUnchanged

-----------------------------------------------------------------------------
Next ==
    \/ \E m \in Messages : \/ BindSession(m) \/ SetInteraction(m)
                           \/ Unrecognized(m) \/ Submit(m)
    \/ \E request \in requests : Handle(request)
    \/ \E u \in Users : \/ GiveUp(u)
                        \/ \E op \in Operations : Read(u, op)
                        \/ Save(u) \/ Fail(u)
                        \/ \E role \in {"member", "approver"} : AddMember(u, role)

Spec == Init /\ [][Next]_vars

-----------------------------------------------------------------------------
(* Safety.                                                                 *)

(* handlers.py: "it records the processed message/command by idempotency key  *)
(* before executing, and replays are no-ops": however often a message is      *)
(* delivered, and whether the shim still waits or not, its command takes      *)
(* effect at most once; and when the user hears that it was done, or done     *)
(* before, it was: an error must leave no record behind.                     *)
OnceAndDone ==
    \A k \in Keys : /\ effects[k] <= 1
                    /\ k \in settled => effects[k] = 1

(* Routes write back whole rows they read some time ago.  None of them undoes *)
(* what another request, or a chat message, committed meanwhile: the fields of*)
(* the project are what was committed last, the answer is the first.         *)
NoLostUpdate ==
    /\ Exists => /\ project.status = last.status
                 /\ project.override = last.override
    /\ decision.answer = last.answer

(* Of people who create the same project at the same time one becomes its     *)
(* owner, although the row is saved by an upsert.                            *)
OneOwner == \A u, v \in Users : member[u] = "owner" /\ member[v] = "owner" => u = v

=============================================================================
