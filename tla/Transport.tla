----------------------------- MODULE Transport -----------------------------
(***************************************************************************)
(* Runs that share one executor process over JSON-RPC: the transports and   *)
(* adapters of executors/reasonix and executors/codex.  A run initializes    *)
(* the connection, opens a session, prompts until the output validates, and  *)
(* closes the session.  The process is spawned by whoever finds none, may    *)
(* exit at any time, and is then replaced by the next request of any run; so   *)
(* is one whose output the reader gives up on, which goes on running.         *)
(*                                                                         *)
(* What the process writes is read by one task, in order; a coroutine whose  *)
(* future it completes resumes later, when the task may have read on.        *)
(*                                                                         *)
(* The executors differ in two points: reasonix sets an option of a new       *)
(* session and answers a prompt with the output; codex confirms the           *)
(* handshake, and answers with a turn whose end it announces.                *)
(***************************************************************************)
EXTENDS Naturals, FiniteSets

CONSTANTS Runs, Nobody,
          MaxRepairs,  \* MAX_REPAIRS
          MaxFaults    \* bound: exits of a process, failing spawns and readers,
                       \* requests that time out and runs that are cancelled

ASSUME TransportAssumption ==
    /\ Nobody \notin Runs
    /\ MaxRepairs \in Nat /\ MaxFaults \in Nat

VARIABLES
    kind,      \* the executor of this transport
    alive,     \* the processes that run
    current,   \* _proc: the process whose output is read, 0 if there is none
    dropped,   \* history: the processes whose reader failed while they ran or before it saw their end
    spawned,   \* the number of processes so far
    spawning,  \* the runs that await create_subprocess_exec
    ready,     \* capabilities are cached, _init_done
    greeted,   \* the process that is read was asked to initialize
    initLock,  \* the holder of _init_lock
    at,        \* where a run is
    call,      \* what it awaits: [state, to: the process, reply]
    session,   \* the process its session is on, 0 without session
    turn,      \* codex: the turn of a run at the process
    repairs,   \* repairs of a run so far
    outcome,   \* of a run
    faults     \* so far

vars == <<kind, alive, current, dropped, spawned, spawning, ready, greeted, initLock, at, call,
          session, turn, repairs, outcome, faults>>

Requests == {"initialize", "initialized", "new", "option", "prompt", "close"}
Stages == Requests \union {"idle", "lock", "wait", "done"}

(* A request is sent, replied to, and its future then resolved or failed; a   *)
(* write can break on a pipe that the process has closed.                    *)
NoCall == [state |-> "none", to |-> 0, reply |-> "none"]
Lost(state) == [NoCall EXCEPT !.state = state]
Call == [state: {"none", "sent", "replied", "result", "error", "broken"}, to: Nat,
         reply: {"none", "ok", "invalid", "error"}]

TypeOK ==
    /\ kind \in {"reasonix", "codex"}
    /\ alive \in SUBSET (1 .. spawned)
    /\ current \in 0 .. spawned
    /\ dropped \in SUBSET (1 .. spawned)
    /\ spawned \in Nat
    /\ spawning \in SUBSET Runs
    /\ ready \in BOOLEAN
    /\ greeted \in BOOLEAN
    /\ initLock \in Runs \union {Nobody}
    /\ at \in [Runs -> Stages]
    /\ call \in [Runs -> Call]
    /\ session \in [Runs -> 0 .. spawned]
    /\ turn \in [Runs -> {"none", "running", "announced", "noted"}]
    /\ repairs \in [Runs -> 0 .. MaxRepairs]
    /\ outcome \in [Runs -> {"none", "valid", "failed"}]
    /\ faults \in 0 .. MaxFaults

Init ==
    /\ kind \in {"reasonix", "codex"}
    /\ alive = {} /\ current = 0 /\ dropped = {} /\ spawned = 0 /\ spawning = {}
    /\ ready = FALSE /\ greeted = FALSE
    /\ initLock = Nobody
    /\ at = [r \in Runs |-> "idle"]
    /\ call = [r \in Runs |-> NoCall]
    /\ session = [r \in Runs |-> 0]
    /\ turn = [r \in Runs |-> "none"]
    /\ repairs = [r \in Runs |-> 0]
    /\ outcome = [r \in Runs |-> "none"]
    /\ faults = 0

ProcessUnchanged == UNCHANGED <<kind, alive, dropped, spawned, faults>>

Fault == faults < MaxFaults /\ faults' = faults + 1

-----------------------------------------------------------------------------
(* _start and _call.                                                        *)

AnyTime == TRUE
OneAtATime == spawning = {}

(* _start_lock is held over create_subprocess_exec; who waited for it finds   *)
(* the process.                                                              *)
Spawn(r) ==
    /\ at[r] \in Requests /\ call[r].state = "none"
    /\ current = 0 /\ OneAtATime
    /\ r \notin spawning
    /\ spawning' = spawning \union {r}
    /\ UNCHANGED <<current, ready, greeted, initLock, at, call, session, turn, repairs, outcome>>
    /\ ProcessUnchanged

(* The request is registered before it is written, and nothing is awaited     *)
(* since _start returned.  The write to a process that has gone is lost, or   *)
(* raises ConnectionResetError, which is no TransportError.                  *)
Sent(r, p, lives) ==
    /\ \E state \in IF lives THEN {"sent"} ELSE {"sent", "broken"} :
          call' = [call EXCEPT ![r] = [state |-> state, to |-> p, reply |-> "none"]]

Spawned(r) ==
    /\ r \in spawning
    /\ spawning' = spawning \ {r}
    /\ spawned' = spawned + 1
    /\ current' = spawned + 1
    /\ alive' = alive \union {spawned + 1}
    /\ Sent(r, spawned + 1, TRUE)
    /\ greeted' = (at[r] = "initialize")
    /\ UNCHANGED <<kind, dropped, ready, initLock, at, session, turn, repairs, outcome, faults>>

(* Without bubblewrap a TransportError; create_subprocess_exec raises others.  *)
SpawnFails(r) ==
    /\ r \in spawning
    /\ Fault
    /\ spawning' = spawning \ {r}
    /\ \E state \in IF kind = "reasonix" THEN {"error", "broken"} ELSE {"broken"} :
          call' = [call EXCEPT ![r] = Lost(state)]
    /\ UNCHANGED <<kind, alive, dropped, spawned, current, ready, greeted, initLock, at, session,
                   turn, repairs, outcome>>

Send(r) ==
    /\ at[r] \in Requests /\ call[r].state = "none"
    /\ current # 0 /\ r \notin spawning
    /\ Sent(r, current, current \in alive)
    /\ greeted' = (greeted \/ at[r] = "initialize")
    /\ UNCHANGED <<current, spawning, ready, initLock, at, session, turn, repairs, outcome>>
    /\ ProcessUnchanged

-----------------------------------------------------------------------------
(* The process (external).  It refuses sessions that it does not have, and    *)
(* may refuse to open one when it was never asked to initialize.              *)

MayReply(r) ==
    CASE at[r] = "prompt" -> IF session[r] # call[r].to THEN {"error"}
                             ELSE IF kind = "codex" THEN {"ok"} ELSE {"ok", "invalid", "error"}
      [] at[r] \in {"option", "close"} -> IF session[r] # call[r].to THEN {"error"} ELSE {"ok"}
      [] at[r] = "new" /\ ~ greeted -> {"ok", "error"}
      [] OTHER -> {"ok"}

Reply(r) ==
    /\ call[r].state = "sent" /\ call[r].to \in alive
    /\ at[r] \in Requests \ {"initialized"}
    /\ \E reply \in MayReply(r) :
          call' = [call EXCEPT ![r].state = "replied", ![r].reply = reply]
    /\ turn' = IF kind = "codex" /\ at[r] = "prompt" /\ session[r] = call[r].to
               THEN [turn EXCEPT ![r] = "running"] ELSE turn
    /\ UNCHANGED <<current, spawning, ready, greeted, initLock, at, session, repairs, outcome>>
    /\ ProcessUnchanged

(* codex announces the end of a turn after its reply to turn/start.  That of a *)
(* run that no longer wants to know is left out.                             *)
EndTurn(r) ==
    /\ turn[r] = "running" /\ session[r] \in alive
    /\ at[r] \in {"prompt", "wait"}
    /\ turn' = [turn EXCEPT ![r] = "announced"]
    /\ UNCHANGED <<current, spawning, ready, greeted, initLock, at, call, session, repairs, outcome>>
    /\ ProcessUnchanged

Exit ==
    /\ alive # {}
    /\ Fault
    /\ \E p \in alive : alive' = alive \ {p}
    /\ UNCHANGED <<kind, dropped, spawned, current, spawning, ready, greeted, initLock, at, call,
                   session, turn, repairs, outcome>>

-----------------------------------------------------------------------------
(* _read_loop.                                                              *)

IsPending(r) == call[r].state \in {"sent", "replied"} /\ at[r] # "wait"

ReadReply(r) ==
    /\ call[r].state = "replied" /\ call[r].to = current
    /\ call' = [call EXCEPT ![r].state = "result"]
    /\ UNCHANGED <<current, spawning, ready, greeted, initLock, at, session, turn, repairs, outcome>>
    /\ ProcessUnchanged

(* _on_notification: remembered, and told to the waiters of the turn.  The    *)
(* output of a turn validates or not, or the turn failed.                    *)
Ended(r) == \E reply \in {"ok", "invalid", "error"} :
    call' = [call EXCEPT ![r] = [state |-> "result", to |-> session[r], reply |-> reply]]

ReadTurn(r) ==
    /\ turn[r] = "announced" /\ session[r] = current
    /\ call[r].state # "replied"
    /\ IF at[r] = "wait" /\ call[r].state = "sent"
       THEN Ended(r) ELSE call' = call
    /\ turn' = [turn EXCEPT ![r] = "noted"]
    /\ UNCHANGED <<current, spawning, ready, greeted, initLock, at, session, repairs, outcome>>
    /\ ProcessUnchanged

(* End of file, once all before it was read: every pending call fails, and    *)
(* so do the turns that are waited for; the next process is initialized.      *)
OnlyOwner(r) == call[r].state = "sent" /\ at[r] = "initialize"
FailsAtEof(r) == call[r].state = "sent"

ReadEof ==
    /\ current # 0 /\ current \notin alive
    /\ \A r \in Runs : /\ call[r].state = "replied" => call[r].to # current
                       /\ turn[r] = "announced" => session[r] # current
    /\ call' = [r \in Runs |-> IF FailsAtEof(r) THEN Lost("error") ELSE call[r]]
    /\ current' = 0
    /\ ready' = FALSE
    /\ UNCHANGED <<spawning, greeted, initLock, at, session, turn, repairs, outcome>>
    /\ ProcessUnchanged

(* The reader ends by an exception as well: on a line longer than the limit   *)
(* of the stream, or on one that is JSON and no object.  What follows in the   *)
(* pipe is never read, and the process is neither asked nor made to exit.      *)
ReaderFails ==
    /\ current # 0
    /\ Fault
    /\ dropped' = dropped \union {current}
    /\ call' = [r \in Runs |-> IF call[r].state \in {"sent", "replied"}
                               THEN Lost("error") ELSE call[r]]
    /\ current' = 0
    /\ ready' = FALSE
    /\ UNCHANGED <<kind, alive, spawned, spawning, greeted, initLock, at, session, turn,
                   repairs, outcome>>

(* wait_for: the request is no longer pending.  A run that began to wait for  *)
(* its turn when the process had gone is not told, and waits for ten minutes. *)
IsOrphaned(r) == at[r] = "wait" /\ call[r].state = "sent" /\ session[r] # current

TimeOut(r) ==
    /\ call[r].state \in {"sent", "replied"} /\ at[r] # "initialized"
    /\ IF IsOrphaned(r) THEN UNCHANGED faults ELSE Fault
    /\ call' = [call EXCEPT ![r] = Lost("error")]
    /\ UNCHANGED <<current, spawning, ready, greeted, initLock, at, session, turn, repairs,
                   outcome, kind, alive, dropped, spawned>>

-----------------------------------------------------------------------------
(* _run_structured.                                                         *)

Failed(r) == call[r].state \in {"error", "broken"} \/ call[r].reply = "error"
Succeeded(r) == call[r].state = "result" /\ call[r].reply # "error"
RpcUnchanged == UNCHANGED <<current, spawning, greeted>> /\ ProcessUnchanged
GoTo(r, stage) == /\ at' = [at EXCEPT ![r] = stage]
                  /\ call' = [call EXCEPT ![r] = NoCall]

(* The locals of a run that is done go with it.                              *)
Finish(r) == /\ GoTo(r, "done")
             /\ session' = [session EXCEPT ![r] = 0]
             /\ turn' = [turn EXCEPT ![r] = "none"]
             /\ repairs' = [repairs EXCEPT ![r] = 0]

Begin(r) ==
    /\ at[r] = "idle"
    /\ GoTo(r, "lock")
    /\ UNCHANGED <<ready, initLock, session, turn, repairs, outcome>>
    /\ RpcUnchanged

(* initialize, under _init_lock.                                            *)
Lock(r) ==
    /\ at[r] = "lock" /\ initLock = Nobody
    /\ IF ready THEN GoTo(r, "new") /\ UNCHANGED initLock
                ELSE GoTo(r, "initialize") /\ initLock' = r
    /\ UNCHANGED <<ready, session, turn, repairs, outcome>>
    /\ RpcUnchanged

Initialized(r) ==
    /\ at[r] = "initialize" /\ kind = "reasonix" /\ Succeeded(r)
    /\ ready' = TRUE
    /\ initLock' = Nobody
    /\ GoTo(r, "new")
    /\ UNCHANGED <<session, turn, repairs, outcome>>
    /\ RpcUnchanged

Confirm(r) ==
    /\ at[r] = "initialize" /\ kind = "codex" /\ Succeeded(r)
    /\ GoTo(r, "initialized")
    /\ UNCHANGED <<ready, initLock, session, turn, repairs, outcome>>
    /\ RpcUnchanged

(* A notification has no reply.                                             *)
Confirmed(r) ==
    /\ at[r] = "initialized" /\ call[r].state \in {"sent", "error"}
    /\ ready' = TRUE
    /\ initLock' = Nobody
    /\ GoTo(r, "new")
    /\ UNCHANGED <<session, turn, repairs, outcome>>
    /\ RpcUnchanged

(* new_session, thread_start: what fails up to here, fails without a close.   *)
Opened(r) ==
    /\ at[r] = "new" /\ Succeeded(r)
    /\ session' = [session EXCEPT ![r] = call[r].to]
    /\ GoTo(r, IF kind = "reasonix" THEN "option" ELSE "prompt")
    /\ UNCHANGED <<ready, initLock, turn, repairs, outcome>>
    /\ RpcUnchanged

(* The option is optional: a TransportError is passed over.                   *)
OptionSet(r) ==
    /\ at[r] = "option" /\ call[r].state \in {"result", "error"}
    /\ GoTo(r, "prompt")
    /\ UNCHANGED <<ready, initLock, session, turn, repairs, outcome>>
    /\ RpcUnchanged

ReleasesInit(r) == initLock' = IF initLock = r THEN Nobody ELSE initLock

GiveUp(r) ==
    /\ \/ at[r] = "initialize" /\ Failed(r)
       \/ at[r] = "initialized" /\ call[r].state = "broken"
       \/ at[r] = "new" /\ Failed(r)
       \/ at[r] = "option" /\ call[r].state = "broken"
    /\ outcome' = [outcome EXCEPT ![r] = "failed"]
    /\ ReleasesInit(r)
    /\ Finish(r)
    /\ UNCHANGED ready
    /\ RpcUnchanged

(* codex: the reply names the turn.  wait_for_turn registers its waiter and   *)
(* then looks through the notifications so far.                              *)
NoneNoted(r) == FALSE
IsNoted(r) == turn[r] = "noted"

AwaitTurn(r) ==
    /\ at[r] = "prompt" /\ kind = "codex" /\ Succeeded(r)
    /\ at' = [at EXCEPT ![r] = "wait"]
    /\ IF IsNoted(r) THEN Ended(r)
       ELSE call' = [call EXCEPT ![r] = [state |-> "sent", to |-> session[r], reply |-> "none"]]
    /\ UNCHANGED <<ready, initLock, session, turn, repairs, outcome>>
    /\ RpcUnchanged

HasOutput(r) == at[r] = IF kind = "codex" THEN "wait" ELSE "prompt"

Validated(r) ==
    /\ HasOutput(r) /\ Succeeded(r) /\ call[r].reply = "ok"
    /\ outcome' = [outcome EXCEPT ![r] = "valid"]
    /\ GoTo(r, "close")
    /\ UNCHANGED <<ready, initLock, session, turn, repairs>>
    /\ RpcUnchanged

(* for attempt in range(MAX_REPAIRS + 1): the last attempt is not repaired.   *)
MayAlways(r) == repairs[r] <= MaxRepairs
MayRepair(r) == repairs[r] < MaxRepairs

Repair(r) ==
    /\ HasOutput(r) /\ Succeeded(r) /\ call[r].reply = "invalid"
    /\ MayRepair(r)
    /\ repairs' = [repairs EXCEPT ![r] = @ + 1]
    /\ turn' = [turn EXCEPT ![r] = "none"]
    /\ GoTo(r, "prompt")
    /\ UNCHANGED <<ready, initLock, session, outcome>>
    /\ RpcUnchanged

Fail(r) ==
    /\ \/ at[r] \in {"prompt", "wait"} /\ Failed(r)
       \/ HasOutput(r) /\ Succeeded(r) /\ call[r].reply = "invalid" /\ ~MayRepair(r)
    /\ outcome' = [outcome EXCEPT ![r] = "failed"]
    /\ GoTo(r, "close")
    /\ UNCHANGED <<ready, initLock, session, turn, repairs>>
    /\ RpcUnchanged

(* The finally clause: a TransportError is passed over, any other error takes *)
(* the place of the result.                                                  *)
Closed(r) ==
    /\ at[r] = "close" /\ call[r].state \in {"result", "error", "broken"}
    /\ outcome' = IF call[r].state = "broken" THEN [outcome EXCEPT ![r] = "failed"] ELSE outcome
    /\ Finish(r)
    /\ UNCHANGED <<ready, initLock>>
    /\ RpcUnchanged

(* The task of a run is cancelled where it waits (not modelled: while the      *)
(* process is being spawned).                                                *)
Cancel(r) ==
    /\ at[r] \notin {"idle", "done"} /\ r \notin spawning
    /\ Fault
    /\ outcome' = [outcome EXCEPT ![r] = "failed"]
    /\ ReleasesInit(r)
    /\ IF at[r] \in {"prompt", "wait"} THEN GoTo(r, "close") /\ UNCHANGED <<session, turn, repairs>>
                                       ELSE Finish(r)
    /\ UNCHANGED <<current, spawning, ready, greeted, kind, alive, dropped, spawned>>

RunStep(r) ==
    \/ Spawn(r) \/ Spawned(r) \/ Send(r)
    \/ Lock(r) \/ Initialized(r) \/ Confirm(r) \/ Confirmed(r)
    \/ Opened(r) \/ OptionSet(r) \/ GiveUp(r)
    \/ AwaitTurn(r) \/ Validated(r) \/ Repair(r) \/ Fail(r) \/ Closed(r)

ProcessStep(r) == Reply(r) \/ EndTurn(r)
ReaderStep == (\E r \in Runs : ReadReply(r) \/ ReadTurn(r)) \/ ReadEof

Next ==
    \/ \E r \in Runs : \/ Begin(r) \/ RunStep(r) \/ ProcessStep(r)
                       \/ SpawnFails(r) \/ TimeOut(r) \/ Cancel(r)
    \/ Exit
    \/ ReaderStep \/ ReaderFails

Spec == Init /\ [][Next]_vars

-----------------------------------------------------------------------------
(* Safety.                                                                 *)

(* _start: however many runs find no process at once, one of them spawns it:  *)
(* a process runs whose output nobody reads only if its reader has failed.    *)
OneIsSpawned == alive \subseteq {current} \union dropped

(* _read_loop: "fail all pending calls so no caller hangs forever" reaches    *)
(* every caller: whoever waits for a reply, waits for the process that is     *)
(* read.                                                                     *)
CallsAreWatched == \A r \in Runs : IsPending(r) => call[r].to = current /\ current # 0

-----------------------------------------------------------------------------
(* Liveness.                                                               *)

(* The event loop runs what is ready; a process that lives answers, and ends  *)
(* its turns; who waits for an orphaned turn times out.                       *)
Fairness ==
    /\ \A r \in Runs : /\ WF_vars(RunStep(r))
                       /\ WF_vars(ProcessStep(r))
                       /\ WF_vars(IsOrphaned(r) /\ TimeOut(r))
    /\ WF_vars(ReaderStep)

FairSpec == Spec /\ Fairness

(* A run that begins ends, whatever exits, times out or is cancelled, and     *)
(* nobody keeps the others from initializing.                                *)
RunsEnd == \A r \in Runs : (at[r] = "lock") ~> (at[r] = "done")

=============================================================================
