-------------------------- MODULE TransportProofs --------------------------
(***************************************************************************)
(* Theorems about Transport, for any number of runs and faults: the type       *)
(* invariant, that a process runs unread only if its reader has failed, and    *)
(* that every pending call is one that the end of the reader fails.            *)
(*                                                                         *)
(* The inductive invariant adds to these that at most one run spawns, and     *)
(* only while there is no process, and that calls name processes that were    *)
(* spawned.                                                                  *)
(***************************************************************************)
EXTENDS Transport, TLAPS

(* _start_lock: one coroutine at a time creates a process, when there is none. *)
SpawnsAlone ==
    /\ \A r, q \in spawning : r = q
    /\ spawning # {} => current = 0

(* A call is made to a process that exists or existed.                        *)
CallsKnown == \A r \in Runs : call[r].to <= spawned

IInv == TypeOK /\ SpawnsAlone /\ CallsKnown /\ OneIsSpawned /\ CallsAreWatched

(* While no process is read, only dropped ones run.                          *)
LEMMA NoneAlive ==
    ASSUME TypeOK, OneIsSpawned, current = 0
    PROVE  alive \subseteq dropped
  BY DEF TypeOK, OneIsSpawned

(* Nor is any call pending then.                                             *)
LEMMA NonePending ==
    ASSUME CallsAreWatched, current = 0
    PROVE  \A r \in Runs : ~ IsPending(r)
  BY DEF CallsAreWatched

(* The transport starts without a process.                                   *)
LEMMA InitIInv == Init => IInv
<1> SUFFICES ASSUME Init PROVE IInv
  OBVIOUS
<1>1. TypeOK
  <2>1. /\ alive \in SUBSET (1 .. spawned) /\ dropped \in SUBSET (1 .. spawned)
        /\ current \in 0 .. spawned /\ spawned \in Nat
        /\ session \in [Runs -> 0 .. spawned]
    BY DEF Init
  <2>2. repairs \in [Runs -> 0 .. MaxRepairs] /\ faults \in 0 .. MaxFaults
    BY TransportAssumption DEF Init
  <2>3. at \in [Runs -> Stages] /\ call \in [Runs -> Call]
    BY DEF Init, Stages, Requests, Call, NoCall
  <2> QED
    BY <2>1, <2>2, <2>3 DEF Init, TypeOK
<1>2. SpawnsAlone /\ OneIsSpawned
  BY DEF Init, SpawnsAlone, OneIsSpawned
<1>3. CallsKnown /\ CallsAreWatched
  BY DEF Init, CallsKnown, CallsAreWatched, IsPending, NoCall
<1> QED
  BY <1>1, <1>2, <1>3 DEF IInv

-----------------------------------------------------------------------------
(* What most steps of a run leave alone.                                     *)

Processes == <<alive, current, dropped, spawned, spawning>>

(* A step that makes no call and leaves the process alone keeps the           *)
(* invariant, as long as the run it is of no longer waits for an answer.      *)
LEMMA QuietStep ==
    ASSUME IInv, TypeOK', NEW r \in Runs, UNCHANGED Processes,
           \A q \in Runs \ {r} : call'[q] = call[q] /\ at'[q] = at[q],
           call'[r].to <= spawned, ~ IsPending(r)'
    PROVE  IInv'
<1> USE DEF IInv, Processes
<1>1. SpawnsAlone' /\ OneIsSpawned'
  BY DEF SpawnsAlone, OneIsSpawned
<1>2. CallsKnown'
  BY DEF CallsKnown
<1>3. CallsAreWatched'
  BY DEF CallsAreWatched, IsPending
<1> QED
  BY <1>1, <1>2, <1>3

(* Going on drops the call.                                                  *)
LEMMA GoToFacts ==
    ASSUME TypeOK, NEW r \in Runs, NEW stage \in Stages, GoTo(r, stage)
    PROVE  /\ at' \in [Runs -> Stages]
           /\ call' \in [Runs -> Call]
           /\ at'[r] = stage /\ call'[r] = NoCall
           /\ \A q \in Runs \ {r} : call'[q] = call[q] /\ at'[q] = at[q]
           /\ call'[r].to <= spawned /\ ~ IsPending(r)'
<1>1. at' \in [Runs -> Stages] /\ at'[r] = stage
  BY DEF TypeOK, GoTo
<1>2. call' \in [Runs -> Call] /\ call'[r] = NoCall
  BY DEF TypeOK, GoTo, Call, NoCall
<1>3. \A q \in Runs \ {r} : call'[q] = call[q] /\ at'[q] = at[q]
  BY DEF TypeOK, GoTo
<1>4. call'[r].to <= spawned /\ ~ IsPending(r)'
  BY <1>2 DEF NoCall, IsPending, TypeOK
<1> QED
  BY <1>1, <1>2, <1>3, <1>4

(* The types of the variables that the steps of a run leave alone.            *)
LEMMA RpcTypes ==
    ASSUME TypeOK, RpcUnchanged
    PROVE  /\ kind' \in {"reasonix", "codex"}
           /\ alive' \in SUBSET (1 .. spawned')
           /\ current' \in 0 .. spawned'
           /\ spawned' \in Nat /\ spawned' = spawned
           /\ spawning' \in SUBSET Runs
           /\ dropped' \in SUBSET (1 .. spawned')
           /\ greeted' \in BOOLEAN
           /\ faults' \in 0 .. MaxFaults
           /\ UNCHANGED Processes
  BY DEF TypeOK, RpcUnchanged, ProcessUnchanged, Processes

(* A fault counts.                                                           *)
LEMMA FaultCounts ==
    ASSUME TypeOK, Fault \/ UNCHANGED faults
    PROVE  faults' \in 0 .. MaxFaults
  BY TransportAssumption DEF TypeOK, Fault

(* What is lost is a call to nobody.                                         *)
LEMMA LostFacts ==
    ASSUME NEW state \in {"error", "broken"}
    PROVE  Lost(state) \in Call /\ Lost(state).to = 0 /\ Lost(state).state = state
  BY DEF Lost, NoCall, Call

(* A run that is done keeps nothing.                                         *)
LEMMA FinishFacts ==
    ASSUME TypeOK, NEW r \in Runs, Finish(r)
    PROVE  /\ GoTo(r, "done") /\ "done" \in Stages
           /\ session' \in [Runs -> 0 .. spawned]
           /\ turn' \in [Runs -> {"none", "running", "announced", "noted"}]
           /\ repairs' \in [Runs -> 0 .. MaxRepairs]
<1>1. 0 \in 0 .. spawned /\ 0 \in 0 .. MaxRepairs
  BY TransportAssumption DEF TypeOK
<1> QED
  BY <1>1 DEF Finish, Stages, TypeOK

(* The initialization.                                                       *)
LEMMA Handshake ==
    ASSUME IInv, NEW r \in Runs,
           Begin(r) \/ Lock(r) \/ Initialized(r) \/ Confirm(r) \/ Confirmed(r)
    PROVE  IInv'
<1> USE DEF IInv
<1>1. RpcUnchanged
  BY DEF Begin, Lock, Initialized, Confirm, Confirmed
<1>2. PICK stage \in Stages : GoTo(r, stage)
  BY DEF Begin, Lock, Initialized, Confirm, Confirmed, Stages, Requests
<1>3. /\ ready' \in BOOLEAN /\ initLock' \in Runs \union {Nobody}
      /\ UNCHANGED <<session, turn, repairs, outcome>>
  BY DEF TypeOK, Begin, Lock, Initialized, Confirm, Confirmed
<1>4. TypeOK'
  BY <1>1, <1>2, <1>3, GoToFacts, RpcTypes DEF TypeOK
<1> QED
  BY <1>1, <1>2, <1>4, GoToFacts, RpcTypes, QuietStep

(* The session.                                                              *)
LEMMA Session ==
    ASSUME IInv, NEW r \in Runs, Opened(r) \/ OptionSet(r) \/ GiveUp(r)
    PROVE  IInv'
<1> USE DEF IInv
<1>1. RpcUnchanged
  BY DEF Opened, OptionSet, GiveUp
<1>2. PICK stage \in Stages : GoTo(r, stage)
  BY FinishFacts DEF Opened, OptionSet, GiveUp, Stages, Requests
<1>3. /\ session' \in [Runs -> 0 .. spawned]
      /\ turn' \in [Runs -> {"none", "running", "announced", "noted"}]
      /\ repairs' \in [Runs -> 0 .. MaxRepairs]
  <2>1. call[r].to \in 0 .. spawned
    BY DEF TypeOK, Call, CallsKnown
  <2> QED
    BY <2>1, FinishFacts DEF TypeOK, Opened, OptionSet, GiveUp
<1>4. /\ ready' \in BOOLEAN /\ initLock' \in Runs \union {Nobody}
      /\ outcome' \in [Runs -> {"none", "valid", "failed"}]
  BY DEF TypeOK, Opened, OptionSet, GiveUp, ReleasesInit
<1>5. TypeOK'
  BY <1>1, <1>2, <1>3, <1>4, GoToFacts, RpcTypes DEF TypeOK
<1> QED
  BY <1>1, <1>2, <1>5, GoToFacts, RpcTypes, QuietStep

(* What comes of the output.                                                 *)
LEMMA Output ==
    ASSUME IInv, NEW r \in Runs, Validated(r) \/ Repair(r) \/ Fail(r) \/ Closed(r)
    PROVE  IInv'
<1> USE DEF IInv
<1>1. RpcUnchanged
  BY DEF Validated, Repair, Fail, Closed
<1>2. PICK stage \in Stages : GoTo(r, stage)
  BY FinishFacts DEF Validated, Repair, Fail, Closed, Stages, Requests
<1>3. /\ session' \in [Runs -> 0 .. spawned]
      /\ turn' \in [Runs -> {"none", "running", "announced", "noted"}]
      /\ repairs' \in [Runs -> 0 .. MaxRepairs]
  <2>1. CASE Closed(r)
    BY <2>1, FinishFacts DEF Closed
  <2>2. CASE Repair(r)
    BY <2>2, TransportAssumption DEF TypeOK, Repair, MayRepair
  <2>3. CASE Validated(r) \/ Fail(r)
    BY <2>3 DEF TypeOK, Validated, Fail
  <2> QED
    BY <2>1, <2>2, <2>3
<1>4. /\ outcome' \in [Runs -> {"none", "valid", "failed"}]
      /\ UNCHANGED <<ready, initLock>>
  BY DEF TypeOK, Validated, Repair, Fail, Closed
<1>5. TypeOK'
  BY <1>1, <1>2, <1>3, <1>4, GoToFacts, RpcTypes DEF TypeOK
<1> QED
  BY <1>1, <1>2, <1>5, GoToFacts, RpcTypes, QuietStep

(* The wait for a turn, which is told at once if the turn is over.            *)
LEMMA Await ==
    ASSUME IInv, NEW r \in Runs, AwaitTurn(r)
    PROVE  IInv'
<1> USE DEF IInv
<1>1. RpcUnchanged
  BY DEF AwaitTurn
<1>2. at' \in [Runs -> Stages] /\ at'[r] = "wait"
  BY DEF AwaitTurn, TypeOK, Stages
<1>3. session[r] \in 0 .. spawned /\ spawned \in Nat
  BY DEF TypeOK
<1>4. /\ call' \in [Runs -> Call] /\ call'[r].to <= spawned
      /\ \A q \in Runs \ {r} : call'[q] = call[q]
  <2>1. CASE IsNoted(r)
    <3>1. PICK reply \in {"ok", "invalid", "error"} :
            call' = [call EXCEPT ![r] = [state |-> "result", to |-> session[r], reply |-> reply]]
      BY <2>1 DEF AwaitTurn, Ended
    <3> QED
      BY <1>3, <3>1 DEF Call, TypeOK
  <2>2. CASE ~ IsNoted(r)
    <3>1. call' = [call EXCEPT ![r] = [state |-> "sent", to |-> session[r], reply |-> "none"]]
      BY <2>2 DEF AwaitTurn
    <3> QED
      BY <1>3, <3>1 DEF Call, TypeOK
  <2> QED
    BY <2>1, <2>2
<1>5. TypeOK'
  BY <1>1, <1>2, <1>4, RpcTypes DEF TypeOK, AwaitTurn
<1>6. \A q \in Runs \ {r} : call'[q] = call[q] /\ at'[q] = at[q]
  BY <1>4 DEF AwaitTurn, TypeOK
<1> QED
  BY <1>1, <1>2, <1>4, <1>5, <1>6, RpcTypes, QuietStep DEF IsPending

(* A cancelled run waits no longer.                                          *)
LEMMA Cancellation ==
    ASSUME IInv, NEW r \in Runs, Cancel(r)
    PROVE  IInv'
<1> USE DEF IInv
<1>1. PICK stage \in Stages : GoTo(r, stage)
  BY FinishFacts DEF Cancel, Stages, Requests
<1>2. UNCHANGED Processes /\ UNCHANGED <<kind, greeted, ready>>
  BY DEF Cancel, Processes
<1>3. /\ faults' \in 0 .. MaxFaults /\ initLock' \in Runs \union {Nobody}
      /\ outcome' \in [Runs -> {"none", "valid", "failed"}]
  BY FaultCounts DEF TypeOK, Cancel, ReleasesInit
<1>5. /\ session' \in [Runs -> 0 .. spawned]
      /\ turn' \in [Runs -> {"none", "running", "announced", "noted"}]
      /\ repairs' \in [Runs -> 0 .. MaxRepairs]
  BY FinishFacts DEF Cancel, TypeOK
<1>4. TypeOK'
  BY <1>1, <1>2, <1>3, <1>5, GoToFacts DEF TypeOK, Processes
<1> QED
  BY <1>1, <1>2, <1>4, GoToFacts, QuietStep

-----------------------------------------------------------------------------
(* Calls and the process.                                                    *)

(* A call goes to the one process that is read.                               *)
LEMMA SentFacts ==
    ASSUME TypeOK, NEW r \in Runs, NEW p \in 1 .. spawned', spawned' \in Nat,
           spawned <= spawned', Sent(r, p, TRUE) \/ Sent(r, p, FALSE)
    PROVE  /\ call' \in [Runs -> Call] /\ call'[r].to = p
           /\ \A q \in Runs \ {r} : call'[q] = call[q]
<1>1. PICK state \in {"sent", "broken"} :
        call' = [call EXCEPT ![r] = [state |-> state, to |-> p, reply |-> "none"]]
  BY DEF Sent
<1>2. call' \in [Runs -> Call] /\ call'[r].to = p /\ \A q \in Runs \ {r} : call'[q] = call[q]
  BY <1>1 DEF TypeOK, Call
<1> QED
  BY <1>2

(* Who spawns is alone, and finds no process.                                *)
LEMMA SpawnStep ==
    ASSUME IInv, NEW r \in Runs, Spawn(r)
    PROVE  IInv'
<1> USE DEF IInv, Spawn, ProcessUnchanged
<1>1. TypeOK' /\ CallsKnown'
  BY DEF TypeOK, CallsKnown
<1>2. SpawnsAlone' /\ OneIsSpawned' /\ CallsAreWatched'
  BY DEF SpawnsAlone, OneAtATime, OneIsSpawned, CallsAreWatched, IsPending
<1> QED
  BY <1>1, <1>2

(* The new process is the only one besides the dropped ones.                  *)
LEMMA SpawnedStep ==
    ASSUME IInv, NEW r \in Runs, Spawned(r)
    PROVE  IInv'
<1> USE DEF IInv, Spawned
<1>1. /\ spawned' \in Nat /\ spawned' = spawned + 1 /\ spawned + 1 \in 1 .. spawned'
      /\ spawned <= spawned'
  <2>1. spawned \in Nat /\ spawned' = spawned + 1
    BY DEF TypeOK
  <2> HIDE DEF IInv, Spawned
  <2> QED
    BY <2>1
<1>sent. Sent(r, spawned + 1, TRUE)
  OBVIOUS
<1>2. /\ call' \in [Runs -> Call] /\ call'[r].to = spawned + 1
      /\ \A q \in Runs \ {r} : call'[q] = call[q]
  BY <1>1, <1>sent, SentFacts
<1>3. current = 0 /\ spawning' = {}
  BY DEF SpawnsAlone
<1>4. alive' \subseteq {current'} \union dropped' /\ dropped' = dropped
  BY <1>3, NoneAlive
<1>5. TypeOK'
  <2>1. session' \in [Runs -> 0 .. spawned'] /\ current' \in 0 .. spawned'
    BY <1>1 DEF TypeOK
  <2>2. 1 .. spawned \subseteq 1 .. spawned'
    BY <1>1 DEF TypeOK
  <2>3. /\ alive' \in SUBSET (1 .. spawned') /\ dropped' \in SUBSET (1 .. spawned')
        /\ spawning' \in SUBSET Runs /\ greeted' \in BOOLEAN
    BY <1>1, <1>3, <1>4, <2>2 DEF TypeOK
  <2> QED
    BY <1>1, <1>2, <2>1, <2>3 DEF TypeOK
<1>6. SpawnsAlone' /\ OneIsSpawned'
  BY <1>3, <1>4 DEF SpawnsAlone, OneIsSpawned
<1>7. CallsKnown'
  BY <1>1, <1>2 DEF CallsKnown, TypeOK, Call
<1>8. CallsAreWatched'
  BY <1>1, <1>2, <1>3, NonePending DEF CallsAreWatched, IsPending, TypeOK
<1> QED
  BY <1>5, <1>6, <1>7, <1>8

(* Who could not spawn has lost the call.                                    *)
LEMMA SpawnFailsStep ==
    ASSUME IInv, NEW r \in Runs, SpawnFails(r)
    PROVE  IInv'
<1> USE DEF IInv, SpawnFails
<1>1. PICK state \in {"error", "broken"} : call' = [call EXCEPT ![r] = Lost(state)]
  OBVIOUS
<1>2. /\ call' \in [Runs -> Call] /\ call'[r] = Lost(state)
      /\ \A q \in Runs \ {r} : call'[q] = call[q]
  BY <1>1, LostFacts DEF TypeOK
<1>3. TypeOK'
  BY <1>2, FaultCounts DEF TypeOK
<1>4. SpawnsAlone' /\ OneIsSpawned'
  BY DEF SpawnsAlone, OneIsSpawned
<1>5. CallsKnown' /\ CallsAreWatched'
  BY <1>2, LostFacts DEF CallsKnown, CallsAreWatched, IsPending, TypeOK
<1> QED
  BY <1>3, <1>4, <1>5

(* A request to the process that is read, which may have gone.                *)
LEMMA SendStep ==
    ASSUME IInv, NEW r \in Runs, Send(r)
    PROVE  IInv'
<1> USE DEF IInv, Send, ProcessUnchanged
<1>1. spawned' = spawned /\ spawned' \in Nat /\ current \in 1 .. spawned' /\ spawned <= spawned'
  BY DEF TypeOK
<1>sent. Sent(r, current, TRUE) \/ Sent(r, current, FALSE)
  <2>1. CASE current \in alive
    BY <2>1 DEF Sent
  <2>2. CASE current \notin alive
    BY <2>2 DEF Sent
  <2> QED
    BY <2>1, <2>2
<1>2. /\ call' \in [Runs -> Call] /\ call'[r].to = current
      /\ \A q \in Runs \ {r} : call'[q] = call[q]
  BY <1>1, <1>sent, SentFacts
<1>3. TypeOK'
  BY <1>1, <1>2 DEF TypeOK
<1>4. SpawnsAlone' /\ OneIsSpawned' /\ CallsKnown'
  BY <1>1, <1>2 DEF SpawnsAlone, OneIsSpawned, CallsKnown
<1>5. CallsAreWatched'
  BY <1>1, <1>2 DEF CallsAreWatched, IsPending
<1> QED
  BY <1>3, <1>4, <1>5

(* The process answers what was sent to it.                                  *)
LEMMA ProcessSteps ==
    ASSUME IInv, NEW r \in Runs, ProcessStep(r)
    PROVE  IInv'
<1> USE DEF IInv, ProcessUnchanged
<1>1. CASE Reply(r)
  <2>1. PICK reply \in {"ok", "invalid", "error"} :
          call' = [call EXCEPT ![r].state = "replied", ![r].reply = reply]
    BY <1>1 DEF Reply, MayReply
  <2>2. call' \in [Runs -> Call]
    BY <2>1 DEF TypeOK, Call
  <2>3. \A q \in Runs : /\ call'[q].to = call[q].to
                        /\ call'[q].state \in {"sent", "replied"} => 
                             call[q].state \in {"sent", "replied"}
    BY <1>1, <2>1 DEF TypeOK, Call, Reply
  <2>4. TypeOK'
    BY <1>1, <2>2 DEF TypeOK, Reply
  <2> QED
    BY <1>1, <2>3, <2>4 DEF Reply, SpawnsAlone, OneIsSpawned, CallsKnown, CallsAreWatched, IsPending
<1>2. CASE EndTurn(r)
  BY <1>2 DEF EndTurn, TypeOK, SpawnsAlone, OneIsSpawned, CallsKnown, CallsAreWatched, IsPending
<1> QED
  BY <1>1, <1>2 DEF ProcessStep

(* An exit is not seen before the end of file.                               *)
LEMMA ExitStep ==
    ASSUME IInv, Exit
    PROVE  IInv'
<1> USE DEF IInv, Exit
<1>1. TypeOK'
  BY FaultCounts DEF TypeOK
<1>2. SpawnsAlone' /\ OneIsSpawned' /\ CallsKnown' /\ CallsAreWatched'
  BY DEF SpawnsAlone, OneIsSpawned, CallsKnown, CallsAreWatched, IsPending
<1> QED
  BY <1>1, <1>2

-----------------------------------------------------------------------------
(* The reader and the clock.                                                 *)

LEMMA ReadReplyStep ==
    ASSUME IInv, NEW r \in Runs, ReadReply(r)
    PROVE  IInv'
<1> USE DEF IInv, ReadReply, ProcessUnchanged
<1>1. call' \in [Runs -> Call]
  BY DEF TypeOK, Call
<1>2. \A q \in Runs \ {r} : call'[q] = call[q]
  BY DEF TypeOK
<1>3. call'[r].to = call[r].to /\ call'[r].state = "result"
  BY DEF TypeOK, Call
<1>4. TypeOK'
  BY <1>1 DEF TypeOK
<1>5. call'[r].to <= spawned /\ ~ IsPending(r)'
  BY <1>3 DEF CallsKnown, IsPending
<1> QED
  BY <1>2, <1>4, <1>5, QuietStep DEF Processes

(* The end of a turn, with or without a waiter.                              *)
LEMMA ReadTurnStep ==
    ASSUME IInv, NEW r \in Runs, ReadTurn(r)
    PROVE  IInv'
<1> USE DEF IInv, ProcessUnchanged
<1>1. /\ UNCHANGED <<kind, alive, dropped, spawned, faults>>
      /\ UNCHANGED <<current, spawning, ready, greeted, initLock, at, session, repairs, outcome>>
      /\ turn' \in [Runs -> {"none", "running", "announced", "noted"}]
  BY DEF ReadTurn, TypeOK
<1>2. CASE at[r] = "wait" /\ call[r].state = "sent"
  <2>1. PICK reply \in {"ok", "invalid", "error"} :
          call' = [call EXCEPT ![r] = [state |-> "result", to |-> session[r], reply |-> reply]]
    BY <1>2 DEF ReadTurn, Ended
  <2>2. call' \in [Runs -> Call]
    BY <2>1 DEF TypeOK, Call
  <2>3. TypeOK'
    BY <1>1, <2>2 DEF TypeOK
  <2>4. \A q \in Runs \ {r} : call'[q] = call[q]
    BY <2>1 DEF TypeOK
  <2>5. call'[r].to <= spawned /\ ~ IsPending(r)'
    BY <2>1 DEF TypeOK, IsPending
  <2> QED
    BY <1>1, <2>3, <2>4, <2>5, QuietStep DEF Processes
<1>3. CASE ~ (at[r] = "wait" /\ call[r].state = "sent")
  <2>1. call' = call
    BY <1>3 DEF ReadTurn
  <2> QED
    BY <1>1, <2>1 DEF TypeOK, SpawnsAlone, OneIsSpawned, CallsKnown, CallsAreWatched, IsPending
<1> QED
  BY <1>2, <1>3

(* After the end of file no call is pending: those that were sent fail, those  *)
(* that were answered have been read.                                        *)
LEMMA ReadEofStep ==
    ASSUME IInv, ReadEof
    PROVE  IInv'
<1> USE DEF IInv, ReadEof, ProcessUnchanged
<1>1. call' \in [Runs -> Call]
  BY LostFacts DEF TypeOK
<1>2. \A r \in Runs : /\ call'[r].to <= spawned
                      /\ call'[r].state # "sent"
                      /\ call'[r].state = "replied" => call[r].state = "replied"
  BY LostFacts DEF TypeOK, CallsKnown, FailsAtEof
<1>3. alive \subseteq dropped /\ spawning = {}
  BY DEF OneIsSpawned, SpawnsAlone
<1>4. TypeOK'
  <2>1. spawned \in Nat /\ UNCHANGED spawned /\ current' = 0
    BY DEF TypeOK
  <2>2. current' \in 0 .. spawned'
    BY <2>1
  <2>3. ready' \in BOOLEAN
    OBVIOUS
  <2> QED
    BY <1>1, <2>2, <2>3 DEF TypeOK
<1>5. SpawnsAlone' /\ OneIsSpawned' /\ CallsKnown'
  BY <1>2, <1>3 DEF SpawnsAlone, OneIsSpawned, CallsKnown
<1>6. CallsAreWatched'
  BY <1>2 DEF CallsAreWatched, IsPending
<1> QED
  BY <1>4, <1>5, <1>6

(* When the reader fails, every call is lost, answered or not; the process     *)
(* joins the dropped ones.                                                   *)
LEMMA ReaderFailsStep ==
    ASSUME IInv, ReaderFails
    PROVE  IInv'
<1> USE DEF IInv, ReaderFails
<1>1. call' \in [Runs -> Call]
  BY LostFacts DEF TypeOK
<1>2. \A r \in Runs : call'[r].to <= spawned /\ call'[r].state \notin {"sent", "replied"}
  BY LostFacts DEF TypeOK, CallsKnown
<1>3. /\ current' \in 0 .. spawned' /\ dropped' \in SUBSET (1 .. spawned')
      /\ ready' \in BOOLEAN /\ spawning = {}
  <2>1. spawned \in Nat /\ spawned' = spawned /\ current' = 0 /\ current \in 0 .. spawned
    BY DEF TypeOK
  <2>2. 0 \in 0 .. spawned' /\ current \in 1 .. spawned'
    BY <2>1
  <2> QED
    BY <2>1, <2>2 DEF TypeOK, SpawnsAlone
<1>4. TypeOK'
  BY <1>1, <1>3, FaultCounts DEF TypeOK
<1>5. SpawnsAlone' /\ OneIsSpawned' /\ CallsKnown'
  BY <1>2, <1>3 DEF SpawnsAlone, OneIsSpawned, CallsKnown
<1>6. CallsAreWatched'
  BY <1>2 DEF CallsAreWatched, IsPending
<1> QED
  BY <1>4, <1>5, <1>6

(* Who timed out waits no longer.                                            *)
LEMMA TimeOutStep ==
    ASSUME IInv, NEW r \in Runs, TimeOut(r)
    PROVE  IInv'
<1> USE DEF IInv, TimeOut
<1>1. call' \in [Runs -> Call]
  BY LostFacts DEF TypeOK
<1>2. \A q \in Runs \ {r} : call'[q] = call[q]
  BY DEF TypeOK
<1>3. call'[r].to = 0 /\ call'[r].state = "error"
  BY LostFacts DEF TypeOK
<1>4. faults' \in 0 .. MaxFaults
  BY FaultCounts
<1>5. TypeOK'
  BY <1>1, <1>4 DEF TypeOK
<1>6. call'[r].to <= spawned /\ ~ IsPending(r)'
  BY <1>3 DEF TypeOK, IsPending
<1> QED
  BY <1>2, <1>5, <1>6, QuietStep DEF Processes

-----------------------------------------------------------------------------
(* Every step keeps the invariant.                                           *)
LEMMA NextIInv == IInv /\ [Next]_vars => IInv'
<1> SUFFICES ASSUME IInv, [Next]_vars PROVE IInv'
  OBVIOUS
<1>1. ASSUME NEW r \in Runs, Begin(r) \/ RunStep(r) PROVE IInv'
  BY <1>1, Handshake, Session, Output, Await, SpawnStep, SpawnedStep, SendStep DEF RunStep
<1>2. ASSUME NEW r \in Runs, ProcessStep(r) \/ SpawnFails(r) \/ TimeOut(r) \/ Cancel(r)
      PROVE  IInv'
  BY <1>2, ProcessSteps, SpawnFailsStep, TimeOutStep, Cancellation
<1>3. CASE Exit
  BY <1>3, ExitStep
<1>4. CASE ReaderStep \/ ReaderFails
  BY <1>4, ReadReplyStep, ReadTurnStep, ReadEofStep, ReaderFailsStep DEF ReaderStep
<1>5. CASE UNCHANGED vars
  BY <1>5 DEF vars, IInv, TypeOK, SpawnsAlone, OneIsSpawned, CallsKnown, CallsAreWatched, IsPending
<1> QED
  BY <1>1, <1>2, <1>3, <1>4, <1>5 DEF Next

(* So the invariant holds throughout.                                        *)
LEMMA Invariance == Spec => []IInv
  BY InitIInv, NextIInv, PTL DEF Spec

(* Every variable keeps its type, in either executor.                         *)
THEOREM TypeCorrect == Spec => []TypeOK
<1>1. IInv => TypeOK
  BY DEF IInv
<1> QED
  BY Invariance, <1>1, PTL

(* However many runs find that the process is gone, one of them replaces it:   *)
(* besides the process that is read, only those run whose reader has failed.    *)
THEOREM OneIsSpawnedAtATime == Spec => []OneIsSpawned
<1>1. IInv => OneIsSpawned
  BY DEF IInv
<1> QED
  BY Invariance, <1>1, PTL

(* The end of the reader fails every call that is pending: none was sent to    *)
(* another process than the one that is read.                                 *)
THEOREM NobodyHangs == Spec => []CallsAreWatched
<1>1. IInv => CallsAreWatched
  BY DEF IInv
<1> QED
  BY Invariance, <1>1, PTL
=============================================================================
