------------------------------- MODULE Outbox -------------------------------
(***************************************************************************)
(* The transactional outbox: the repository of persistence/outbox.py and    *)
(* the sender of scheduler/outbox_sender.py, over a platform that may fail, *)
(* or show a message and lose the answer.                                   *)
(*                                                                         *)
(* A sender lists the due rows, claims them one by one (each claim bumps    *)
(* `attempts`, the fencing token of everything the claimant does later) and *)
(* awaits the delivery with nothing locked.  A claim is a lease of 60       *)
(* seconds; a row whose claimant died is due again when it lapses.          *)
(*                                                                         *)
(* The messages are decision cards, and the in-place updates that close the *)
(* card of an answered decision (handlers._enqueue_decision_card_update).   *)
(* The service runs one sender; outbox.py is written for several.           *)
(***************************************************************************)
EXTENDS Naturals, FiniteSets

CONSTANTS Decisions,   \* the decisions that get a card
          Senders,     \* concurrent OutboxSenders
          NoKey,       \* what an idle sender delivers
          MaxAttempts, \* max_attempts of a row
          MaxLapses,   \* bound: claims that lapse under a live claimant
          MaxAborts    \* bound: senders killed, or stopped by an exception

Keys == Decisions \X {"card", "update"}

ASSUME OutboxAssumption ==
    /\ NoKey \notin Keys
    /\ MaxAttempts \in Nat \ {0}
    /\ MaxLapses \in Nat
    /\ MaxAborts \in Nat

RowStatus == {"none", "PENDING", "IN_FLIGHT", "SENT", "DEAD"}
Final == {"SENT", "DEAD"}

VARIABLES
    row,      \* [status, attempts, due: next_attempt_at is NULL or past]
    handle,   \* the decisions whose report row has a platform_message_id
    answered, \* the decisions that were answered
    shown,    \* what the platform shows (external)
    listed,   \* the rows a sender listed and has not visited, with their attempts
    snd,      \* [at, key, attempts: claimed_attempts, mid: delivery_id is not empty]
    lapses, aborts

vars == <<row, handle, answered, shown, listed, snd, lapses, aborts>>

Idle == [at |-> "idle", key |-> NoKey, attempts |-> 0, mid |-> FALSE]

TypeOK ==
    /\ row \in [Keys -> [status: RowStatus, attempts: Nat, due: BOOLEAN]]
    /\ handle \in SUBSET Decisions
    /\ answered \in SUBSET Decisions
    /\ shown \in SUBSET Keys
    /\ listed \in [Senders -> SUBSET (Keys \X Nat)]
    /\ snd \in [Senders -> [at: {"idle", "visit", "deliver", "ok", "fail"},
                            key: Keys \union {NoKey}, attempts: Nat, mid: BOOLEAN]]
    /\ lapses \in Nat
    /\ aborts \in Nat

Init ==
    /\ row = [k \in Keys |-> [status |-> "none", attempts |-> 0, due |-> TRUE]]
    /\ handle = {}
    /\ answered = {}
    /\ shown = {}
    /\ listed = [s \in Senders |-> {}]
    /\ snd = [s \in Senders |-> Idle]
    /\ lapses = 0
    /\ aborts = 0

-----------------------------------------------------------------------------
(* OutboxRepo.                                                             *)

NeverClaimed(k) == row[k].status = "PENDING" /\ row[k].due
Pending(k) == row[k].status \in {"PENDING", "IN_FLIGHT"} /\ row[k].due

(* claim: only the generation that was listed, due again or not in flight.  *)
NotFinal(k, attempts) == row[k].status \in {"PENDING", "IN_FLIGHT"} /\ row[k].due
CanClaim(k, attempts) ==
    /\ row[k].attempts = attempts
    /\ \/ row[k].status = "PENDING"
       \/ row[k].status = "IN_FLIGHT" /\ row[k].due

(* mark_sent, mark_dead, backoff: only the current claimant of an in-flight row. *)
Reclaimed(k, attempts) == row[k].attempts >= attempts
Owns(k, attempts) == row[k].status = "IN_FLIGHT" /\ row[k].attempts = attempts

Enqueue(k) ==
    /\ row[k].status = "none"
    /\ row' = [row EXCEPT ![k].status = "PENDING"]

(* Time: a retry time arrives, or a claim lapses; `lapses` counts the claims *)
(* that lapse although their claimant lives.                                 *)
Held(k) == \E s \in Senders :
              snd[s].key = k /\ snd[s].attempts = row[k].attempts /\ snd[s].at # "visit"

ComeDue(k) ==
    /\ row[k].status \in {"PENDING", "IN_FLIGHT"}
    /\ ~ row[k].due
    /\ IF row[k].status = "IN_FLIGHT" /\ Held(k)
       THEN lapses < MaxLapses /\ lapses' = lapses + 1
       ELSE lapses' = lapses
    /\ row' = [row EXCEPT ![k].due = TRUE]
    /\ UNCHANGED <<handle, answered, shown, listed, snd, aborts>>

-----------------------------------------------------------------------------
(* The writers.                                                            *)

(* The reporter compiles the card of a new decision and enqueues it.        *)
SendCard(d) ==
    /\ Enqueue(<<d, "card">>)
    /\ UNCHANGED <<handle, answered, shown, listed, snd, lapses, aborts>>

(* The decision is answered, over the API or by a button of the card; the    *)
(* card is updated if its report row has a handle, otherwise nothing is.     *)
Answer(d) ==
    /\ row[<<d, "card">>].status # "none"
    /\ d \notin answered
    /\ answered' = answered \union {d}
    /\ IF d \in handle THEN Enqueue(<<d, "update">>) ELSE row' = row
    /\ UNCHANGED <<handle, shown, listed, snd, lapses, aborts>>

-----------------------------------------------------------------------------
(* send_pending of sender s.                                               *)

SenderUnchanged == UNCHANGED <<answered, lapses, aborts>>

List(s) ==
    /\ snd[s].at = "idle"
    /\ \E k \in Keys : Pending(k)
    /\ listed' = [listed EXCEPT ![s] = {<<k, row[k].attempts>> : k \in {k \in Keys : Pending(k)}}]
    /\ snd' = [snd EXCEPT ![s].at = "visit"]
    /\ UNCHANGED <<row, handle, shown>>
    /\ SenderUnchanged

(* A row that was claimed by another sender meanwhile is passed over.       *)
Claim(s, k, attempts) ==
    /\ snd[s].at = "visit"
    /\ <<k, attempts>> \in listed[s]
    /\ listed' = [listed EXCEPT ![s] = @ \ {<<k, attempts>>}]
    /\ IF CanClaim(k, attempts)
       THEN /\ row' = [row EXCEPT ![k] = [status |-> "IN_FLIGHT", attempts |-> attempts + 1,
                                          due |-> FALSE]]
            /\ snd' = [snd EXCEPT ![s] = [at |-> "deliver", key |-> k,
                                          attempts |-> attempts + 1, mid |-> FALSE]]
       ELSE UNCHANGED <<row, snd>>
    /\ UNCHANGED <<handle, shown>>
    /\ SenderUnchanged

(* The platform shows the message and answers (a card usually with its id).  *)
(* It deduplicates cards on the idempotency key; an update overwrites.       *)
Delivered(s, mid) ==
    /\ snd[s].at = "deliver"
    /\ shown' = shown \union {snd[s].key}
    /\ snd' = [snd EXCEPT ![s].at = "ok", ![s].mid = mid]
    /\ UNCHANGED <<row, handle, listed>>
    /\ SenderUnchanged

(* deliver raises: refused, or shown with the answer lost.                   *)
DeliverFails(s) ==
    /\ snd[s].at = "deliver"
    /\ \/ shown' = shown
       \/ shown' = shown \union {snd[s].key}
    /\ snd' = [snd EXCEPT ![s].at = "fail"]
    /\ UNCHANGED <<row, handle, listed>>
    /\ SenderUnchanged

BackToList(s) == snd' = [snd EXCEPT ![s] = [Idle EXCEPT !.at = "visit"]]

(* mark_sent and the write-back of the handle, in one transaction.           *)
FinishSent(s) ==
    /\ snd[s].at = "ok"
    /\ LET k == snd[s].key
       IN IF Owns(k, snd[s].attempts)
          THEN /\ row' = [row EXCEPT ![k].status = "SENT"]
               /\ handle' = IF snd[s].mid /\ k[2] = "card" THEN handle \union {k[1]} ELSE handle
          ELSE UNCHANGED <<row, handle>>
    /\ BackToList(s)
    /\ UNCHANGED <<shown, listed>>
    /\ SenderUnchanged

(* mark_dead after max_attempts, backoff before.                             *)
Exhausted(attempts) == attempts >= MaxAttempts

NamesOfAttempts(attempts) == IF Exhausted(attempts) THEN "DEAD" ELSE "FAILED"
AfterFailure(attempts) == IF Exhausted(attempts) THEN "DEAD" ELSE "PENDING"

FinishFailed(s) ==
    /\ snd[s].at = "fail"
    /\ LET k == snd[s].key
       IN IF Owns(k, snd[s].attempts)
          THEN row' = [row EXCEPT ![k].status = AfterFailure(row[k].attempts)]
          ELSE row' = row
    /\ BackToList(s)
    /\ UNCHANGED <<handle, shown, listed>>
    /\ SenderUnchanged

EndList(s) ==
    /\ snd[s].at = "visit"
    /\ listed[s] = {}
    /\ snd' = [snd EXCEPT ![s] = Idle]
    /\ UNCHANGED <<row, handle, shown, listed>>
    /\ SenderUnchanged

(* The process is killed, or a transaction raises and ends the tick: what    *)
(* was claimed stays in flight until its lease lapses.                       *)
Abort(s) ==
    /\ snd[s].at # "idle"
    /\ aborts < MaxAborts
    /\ aborts' = aborts + 1
    /\ snd' = [snd EXCEPT ![s] = Idle]
    /\ listed' = [listed EXCEPT ![s] = {}]
    /\ UNCHANGED <<row, handle, answered, shown, lapses>>

SenderStep(s) ==
    \/ List(s)
    \/ \E k \in Keys : \E a \in 0 .. row[k].attempts : Claim(s, k, a)
    \/ \E mid \in BOOLEAN : Delivered(s, mid)
    \/ DeliverFails(s)
    \/ FinishSent(s)
    \/ FinishFailed(s)
    \/ EndList(s)

Next ==
    \/ \E d \in Decisions : SendCard(d) \/ Answer(d)
    \/ \E k \in Keys : ComeDue(k)
    \/ \E s \in Senders : SenderStep(s) \/ Abort(s)

Spec == Init /\ [][Next]_vars

-----------------------------------------------------------------------------
(* Safety.                                                                 *)

(* claim: "the attempts condition makes concurrent claims mutually           *)
(* exclusive": a generation of a row belongs to one claimant, so at most one  *)
(* of the senders that deliver a row can settle it.                          *)
OneClaimant ==
    \A s, u \in Senders :
        /\ snd[s].at \in {"deliver", "ok", "fail"} /\ snd[u].at \in {"deliver", "ok", "fail"}
        /\ snd[s].key = snd[u].key /\ snd[s].attempts = snd[u].attempts
        => s = u

(* What makes the promise hold: a sender that finishes with success finished  *)
(* a delivery, and a claim never runs ahead of its row.                       *)
Busy == {"deliver", "ok", "fail"}

Fenced == \A s \in Senders :
    snd[s].at \in Busy => /\ snd[s].key \in Keys
                          /\ row[snd[s].key].status # "none"
                          /\ snd[s].attempts <= row[snd[s].key].attempts

OkIsShown == \A s \in Senders : snd[s].at = "ok" => snd[s].key \in shown
SentIsShown == \A k \in Keys : row[k].status = "SENT" => k \in shown

(* The outbox implements the promise: SENT only what the platform shows, and  *)
(* SENT and DEAD final, whatever claimants lapse, die or come late.           *)
StateOf(st) ==
    CASE st \in {"PENDING", "IN_FLIGHT"} -> "queued"
      [] st = "SENT" -> "sent"
      [] st = "DEAD" -> "dead"
      [] OTHER -> "none"

Promise == INSTANCE Delivery WITH state <- [k \in Keys |-> StateOf(row[k].status)]

KeepsPromise == Promise!Spec

-----------------------------------------------------------------------------
(* Liveness.                                                               *)

(* Every tick runs send_pending, each delivery returns or times out, and time *)
(* passes.                                                                    *)
Fairness ==
    /\ \A s \in Senders : WF_vars(SenderStep(s))
    /\ \A k \in Keys : WF_vars(ComeDue(k))

FairSpec == Spec /\ Fairness

(* A message that was committed is settled, over kills and lost answers:      *)
(* shown and closed, or dead-lettered.                                        *)
EverySettled == \A k \in Keys : (row[k].status = "PENDING") ~> (row[k].status \in Final)

=============================================================================
