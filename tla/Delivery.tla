------------------------------ MODULE Delivery ------------------------------
(***************************************************************************)
(* What the outbox promises of a message (IMPLEMENTATION.md, requirements   *)
(* on events and outbox): a queued message is closed as sent only once the  *)
(* platform shows it, it may be given up as dead, and either is final; what *)
(* the platform shows is never taken back.                                  *)
(***************************************************************************)
CONSTANT Keys

VARIABLES
    state,  \* of each message: "none", "queued", "sent" or "dead"
    shown   \* the messages the platform shows

Init == state = [k \in Keys |-> "none"] /\ shown = {}

Queue(k) == state[k] = "none" /\ state' = [state EXCEPT ![k] = "queued"] /\ UNCHANGED shown

(* A dead message can still appear: the claimant that gave it up may have    *)
(* been outlived by an earlier one, still delivering.                        *)
Show(k) == state[k] \in {"queued", "dead"} /\ shown' = shown \union {k} /\ UNCHANGED state

Close(k) ==
    /\ state[k] = "queued" /\ k \in shown
    /\ state' = [state EXCEPT ![k] = "sent"]
    /\ UNCHANGED shown

GiveUp(k) == state[k] = "queued" /\ state' = [state EXCEPT ![k] = "dead"] /\ UNCHANGED shown

Next == \E k \in Keys : Queue(k) \/ Show(k) \/ Close(k) \/ GiveUp(k)

vars == <<state, shown>>

Spec == Init /\ [][Next]_vars

=============================================================================
