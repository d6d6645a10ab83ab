---------------------------- MODULE OutboxProofs ----------------------------
(***************************************************************************)
(* Proofs about Outbox, for every number of decisions and senders and every *)
(* bound.  The invariant says that claims are fenced: a claimant's attempts *)
(* never exceed its row's, so the next claim gets a number no one holds.    *)
(***************************************************************************)
EXTENDS Outbox, TLAPS

Inv == TypeOK /\ Fenced /\ OneClaimant /\ OkIsShown /\ SentIsShown

(* The steps that only change rows and the writers' state keep the claims:   *)
(* no row loses its attempts, returns to "none" or becomes SENT.              *)
RowsGrow ==
    /\ row' \in [Keys -> [status: RowStatus, attempts: Nat, due: BOOLEAN]]
    /\ \A k \in Keys : /\ row'[k].attempts = row[k].attempts
                       /\ row[k].status # "none" => row'[k].status # "none"
                       /\ row'[k].status = "SENT" => row[k].status = "SENT"

LEMMA Initially == Init => Inv
  BY DEF Init, Inv, TypeOK, Fenced, OneClaimant, OkIsShown, SentIsShown, Idle, Busy,
         RowStatus, OutboxAssumption

LEMMA EnqueueGrows ==
  ASSUME row \in [Keys -> [status: RowStatus, attempts: Nat, due: BOOLEAN]],
         NEW k \in Keys, Enqueue(k)
  PROVE  RowsGrow
  <1> DEFINE r == [row[k] EXCEPT !.status = "PENDING"]
  <1>1. row[k] \in [status: RowStatus, attempts: Nat, due: BOOLEAN]
    OBVIOUS
  <1>2. /\ r \in [status: RowStatus, attempts: Nat, due: BOOLEAN]
        /\ r.attempts = row[k].attempts /\ r.status = "PENDING"
    BY <1>1 DEF RowStatus
  <1>3. row' = [row EXCEPT ![k] = r]
    BY DEF Enqueue
  <1> HIDE DEF r
  <1>4. row'[k] = r /\ \A j \in Keys : j # k => row'[j] = row[j]
    BY <1>3
  <1>5. row' \in [Keys -> [status: RowStatus, attempts: Nat, due: BOOLEAN]]
    BY <1>2, <1>3
  <1>6. QED
    BY <1>2, <1>4, <1>5 DEF RowsGrow, Enqueue

LEMMA WritersKeepClaims ==
  ASSUME Inv, RowsGrow, UNCHANGED <<shown, listed, snd>>,
         handle' \in SUBSET Decisions, answered' \in SUBSET Decisions,
         lapses' \in Nat, aborts' \in Nat
  PROVE  Inv'
  <1>1. TypeOK'
    BY DEF Inv, TypeOK, RowsGrow
  <1>2. Fenced'
    BY DEF Inv, Fenced, RowsGrow
  <1>3. OneClaimant' /\ OkIsShown' /\ SentIsShown'
    BY DEF Inv, OneClaimant, OkIsShown, SentIsShown, RowsGrow
  <1>4. QED
    BY <1>1, <1>2, <1>3 DEF Inv

(* A sender that goes back to its list, or is stopped, leaves no claim.      *)
LEMMA SenderLeaves ==
  ASSUME Inv, NEW s \in Senders, NEW at \in {"idle", "visit"},
         snd' = [snd EXCEPT ![s] = [Idle EXCEPT !.at = at]],
         row' \in [Keys -> [status: RowStatus, attempts: Nat, due: BOOLEAN]],
         \A k \in Keys : /\ row'[k].attempts = row[k].attempts
                         /\ row[k].status # "none" => row'[k].status # "none",
         UNCHANGED shown
  PROVE  Fenced' /\ OneClaimant' /\ OkIsShown'
  <1>1. snd'[s].at \notin Busy
    BY DEF Inv, TypeOK, Idle, Busy
  <1>2. \A u \in Senders : u # s => snd'[u] = snd[u]
    BY DEF Inv, TypeOK
  <1>3. ASSUME NEW u \in Senders, snd'[u].at \in Busy
        PROVE  /\ snd'[u].key \in Keys
               /\ row'[snd'[u].key].status # "none"
               /\ snd'[u].attempts <= row'[snd'[u].key].attempts
    <2>1. snd'[u] = snd[u]
      BY <1>1, <1>2, <1>3
    <2>2. QED
      BY <1>3, <2>1 DEF Inv, Fenced
  <1>4. OneClaimant' /\ OkIsShown'
    BY <1>1, <1>2 DEF Inv, OneClaimant, OkIsShown, Busy
  <1>5. QED
    BY <1>3, <1>4 DEF Fenced

LEMMA ListKeepsInv ==
  ASSUME Inv, NEW s \in Senders, List(s)
  PROVE  Inv'
  <1> DEFINE due == {<<k, row[k].attempts>> : k \in {k \in Keys : Pending(k)}}
  <1>0. due \in SUBSET (Keys \X Nat)
    BY DEF Inv, TypeOK
  <1>a. /\ listed' = [listed EXCEPT ![s] = due]
        /\ snd' = [snd EXCEPT ![s].at = "visit"]
        /\ UNCHANGED <<row, handle, shown, answered, lapses, aborts>>
    BY DEF List, SenderUnchanged
  <1> HIDE DEF due
  <1>b. listed' \in [Senders -> SUBSET (Keys \X Nat)]
    BY <1>0, <1>a DEF Inv, TypeOK
  <1>1. TypeOK'
    BY <1>a, <1>b DEF Inv, TypeOK
  <1>2. \A u \in Senders : snd'[u].at \in Busy => snd'[u] = snd[u]
    BY DEF Inv, TypeOK, List, Busy
  <1>3. Fenced' /\ OneClaimant' /\ OkIsShown' /\ SentIsShown'
    BY <1>2 DEF Inv, Fenced, OneClaimant, OkIsShown, SentIsShown, List, Busy
  <1>4. QED
    BY <1>1, <1>3 DEF Inv

LEMMA ClaimKeepsInv ==
  ASSUME Inv, NEW s \in Senders, NEW k \in Keys, NEW a \in Nat, Claim(s, k, a)
  PROVE  Inv'
  <1>1. listed' \in [Senders -> SUBSET (Keys \X Nat)]
    BY DEF Inv, TypeOK, Claim
  <1>2. CASE CanClaim(k, a)
    <2>1. /\ row' = [row EXCEPT ![k] = [status |-> "IN_FLIGHT", attempts |-> a + 1, due |-> FALSE]]
          /\ snd' = [snd EXCEPT ![s] = [at |-> "deliver", key |-> k, attempts |-> a + 1,
                                        mid |-> FALSE]]
          /\ UNCHANGED <<handle, shown, answered, lapses, aborts>>
      BY <1>2 DEF Claim, SenderUnchanged
    <2>2. row[k].attempts = a /\ row[k].status \in {"PENDING", "IN_FLIGHT"}
      BY <1>2 DEF CanClaim
    <2>3. TypeOK'
      BY <1>1, <2>1 DEF Inv, TypeOK, RowStatus
    <2>4. snd'[s] = [at |-> "deliver", key |-> k, attempts |-> a + 1, mid |-> FALSE]
      BY <2>1 DEF Inv, TypeOK
    <2>5. \A u \in Senders : u # s => snd'[u] = snd[u]
      BY <2>1 DEF Inv, TypeOK
    <2>6. row'[k].attempts = a + 1 /\ row'[k].status = "IN_FLIGHT"
      BY <2>1 DEF Inv, TypeOK
    <2>7. \A j \in Keys : j # k => row'[j] = row[j]
      BY <2>1 DEF Inv, TypeOK
    <2>8. \A u \in Senders : snd[u].at \in Busy /\ snd[u].key = k => snd[u].attempts <= a
      BY <2>2 DEF Inv, Fenced
    <2>9. \A u \in Senders : snd[u].attempts \in Nat
      BY DEF Inv, TypeOK
    <2>10. Fenced'
      BY <2>4, <2>5, <2>6, <2>7, <2>8, <2>9 DEF Inv, Fenced
    <2>11. OneClaimant'
      BY <2>4, <2>5, <2>8, <2>9 DEF Inv, OneClaimant, Busy
    <2>12. OkIsShown' /\ SentIsShown'
      BY <2>1, <2>4, <2>5, <2>6, <2>7 DEF Inv, OkIsShown, SentIsShown
    <2>13. QED
      BY <2>3, <2>10, <2>11, <2>12 DEF Inv
  <1>3. CASE ~ CanClaim(k, a)
    <2>1. UNCHANGED <<row, snd, handle, shown, answered, lapses, aborts>>
      BY <1>3 DEF Claim, SenderUnchanged
    <2>2. QED
      BY <1>1, <2>1 DEF Inv, TypeOK, Fenced, OneClaimant, OkIsShown, SentIsShown
  <1>4. QED
    BY <1>2, <1>3

(* The answer of a delivery changes where its sender is, never its claim.    *)
LEMMA AnswerKeepsInv ==
  ASSUME Inv, NEW s \in Senders, snd[s].at = "deliver",
         UNCHANGED <<row, handle, listed, answered, lapses, aborts>>,
         NEW at \in {"ok", "fail"}, NEW mid \in BOOLEAN,
         snd' = [snd EXCEPT ![s].at = at, ![s].mid = mid],
         shown' = shown \/ shown' = shown \union {snd[s].key},
         at = "ok" => snd[s].key \in shown'
  PROVE  Inv'
  <1>1. snd[s].key \in Keys
    BY DEF Inv, Fenced, Busy
  <1>a. snd' \in [Senders -> [at: {"idle", "visit", "deliver", "ok", "fail"},
                            key: Keys \union {NoKey}, attempts: Nat, mid: BOOLEAN]]
    <2> DEFINE e == [snd[s] EXCEPT !.at = at, !.mid = mid]
    <2>1. snd[s] \in [at: {"idle", "visit", "deliver", "ok", "fail"},
                     key: Keys \union {NoKey}, attempts: Nat, mid: BOOLEAN]
      BY DEF Inv, TypeOK
    <2>2. e \in [at: {"idle", "visit", "deliver", "ok", "fail"},
                key: Keys \union {NoKey}, attempts: Nat, mid: BOOLEAN]
      BY <2>1
    <2>3. snd' = [snd EXCEPT ![s] = e]
      BY DEF Inv, TypeOK
    <2> HIDE DEF e
    <2> QED
      BY <2>2, <2>3 DEF Inv, TypeOK
  <1>b. shown' \in SUBSET Keys
    BY <1>1 DEF Inv, TypeOK
  <1>2. TypeOK'
    BY <1>a, <1>b DEF Inv, TypeOK
  <1>3. /\ snd'[s].at = at /\ snd'[s].key = snd[s].key /\ snd'[s].attempts = snd[s].attempts
        /\ \A u \in Senders : u # s => snd'[u] = snd[u]
    BY DEF Inv, TypeOK
  <1>4. \A u \in Senders : /\ snd'[u].at \in Busy => snd[u].at \in Busy
                           /\ snd'[u].key = snd[u].key /\ snd'[u].attempts = snd[u].attempts
    BY <1>3 DEF Busy
  <1>5. Fenced' /\ OneClaimant'
    <2>1. Fenced'
      BY <1>4 DEF Inv, Fenced
    <2>2. OneClaimant'
      BY <1>4 DEF Inv, OneClaimant, Busy
    <2>3. QED
      BY <2>1, <2>2
  <1>6. OkIsShown' /\ SentIsShown'
    BY <1>3 DEF Inv, OkIsShown, SentIsShown
  <1>7. QED
    BY <1>2, <1>5, <1>6 DEF Inv

LEMMA FinishKeepsInv ==
  ASSUME Inv, NEW s \in Senders, FinishSent(s) \/ FinishFailed(s)
  PROVE  Inv'
  <1>1. snd[s].at \in {"ok", "fail"} /\ snd[s].key \in Keys
    BY DEF Inv, Fenced, FinishSent, FinishFailed, Busy
  <1>2. /\ UNCHANGED <<shown, listed, answered, lapses, aborts>>
        /\ snd' = [snd EXCEPT ![s] = [Idle EXCEPT !.at = "visit"]]
    BY DEF FinishSent, FinishFailed, BackToList, SenderUnchanged
  <1>3. \/ row' = row
        \/ /\ row[snd[s].key].status = "IN_FLIGHT"
           /\ \/ row' = [row EXCEPT ![snd[s].key].status = "SENT"] /\ snd[s].at = "ok"
              \/ row' = [row EXCEPT ![snd[s].key].status = "DEAD"]
              \/ row' = [row EXCEPT ![snd[s].key].status = "PENDING"]
    BY DEF FinishSent, FinishFailed, Owns, AfterFailure
  <1>4. handle' \in SUBSET Decisions
    BY <1>1 DEF FinishSent, FinishFailed, Keys, Inv, TypeOK
  <1>5. row' \in [Keys -> [status: RowStatus, attempts: Nat, due: BOOLEAN]]
    BY <1>1, <1>3 DEF Inv, TypeOK, RowStatus
  <1>6. TypeOK'
    BY <1>2, <1>4, <1>5, OutboxAssumption DEF Inv, TypeOK, Idle
  <1>7. \A k \in Keys : /\ row'[k].attempts = row[k].attempts
                        /\ row[k].status # "none" => row'[k].status # "none"
    BY <1>1, <1>3 DEF Inv, TypeOK
  <1>8. Fenced' /\ OneClaimant' /\ OkIsShown'
    BY <1>2, <1>5, <1>7, SenderLeaves
  <1>9. SentIsShown'
    BY <1>1, <1>2, <1>3 DEF Inv, TypeOK, SentIsShown, OkIsShown
  <1>10. QED
    BY <1>6, <1>8, <1>9 DEF Inv

LEMMA StepKeepsInv == Inv /\ [Next]_vars => Inv'
  <1> SUFFICES ASSUME Inv, [Next]_vars
               PROVE  Inv'
    OBVIOUS
  <1>0. \A d \in Decisions : <<d, "card">> \in Keys /\ <<d, "update">> \in Keys
    BY DEF Keys
  <1>1. ASSUME NEW d \in Decisions, SendCard(d)
        PROVE  Inv'
    <2>1. RowsGrow
      BY <1>1, <1>0, EnqueueGrows DEF SendCard, Inv, TypeOK
    <2>2. QED
      BY <1>1, <2>1, WritersKeepClaims DEF SendCard, Inv, TypeOK
  <1>2. ASSUME NEW d \in Decisions, Answer(d)
        PROVE  Inv'
    <2>1. RowsGrow
      <3>1. CASE Enqueue(<<d, "update">>)
        BY <3>1, <1>0, EnqueueGrows DEF Inv, TypeOK
      <3>2. CASE row' = row
        BY <3>2 DEF RowsGrow, Inv, TypeOK
      <3>3. QED
        BY <1>2, <3>1, <3>2 DEF Answer
    <2>2. QED
      BY <1>2, <2>1, WritersKeepClaims DEF Answer, Inv, TypeOK
  <1>3. ASSUME NEW k \in Keys, ComeDue(k)
        PROVE  Inv'
    <2>1. RowsGrow
      BY <1>3 DEF ComeDue, RowsGrow, Inv, TypeOK
    <2>2. lapses' \in Nat
      BY <1>3 DEF ComeDue, Inv, TypeOK
    <2>3. QED
      BY <1>3, <2>1, <2>2, WritersKeepClaims DEF ComeDue, Inv, TypeOK
  <1>4. ASSUME NEW s \in Senders, SenderStep(s)
        PROVE  Inv'
    <2>1. CASE List(s)
      BY <2>1, ListKeepsInv
    <2>2. ASSUME NEW k \in Keys, NEW a \in 0 .. row[k].attempts, Claim(s, k, a)
          PROVE  Inv'
      BY <2>2, ClaimKeepsInv
    <2>3. ASSUME NEW mid \in BOOLEAN, Delivered(s, mid)
          PROVE  Inv'
      BY <2>3, AnswerKeepsInv DEF Delivered, SenderUnchanged
    <2>4. CASE DeliverFails(s)
      <3>1. snd' = [snd EXCEPT ![s].at = "fail", ![s].mid = snd[s].mid] /\ snd[s].mid \in BOOLEAN
        BY <2>4 DEF DeliverFails, Inv, TypeOK
      <3>2. QED
        BY <2>4, <3>1, AnswerKeepsInv DEF DeliverFails, SenderUnchanged
    <2>5. CASE FinishSent(s) \/ FinishFailed(s)
      BY <2>5, FinishKeepsInv
    <2>6. CASE EndList(s)
      <3>1. TypeOK'
        BY <2>6, OutboxAssumption DEF EndList, SenderUnchanged, Inv, TypeOK, Idle
      <3>2. Fenced' /\ OneClaimant' /\ OkIsShown' /\ SentIsShown'
        BY <2>6 DEF EndList, Inv, TypeOK, Fenced, OneClaimant, OkIsShown, SentIsShown, Idle, Busy
      <3>3. QED
        BY <3>1, <3>2 DEF Inv
    <2>7. QED
      BY <1>4, <2>1, <2>2, <2>3, <2>4, <2>5, <2>6 DEF SenderStep
  <1>5. ASSUME NEW s \in Senders, Abort(s)
        PROVE  Inv'
    <2>1. TypeOK'
      BY <1>5, OutboxAssumption DEF Abort, Inv, TypeOK, Idle
    <2>2. Fenced' /\ OneClaimant' /\ OkIsShown' /\ SentIsShown'
      BY <1>5 DEF Abort, Inv, TypeOK, Fenced, OneClaimant, OkIsShown, SentIsShown, Idle, Busy
    <2>3. QED
      BY <2>1, <2>2 DEF Inv
  <1>6. CASE UNCHANGED vars
    BY <1>6 DEF vars, Inv, TypeOK, Fenced, OneClaimant, OkIsShown, SentIsShown
  <1>7. QED
    BY <1>1, <1>2, <1>3, <1>4, <1>5, <1>6 DEF Next

THEOREM Invariance == Spec => []Inv
  BY Initially, StepKeepsInv, PTL DEF Spec

(* The type invariant.                                                      *)
THEOREM TypeCorrect == Spec => []TypeOK
  <1>1. Inv => TypeOK
    BY DEF Inv
  <1>2. QED
    BY <1>1, Invariance, PTL

(* Claims exclude each other: whatever lapses, dies or comes late, no two     *)
(* senders deliver the same generation of a row (OutboxRepo.claim).           *)
THEOREM ClaimsExclude == Spec => []OneClaimant
  <1>1. Inv => OneClaimant
    BY DEF Inv
  <1>2. QED
    BY <1>1, Invariance, PTL

-----------------------------------------------------------------------------
(* The refinement: each step of the outbox is a step of the promise, or none. *)

LEMMA InitPromises == Init => Promise!Init
  BY DEF Init, Promise!Init, StateOf

(* How one message may move: not at all, or as the promise allows.            *)
Moves(k) ==
    LET from == StateOf(row[k].status)
        to == StateOf(row'[k].status)
    IN \/ to = from
       \/ from = "none" /\ to = "queued"
       \/ from = "queued" /\ to = "dead"
       \/ from = "queued" /\ to = "sent" /\ k \in shown

(* A step that disturbs one row, by a move the promise allows, maps to it.    *)
LEMMA OneRowMoves ==
  ASSUME NEW k \in Keys, UNCHANGED shown, Moves(k),
         \A j \in Keys \ {k} : row'[j].status = row[j].status
  PROVE  [Promise!Next]_(Promise!vars)
  <1> DEFINE old == [j \in Keys |-> StateOf(row[j].status)]
             new == [j \in Keys |-> StateOf(row'[j].status)]
  <1>1. new = [old EXCEPT ![k] = StateOf(row'[k].status)]
    OBVIOUS
  <1>2. CASE new[k] = old[k]
    <2>1. new = old
      BY <1>1, <1>2
    <2>2. QED
      BY <2>1 DEF Promise!vars
  <1>3. CASE old[k] = "none" /\ new[k] = "queued"
    <2>1. Promise!Queue(k)
      BY <1>1, <1>3 DEF Promise!Queue
    <2>2. QED
      BY <2>1 DEF Promise!Next
  <1>4. CASE old[k] = "queued" /\ new[k] = "dead"
    <2>1. Promise!GiveUp(k)
      BY <1>1, <1>4 DEF Promise!GiveUp
    <2>2. QED
      BY <2>1 DEF Promise!Next
  <1>5. CASE old[k] = "queued" /\ new[k] = "sent" /\ k \in shown
    <2>1. Promise!Close(k)
      BY <1>1, <1>5 DEF Promise!Close
    <2>2. QED
      BY <2>1 DEF Promise!Next
  <1>6. QED
    BY <1>2, <1>3, <1>4, <1>5 DEF Moves

(* A delivery that the platform shows maps to Show, or to nothing if it was   *)
(* shown before.                                                             *)
LEMMA ShowingPromises ==
  ASSUME Inv, NEW s \in Senders, snd[s].at = "deliver", UNCHANGED row,
         shown' = shown \/ shown' = shown \union {snd[s].key}
  PROVE  [Promise!Next]_(Promise!vars)
  <1> DEFINE k == snd[s].key
  <1>1. k \in Keys /\ row[k].status \in RowStatus /\ row[k].status # "none"
    BY DEF Inv, TypeOK, Fenced, Busy
  <1>2. CASE shown' = shown
    BY <1>2 DEF Promise!vars
  <1>3. CASE shown' = shown \union {k} /\ row[k].status = "SENT"
    <2>1. shown' = shown
      BY <1>1, <1>3 DEF Inv, SentIsShown
    <2>2. QED
      BY <2>1 DEF Promise!vars
  <1>4. CASE shown' = shown \union {k} /\ row[k].status # "SENT"
    <2>1. StateOf(row[k].status) \in {"queued", "dead"}
      BY <1>1, <1>4 DEF StateOf, RowStatus
    <2>2. Promise!Show(k)
      BY <1>1, <1>4, <2>1 DEF Promise!Show
    <2>3. QED
      BY <1>1, <2>2 DEF Promise!Next
  <1>5. QED
    BY <1>2, <1>3, <1>4

LEMMA StepPromises == Inv /\ [Next]_vars => [Promise!Next]_(Promise!vars)
  <1> SUFFICES ASSUME Inv, [Next]_vars
               PROVE  [Promise!Next]_(Promise!vars)
    OBVIOUS
  <1>1. ASSUME NEW k \in Keys, Enqueue(k), UNCHANGED shown
        PROVE  [Promise!Next]_(Promise!vars)
    <2>1. Moves(k) /\ \A j \in Keys \ {k} : row'[j].status = row[j].status
      BY <1>1 DEF Enqueue, Moves, StateOf, Inv, TypeOK
    <2>2. QED
      BY <1>1, <2>1, OneRowMoves
  <1>2. ASSUME UNCHANGED <<row, shown>>
        PROVE  [Promise!Next]_(Promise!vars)
    BY <1>2 DEF Promise!vars
  <1>3. ASSUME NEW d \in Decisions, SendCard(d) \/ Answer(d)
        PROVE  [Promise!Next]_(Promise!vars)
    <2>1. <<d, "card">> \in Keys /\ <<d, "update">> \in Keys
      BY DEF Keys
    <2>2. QED
      BY <1>1, <1>2, <1>3, <2>1 DEF SendCard, Answer
  <1>4. ASSUME NEW k \in Keys, ComeDue(k)
        PROVE  [Promise!Next]_(Promise!vars)
    <2>1. Moves(k) /\ \A j \in Keys \ {k} : row'[j].status = row[j].status
      BY <1>4 DEF ComeDue, Moves, Inv, TypeOK
    <2>2. QED
      BY <1>4, <2>1, OneRowMoves DEF ComeDue
  <1>5. ASSUME NEW s \in Senders, SenderStep(s)
        PROVE  [Promise!Next]_(Promise!vars)
    <2>1. CASE List(s) \/ EndList(s)
      BY <1>2, <2>1 DEF List, EndList
    <2>2. ASSUME NEW k \in Keys, NEW a \in 0 .. row[k].attempts, Claim(s, k, a)
          PROVE  [Promise!Next]_(Promise!vars)
      <3>1. CASE CanClaim(k, a)
        <4>1. /\ row[k].status \in {"PENDING", "IN_FLIGHT"}
              /\ row' = [row EXCEPT ![k] = [status |-> "IN_FLIGHT", attempts |-> a + 1,
                                            due |-> FALSE]]
          BY <2>2, <3>1 DEF Claim, CanClaim
        <4>2. row'[k].status = "IN_FLIGHT" /\ \A j \in Keys \ {k} : row'[j] = row[j]
          BY <4>1 DEF Inv, TypeOK
        <4>3. Moves(k)
          BY <4>1, <4>2 DEF Moves, StateOf
        <4>4. QED
          BY <2>2, <4>2, <4>3, OneRowMoves DEF Claim
      <3>2. CASE ~ CanClaim(k, a)
        BY <1>2, <2>2, <3>2 DEF Claim
      <3>3. QED
        BY <3>1, <3>2
    <2>3. CASE \E mid \in BOOLEAN : Delivered(s, mid)
      BY <2>3, ShowingPromises DEF Delivered
    <2>4. CASE DeliverFails(s)
      BY <2>4, ShowingPromises DEF DeliverFails
    <2>5. CASE FinishSent(s) \/ FinishFailed(s)
      <3> DEFINE k == snd[s].key
      <3>1. snd[s].at \in {"ok", "fail"} /\ k \in Keys
        BY <2>5 DEF Inv, Fenced, FinishSent, FinishFailed, Busy
      <3>2. CASE row' = row
        BY <1>2, <2>5, <3>2 DEF FinishSent, FinishFailed
      <3>3. CASE /\ FinishSent(s) /\ Owns(k, snd[s].attempts)
                 /\ row' = [row EXCEPT ![k].status = "SENT"]
        <4>1. /\ row[k].status = "IN_FLIGHT" /\ row'[k].status = "SENT"
              /\ \A j \in Keys \ {k} : row'[j].status = row[j].status
          BY <3>1, <3>3 DEF Owns, Inv, TypeOK
        <4>2. k \in shown
          BY <3>3 DEF FinishSent, Inv, OkIsShown
        <4>3. Moves(k)
          BY <4>1, <4>2 DEF Moves, StateOf
        <4>4. QED
          BY <3>1, <3>3, <4>1, <4>3, OneRowMoves DEF FinishSent
      <3>4. CASE /\ FinishFailed(s) /\ Owns(k, snd[s].attempts)
                 /\ row' = [row EXCEPT ![k].status = AfterFailure(row[k].attempts)]
        <4>1. /\ row[k].status = "IN_FLIGHT" /\ row'[k].status \in {"DEAD", "PENDING"}
              /\ \A j \in Keys \ {k} : row'[j].status = row[j].status
          BY <3>1, <3>4 DEF Owns, AfterFailure, Inv, TypeOK
        <4>2. Moves(k)
          BY <4>1 DEF Moves, StateOf
        <4>3. QED
          BY <3>1, <3>4, <4>1, <4>2, OneRowMoves DEF FinishFailed
      <3>5. QED
        BY <2>5, <3>2, <3>3, <3>4 DEF FinishSent, FinishFailed
    <2>6. QED
      BY <1>5, <2>1, <2>2, <2>3, <2>4, <2>5 DEF SenderStep
  <1>6. ASSUME NEW s \in Senders, Abort(s)
        PROVE  [Promise!Next]_(Promise!vars)
    BY <1>2, <1>6 DEF Abort
  <1>7. CASE UNCHANGED vars
    BY <1>2, <1>7 DEF vars
  <1>8. QED
    BY <1>3, <1>4, <1>5, <1>6, <1>7 DEF Next

(* The outbox implements its promise: a message is closed as SENT only when    *)
(* the platform shows it, and SENT and DEAD are final (persistence/outbox.py,  *)
(* scheduler/outbox_sender.py).                                               *)
THEOREM Refinement == Spec => KeepsPromise
  <1>1. Spec => Promise!Init /\ [][Promise!Next]_(Promise!vars)
    BY InitPromises, StepPromises, Invariance, PTL DEF Spec
  <1>2. QED
    BY <1>1 DEF KeepsPromise, Promise!Spec

=============================================================================
