-------------------------- MODULE ProjectionProofs --------------------------
(***************************************************************************)
(* Proofs about Projection, for every set of texts and every bound: the     *)
(* projection state names only what the remote block has been, and while the *)
(* text stands still a human's text is kept.                                *)
(***************************************************************************)
EXTENDS Projection, SequenceTheorems, TLAPS

(* A delivery that succeeded left its text in the block, now or before.      *)
OkWasRemote == snd.at = "ok" => This.text \in seen

Inv == TypeOK /\ remote \in seen /\ StateWasRemote /\ OkWasRemote

(* Rows are never removed and keep their text; what was seen stays seen.     *)
RowsKeepText ==
    /\ rows' \in Seq(Row)
    /\ Len(rows) <= Len(rows')
    /\ \A i \in 1 .. Len(rows) : rows'[i].text = rows[i].text

BudgetTyped == budget' \in [changes: Nat, edits: Nat, others: Nat, faults: Nat]

LEMMA SpendTyped ==
  ASSUME TypeOK, NEW f \in {"changes", "edits", "others", "faults"}, NEW m, Spend(f, m)
  PROVE  BudgetTyped
  BY DEF TypeOK, Spend, BudgetTyped

LEMMA Initially == Init => Inv
  <1> SUFFICES ASSUME Init
               PROVE  Inv
    OBVIOUS
  <1>1. rows \in Seq(Row) /\ Len(rows) = 0
    BY DEF Init
  <1>2. TypeOK
    <2>1. /\ snd \in [at: {"idle", "read", "write", "reread", "ok", "skip"},
                      i: 0 .. Len(rows), token: BOOLEAN, existed: BOOLEAN]
          /\ snd.at = "idle"
      BY <1>1 DEF Init, Idle
    <2>2. budget \in [changes: Nat, edits: Nat, others: Nat, faults: Nat]
      BY DEF Init
    <2>3. /\ content \in Texts /\ remote \in Blocks /\ state = NoState /\ patches = {}
          /\ phase = "sync" /\ todo = {} /\ moved = FALSE /\ seen = {remote}
      BY DEF Init, Blocks
    <2>4. QED
      BY <1>1, <2>1, <2>2, <2>3 DEF TypeOK
  <1>3. QED
    BY <1>2 DEF Init, Inv, StateWasRemote, OkWasRemote, Idle

(* A row changes in a field that is not its text.                            *)
LEMMA RowUpdate ==
  ASSUME TypeOK, NEW i \in 1 .. Len(rows), NEW r \in Row, r.text = rows[i].text,
         rows' = [rows EXCEPT ![i] = r]
  PROVE  RowsKeepText /\ Len(rows') = Len(rows)
  BY DEF TypeOK, RowsKeepText

LEMMA ClaimedRow ==
  ASSUME NEW r \in Row
  PROVE  Claimed(r) \in Row /\ Claimed(r).text = r.text
  <1> DEFINE c == [r EXCEPT !.attempts = r.attempts + 1]
  <1>1. c \in Row /\ c.text = r.text
    BY DEF Row
  <1>2. [c EXCEPT !.due = FALSE] \in Row /\ [c EXCEPT !.due = FALSE].text = c.text
    BY <1>1 DEF Row
  <1>3. QED
    BY <1>1, <1>2 DEF Claimed

LEMMA EnqueueKeepsText ==
  ASSUME TypeOK, rows' = rows \/ EnqueueDocBlock
  PROVE  RowsKeepText
  <1>1. CASE rows' = rows
    BY <1>1 DEF RowsKeepText, TypeOK
  <1>2. CASE rows' # rows
    <2> DEFINE r == [text |-> content, expected |-> remote, status |-> "PENDING",
                     attempts |-> 0, due |-> TRUE]
    <2>1. rows' = Append(rows, r) /\ r \in Row
      BY <1>2 DEF EnqueueDocBlock, TypeOK, Row
    <2>2. QED
      BY <2>1 DEF RowsKeepText, TypeOK
  <1>3. QED
    BY <1>1, <1>2

LEMMA SyncKeepsInv ==
  ASSUME Inv, Sync
  PROVE  Inv'
  <1>1. rows' = rows \/ EnqueueDocBlock
    BY DEF Sync, SyncRecordsPatch, SyncEnqueues, SyncFails
  <1>2. RowsKeepText
    BY <1>1, EnqueueKeepsText DEF Inv
  <1>3. BudgetTyped
    BY SpendTyped DEF Inv, TypeOK, BudgetTyped, Sync, SyncRecordsPatch, SyncEnqueues, SyncFails
  <1>4. patches' \in SUBSET Blocks
    BY DEF Inv, TypeOK, Sync, SyncRecordsPatch, SyncEnqueues, SyncFails
  <1>5. StartSending /\ SyncUnchanged
    BY DEF Sync, SyncRecordsPatch, SyncEnqueues, SyncFails
  <1>6. phase' = "send" /\ todo' \in SUBSET (1 .. Len(rows'))
    BY <1>5 DEF StartSending
  <1>7. UNCHANGED <<content, remote, state, snd, moved, seen>>
    BY <1>5 DEF SyncUnchanged
  <1>8. Len(rows) \in Nat /\ Len(rows') \in Nat /\ Len(rows) <= Len(rows')
    BY <1>2 DEF RowsKeepText, Inv, TypeOK
  <1>9. TypeOK'
    BY <1>2, <1>3, <1>4, <1>6, <1>7, <1>8 DEF Inv, TypeOK, RowsKeepText, BudgetTyped
  <1>10. OkWasRemote'
    <2>1. SUFFICES ASSUME snd.at = "ok"
                   PROVE  rows'[snd.i].text \in seen
      BY <1>7 DEF OkWasRemote, This
    <2>2. snd.i \in 1 .. Len(rows)
      BY <1>8, <2>1 DEF Inv, TypeOK
    <2>3. QED
      BY <1>2, <2>1, <2>2 DEF RowsKeepText, Inv, OkWasRemote, This
  <1>11. QED
    BY <1>7, <1>9, <1>10 DEF Inv, StateWasRemote

(* Steps outside the rows: the project's, the humans', EndSending and Abort.  *)
LEMMA OthersKeepInv ==
  ASSUME Inv,
         \/ \E text \in Texts : ContentChanges(text)
         \/ \E text \in HumanTexts \union {Absent} : HumanEdits(text)
         \/ HumanEditsElsewhere \/ EndSending \/ Abort
  PROVE  Inv'
  <1>1. CASE \E text \in Texts : ContentChanges(text)
    BY <1>1, SpendTyped DEF ContentChanges, Inv, TypeOK, BudgetTyped, StateWasRemote, OkWasRemote, This
  <1>2. CASE \E text \in HumanTexts \union {Absent} : HumanEdits(text)
    BY <1>2, SpendTyped
    DEF HumanEdits, Show, Inv, TypeOK, Blocks, BudgetTyped, StateWasRemote, OkWasRemote, This
  <1>3. CASE HumanEditsElsewhere
    BY <1>3, SpendTyped
    DEF HumanEditsElsewhere, Inv, TypeOK, BudgetTyped, StateWasRemote, OkWasRemote, This
  <1>4. CASE EndSending
    BY <1>4 DEF EndSending, RemoteUnchanged, Inv, TypeOK, StateWasRemote, OkWasRemote, This
  <1>5. CASE Abort
    BY <1>5, SpendTyped
    DEF Abort, RemoteUnchanged, Inv, TypeOK, BudgetTyped, StateWasRemote, OkWasRemote, This, Idle
  <1>6. QED
    BY <1>1, <1>2, <1>3, <1>4, <1>5

(* Steps of the sender that leave the rows alone.                             *)
LEMMA DeliveryKeepsInv ==
  ASSUME Inv,
         (\E token \in BOOLEAN : Read(token)) \/ Write \/ WriteAnswerLost \/ WriteConflicts \/ Reread
  PROVE  Inv'
  <1>1. snd.i \in 1 .. Len(rows) /\ This.text \in Texts /\ Len(rows) \in Nat
    <2>1. snd.i \in 1 .. Len(rows) /\ Len(rows) \in Nat
      <3>1. snd.at \in {"read", "write", "reread"}
        BY DEF Read, Write, WriteAnswerLost, WriteConflicts, Reread
      <3>2. snd.i \in 0 .. Len(rows) /\ snd.i # 0 /\ Len(rows) \in Nat
        BY <3>1 DEF Inv, TypeOK
      <3>3. QED
        BY <3>2
    <2>2. rows[snd.i] \in Row
      BY <2>1 DEF Inv, TypeOK
    <2>3. QED
      BY <2>1, <2>2 DEF This, Row
  <1>2. UNCHANGED <<state, rows, todo, content, patches, phase>>
    BY DEF Read, Write, WriteAnswerLost, WriteConflicts, Reread, SendUnchanged
  <1>3. BudgetTyped
    BY SpendTyped
    DEF Read, Write, WriteAnswerLost, WriteConflicts, Reread, Inv, TypeOK, BudgetTyped
  <1>4. \/ UNCHANGED <<remote, seen>>
        \/ remote' = This.text /\ seen' = seen \union {This.text}
    BY DEF Read, Write, WriteAnswerLost, WriteConflicts, Reread, RemoteUnchanged, Show
  <1>5. snd'.i = snd.i /\ moved' \in BOOLEAN
        /\ snd' \in [at: {"idle", "read", "write", "reread", "ok", "skip"},
                     i: 0 .. Len(rows), token: BOOLEAN, existed: BOOLEAN]
    <2>1. CASE \E token \in BOOLEAN : Read(token)
      BY <2>1 DEF Read, Inv, TypeOK
    <2>2. CASE Write \/ WriteAnswerLost
      BY <2>2 DEF Write, WriteAnswerLost, Goto, Inv, TypeOK
    <2>3. CASE WriteConflicts
      BY <2>3 DEF WriteConflicts, Goto, Inv, TypeOK
    <2>4. CASE Reread
      BY <2>4 DEF Reread, Inv, TypeOK
    <2> QED
      BY <2>1, <2>2, <2>3, <2>4
  <1>6. snd'.at = "ok" => This.text \in seen'
    <2>1. CASE \E token \in BOOLEAN : Read(token)
      BY <2>1 DEF Read, RemoteUnchanged, Inv, TypeOK
    <2>2. CASE Write
      BY <2>2 DEF Write, Show
    <2>3. CASE WriteAnswerLost \/ WriteConflicts \/ Reread
      BY <2>3 DEF WriteAnswerLost, WriteConflicts, Reread, Goto, Inv, TypeOK
    <2>4. QED
      BY <2>1, <2>2, <2>3
  <1>7. TypeOK'
    <2>1. snd'.i # 0
      BY <1>1, <1>5
    <2>2. QED
      BY <1>1, <1>2, <1>3, <1>4, <1>5, <2>1 DEF Inv, TypeOK, BudgetTyped, Blocks
  <1>8. remote' \in seen' /\ StateWasRemote'
    BY <1>2, <1>4 DEF Inv, StateWasRemote
  <1>9. OkWasRemote'
    BY <1>2, <1>5, <1>6 DEF OkWasRemote, This
  <1>10. QED
    BY <1>7, <1>8, <1>9 DEF Inv

(* Steps that touch one row: claimed, settled, failed or due again.           *)
LEMMA RowStepKeepsInv ==
  ASSUME Inv,
         \/ \E i \in todo : Take(i)
         \/ FinishOk \/ FinishSkip \/ Fails
         \/ \E i \in 1 .. Len(rows) : ComeDue(i)
  PROVE  Inv'
  <1>1. Len(rows) \in Nat
    BY DEF Inv, TypeOK
  <1>2. ASSUME NEW i \in 1 .. Len(rows)
        PROVE  rows[i] \in Row
    BY <1>2 DEF Inv, TypeOK
  <1>3. CASE \E i \in todo : Take(i)
    <2>1. PICK i \in todo : Take(i)
      BY <1>3
    <2>2. i \in 1 .. Len(rows)
      BY DEF Inv, TypeOK
    <2>3. Claimed(rows[i]) \in Row /\ Claimed(rows[i]).text = rows[i].text
      BY <1>2, <2>2, ClaimedRow
    <2>4. RowsKeepText /\ Len(rows') = Len(rows)
      BY <2>1, <2>2, <2>3, RowUpdate DEF Inv, Take
    <2>5. /\ snd' = [Idle EXCEPT !.at = "read", !.i = i] /\ todo' = todo \ {i}
          /\ UNCHANGED <<content, remote, seen, state, patches, phase, moved, budget>>
      BY <2>1 DEF Take, RemoteUnchanged, SendUnchanged
    <2>6. snd'.at = "read" /\ snd'.i = i
          /\ snd' \in [at: {"read"}, i: 1 .. Len(rows), token: BOOLEAN, existed: BOOLEAN]
      BY <2>2, <2>5 DEF Idle
    <2>7. TypeOK'
      BY <1>1, <2>4, <2>5, <2>6 DEF Inv, TypeOK, RowsKeepText
    <2>8. QED
      BY <2>5, <2>6, <2>7 DEF Inv, StateWasRemote, OkWasRemote
  <1>4. CASE FinishOk \/ FinishSkip
    <2>1. snd.i \in 1 .. Len(rows)
      BY <1>1, <1>4 DEF FinishOk, FinishSkip, Inv, TypeOK
    <2>2. PICK st \in {"SENT", "SKIPPED"} : rows' = [rows EXCEPT ![snd.i].status = st]
      BY <1>4 DEF FinishOk, FinishSkip
    <2> DEFINE r == [rows[snd.i] EXCEPT !.status = st]
    <2>3. r \in Row /\ r.text = rows[snd.i].text /\ rows' = [rows EXCEPT ![snd.i] = r]
      BY <1>2, <2>1, <2>2 DEF Row
    <2>4. RowsKeepText /\ Len(rows') = Len(rows)
      BY <2>1, <2>3, RowUpdate DEF Inv
    <2>5. state' \in Texts \union {NoState} /\ StateWasRemote'
      <3>1. rows[snd.i].text \in Texts
        BY <1>2, <2>1 DEF Row
      <3>2. QED
        BY <1>4, <3>1 DEF FinishOk, FinishSkip, StateAfterSkip, This, RemoteUnchanged, Inv, TypeOK,
                          StateWasRemote, OkWasRemote
    <2>6. snd' = Idle /\ UNCHANGED <<content, remote, seen, todo, patches, phase, moved, budget>>
      BY <1>4 DEF FinishOk, FinishSkip, RemoteUnchanged, SendUnchanged
    <2>7. TypeOK'
      BY <1>1, <2>4, <2>5, <2>6 DEF Idle, Inv, TypeOK, RowsKeepText
    <2>8. QED
      BY <2>5, <2>6, <2>7 DEF Idle, Inv, OkWasRemote
  <1>5. CASE Fails
    <2>1. snd.i \in 1 .. Len(rows)
      BY <1>1, <1>5 DEF Fails, Inv, TypeOK
    <2>2. PICK st \in {"DEAD", rows[snd.i].status} : rows' = [rows EXCEPT ![snd.i].status = st]
      BY <1>5 DEF Fails, This
    <2> DEFINE r == [rows[snd.i] EXCEPT !.status = st]
    <2>3. r \in Row /\ r.text = rows[snd.i].text /\ rows' = [rows EXCEPT ![snd.i] = r]
      BY <1>2, <2>1, <2>2 DEF Row
    <2>4. RowsKeepText /\ Len(rows') = Len(rows)
      BY <2>1, <2>3, RowUpdate DEF Inv
    <2>5. BudgetTyped
      BY <1>5, SpendTyped DEF Fails, Inv, TypeOK, BudgetTyped
    <2>6. QED
      BY <1>1, <1>5, <2>4, <2>5
      DEF Fails, RemoteUnchanged, SendUnchanged, Idle, Inv, TypeOK, RowsKeepText, StateWasRemote,
          OkWasRemote, BudgetTyped
  <1>6. CASE \E i \in 1 .. Len(rows) : ComeDue(i)
    <2>1. PICK i \in 1 .. Len(rows) : ComeDue(i)
      BY <1>6
    <2> DEFINE r == [rows[i] EXCEPT !.due = TRUE]
    <2>2. r \in Row /\ r.text = rows[i].text /\ rows' = [rows EXCEPT ![i] = r]
      BY <1>2, <2>1 DEF ComeDue, Row
    <2>3. RowsKeepText /\ Len(rows') = Len(rows)
      BY <2>2, RowUpdate DEF Inv
    <2>4. OkWasRemote'
      <3>1. snd.at = "ok" => snd.i \in 1 .. Len(rows)
        BY <1>1 DEF Inv, TypeOK
      <3>2. QED
        BY <2>1, <2>3, <3>1 DEF ComeDue, RemoteUnchanged, Inv, OkWasRemote, This, RowsKeepText
    <2>5. QED
      BY <2>1, <2>3, <2>4 DEF ComeDue, RemoteUnchanged, Inv, TypeOK, RowsKeepText, StateWasRemote
  <1>7. QED
    BY <1>3, <1>4, <1>5, <1>6

LEMMA StepKeepsInv == Inv /\ [Next]_vars => Inv'
  <1> SUFFICES ASSUME Inv, [Next]_vars
               PROVE  Inv'
    OBVIOUS
  <1>1. CASE Sync
    BY <1>1, SyncKeepsInv
  <1>2. CASE Send
    BY <1>2, DeliveryKeepsInv, RowStepKeepsInv, OthersKeepInv DEF Send
  <1>3. CASE UNCHANGED vars
    BY <1>3 DEF vars, Inv, TypeOK, StateWasRemote, OkWasRemote, This
  <1>4. QED
    BY <1>1, <1>2, <1>3, OthersKeepInv, RowStepKeepsInv DEF Next

THEOREM Invariance == Spec => []Inv
  BY Initially, StepKeepsInv, PTL DEF Spec

(* The type invariant.                                                      *)
THEOREM TypeCorrect == Spec => []TypeOK
  <1>1. Inv => TypeOK
    BY DEF Inv
  <1>2. QED
    BY <1>1, Invariance, PTL

(* The state never claims a block the remote never had, through conflicts,    *)
(* skips, lost answers and crashes (outbox_sender._write_back_projection).     *)
THEOREM StateIsTruthful == Spec => []StateWasRemote
  <1>1. Inv => StateWasRemote
    BY DEF Inv
  <1>2. QED
    BY <1>1, Invariance, PTL

-----------------------------------------------------------------------------
(* A human's text is kept.                                                 *)

(* Rows keep what they say; a new one is of the compiled text, expects the    *)
(* block as it is, and is not queued over a human's patch.                    *)
RowsGrow ==
    /\ Len(rows) <= Len(rows')
    /\ \A i \in 1 .. Len(rows) :
          rows'[i].text = rows[i].text /\ rows'[i].expected = rows[i].expected
    /\ \A i \in 1 .. Len(rows') : i > Len(rows) =>
          rows'[i].text = content /\ rows'[i].expected = remote /\ ~ IsHumanPatch

LEMMA SameRowsGrow ==
  ASSUME TypeOK, rows' = rows PROVE RowsGrow
  <1>1. Len(rows) \in Nat
    BY DEF TypeOK
  <1>2. QED
    BY <1>1 DEF RowsGrow

(* A change of one row that keeps what the row says.                          *)
LEMMA UpdateGrows ==
  ASSUME TypeOK, NEW i \in 1 .. Len(rows), NEW r \in Row,
         r.text = rows[i].text, r.expected = rows[i].expected, rows' = [rows EXCEPT ![i] = r]
  PROVE  RowsGrow
  <1>1. Len(rows') = Len(rows) /\ Len(rows) \in Nat
    BY DEF TypeOK
  <1>2. \A k \in 1 .. Len(rows) : rows'[k] = IF k = i THEN r ELSE rows[k]
    BY DEF TypeOK
  <1>3. QED
    BY <1>1, <1>2 DEF RowsGrow

LEMMA EnqueueGrows ==
  ASSUME TypeOK, SyncEnqueues PROVE RowsGrow
  <1>1. CASE rows' = rows
    BY <1>1, SameRowsGrow
  <1>2. CASE rows' # rows
    <2> DEFINE r == [text |-> content, expected |-> remote, status |-> "PENDING",
                     attempts |-> 0, due |-> TRUE]
    <2>1. rows' = Append(rows, r) /\ ~ IsHumanPatch
      BY <1>2 DEF SyncEnqueues, EnqueueDocBlock
    <2>2. r.text = content /\ r.expected = remote
      OBVIOUS
    <2> HIDE DEF r
    <2>3. /\ Len(rows) \in Nat /\ Len(rows') = Len(rows) + 1
          /\ \A i \in 1 .. Len(rows) : rows'[i] = rows[i]
          /\ rows'[Len(rows) + 1] = r
      BY <2>1 DEF TypeOK
    <2>4. QED
      BY <2>1, <2>2, <2>3 DEF RowsGrow
  <1>3. QED
    BY <1>1, <1>2

LEMMA RowsGrowing ==
  ASSUME Inv, Next PROVE RowsGrow
  <1>0. TypeOK /\ \A i \in 1 .. Len(rows) : rows[i] \in Row
    BY DEF Inv, TypeOK
  <1>1. CASE Sync
    BY <1>0, <1>1, SameRowsGrow, EnqueueGrows DEF Sync, SyncRecordsPatch, SyncFails
  <1>2. CASE \/ \E text \in Texts : ContentChanges(text)
             \/ \E text \in HumanTexts \union {Absent} : HumanEdits(text)
             \/ HumanEditsElsewhere \/ EndSending \/ Abort
             \/ \E token \in BOOLEAN : Read(token)
             \/ Write \/ WriteAnswerLost \/ WriteConflicts \/ Reread
    <2>1. rows' = rows
      BY <1>2 DEF ContentChanges, HumanEdits, HumanEditsElsewhere, EndSending, Abort, Read, Write,
                  WriteAnswerLost, WriteConflicts, Reread
    <2>2. QED
      BY <1>0, <2>1, SameRowsGrow
  <1>3. ASSUME NEW i \in todo, Take(i)
        PROVE  RowsGrow
    <2>1. i \in 1 .. Len(rows) /\ rows' = [rows EXCEPT ![i] = Claimed(rows[i])]
      BY <1>0, <1>3 DEF Take, TypeOK
    <2>2. rows[i] \in Row /\ Claimed(rows[i]) \in Row
      BY <1>0, <2>1, ClaimedRow
    <2>3. /\ Claimed(rows[i]).text = rows[i].text
          /\ Claimed(rows[i]).expected = rows[i].expected
      BY <2>2 DEF Claimed, Row
    <2>4. QED
      BY <1>0, <2>1, <2>2, <2>3, UpdateGrows
  <1>4. CASE FinishOk \/ FinishSkip \/ Fails
    <2>1. snd.i \in 1 .. Len(rows)
      BY <1>0, <1>4 DEF FinishOk, FinishSkip, Fails, TypeOK
    <2>2. PICK st \in {"SENT", "SKIPPED", "DEAD", rows[snd.i].status} :
             rows' = [rows EXCEPT ![snd.i].status = st]
      BY <1>4 DEF FinishOk, FinishSkip, Fails
    <2> DEFINE r == [rows[snd.i] EXCEPT !.status = st]
    <2>3. /\ r \in Row /\ r.text = rows[snd.i].text /\ r.expected = rows[snd.i].expected
          /\ rows' = [rows EXCEPT ![snd.i] = r]
      BY <1>0, <2>1, <2>2 DEF Row
    <2>4. QED
      BY <1>0, <2>1, <2>3, UpdateGrows
  <1>5. ASSUME NEW i \in 1 .. Len(rows), ComeDue(i)
        PROVE  RowsGrow
    <2> DEFINE r == [rows[i] EXCEPT !.due = TRUE]
    <2>1. /\ r \in Row /\ r.text = rows[i].text /\ r.expected = rows[i].expected
          /\ rows' = [rows EXCEPT ![i] = r]
      BY <1>0, <1>5 DEF ComeDue, Row
    <2>2. QED
      BY <1>0, <2>1, UpdateGrows
  <1>6. QED
    BY <1>1, <1>2, <1>3, <1>4, <1>5 DEF Next, Send

(* The text has not changed since the system first compiled it, or it has      *)
(* written none: nothing in the block is the system's to overwrite.            *)
Unwritten == state = NoState \/ budget.changes = 0

(* Between the read and a protected write of an unmoved document, the block is  *)
(* still what the row expects; while the text has not changed, state and rows   *)
(* name no other; and no row was queued over a human's text.                   *)
StillExpected == snd.at = "write" /\ snd.token /\ ~ moved => remote = This.expected
OneText == budget.changes = 0 =>
    state \in {NoState, content} /\ \A i \in 1 .. Len(rows) : rows[i].text = content
NoneOverHuman == Unwritten => \A i \in 1 .. Len(rows) : rows[i].expected \notin HumanTexts

Guarded == StillExpected /\ OneText /\ NoneOverHuman

LEMMA InitGuarded == Init => Guarded
  <1> SUFFICES ASSUME Init PROVE Guarded
    OBVIOUS
  <1>1. snd.at = "idle" /\ state = NoState /\ Len(rows) = 0
    BY DEF Init, Idle
  <1>2. QED
    BY <1>1 DEF Guarded, StillExpected, OneText, NoneOverHuman

LEMMA SenderRow ==
  ASSUME TypeOK, snd.at # "idle" PROVE snd.i \in 1 .. Len(rows)
  <1>1. Len(rows) \in Nat /\ snd.i \in 0 .. Len(rows) /\ snd.i # 0
    BY DEF TypeOK
  <1>2. QED
    BY <1>1

LEMMA StillExpectedKept ==
  ASSUME Inv, Guarded, Next PROVE StillExpected'
  <1>0. TypeOK /\ RowsGrow
    BY RowsGrowing DEF Inv
  <1>1. SUFFICES ASSUME snd'.at = "write", snd'.token, ~ moved'
                 PROVE  remote' = rows'[snd'.i].expected
    BY DEF StillExpected, This
  <1>2. CASE \E token \in BOOLEAN : Read(token)
    <2>1. /\ rows' = rows /\ snd'.i = snd.i /\ remote' = remote
          /\ snd'.at = IF remote = This.text THEN "ok"
                       ELSE IF ChangedSince(This.expected) THEN "skip" ELSE "write"
      BY <1>0, <1>2 DEF Read, RemoteUnchanged, TypeOK
    <2>2. QED
      BY <1>1, <2>1 DEF ChangedSince, This
  <1>3. CASE Reread
    BY <1>0, <1>1, <1>3 DEF Reread, TypeOK
  <1>4. CASE \/ Write \/ WriteAnswerLost \/ WriteConflicts \/ EndSending \/ Abort
             \/ FinishOk \/ FinishSkip \/ Fails \/ HumanEditsElsewhere
             \/ (\E i \in todo : Take(i))
             \/ \E text \in HumanTexts \union {Absent} : HumanEdits(text)
    <2>1. CASE Write \/ WriteConflicts
      BY <1>0, <1>1, <2>1 DEF Write, WriteConflicts, Goto, TypeOK
    <2>2. CASE \/ WriteAnswerLost \/ HumanEditsElsewhere
               \/ \E text \in HumanTexts \union {Absent} : HumanEdits(text)
      BY <1>1, <2>2 DEF WriteAnswerLost, HumanEditsElsewhere, HumanEdits
    <2>3. CASE Abort \/ FinishOk \/ FinishSkip \/ Fails
      BY <1>1, <2>3 DEF Abort, FinishOk, FinishSkip, Fails, Idle
    <2>4. CASE EndSending
      BY <1>1, <2>4 DEF EndSending
    <2>5. CASE \E i \in todo : Take(i)
      BY <1>1, <2>5 DEF Take, Idle
    <2>6. QED
      BY <1>4, <2>1, <2>2, <2>3, <2>4, <2>5
  <1>5. CASE Sync \/ (\E text \in Texts : ContentChanges(text)) \/ \E i \in 1 .. Len(rows) : ComeDue(i)
    <2>1. UNCHANGED <<snd, moved, remote>>
      BY <1>5 DEF Sync, SyncRecordsPatch, SyncEnqueues, SyncFails, SyncUnchanged, ContentChanges,
                  ComeDue, RemoteUnchanged
    <2>2. snd.i \in 1 .. Len(rows) /\ remote = rows[snd.i].expected
      BY <1>0, <1>1, <2>1, SenderRow DEF Guarded, StillExpected, This
    <2>3. QED
      BY <1>0, <2>1, <2>2 DEF RowsGrow
  <1>6. QED
    BY <1>2, <1>3, <1>4, <1>5 DEF Next, Send

(* The text changes only by a counted change, and the state only to the text of *)
(* the row delivered.                                                          *)
LEMMA StateSteps ==
  ASSUME Inv, Next
  PROVE  /\ budget'.changes = 0 => budget.changes = 0 /\ content' = content
         /\ state' = state \/ (snd.at = "ok" /\ state' = This.text)
  <1>0. TypeOK
    BY DEF Inv
  <1>1. ASSUME NEW text \in Texts, ContentChanges(text)
        PROVE  state' = state /\ budget'.changes # 0
    BY <1>0, <1>1 DEF ContentChanges, Spend, TypeOK
  <1>2. CASE ~ \E text \in Texts : ContentChanges(text)
    <2>1. content' = content
      BY <1>2 DEF Next, HumanEdits, HumanEditsElsewhere, Sync, SyncRecordsPatch, SyncEnqueues,
          SyncFails, SyncUnchanged, Send, Take, Read, Write, WriteAnswerLost, WriteConflicts,
          Reread, FinishOk, FinishSkip, Fails, EndSending, SendUnchanged, Abort, ComeDue
    <2>2. \/ budget' = budget
          \/ \E f \in {"edits", "others", "faults"} : budget' = [budget EXCEPT ![f] = @ + 1]
      BY <1>2 DEF Next, HumanEdits, HumanEditsElsewhere, Sync, SyncRecordsPatch, SyncEnqueues,
          SyncFails, Send, Take, Read, Write, WriteAnswerLost, WriteConflicts,
          Reread, FinishOk, FinishSkip, Fails, EndSending, Abort, ComeDue, Spend
    <2>3. budget'.changes = budget.changes
      BY <1>0, <2>2 DEF TypeOK
    <2>4. state' = state \/ (snd.at = "ok" /\ state' = This.text)
      BY <1>2 DEF Next, HumanEdits, HumanEditsElsewhere, Sync, SyncRecordsPatch, SyncEnqueues,
          SyncFails, SyncUnchanged, Send, Take, Read, Write, WriteAnswerLost, WriteConflicts,
          Reread, FinishOk, FinishSkip, StateAfterSkip, Fails, EndSending, Abort, ComeDue
    <2>5. QED
      BY <2>1, <2>3, <2>4
  <1>3. QED
    BY <1>1, <1>2

LEMMA OneTextKept ==
  ASSUME Inv, Guarded, Next PROVE OneText'
  <1>1. SUFFICES ASSUME budget'.changes = 0
                 PROVE  /\ state' \in {NoState, content'}
                        /\ \A i \in 1 .. Len(rows') : rows'[i].text = content'
    BY DEF OneText
  <1>2. TypeOK /\ RowsGrow /\ Len(rows) \in Nat /\ Len(rows') \in Nat
    BY RowsGrowing, StepKeepsInv DEF Inv, TypeOK
  <1>3. /\ budget.changes = 0 /\ content' = content
        /\ state' = state \/ (snd.at = "ok" /\ state' = This.text)
    BY <1>1, StateSteps
  <1>4. state \in {NoState, content} /\ \A i \in 1 .. Len(rows) : rows[i].text = content
    BY <1>3 DEF Guarded, OneText
  <1>5. state' \in {NoState, content'}
    BY <1>2, <1>3, <1>4, SenderRow DEF This
  <1>6. \A i \in 1 .. Len(rows') : rows'[i].text = content'
    BY <1>2, <1>3, <1>4 DEF RowsGrow
  <1>7. QED
    BY <1>5, <1>6

LEMMA NoneOverHumanKept ==
  ASSUME Inv, Guarded, Next PROVE NoneOverHuman'
  <1>1. SUFFICES ASSUME Unwritten', NEW i \in 1 .. Len(rows')
                 PROVE  rows'[i].expected \notin HumanTexts
    BY DEF NoneOverHuman
  <1>2. TypeOK /\ RowsGrow /\ Len(rows) \in Nat /\ Len(rows') \in Nat
    BY RowsGrowing, StepKeepsInv DEF Inv, TypeOK
  <1>3. Unwritten
    <2>1. snd.at = "ok" => This.text # NoState
      <3>1. ASSUME snd.at = "ok"
            PROVE  rows[snd.i] \in Row
        BY <1>2, <3>1, SenderRow DEF TypeOK
      <3>2. QED
        BY <3>1, ProjectionAssumption DEF This, Row, ProjectionAssumption
    <2>2. QED
      BY <1>1, <2>1, StateSteps DEF Unwritten
  <1>4. CASE i \in 1 .. Len(rows)
    BY <1>2, <1>3, <1>4 DEF RowsGrow, Guarded, NoneOverHuman
  <1>5. CASE i \notin 1 .. Len(rows)
    <2>1. rows'[i].expected = remote /\ ~ IsHumanPatch
      BY <1>2, <1>5 DEF RowsGrow
    <2>2. state \in {content, NoState}
      BY <1>3 DEF Unwritten, Guarded, OneText
    <2>3. remote \in {content, Absent}
      BY <2>1, <2>2 DEF IsHumanPatch
    <2>4. QED
      BY <1>2, <2>1, <2>3, ProjectionAssumption DEF TypeOK, ProjectionAssumption
  <1>6. QED
    BY <1>4, <1>5

LEMMA NextGuarded == Inv /\ Guarded /\ [Next]_vars => Guarded'
  <1> SUFFICES ASSUME Inv, Guarded, [Next]_vars PROVE Guarded'
    OBVIOUS
  <1>1. CASE Next
    BY <1>1, StillExpectedKept, OneTextKept, NoneOverHumanKept DEF Guarded
  <1>2. CASE UNCHANGED vars
    BY <1>2 DEF vars, Guarded, StillExpected, OneText, NoneOverHuman, Unwritten, This
  <1>3. QED
    BY <1>1, <1>2

(* Guarded is inductive relative to Inv. *)
THEOREM GuardedInvariance == Spec => []Guarded
  BY InitGuarded, NextGuarded, Invariance, PTL DEF Spec

(* "the system does NOT overwrite it": while the text is the one the system       *)
(* wrote, or it has written none, only a write that names no revision can end on   *)
(* a human's text, however syncs, retries, conflicts and humans interleave.        *)
THEOREM HumansAreKept == Spec => HumanKept
  <1> DEFINE Kept == remote \in HumanTexts /\ remote' \in Texts
                     /\ (state = NoState \/ budget.changes = 0) => OpenWindow
  <1>1. Inv /\ Guarded /\ [Next]_vars => [Kept]_vars
    <2> SUFFICES ASSUME Inv, Guarded, Next, remote \in HumanTexts, remote' \in Texts, Unwritten
                 PROVE  OpenWindow
      BY DEF Unwritten
    <2>1. remote' # remote /\ remote' \notin HumanTexts \union {Absent}
      BY ProjectionAssumption DEF ProjectionAssumption
    <2>2. Write \/ WriteAnswerLost
      BY <2>1 DEF Next, ContentChanges, HumanEdits, HumanEditsElsewhere, Show, Sync,
         SyncRecordsPatch, SyncEnqueues, SyncFails, SyncUnchanged, Send, Take, Read,
         WriteConflicts, Reread, FinishOk, FinishSkip, Fails, EndSending, Abort, ComeDue,
         RemoteUnchanged
    <2>3. snd.at = "write" /\ ~ Conflict
      BY <2>2 DEF Write, WriteAnswerLost
    <2>4. snd.i \in 1 .. Len(rows)
      BY <2>3, SenderRow DEF Inv
    <2>5. ~ (snd.token /\ ~ moved)
      <3> SUFFICES ASSUME snd.token, ~ moved PROVE FALSE
        OBVIOUS
      <3>1. remote = This.expected
        BY <2>3 DEF Guarded, StillExpected
      <3>2. QED
        BY <2>4, <3>1 DEF Guarded, NoneOverHuman, This
    <2>6. QED
      BY <2>3, <2>5 DEF Conflict, OpenWindow
  <1>2. [][Inv /\ Guarded /\ [Next]_vars]_vars => [][Kept]_vars
    BY <1>1, PTL
  <1>3. QED
    BY <1>1, Invariance, GuardedInvariance, PTL DEF Spec, HumanKept

=============================================================================
