----------------------------- MODULE Projection -----------------------------
(***************************************************************************)
(* One section of a project's Feishu document: sync_document compares what  *)
(* the project compiles to, the projection state and the remote block, and  *)
(* queues a write (projections/feishu_doc.py); the outbox sender performs it *)
(* (scheduler/outbox_sender.py) over a client that retries and reports       *)
(* revision conflicts (projections/feishu_client.py), while humans edit the   *)
(* block, and the rest of the document.                                     *)
(*                                                                         *)
(* A tick syncs and then sends what is due.  Claims and leases are the       *)
(* subject of Outbox: a claimed row is here a PENDING one that is not due.   *)
(* Texts stand for their hashes.                                            *)
(***************************************************************************)
EXTENDS Naturals, Sequences, FiniteSets

CONSTANTS Texts,       \* what the section may compile to
          HumanTexts,  \* what a human may write into the block
          Absent,      \* no block
          NoState,     \* no projection_states row
          Revisions,   \* the platform checks the revision a write names
          MaxAttempts, \* max_attempts of a doc_block row
          MaxChanges,  \* bound: changes of the compiled text
          MaxEdits,    \* bound: human edits of the block
          MaxOthers,   \* bound: human edits elsewhere in the document
          MaxFaults    \* bound: failed, lost or interrupted steps

Blocks == Texts \union HumanTexts \union {Absent}

ASSUME ProjectionAssumption ==
    /\ Texts \intersect HumanTexts = {}
    /\ Absent \notin Texts \union HumanTexts
    /\ NoState \notin Texts
    /\ Revisions \in BOOLEAN
    /\ MaxAttempts \in Nat \ {0}

VARIABLES
    content,  \* compile_sections: the text the section should have
    remote,   \* the remote block
    state,    \* the content hash of its projection_states row
    rows,     \* its doc_block rows, in the order of created_at
    patches,  \* the texts of its projection.human_patch events
    phase,    \* the tick: "sync" or "send"
    todo,     \* the rows listed by send_pending and not visited
    snd,      \* [at, i: the row, token: a revision is passed, existed: at the read]
    moved,    \* the document changed since the sender read it
    seen,     \* history: what the remote block has been
    budget    \* [changes, edits, others, faults] spent so far

vars == <<content, remote, state, rows, patches, phase, todo, snd, moved, seen, budget>>

Row == [text: Texts, expected: Blocks, status: {"PENDING", "SENT", "SKIPPED", "DEAD"},
        attempts: Nat, due: BOOLEAN]

Idle == [at |-> "idle", i |-> 0, token |-> FALSE, existed |-> FALSE]

TypeOK ==
    /\ content \in Texts
    /\ remote \in Blocks
    /\ state \in Texts \union {NoState}
    /\ rows \in Seq(Row)
    /\ patches \in SUBSET Blocks
    /\ phase \in {"sync", "send"}
    /\ todo \in SUBSET (1 .. Len(rows))
    /\ snd \in [at: {"idle", "read", "write", "reread", "ok", "skip"},
                i: 0 .. Len(rows), token: BOOLEAN, existed: BOOLEAN]
    /\ snd.at # "idle" => snd.i # 0
    /\ moved \in BOOLEAN
    /\ seen \in SUBSET Blocks
    /\ budget \in [changes: Nat, edits: Nat, others: Nat, faults: Nat]

Init ==
    /\ content \in Texts
    /\ remote \in HumanTexts \union {Absent}
    /\ state = NoState
    /\ rows = <<>>
    /\ patches = {}
    /\ phase = "sync"
    /\ todo = {}
    /\ snd = Idle
    /\ moved = FALSE
    /\ seen = {remote}
    /\ budget = [changes |-> 0, edits |-> 0, others |-> 0, faults |-> 0]

Spend(field, max) == budget[field] < max /\ budget' = [budget EXCEPT ![field] = @ + 1]
Show(text) == remote' = text /\ seen' = seen \union {text}
RemoteUnchanged == UNCHANGED <<remote, seen>>

-----------------------------------------------------------------------------
(* The project, and the humans that edit the document.                     *)

ContentChanges(text) ==
    /\ text # content
    /\ Spend("changes", MaxChanges)
    /\ content' = text
    /\ UNCHANGED <<remote, state, rows, patches, phase, todo, snd, moved, seen>>

HumanEdits(text) ==
    /\ text # remote
    /\ Spend("edits", MaxEdits)
    /\ Show(text)
    /\ moved' = TRUE
    /\ UNCHANGED <<content, state, rows, patches, phase, todo, snd>>

(* PI Notes, or any other block: the revision of the document moves.         *)
HumanEditsElsewhere ==
    /\ Spend("others", MaxOthers)
    /\ moved' = TRUE
    /\ UNCHANGED <<content, remote, state, rows, patches, phase, todo, snd, seen>>

-----------------------------------------------------------------------------
(* sync_document.                                                          *)

(* _pending_outbox: this text is queued, or was skipped for a human's.       *)
EverQueued(text) == \E i \in 1 .. Len(rows) : rows[i].text = text
QueuedOrSkipped(text) ==
    \E i \in 1 .. Len(rows) : rows[i].text = text /\ rows[i].status \in {"PENDING", "SKIPPED"}

EnqueueDocBlock ==
    rows' = IF QueuedOrSkipped(content) THEN rows
            ELSE Append(rows, [text |-> content, expected |-> remote, status |-> "PENDING",
                               attempts |-> 0, due |-> TRUE])

(* The block is a human's: the state says that it should be what it is not,   *)
(* or there is no state and the block is of unknown origin.                   *)
IsHumanPatch == remote \notin {content, Absent} /\ state \in {content, NoState}

Due == {i \in 1 .. Len(rows) : rows[i].status = "PENDING" /\ rows[i].due}

StartSending == phase' = "send" /\ todo' = {i \in 1 .. Len(rows') : i > Len(rows) \/ i \in Due}

SyncUnchanged == UNCHANGED <<content, remote, state, snd, moved, seen>>

SyncRecordsPatch ==
    /\ phase = "sync" /\ IsHumanPatch
    /\ patches' = patches \union {remote}
    /\ rows' = rows
    /\ StartSending
    /\ SyncUnchanged /\ UNCHANGED budget

SyncEnqueues ==
    /\ phase = "sync" /\ ~ IsHumanPatch
    /\ IF remote = content /\ state = content THEN rows' = rows ELSE EnqueueDocBlock
    /\ patches' = patches
    /\ StartSending
    /\ SyncUnchanged /\ UNCHANGED budget

(* list_blocks raised; the tick goes on.                                     *)
SyncFails ==
    /\ phase = "sync"
    /\ Spend("faults", MaxFaults)
    /\ UNCHANGED <<rows, patches>>
    /\ StartSending
    /\ SyncUnchanged

Sync == SyncRecordsPatch \/ SyncEnqueues \/ SyncFails

-----------------------------------------------------------------------------
(* send_pending: a doc_block row.                                          *)

This == rows[snd.i]
Goto(at) == snd' = [snd EXCEPT !.at = at]
SendUnchanged == UNCHANGED <<content, patches, phase>>

Claimed(r) == [r EXCEPT !.attempts = r.attempts + 1, !.due = FALSE]

Take(i) ==
    /\ phase = "send" /\ snd.at = "idle"
    /\ i \in todo /\ \A j \in todo : i <= j
    /\ todo' = todo \ {i}
    /\ rows' = [rows EXCEPT ![i] = Claimed(rows[i])]
    /\ snd' = [Idle EXCEPT !.at = "read", !.i = i]
    /\ RemoteUnchanged /\ UNCHANGED <<state, moved, budget>>
    /\ SendUnchanged

(* The block is read, with the revision if the platform has one and the      *)
(* second request does not fail; a block that already has the text is         *)
(* adopted, one that changed since the row was queued is skipped.             *)
NeverChanged(expected) == FALSE
ChangedSince(expected) == remote # expected

Read(token) ==
    /\ snd.at = "read"
    /\ IF token = Revisions THEN budget' = budget ELSE ~ token /\ Spend("faults", MaxFaults)
    /\ snd' = [snd EXCEPT !.at = IF remote = This.text THEN "ok"
                                 ELSE IF ChangedSince(This.expected) THEN "skip" ELSE "write",
                          !.token = token, !.existed = remote # Absent]
    /\ moved' = FALSE
    /\ RemoteUnchanged /\ UNCHANGED <<state, rows, todo>>
    /\ SendUnchanged

Conflict == snd.token /\ moved
NotFound == snd.existed /\ remote = Absent

(* update_block of a block that was there, create_block of one that was not.  *)
Write ==
    /\ snd.at = "write" /\ ~ NotFound /\ ~ Conflict
    /\ Show(This.text)
    /\ moved' = TRUE
    /\ Goto("ok")
    /\ UNCHANGED <<state, rows, todo, budget>>
    /\ SendUnchanged

(* The write reached the platform and its answer did not come back: _call     *)
(* repeats the request, with the revision that it has just made stale.        *)
WriteAnswerLost ==
    /\ snd.at = "write" /\ ~ NotFound /\ ~ Conflict
    /\ Spend("faults", MaxFaults)
    /\ Show(This.text)
    /\ moved' = TRUE
    /\ UNCHANGED <<state, rows, todo, snd>>
    /\ SendUnchanged

WriteConflicts ==
    /\ snd.at = "write" /\ ~ NotFound /\ Conflict
    /\ Goto("reread")
    /\ RemoteUnchanged /\ UNCHANGED <<state, rows, todo, moved, budget>>
    /\ SendUnchanged

(* The test of the re-read block, as Python groups it:                        *)
(* remote2.get(key, "") or ("" != expected_remote).                           *)
SkipsReread(expected) == remote # Absent \/ expected # Absent

(* What is left is a block that was and is absent: it is created, and the     *)
(* request names no revision.                                                *)
Reread ==
    /\ snd.at = "reread"
    /\ snd' = IF SkipsReread(This.expected) THEN [snd EXCEPT !.at = "skip"]
              ELSE [snd EXCEPT !.at = "write", !.token = FALSE, !.existed = FALSE]
    /\ RemoteUnchanged /\ UNCHANGED <<state, rows, todo, moved, budget>>
    /\ SendUnchanged

(* mark_sent and _write_back_projection, in one transaction.                  *)
FinishOk ==
    /\ snd.at = "ok"
    /\ rows' = [rows EXCEPT ![snd.i].status = "SENT"]
    /\ state' = This.text
    /\ snd' = Idle
    /\ RemoteUnchanged /\ UNCHANGED <<todo, moved, budget>>
    /\ SendUnchanged

(* HumanPatchSkip: SENT, marked as skipped; no state is written.              *)
ClaimsText == This.text
AdoptsRemote == remote
StateAfterSkip == state

FinishSkip ==
    /\ snd.at = "skip"
    /\ rows' = [rows EXCEPT ![snd.i].status = "SKIPPED"]
    /\ state' = StateAfterSkip
    /\ snd' = Idle
    /\ RemoteUnchanged /\ UNCHANGED <<todo, moved, budget>>
    /\ SendUnchanged

(* A request fails for good: back off, or dead-letter.  A block that is not    *)
(* found fails without a fault.                                               *)
Fails ==
    /\ \/ snd.at \in {"read", "write", "reread"} /\ Spend("faults", MaxFaults)
       \/ snd.at = "write" /\ NotFound /\ budget' = budget
    /\ rows' = [rows EXCEPT ![snd.i].status = IF @ = "PENDING" /\ This.attempts >= MaxAttempts
                                              THEN "DEAD" ELSE @]
    /\ snd' = Idle
    /\ RemoteUnchanged /\ UNCHANGED <<state, todo, moved>>
    /\ SendUnchanged

EndSending ==
    /\ phase = "send" /\ snd.at = "idle" /\ todo = {}
    /\ phase' = "sync"
    /\ RemoteUnchanged
    /\ UNCHANGED <<content, state, rows, patches, todo, snd, moved, budget>>

(* The service is killed, or the finishing transaction raises: the row it had  *)
(* claimed is due again when the claim lapses.                                *)
Abort ==
    /\ phase = "send"
    /\ Spend("faults", MaxFaults)
    /\ phase' = "sync"
    /\ todo' = {}
    /\ snd' = Idle
    /\ RemoteUnchanged
    /\ UNCHANGED <<content, state, rows, patches, moved>>

ComeDue(i) ==
    /\ rows[i].status = "PENDING" /\ ~ rows[i].due
    /\ snd.i # i
    /\ rows' = [rows EXCEPT ![i].due = TRUE]
    /\ RemoteUnchanged
    /\ UNCHANGED <<content, state, patches, phase, todo, snd, moved, budget>>

Send ==
    \/ \E i \in todo : Take(i)
    \/ \E token \in BOOLEAN : Read(token)
    \/ Write \/ WriteAnswerLost \/ WriteConflicts \/ Reread
    \/ FinishOk \/ FinishSkip \/ Fails \/ EndSending

Next ==
    \/ \E text \in Texts : ContentChanges(text)
    \/ \E text \in HumanTexts \union {Absent} : HumanEdits(text)
    \/ HumanEditsElsewhere
    \/ Sync \/ Send \/ Abort
    \/ \E i \in 1 .. Len(rows) : ComeDue(i)

Spec == Init /\ [][Next]_vars

-----------------------------------------------------------------------------
(* Safety.                                                                 *)

(* _write_back_projection: "the state can never claim a block the remote does *)
(* not have": what the state names has been the remote block, whatever is      *)
(* skipped, lost, repeated or interrupted.                                    *)
StateWasRemote == state # NoState => state \in seen

(* Where a write is not protected by a revision: a human who edits here loses. *)
OpenWindow == snd.at = "write" /\ ~ snd.token

(* "the system does NOT overwrite it": as long as the compiled text is the one *)
(* the system wrote, or the system has written none, no interleaving of sync,  *)
(* delivery and retry writes over a human's text.                             *)
HumanKept ==
    [][/\ remote \in HumanTexts /\ remote' \in Texts
       /\ state = NoState \/ budget.changes = 0
       => OpenWindow]_vars

-----------------------------------------------------------------------------
(* Liveness: ticks follow each other, and retry times arrive.               *)
Fairness ==
    /\ WF_vars(Sync) /\ WF_vars(Send)
    /\ WF_vars(\E i \in 1 .. Len(rows) : ComeDue(i))

FairSpec == Spec /\ Fairness

(* Without faults and edits of others, the document catches up with the      *)
(* project, through changes that come back to an earlier text.                *)
CatchesUp ==
    <>[](\/ budget.edits + budget.others + budget.faults > 0
         \/ remote \in HumanTexts
         \/ remote = content /\ state = content)

=============================================================================
