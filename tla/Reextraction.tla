---------------------------- MODULE Reextraction ----------------------------
(***************************************************************************)
(* CV re-extraction of an approved profile: the claim of a durable         *)
(* operation, the server-sent-event stream that owns it while it runs      *)
(* (services/profile_reextraction.py) and the publication of its draft     *)
(* (services/profile_drafts.py).  One operation row is driven by one       *)
(* generator; it exists in the memory of the backend process only.         *)
(***************************************************************************)
EXTENDS ProfileStore

VARIABLE stream  \* where the generator that claimed an operation stands

\* checked: the publication transaction has made its reads; mismatch: its
\* compare-and-swap failed; published: it has committed; failing: an exception
\* is being recorded.
LiveStreams == {"extracting", "checked", "mismatch", "published", "failing"}

StreamTypeOK == stream \in [OperationIds -> LiveStreams \cup {"unused", "done"}]
StreamInit == stream = [o \in OperationIds |-> "unused"]

At(o, pc) == stream[o] = pc
Goto(o, pc) == stream' = [stream EXCEPT ![o] = pc]

-----------------------------------------------------------------------------
(* _claim and claim_operation, in one BEGIN IMMEDIATE transaction *)

ClaimAllowed(p) ==
    /\ WorkspaceIdle
    /\ ReviewClear(p)
    /\ ~ PendingSetup
    /\ profiles[p].state = "ready"
    /\ workspace.active = p
    /\ profiles[p].cv \in {"active", "archived"}
    /\ ~ \E o \in OperationIds : OwnedDraft(p, o)
    /\ Actionable(p) = {}

Claim(p, o) ==
    /\ At(o, "unused")
    /\ ClaimAllowed(p)
    /\ operations' = [WithoutOperations(Purgeable(p)) EXCEPT
                        ![o] = [state |-> "running", profile |-> p,
                                baseProfile |-> profiles[p].rev,
                                baseWorkspace |-> workspace.rev]]
    /\ Goto(o, "extracting")
    /\ UNCHANGED <<profiles, workspace, drafts, runs, clock>>

-----------------------------------------------------------------------------
(* Publication *)

Publishable(o) ==
    /\ operations[o].state = "running"
    /\ BaseCurrent(o)
    /\ ~ HasDraft(operations[o].profile)
    /\ ~ PendingSetup

\* The reads of _publish_reextract_stage_transaction, after the extraction.
StreamCheck(o) ==
    /\ At(o, "extracting")
    /\ Goto(o, IF Publishable(o) THEN "checked" ELSE "mismatch")
    /\ UNCHANGED storeVars

\* Its writes: the chunks and the document draft, the draft row, and the
\* compare-and-swap of the operation from running.
StreamPublish(o) ==
    LET p == operations[o].profile IN
    /\ At(o, "checked")
    /\ operations[o].state = "running"
    /\ UpsertHolds(p, 0)
    /\ CanStamp
    /\ profiles' = [profiles EXCEPT ![p].doc = TRUE]
    /\ drafts' = Upserted(p, 0, o, TRUE)
    /\ TransitionRunning(o, "review_ready")
    /\ Stamp
    /\ Goto(o, "published")
    /\ UNCHANGED <<workspace, runs>>

\* publish_reextract_stage after PublishCasMismatch.
StreamMarkStale(o) ==
    /\ At(o, "mismatch")
    /\ TransitionRunning(o, "stale")
    /\ Goto(o, "done")
    /\ UNCHANGED <<profiles, workspace, drafts, runs, clock>>

\* Any exception of the extraction or of a transaction reaches a handler of
\* stream, which records it with _finalize_failed.
StreamFail(o) ==
    /\ stream[o] \in LiveStreams \ {"published", "failing"}
    /\ Goto(o, "failing")
    /\ UNCHANGED storeVars

StreamFailed(o) ==
    /\ At(o, "failing")
    /\ TransitionRunning(o, "failed")
    /\ Goto(o, "done")
    /\ UNCHANGED <<profiles, workspace, drafts, runs, clock>>

\* The finalization cannot commit, because the store stays locked: the error is
\* logged and the row is left to the recovery of the next start.
StreamUnfinalized(o) ==
    /\ stream[o] \in LiveStreams
    /\ Goto(o, "done")
    /\ UNCHANGED storeVars

\* The client disconnects inside _finalize_failed, whose session is not shielded
\* and whose caller is already a handler: nothing finalizes the row after it.
StreamCutOff(o) ==
    /\ At(o, "failing")
    /\ Goto(o, "done")
    /\ UNCHANGED storeVars

\* The client disconnects at any other await: _finalize_interrupted, shielded.
StreamCancel(o) ==
    /\ stream[o] \in LiveStreams \ {"failing"}
    /\ TransitionRunning(o, "interrupted")
    /\ Goto(o, "done")
    /\ UNCHANGED <<profiles, workspace, drafts, runs, clock>>

\* The generator ends after it has emitted reextract_review_ready.
StreamEnd(o) ==
    /\ At(o, "published")
    /\ Goto(o, "done")
    /\ UNCHANGED storeVars

StreamStep(o) ==
    \/ StreamCheck(o)
    \/ StreamPublish(o)
    \/ StreamMarkStale(o)
    \/ StreamFail(o)
    \/ StreamFailed(o)
    \/ StreamCancel(o)
    \/ StreamEnd(o)

\* get_status and get_review reconcile an outdated review when it is read.
ReadReview(o) ==
    /\ ReviewOutdated(o)
    /\ operations' = Reconciled(o)
    /\ UNCHANGED <<profiles, workspace, drafts, runs, clock, stream>>

\* Faulty variant: a start-up without recovery.
RecoverNothing == UNCHANGED operations

\* Faulty variant: recovery writes a state that the table does not know.
RecoverAsCancelled ==
    operations' = [o \in OperationIds |->
                     IF operations[o].state = "running"
                     THEN [operations[o] EXCEPT !.state = "cancelled"]
                     ELSE operations[o]]

\* recover_running_profile_reextract_operations, at start-up.
RecoverRunning ==
    operations' = [o \in OperationIds |->
                     IF operations[o].state = "running"
                     THEN [operations[o] EXCEPT !.state = "interrupted"]
                     ELSE operations[o]]
=============================================================================
