---------------------------- MODULE ProfileReview ----------------------------
(***************************************************************************)
(* What the profile review lifecycle is to guarantee, whatever the order   *)
(* in which streams, turns, requests, crashes and restarts take their      *)
(* steps.                                                                  *)
(***************************************************************************)
EXTENDS ProfileLifecycle

-----------------------------------------------------------------------------
(* Operations and drafts *)

\* A draft that names a re-extraction operation is the draft of that
\* operation's profile, and the operation is one that discard or approval can
\* still consume.  Publication writes both rows, three services delete them.
DraftHasOwner ==
    \A p \in Profiles, o \in OperationIds :
        OwnedDraft(p, o) => /\ operations[o].profile = p
                            /\ operations[o].state \in {"review_ready", "stale"}

\* An operation that is review_ready has its draft: a review the profile is
\* blocked by can always be opened, approved or discarded.
ReviewHasDraft ==
    \A o \in OperationIds :
        operations[o].state = "review_ready" =>
            OwnedDraft(operations[o].profile, o)

\* A profile never has two operation rows, however often it is re-extracted:
\* claim_operation drops what is superseded and refuses what is not, so that
\* get_latest_operation_for_profile has one row to find.
OneOperationPerProfile ==
    \A o, q \in OperationIds :
        /\ operations[o].state # "none"
        /\ operations[o].profile = operations[q].profile
        => o = q

\* While the backend is up, a running operation belongs to a generator that
\* has still to move it: cancellation, failure and start-up recovery leave none
\* behind ("failure transition, and cancellation finalization each use their own
\* short cancellation-shielded database scope"), so that the activity gates never
\* wait for a dead extraction.  It takes a store that does not stay locked while
\* a stream is finalized, and no disconnect inside the failure transition.
RunningHasStream ==
    up => \A o \in OperationIds :
             operations[o].state = "running" =>
                 stream[o] \in LiveStreams \ {"published"}

\* A running re-extraction ends, also when the process dies under it.
RunningEnds ==
    \A o \in OperationIds :
        operations[o].state = "running" ~> operations[o].state # "running"

\* An upload and a re-extraction exclude each other: the BEGIN IMMEDIATE gates
\* of upload_cv and _claim let no pending profile coexist with an operation
\* that is running or offers a review.
SetupExcludesReextraction ==
    PendingSetup =>
        \A o \in OperationIds : operations[o].state \notin ActionableStates

-----------------------------------------------------------------------------
(* Approved truth *)

Approved(p) == profiles'[p].truth \notin {profiles[p].truth, 0}

\* The approved content of a profile changes only together with the deletion of
\* a draft, and of the review_ready operation that owns the draft: neither a
\* replay of the same approval nor a withdrawn operation can do it.
ApprovalConsumes ==
    \A p \in Profiles :
        Approved(p) =>
            /\ HasDraft(p)
            /\ ~ HasDraft(p)'
            /\ drafts[p].op # NoOperation =>
                 /\ operations[drafts[p].op].state = "review_ready"
                 /\ operations'[drafts[p].op].state = "none"

TruthConsumesDraft == [][ApprovalConsumes]_vars


-----------------------------------------------------------------------------
(* Set-up, selection, deletion *)

SelectionConsistent ==
    LET p == workspace.active IN
    p # NoProfile /\ profiles[p].state = "ready" => profiles[p].cv = "active"

\* c is about to select a profile whose attachment it read as active and does not
\* write, and that attachment is active no more.
SelectsOvertaken(c) ==
    LET w == client[c].work
        p == IF OnStep(c, "activating") THEN w.profile ELSE w.other
    IN /\ client[c].pc \in {"activating", "deleting"}
       /\ w.mode = "active" /\ w.selected # p
       /\ p # NoProfile /\ profiles[p].cv # "active"

SelectionStep ==
    SelectionConsistent =>
        \/ SelectionConsistent'
        \/ \E c \in Clients : SelectsOvertaken(c) /\ client'[c] # client[c]

\* The attachment of the selected profile is the active one once that profile is
\* ready: two tables written by upload, approval, activation and deletion, which
\* no step of any of them takes apart but the write of an activation or of a
\* fallback that read its target as active before another activation archived it.
\* It takes that no turn fails meanwhile: the failure of a bootstrap turn marks the
\* CV it read as staged, though an approval may have activated it since.
SelectionKept == [][SelectionStep]_vars

\* A profile that is ready keeps its retained PDF, whatever deletion or crash
\* went before.
ReadyKeepsFile ==
    \A p \in Profiles : profiles[p].state = "ready" => profiles[p].file

DeletionRetryable(p) ==
    profiles[p].state = "deleting" => profiles[p].cv = "deleting"

\* c is about to set the attachment of p, whose rows its check has read.
SetsAsRead(c, p) ==
    LET w == client[c].work IN
    /\ w.mode # "active"
    /\ \/ /\ OnStep(c, "activating")
          /\ p = IF w.mode = "switch" THEN w.other ELSE w.profile
       \/ /\ OnStep(c, "deleting")
          /\ p = IF w.mode = "switch" THEN w.demoted ELSE w.other

RetryStep ==
    \A p \in Profiles :
        DeletionRetryable(p) =>
            \/ DeletionRetryable(p)'
            \/ /\ profiles[p].state = "deleting"
               /\ \E c \in Clients : SetsAsRead(c, p) /\ client'[c] # client[c]

\* A deletion that was begun can be retried: profile and attachment are both
\* deleting, as _mark_for_deletion demands of a retry ("deletion failures remain
\* retryable"), and no step takes that away but the write of an activation, or of
\* the end of another deletion, that read the profile before it was marked.
RetryKept == [][RetryStep]_vars

-----------------------------------------------------------------------------
(* Refinement: drafts, streams, revisions, turns and crashes implement the   *)
(* operation state machine of ReviewContract.                                *)

Phase(o) ==
    CASE operations[o].state = "running" -> "working"
      [] operations[o].state = "review_ready" -> "offered"
      [] operations[o].state \in TerminalStates -> "withdrawn"
      [] OTHER -> IF At(o, "unused") THEN "idle" ELSE "closed"

Contract == INSTANCE ReviewContract WITH
    phase <- [o \in OperationIds |-> Phase(o)],
    owner <- [o \in OperationIds |-> operations[o].profile],
    truth <- [p \in Profiles |-> profiles[p].truth]

\* Every behaviour of the lifecycle is one of the contract: in particular the
\* approved content of a profile never changes under an offered review except
\* by the approval of that review, and no operation is claimed, offered,
\* approved or discarded twice.
ImplementsContract == Contract!Spec
=============================================================================
