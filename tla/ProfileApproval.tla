--------------------------- MODULE ProfileApproval ---------------------------
(***************************************************************************)
(* The two transactions that consume a profile draft: commit_approved_draft*)
(* (services/profile_approval.py), shared by the review screen and by the  *)
(* agent's commit_profile_draft tool, and the coordinator's discard        *)
(* (services/profile_reextraction.py).  Each is given as a check on the    *)
(* store, the Work record the check leaves in the session, the condition   *)
(* under which the writes get through (SQL re-tests nothing else) and the  *)
(* writes.  The actors that run them are in the modules that extend this.  *)
(***************************************************************************)
EXTENDS ProfileStore

(* commit_approved_draft *)

\* _load_preflight and _validate_operation_linked_approval, and the guards of
\* _run_sqlite_approval that precede its first UPDATE.  The read session before
\* it makes the same tests on an older state.
ApprovalAdmissible(p, o, rev) ==
    /\ HasDraft(p)
    /\ drafts[p].rev = rev
    /\ drafts[p].op = o
    /\ profiles[p].state \in {"pending", "ready"}
    /\ IF drafts[p].sourced
       THEN /\ profiles[p].cv \in {"staged", "archived", "active"}
            /\ profiles[p].file
            /\ profiles[p].doc
       ELSE /\ profiles[p].state = "ready"
            /\ ActiveAttachments # {}
    /\ o # NoOperation => /\ operations[o].state = "review_ready"
                          /\ operations[o].profile = p
                          /\ BaseCurrent(o)

\* Only the approval of a pending profile touches attachment states; other is
\* the attachment it has read as the active one.
ApprovalWork(p) ==
    LET replaced == ActiveAttachments \ {p}
        mode == profiles[p].state
    IN [NoWork EXCEPT !.profile = p, !.mode = mode,
                      !.id = drafts[p].id, !.rev = drafts[p].rev,
                      !.op = drafts[p].op, !.sourced = drafts[p].sourced,
                      !.other = IF mode = "pending" /\ replaced # {}
                                THEN CHOOSE q \in replaced : TRUE
                                ELSE NoProfile]

\* Faulty variant: nothing is tested again after the reads.
ApprovalHoldsUntested(w) == Exists(w.profile)

\* Faulty variant: the operation is deleted whatever its state is.
ApprovalHoldsInAnyState(w) ==
    /\ Exists(w.profile)
    /\ HasDraft(w.profile)
    /\ drafts[w.profile].id = w.id
    /\ w.mode = "pending" => ActiveAttachments \ {w.profile} \subseteq {w.other}

\* The profile UPDATE finds its row, the draft SELECT still finds the row that
\* was read (its revision is compared in the session's copy), the operation
\* DELETE tests review_ready, and one attachment ends up active.
ApprovalHolds(w) ==
    /\ Exists(w.profile)
    /\ HasDraft(w.profile)
    /\ drafts[w.profile].id = w.id
    /\ w.op # NoOperation => operations[w.op].state = "review_ready"
    /\ w.mode = "pending" =>
         /\ ActiveAttachments \ {w.profile} \subseteq {w.other}
         /\ w.other # NoProfile => Exists(w.other)

ApprovedRow(w) ==
    [profiles[w.profile] EXCEPT
        !.state = IF w.mode = "pending" THEN "ready" ELSE @,
        !.cv = IF w.mode = "pending" THEN "active" ELSE @,
        !.doc = @ /\ ~ w.sourced,
        !.rev = clock + 1,
        !.truth = w.rev]

ApprovalWrites(w) ==
    /\ profiles' = [q \in Profiles |->
         IF q = w.profile THEN ApprovedRow(w)
         ELSE IF q = w.other THEN [profiles[q] EXCEPT !.cv = "archived"]
                             ELSE profiles[q]]
    /\ workspace' = IF w.mode = "pending" THEN Select(w.profile, NoProfile)
                                          ELSE workspace
    /\ drafts' = [drafts EXCEPT ![w.profile] = NoDraft]
    /\ operations' = IF w.op = NoOperation THEN operations
                     ELSE [operations EXCEPT ![w.op] = NoOperationRow]
    /\ Stamp
    /\ UNCHANGED runs

-----------------------------------------------------------------------------
(* ProfileReextractionCoordinator.discard *)

DiscardAdmissible(p, o, rev) ==
    /\ HasDraft(p)
    /\ drafts[p].rev = rev
    /\ drafts[p].op = o
    /\ o # NoOperation => operations[o].state \in {"stale", "review_ready"}

\* The mode is the state the operation has after the reconciliation that opens
\* the discard, which the final DELETE expects.
DiscardWork(p) ==
    LET o == drafts[p].op IN
    [NoWork EXCEPT !.profile = p, !.id = drafts[p].id, !.rev = drafts[p].rev,
                   !.op = o, !.sourced = drafts[p].sourced,
                   !.mode = IF o = NoOperation THEN "ordinary"
                            ELSE Reconciled(o)[o].state]

\* The draft DELETE goes by primary key and does not miss a vanished row; only
\* the operation's own document draft and row are tested.
DiscardHolds(w) ==
    w.op # NoOperation =>
        /\ profiles[w.profile].doc
        /\ \/ operations[w.op].state = w.mode
           \/ operations[w.op].state = "review_ready" /\ w.mode = "stale"

\* Faulty variant: DELETE ... WHERE updated_at = the revision that was read.
DeletedAtRevision(w) ==
    IF drafts[w.profile].rev = w.rev
    THEN [drafts EXCEPT ![w.profile] = NoDraft]
    ELSE drafts

DeletedByKey(w) ==
    IF drafts[w.profile].id = w.id
    THEN [drafts EXCEPT ![w.profile] = NoDraft]
    ELSE drafts

DiscardWrites(w) ==
    /\ drafts' = DeletedByKey(w)
    /\ profiles' = [profiles EXCEPT ![w.profile].doc = @ /\ ~ w.sourced]
    /\ operations' = IF w.op = NoOperation THEN operations
                     ELSE [operations EXCEPT ![w.op] = NoOperationRow]
    /\ UNCHANGED <<workspace, runs, clock>>
=============================================================================
