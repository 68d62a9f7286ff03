--------------------------- MODULE ProfileLifecycle ---------------------------
(***************************************************************************)
(* The profile review lifecycle of one backend process: the REST mutations *)
(* of profiles and CVs (api/profiles.py, services/cv_upload.py,            *)
(* services/profile_activation.py, services/profile_deletion.py), the      *)
(* re-extraction streams and the chat turns, interleaved over one store,   *)
(* with crashes and restarts of the process.  A request between its check  *)
(* and its write occupies one slot of Clients.                             *)
(***************************************************************************)
EXTENDS ProfileTurn, Reextraction

CONSTANTS
    Clients,   \* REST mutations in flight at the same time
    Requests   \* kinds of requests and faults of this instance

\* crash is the death of the process, busy a store that stays locked, cutoff a
\* disconnect while the failure of a re-extraction is being recorded.
RequestKinds == {"approve", "discard", "activate", "delete", "retry", "upload",
                 "rename", "read", "crash", "busy", "cutoff"}

ASSUME RequestAssumption == Requests \subseteq RequestKinds

VARIABLES
    client,  \* per slot, where its request stands and what it has read
    up       \* the backend process is running

vars == <<storeVars, stream, turn, client, up>>

RequestSteps == {"idle", "approving", "discarding", "activating", "marking",
                 "cleaning", "finalizing", "deleting", "retrying"}

TypeOK ==
    /\ StoreTypeOK
    /\ StreamTypeOK
    /\ TurnTypeOK
    /\ client \in [Clients -> [pc: RequestSteps, work: Work]]
    /\ up \in BOOLEAN

Init ==
    /\ StoreInit
    /\ StreamInit
    /\ TurnInit
    /\ client = [c \in Clients |-> [pc |-> "idle", work |-> NoWork]]
    /\ up = TRUE

OnStep(c, pc) == client[c].pc = pc
Request(c, pc, work) == client' = [client EXCEPT ![c] = [pc |-> pc, work |-> work]]
Respond(c) == Request(c, "idle", NoWork)
Issue(c, kind) == kind \in Requests /\ OnStep(c, "idle")

\* A transaction that raises rolls back and the request is answered with an
\* error.
RequestFails(c) ==
    /\ client[c].pc # "idle"
    /\ Respond(c)
    /\ UNCHANGED storeVars

-----------------------------------------------------------------------------
(* Review screen: approve and discard *)

BeginApprove(c, p) ==
    /\ Issue(c, "approve")
    /\ ApprovalAdmissible(p, drafts[p].op, drafts[p].rev)
    /\ Request(c, "approving", ApprovalWork(p))
    /\ UNCHANGED storeVars

Approve(c) ==
    /\ OnStep(c, "approving")
    /\ ApprovalHolds(client[c].work)
    /\ CanStamp
    /\ ApprovalWrites(client[c].work)
    /\ Respond(c)

BeginDiscard(c, p) ==
    /\ Issue(c, "discard")
    /\ DiscardAdmissible(p, drafts[p].op, drafts[p].rev)
    /\ Request(c, "discarding", DiscardWork(p))
    /\ UNCHANGED storeVars

Discard(c) ==
    /\ OnStep(c, "discarding")
    /\ DiscardHolds(client[c].work)
    /\ DiscardWrites(client[c].work)
    /\ Respond(c)

-----------------------------------------------------------------------------
(* activate_profile_by_id *)

BeginActivate(c, p) ==
    LET current == workspace.active
        switch == current \notin {NoProfile, p}
    IN /\ Issue(c, "activate")
       /\ WorkspaceIdle
       /\ current # NoProfile => ReextractClear(current) /\ ReviewClear(current)
       /\ profiles[p].state = "ready"
       /\ ReextractClear(p)
       /\ ~ IncompleteProfile
       /\ IF switch THEN profiles[current].cv = "active"
                    ELSE profiles[p].cv \in {"active", "staged", "archived"}
       /\ Request(c, "activating",
            [NoWork EXCEPT !.profile = p, !.other = current,
                           !.selected = current,
                           !.mode = IF switch THEN "switch"
                                              ELSE profiles[p].cv])
       /\ UNCHANGED storeVars

\* A switch archives the old attachment first, so it reads the target's state
\* under the writer lock; otherwise that state was read by the check.
Activate(c) ==
    LET w == client[c].work
        p == w.profile
        switch == w.mode = "switch"
        rest == ActiveAttachments \ (IF switch THEN {p, w.other} ELSE {p})
    IN /\ OnStep(c, "activating")
       /\ Exists(p)
       /\ switch => /\ Exists(w.other)
                    /\ profiles[p].cv \in {"active", "staged", "archived"}
       /\ w.mode # "active" => rest = {}
       /\ CanStamp
       /\ profiles' = [q \in Profiles |->
            IF q = p /\ w.mode # "active"
            THEN [profiles[q] EXCEPT !.cv = "active"]
            ELSE IF switch /\ q = w.other
                 THEN [profiles[q] EXCEPT !.cv = "archived"]
                 ELSE profiles[q]]
       /\ workspace' = Select(p, w.selected)
       /\ Stamp
       /\ Respond(c)
       /\ UNCHANGED <<drafts, operations, runs>>

-----------------------------------------------------------------------------
(* delete_profile *)

Deletable(p) ==
    LET approved == profiles[p].truth # 0 IN
    IF profiles[p].state = "deleting" THEN profiles[p].cv = "deleting"
    ELSE /\ profiles[p].state = IF approved THEN "ready" ELSE "pending"
         /\ profiles[p].cv \in IF approved THEN {"active", "archived"}
                                           ELSE {"staged", "failed"}

BeginDelete(c, p) ==
    /\ Issue(c, "delete")
    /\ Exists(p)
    /\ ReextractClear(p)
    /\ ReviewClear(p)
    /\ ProfileIdle(p)
    /\ Deletable(p)
    /\ Request(c, "marking",
         [NoWork EXCEPT !.profile = p,
                        !.mode = IF profiles[p].state = "deleting"
                                 THEN "retry" ELSE "mark"])
    /\ UNCHANGED storeVars

\* Faulty variants: one of the two rows is forgotten.
ProfileDeleting(p) == [profiles[p] EXCEPT !.state = "deleting"]
AttachmentDeleting(p) == [profiles[p] EXCEPT !.cv = "deleting"]

BothDeleting(p) == [profiles[p] EXCEPT !.state = "deleting", !.cv = "deleting"]

MarkDeleting(c) ==
    LET w == client[c].work
        p == w.profile
    IN /\ OnStep(c, "marking")
       /\ w.mode = "mark" => Exists(p)
       /\ profiles' = IF w.mode = "retry" THEN profiles
                      ELSE [profiles EXCEPT ![p] = BothDeleting(p)]
       /\ operations' = WithoutOperations(Purgeable(p))
       /\ Request(c, "cleaning", w)
       /\ UNCHANGED <<workspace, drafts, runs, clock>>

\* _external_cleanup removes the checkpoints, the retained file and the graph
\* branch; it can fail before the file is gone (RequestFails) or after.
CleanUp(c) ==
    LET w == client[c].work IN
    /\ OnStep(c, "cleaning")
    /\ profiles' = [profiles EXCEPT ![w.profile].file = FALSE]
    /\ \/ Request(c, "finalizing", w)
       \/ Respond(c)
    /\ UNCHANGED <<workspace, drafts, operations, runs, clock>>

\* The reads of _finalize: any remaining ready profile stands for the one most
\* recently opened; an active attachment of another one is to be archived.
BeginFinalize(c) ==
    LET w == client[c].work
        p == w.profile
        remaining == {q \in Profiles \ {p} : profiles[q].state = "ready"}
    IN /\ OnStep(c, "finalizing")
       /\ profiles[p].state = "deleting"
       /\ profiles[p].cv = "deleting"
       /\ \E fallback \in IF remaining = {} THEN {NoProfile} ELSE remaining :
            LET demote == ActiveAttachments \cap (remaining \ {fallback})
                cv == IF fallback = NoProfile THEN "active"
                                              ELSE profiles[fallback].cv
            IN /\ \A q \in remaining \ {fallback} :
                    profiles[q].cv \in {"active", "archived"}
               /\ demote = {} => cv \in {"active", "staged", "archived"}
               /\ Request(c, "deleting",
                    [w EXCEPT !.other = fallback,
                              !.demoted = IF demote = {} THEN NoProfile
                                          ELSE CHOOSE q \in demote : TRUE,
                              !.selected = workspace.active,
                              !.mode = IF demote = {} THEN cv ELSE "switch"])
       /\ UNCHANGED storeVars

\* The writes of _finalize.  Foreign keys cascade from the profile to its
\* draft, operations and runs, and clear a selection that pointed at it.
FinalizeDelete(c) ==
    LET w == client[c].work
        p == w.profile
        f == w.other
        raise == f # NoProfile /\ w.mode # "active"
        rest == ActiveAttachments \ {f, w.demoted}
        selection == Select(f, IF w.mode = "switch" THEN NoProfile
                                                    ELSE w.selected)
    IN /\ OnStep(c, "deleting")
       /\ f # NoProfile => Exists(f)
       /\ w.demoted # NoProfile => Exists(w.demoted)
       /\ w.mode = "switch" =>
            profiles[f].cv \in {"active", "staged", "archived"}
       /\ raise => rest = {}
       /\ CanStamp
       /\ profiles' = [q \in Profiles |->
            IF q = p THEN NoRow("gone")
            ELSE IF q = f /\ raise THEN [profiles[q] EXCEPT !.cv = "active"]
            ELSE IF q = w.demoted THEN [profiles[q] EXCEPT !.cv = "archived"]
            ELSE profiles[q]]
       /\ workspace' = [selection EXCEPT !.active = IF @ = p THEN NoProfile
                                                             ELSE @]
       /\ drafts' = [drafts EXCEPT ![p] = NoDraft]
       /\ operations' = WithoutOperations(
            {o \in OperationIds : operations[o].profile = p})
       /\ runs' = [r \in Runs |-> IF runs[r].profile = p THEN NoRunRow
                                                         ELSE runs[r]]
       /\ Stamp
       /\ Respond(c)

-----------------------------------------------------------------------------
(* upload_cv and patch_profile *)

\* A new CV, in one BEGIN IMMEDIATE transaction: attachment, pending profile,
\* selection.
Upload(p) ==
    /\ "upload" \in Requests
    /\ profiles[p].state = "unborn"
    /\ UploadClear
    /\ CanStamp
    /\ profiles' = [profiles EXCEPT ![p] =
         [state |-> "pending", cv |-> "staged", file |-> TRUE, doc |-> FALSE,
          rev |-> clock + 1, truth |-> 0]]
    /\ workspace' = Select(p, NoProfile)
    /\ Stamp
    /\ UNCHANGED <<drafts, operations, runs, client>>

\* The same CV again after its extraction failed.
BeginRetry(c, p) ==
    /\ Issue(c, "retry")
    /\ profiles[p].cv = "failed"
    /\ ReviewClear(p)
    /\ ProfileIdle(p)
    /\ Request(c, "retrying", [NoWork EXCEPT !.profile = p])
    /\ UNCHANGED storeVars

Retry(c) ==
    LET p == client[c].work.profile IN
    /\ OnStep(c, "retrying")
    /\ Exists(p)
    /\ profiles' = [profiles EXCEPT ![p].cv = "staged"]
    /\ Respond(c)
    /\ UNCHANGED <<workspace, drafts, operations, runs, clock>>

Rename(p) ==
    /\ "rename" \in Requests
    /\ profiles[p].state = "ready"
    /\ CanStamp
    /\ profiles' = [profiles EXCEPT ![p].rev = clock + 1]
    /\ Stamp
    /\ UNCHANGED <<workspace, drafts, operations, runs, client>>

ClientStep(c) ==
    \/ \E p \in Profiles : \/ BeginApprove(c, p)
                           \/ BeginDiscard(c, p)
                           \/ BeginActivate(c, p)
                           \/ BeginDelete(c, p)
                           \/ BeginRetry(c, p)
    \/ Approve(c)
    \/ Discard(c)
    \/ Activate(c)
    \/ MarkDeleting(c)
    \/ CleanUp(c)
    \/ BeginFinalize(c)
    \/ FinalizeDelete(c)
    \/ Retry(c)
    \/ RequestFails(c)

-----------------------------------------------------------------------------
(* The process *)

\* What lives in memory is lost: streams, requests and turns.
Crash ==
    /\ "crash" \in Requests
    /\ up
    /\ up' = FALSE
    /\ stream' = [o \in OperationIds |-> IF stream[o] \in LiveStreams
                                         THEN "done" ELSE stream[o]]
    /\ TurnsAfterCrash
    /\ client' = [c \in Clients |-> [pc |-> "idle", work |-> NoWork]]
    /\ UNCHANGED storeVars

\* lifespan, with SQLite available.
Restart ==
    /\ ~ up
    /\ up' = TRUE
    /\ RecoverRunning
    /\ UNCHANGED <<profiles, workspace, drafts, runs, clock, stream, turn, client>>

StreamWork(o) == up /\ StreamStep(o) /\ UNCHANGED <<turn, client, up>>

Next ==
    \/ \E o \in OperationIds :
        \/ /\ up
           /\ \E p \in Profiles : Claim(p, o)
           /\ UNCHANGED <<turn, client, up>>
        \/ StreamWork(o)
        \/ /\ up
           /\ "read" \in Requests
           /\ ReadReview(o)
           /\ UNCHANGED <<turn, client, up>>
        \/ /\ up
           /\ \/ "busy" \in Requests /\ StreamUnfinalized(o)
              \/ "cutoff" \in Requests /\ StreamCutOff(o)
           /\ UNCHANGED <<turn, client, up>>
    \/ \E r \in Runs : up /\ TurnStep(r) /\ UNCHANGED <<stream, client, up>>
    \/ /\ up
       /\ \/ \E c \in Clients : ClientStep(c)
          \/ \E p \in Profiles : Upload(p) \/ Rename(p)
       /\ UNCHANGED <<stream, turn, up>>
    \/ Crash
    \/ Restart

\* The event loop goes on with a live generator, whose provider calls are bounded
\* by timeouts, and the operator restarts a backend that went down.
Fairness ==
    /\ \A o \in OperationIds : WF_vars(StreamWork(o))
    /\ WF_vars(Restart)

Spec == Init /\ [][Next]_vars /\ Fairness
=============================================================================
