----------------------------- MODULE ProfileTurn -----------------------------
(***************************************************************************)
(* A chat turn as the profile review lifecycle sees it: the run row that   *)
(* create_user_turn inserts (services/chat_turns.py), and the three agent  *)
(* tools that write a profile draft or consume one (tools/profile.py with  *)
(* services/profile_drafts.py and services/profile_approval.py).  A tool   *)
(* runs in the memory of the backend process; a run interrupted for the    *)
(* user's approval is durable.  A run slot whose turn has ended is reused  *)
(* by a later turn.                                                        *)
(***************************************************************************)
EXTENDS ProfileApproval

VARIABLE turn  \* per run, where its turn stands and what its tool has read

ToolSteps == {"editing", "updating", "extracting", "proposing", "failing",
              "committing"}
TurnSteps == ToolSteps \cup {"idle", "starting", "running", "captured", "ending",
                              "lost"}

TurnTypeOK == turn \in [Runs -> [pc: TurnSteps, work: Work]]
TurnInit == turn = [r \in Runs |-> [pc |-> "idle", work |-> NoWork]]

InStep(r, pc) == turn[r].pc = pc
TurnProfile(r) == turn[r].work.profile
NextStep(r, pc, work) == turn' = [turn EXCEPT ![r] = [pc |-> pc, work |-> work]]

\* Back in the agent loop, the tool's session closed.
Resumed(r) == NextStep(r, "running", [NoWork EXCEPT !.profile = TurnProfile(r)])
SetRun(r, state) == runs' = [runs EXCEPT ![r].state = state]

-----------------------------------------------------------------------------
(* create_user_turn and the end of a run *)

\* The first turn of a pending profile is for its CV; once there is a draft its
\* turns are corrections.
BeginTurn(r, p) ==
    /\ InStep(r, "idle")
    /\ profiles[p].state \in {"pending", "ready"}
    /\ NextStep(r, "starting",
         [NoWork EXCEPT !.profile = p,
                        !.sourced = profiles[p].state = "pending" /\ ~ HasDraft(p)])
    /\ UNCHANGED storeVars

\* The INSERTs need the conversation, which goes with its profile.
StartTurn(r) ==
    /\ InStep(r, "starting")
    /\ IF Exists(TurnProfile(r))
       THEN /\ runs' = [runs EXCEPT ![r] =
                 [state |-> "running", profile |-> TurnProfile(r),
                  sourced |-> turn[r].work.sourced]]
            /\ Resumed(r)
       ELSE UNCHANGED runs /\ NextStep(r, "idle", NoWork)
    /\ UNCHANGED <<profiles, workspace, drafts, operations, clock>>

\* A run completes, or fails with no CV to mark.
EndTurn(r) ==
    /\ InStep(r, "running")
    /\ runs' = [runs EXCEPT ![r] = NoRunRow]
    /\ NextStep(r, "idle", NoWork)
    /\ UNCHANGED <<profiles, workspace, drafts, operations, clock>>

\* persist_terminal_failure reads that the CV of the run is still staged, and
\* writes it failed by primary key, in the transaction that fails the run.
FailTurn(r) ==
    /\ InStep(r, "running")
    /\ runs[r].sourced
    /\ profiles[TurnProfile(r)].cv = "staged"
    /\ NextStep(r, "ending", turn[r].work)
    /\ UNCHANGED storeVars

MarkTurnFailed(r) ==
    LET p == TurnProfile(r) IN
    /\ InStep(r, "ending")
    /\ profiles' = IF Exists(p) THEN [profiles EXCEPT ![p].cv = "failed"]
                                ELSE profiles
    /\ runs' = [runs EXCEPT ![r] = NoRunRow]
    /\ NextStep(r, "idle", NoWork)
    /\ UNCHANGED <<workspace, drafts, operations, clock>>

\* An error between the commit of the run row and the agent loop that would end
\* it, or a terminal write that fails, leaves a running row that nobody ends.
AbandonTurn(r) ==
    /\ turn[r].pc \in {"running", "ending"}
    /\ NextStep(r, "lost", NoWork)
    /\ UNCHANGED storeVars

\* A tool call that raises, is refused or times out leaves the store alone.
ToolFails(r) ==
    /\ turn[r].pc \in ToolSteps
    /\ Resumed(r)
    /\ UNCHANGED storeVars

-----------------------------------------------------------------------------
(* propose_profile_update *)

\* The first session: the base of the edit is the draft or, without one, the
\* approved profile.  The reconciliation is not committed.
ReadUpdateBase(r) ==
    LET p == TurnProfile(r)
        o == drafts[p].op
    IN /\ InStep(r, "running")
       /\ IF HasDraft(p)
          THEN o # NoOperation => Reconciled(o)[o].state # "stale"
          ELSE profiles[p].state = "ready"
       /\ NextStep(r, "editing",
            [NoWork EXCEPT !.profile = p, !.op = o,
                           !.sourced = drafts[p].sourced,
                           !.mode = IF HasDraft(p) THEN "draft" ELSE "profile"])
       /\ UNCHANGED storeVars

\* The reads of the second session test that there is a draft, not that it is
\* the base.  An operation's draft is edited under its own owner.
CheckUpdate(r) ==
    LET w == turn[r].work
        p == w.profile
        o == drafts[p].op
    IN /\ InStep(r, "editing")
       /\ HasDraft(p) <=> w.mode = "draft"
       /\ w.sourced => profiles[p].doc
       /\ IF o = NoOperation THEN w.op = NoOperation
                             ELSE Reconciled(o)[o].state # "stale"
       /\ NextStep(r, "updating",
            [w EXCEPT !.id = drafts[p].id, !.op = o,
                      !.sourced = IF o = NoOperation THEN @
                                                     ELSE drafts[p].sourced])
       /\ UNCHANGED storeVars

\* A stale review refuses the edit; this session commits the reconciliation.
RefuseStaleUpdate(r) ==
    LET w == turn[r].work
        o == drafts[w.profile].op
    IN /\ InStep(r, "editing")
       /\ w.mode = "draft"
       /\ HasDraft(w.profile)
       /\ w.sourced => profiles[w.profile].doc
       /\ o # NoOperation
       /\ ReviewOutdated(o)
       /\ operations' = Reconciled(o)
       /\ Resumed(r)
       /\ UNCHANGED <<profiles, workspace, drafts, runs, clock>>

WriteUpdate(r) ==
    LET w == turn[r].work IN
    /\ InStep(r, "updating")
    /\ UpsertHolds(w.profile, w.id)
    /\ w.sourced => profiles[w.profile].doc
    /\ CanStamp
    /\ drafts' = Upserted(w.profile, w.id, w.op, w.sourced)
    /\ Stamp
    /\ Resumed(r)
    /\ UNCHANGED <<profiles, workspace, operations, runs>>

-----------------------------------------------------------------------------
(* propose_profile_from_cv *)

Extractable(p, mode) ==
    \/ /\ mode = "bootstrap"
       /\ profiles[p].state = "pending"
       /\ profiles[p].cv = "staged"
    \/ /\ mode = "reprocess"
       /\ profiles[p].state = "ready"
       /\ profiles[p].cv \in {"active", "archived"}

\* A staged CV whose draft is already there is answered from it.
StartExtraction(r, mode) ==
    LET p == TurnProfile(r) IN
    /\ InStep(r, "running")
    /\ Extractable(p, mode)
    /\ mode = "bootstrap" => ~ (HasDraft(p) /\ drafts[p].sourced)
    /\ NextStep(r, "extracting", [NoWork EXCEPT !.profile = p, !.mode = mode])
    /\ UNCHANGED storeVars

\* Faulty variant: the draft of an operation is overwritten like any other.
CheckExtractionOverReview(r) ==
    LET w == turn[r].work IN
    /\ InStep(r, "extracting")
    /\ Extractable(w.profile, w.mode)
    /\ NextStep(r, "proposing", [w EXCEPT !.id = drafts[w.profile].id])
    /\ UNCHANGED storeVars

CheckExtraction(r) ==
    LET w == turn[r].work
        p == w.profile
    IN /\ InStep(r, "extracting")
       /\ Extractable(p, w.mode)
       /\ drafts[p].op = NoOperation
       /\ NextStep(r, "proposing", [w EXCEPT !.id = drafts[p].id])
       /\ UNCHANGED storeVars

PublishExtraction(r) ==
    LET w == turn[r].work IN
    /\ InStep(r, "proposing")
    /\ UpsertHolds(w.profile, w.id)
    /\ CanStamp
    /\ drafts' = Upserted(w.profile, w.id, NoOperation, TRUE)
    /\ profiles' = [profiles EXCEPT ![w.profile].doc = TRUE]
    /\ Stamp
    /\ Resumed(r)
    /\ UNCHANGED <<workspace, operations, runs>>

\* _mark_failed reads a staged attachment, then writes it by primary key.
FailExtraction(r) ==
    LET w == turn[r].work IN
    /\ InStep(r, "extracting")
    /\ w.mode = "bootstrap"
    /\ profiles[w.profile].cv = "staged"
    /\ NextStep(r, "failing", w)
    /\ UNCHANGED storeVars

MarkFailed(r) ==
    LET p == TurnProfile(r) IN
    /\ InStep(r, "failing")
    /\ Exists(p)
    /\ profiles' = [profiles EXCEPT ![p].cv = "failed"]
    /\ Resumed(r)
    /\ UNCHANGED <<workspace, drafts, operations, runs, clock>>

-----------------------------------------------------------------------------
(* commit_profile_draft *)

\* The tool records the draft's owner and revision, then interrupts the run.
CaptureCommit(r) ==
    LET p == TurnProfile(r) IN
    /\ InStep(r, "running")
    /\ HasDraft(p)
    /\ NextStep(r, "captured", [NoWork EXCEPT !.profile = p, !.op = drafts[p].op,
                                              !.rev = drafts[p].rev])
    /\ SetRun(r, "interrupted")
    /\ UNCHANGED <<profiles, workspace, drafts, operations, clock>>

\* request_changes, and a resume that finds another owner or revision.
ResumeWithoutCommit(r) ==
    /\ InStep(r, "captured")
    /\ runs[r].state = "interrupted"
    /\ SetRun(r, "running")
    /\ Resumed(r)
    /\ UNCHANGED <<profiles, workspace, drafts, operations, clock>>

ResumeCommit(r) ==
    LET w == turn[r].work IN
    /\ InStep(r, "captured")
    /\ runs[r].state = "interrupted"
    /\ ApprovalAdmissible(w.profile, w.op, w.rev)
    /\ SetRun(r, "running")
    /\ NextStep(r, "committing", ApprovalWork(w.profile))
    /\ UNCHANGED <<profiles, workspace, drafts, operations, clock>>

CommitWrite(r) ==
    LET w == turn[r].work IN
    /\ InStep(r, "committing")
    /\ ApprovalHolds(w)
    /\ CanStamp
    /\ ApprovalWrites(w)
    /\ Resumed(r)

TurnStep(r) ==
    \/ \E p \in Profiles : BeginTurn(r, p)
    \/ StartTurn(r)
    \/ EndTurn(r)
    \/ FailTurn(r)
    \/ MarkTurnFailed(r)
    \/ AbandonTurn(r)
    \/ ToolFails(r)
    \/ ReadUpdateBase(r)
    \/ CheckUpdate(r)
    \/ RefuseStaleUpdate(r)
    \/ WriteUpdate(r)
    \/ \E mode \in {"bootstrap", "reprocess"} : StartExtraction(r, mode)
    \/ CheckExtraction(r)
    \/ PublishExtraction(r)
    \/ FailExtraction(r)
    \/ MarkFailed(r)
    \/ CaptureCommit(r)
    \/ ResumeWithoutCommit(r)
    \/ ResumeCommit(r)
    \/ CommitWrite(r)

\* A crash forgets every turn in memory.  No start-up code ends the rows left
\* running, so the slot of such a run is lost; a captured turn resumes.
TurnsAfterCrash ==
    turn' = [r \in Runs |->
        CASE turn[r].pc \in {"idle", "starting"} ->
                [pc |-> "idle", work |-> NoWork]
          [] turn[r].pc = "captured" -> turn[r]
          [] OTHER -> [pc |-> "lost", work |-> NoWork]]
=============================================================================
