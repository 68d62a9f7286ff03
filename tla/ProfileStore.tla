---------------------------- MODULE ProfileStore ----------------------------
(***************************************************************************)
(* The SQLite tables behind one JobAgent workspace, as far as the profile  *)
(* review lifecycle reads and writes them, the activity gates every        *)
(* mutation consults, and the repository writes they share.                *)
(*                                                                         *)
(* SQLite semantics kept by every module that extends this one.  A session *)
(* from session_scope (db/session.py) emits no BEGIN of its own, so the    *)
(* reads before its first INSERT/UPDATE/DELETE see whatever is committed   *)
(* at that moment, and the rest of the transaction runs later under the    *)
(* writer lock.  Such a transaction is therefore TWO steps: a check that   *)
(* takes a snapshot, and a write that uses it.  Only a transaction opened  *)
(* with BEGIN IMMEDIATE is one step.  Rows are written by primary key from *)
(* the session's snapshot (SQLAlchemy identity map), so a write overrides  *)
(* what another transaction changed meanwhile unless its SQL re-tests it.  *)
(*                                                                         *)
(* Every updated_at stamp is a reading of one clock that advances once per *)
(* committed transaction which stamps a row.                               *)
(***************************************************************************)
EXTENDS Integers, FiniteSets

CONSTANTS
    Profiles,        \* profile ids, each with the one attachment it owns
    OperationIds,    \* ids of profile_reextract_operations rows
    Runs,            \* agent runs
    NoProfile,       \* SQL NULL in workspace_state.active_profile_id
    NoOperation,     \* SQL NULL in profile_drafts.reextract_operation_id
    InitiallyReady,  \* profiles approved before the behaviour starts
    MaxClock         \* bound on the number of stamping transactions

ASSUME StoreAssumption ==
    /\ NoProfile \notin Profiles
    /\ NoOperation \notin OperationIds
    /\ InitiallyReady \subseteq Profiles
    /\ InitiallyReady # {}
    /\ MaxClock \in Nat \ {0}

VARIABLES
    profiles,    \* profiles joined with the attachments row each one owns
    workspace,   \* the workspace_state singleton
    drafts,      \* profile_drafts, unique per target profile
    operations,  \* profile_reextract_operations
    runs,        \* agent_runs of kind chat
    clock        \* last updated_at stamp handed out

storeVars == <<profiles, workspace, drafts, operations, runs, clock>>

-----------------------------------------------------------------------------
(* Rows *)

Stamps == 0..MaxClock

LiveProfileStates == {"pending", "ready", "deleting"}
ProfileStates == LiveProfileStates \cup {"unborn", "gone"}
AttachmentStates ==
    {"none", "staged", "failed", "active", "archived", "deleting"}

\* cv is attachments.state and file the retained PDF in storage; doc says that
\* the attachment has a cv_document_drafts row; rev is updated_at; truth is the
\* draft revision whose content profile_json holds, 0 for NULL.
ProfileRow == [state: ProfileStates, cv: AttachmentStates, file: BOOLEAN,
               doc: BOOLEAN, rev: Stamps, truth: Stamps]

NoRow(state) == [state |-> state, cv |-> "none", file |-> FALSE,
                 doc |-> FALSE, rev |-> 0, truth |-> 0]

\* id is the primary key (the stamp of the insert), rev is updated_at, op is
\* reextract_operation_id, sourced says that source_attachment_id is set.
DraftRow == [id: Stamps, rev: Stamps, op: OperationIds \cup {NoOperation},
             sourced: BOOLEAN]

NoDraft == [id |-> 0, rev |-> 0, op |-> NoOperation, sourced |-> FALSE]

TerminalStates == {"interrupted", "failed", "stale"}
ActionableStates == {"running", "review_ready"}
OperationStates == TerminalStates \cup ActionableStates \cup {"none"}

OperationRow == [state: OperationStates, profile: Profiles \cup {NoProfile},
                 baseProfile: Stamps, baseWorkspace: Stamps]

NoOperationRow == [state |-> "none", profile |-> NoProfile,
                   baseProfile |-> 0, baseWorkspace |-> 0]

ActiveRunStates == {"running", "interrupted"}
\* sourced says that source_attachment_id names the profile's CV.
RunRow == [state: ActiveRunStates \cup {"none"},
           profile: Profiles \cup {NoProfile}, sourced: BOOLEAN]

NoRunRow == [state |-> "none", profile |-> NoProfile, sourced |-> FALSE]

\* What a check has read and the write it precedes still relies on: the profile
\* it is for, the other profiles it will write, the workspace selection, the
\* draft row and revision, and a case named by the module that takes it.
Modes == {"", "pending", "ready", "ordinary", "review_ready", "stale",
          "draft", "profile", "bootstrap", "reprocess", "switch", "active",
          "staged", "archived", "mark", "retry"}

Work == [profile: Profiles \cup {NoProfile}, other: Profiles \cup {NoProfile},
         demoted: Profiles \cup {NoProfile},
         selected: Profiles \cup {NoProfile}, id: Stamps, rev: Stamps,
         op: OperationIds \cup {NoOperation}, sourced: BOOLEAN, mode: Modes]

NoWork == [profile |-> NoProfile, other |-> NoProfile, demoted |-> NoProfile,
           selected |-> NoProfile, id |-> 0, rev |-> 0, op |-> NoOperation,
           sourced |-> FALSE, mode |-> ""]

StoreTypeOK ==
    /\ profiles \in [Profiles -> ProfileRow]
    /\ workspace \in [active: Profiles \cup {NoProfile}, rev: Stamps]
    /\ drafts \in [Profiles -> DraftRow]
    /\ operations \in [OperationIds -> OperationRow]
    /\ runs \in [Runs -> RunRow]
    /\ clock \in Stamps

-----------------------------------------------------------------------------
(* Initial states: some profiles were approved earlier, one is selected.   *)

StoreInit ==
    /\ \E selected \in InitiallyReady :
        /\ workspace = [active |-> selected, rev |-> 1]
        /\ profiles = [p \in Profiles |->
             IF p \in InitiallyReady
             THEN [state |-> "ready",
                   cv |-> IF p = selected THEN "active" ELSE "archived",
                   file |-> TRUE, doc |-> FALSE, rev |-> 1, truth |-> 1]
             ELSE NoRow("unborn")]
    /\ drafts = [p \in Profiles |-> NoDraft]
    /\ operations = [o \in OperationIds |-> NoOperationRow]
    /\ runs = [r \in Runs |-> NoRunRow]
    /\ clock = 1

-----------------------------------------------------------------------------
(* Reads and gates *)

Exists(p) == profiles[p].state \in LiveProfileStates
HasDraft(p) == drafts[p].rev # 0
ActiveAttachments == {q \in Profiles : profiles[q].cv = "active"}
OwnedDraft(p, o) == HasDraft(p) /\ drafts[p].op = o

WorkspaceIdle == \A r \in Runs : runs[r].state \notin ActiveRunStates

ProfileIdle(p) ==
    \A r \in Runs : runs[r].profile = p => runs[r].state \notin ActiveRunStates

ReviewClear(p) == ~ (profiles[p].state = "ready" /\ HasDraft(p))

Actionable(p) ==
    {o \in OperationIds : /\ operations[o].profile = p
                          /\ operations[o].state \in ActionableStates}

ReextractClear(p) ==
    /\ HasDraft(p) => drafts[p].op = NoOperation
    /\ Actionable(p) = {}

\* has_incomplete_profile_setup looks at the state, get_incomplete_profile at
\* profile_json: they differ while a pending profile is being deleted.
PendingSetup == \E p \in Profiles : profiles[p].state = "pending"
IncompleteProfile == \E p \in Profiles : Exists(p) /\ profiles[p].truth = 0

\* Faulty variant: an upload that looks at drafts and turns only.
UploadClearOfReviews ==
    /\ \A p \in Profiles : ReviewClear(p)
    /\ ~ IncompleteProfile
    /\ WorkspaceIdle

UploadClear ==
    /\ \A o \in OperationIds : operations[o].state \notin ActionableStates
    /\ \A p \in Profiles : ReviewClear(p)
    /\ ~ IncompleteProfile
    /\ WorkspaceIdle

\* The revisions captured by the claim are still the current ones.
BaseCurrent(o) ==
    LET p == operations[o].profile IN
    /\ p \in Profiles
    /\ profiles[p].rev = operations[o].baseProfile
    /\ workspace.active = p
    /\ workspace.rev = operations[o].baseWorkspace

-----------------------------------------------------------------------------
(* Writes *)

CanStamp == clock < MaxClock
Stamp == clock' = clock + 1

\* Faulty variant: the selection is stamped and not moved.
SelectStampOnly(p, seen) == [active |-> workspace.active, rev |-> clock + 1]

\* set_active_profile_id: a row that was read as already pointing at p gets a
\* new updated_at and no UPDATE of the pointer.
Select(p, seen) ==
    [active |-> IF seen = p THEN workspace.active ELSE p, rev |-> clock + 1]

\* upsert_draft_for_profile on the row read as id (0: no row), whose owner the
\* caller has compared: an INSERT under the unique target, or an UPDATE by id.
UpsertHolds(p, id) == Exists(p) /\ drafts[p].id = id

Upserted(p, id, op, sourced) ==
    [drafts EXCEPT ![p] = [id |-> IF id = 0 THEN clock + 1 ELSE id,
                           rev |-> clock + 1, op |-> op, sourced |-> sourced]]

\* transition_running_operation: UPDATE ... WHERE state = 'running'.
TransitionRunning(o, to) ==
    operations' = IF operations[o].state = "running"
                  THEN [operations EXCEPT ![o].state = to]
                  ELSE operations

ReviewOutdated(o) ==
    /\ operations[o].state = "review_ready"
    /\ ~ (BaseCurrent(o) /\ OwnedDraft(operations[o].profile, o))

\* reconcile_review_ready_to_stale: UPDATE ... WHERE state = 'review_ready'.
Reconciled(o) ==
    IF ReviewOutdated(o) THEN [operations EXCEPT ![o].state = "stale"]
                         ELSE operations

\* Terminal rows of p that no draft references.
Purgeable(p) ==
    {o \in OperationIds : /\ operations[o].profile = p
                          /\ operations[o].state \in TerminalStates
                          /\ ~ \E q \in Profiles : OwnedDraft(q, o)}

WithoutOperations(gone) ==
    [o \in OperationIds |-> IF o \in gone THEN NoOperationRow
                                          ELSE operations[o]]
=============================================================================
