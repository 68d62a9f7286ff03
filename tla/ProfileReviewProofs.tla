------------------------- MODULE ProfileReviewProofs -------------------------
(***************************************************************************)
(* Theorems about the profile review lifecycle, for every number of        *)
(* profiles, operations, runs and requests in flight.                      *)
(***************************************************************************)
EXTENDS ProfileReview, TLAPS

(* Type correctness is not inductive: an action reads the row of the profile *)
(* that an operation, a turn or a request is for, so there has to be one.    *)

OperationsAssigned ==
    \A o \in OperationIds :
        operations[o].state # "none" => operations[o].profile \in Profiles

TurnsAssigned ==
    \A r \in Runs : turn[r].pc \notin {"idle", "lost"} => TurnProfile(r) \in Profiles

RequestsAssigned ==
    \A c \in Clients :
        client[c].pc # "idle" => client[c].work.profile \in Profiles

StoreInv == StoreTypeOK /\ OperationsAssigned
TurnInv == TurnTypeOK /\ TurnsAssigned
RequestInv ==
    client \in [Clients -> [pc: RequestSteps, work: Work]] /\ RequestsAssigned

TypeInv == StoreInv /\ StreamTypeOK /\ TurnInv /\ RequestInv /\ up \in BOOLEAN

-----------------------------------------------------------------------------
(* What the helpers of ProfileStore return *)

LEMMA NoWorkType == NoWork \in Work
  BY StoreAssumption DEF NoWork, Work, Modes, Stamps

LEMMA StampType ==
  ASSUME StoreTypeOK, CanStamp
  PROVE  clock + 1 \in Stamps
  BY StoreAssumption DEF StoreTypeOK, CanStamp, Stamps

LEMMA NoRowType ==
  ASSUME NEW state \in ProfileStates
  PROVE  NoRow(state) \in ProfileRow
  BY StoreAssumption DEF NoRow, ProfileRow, AttachmentStates, Stamps

\* The writes of one column of a profile or of its attachment.
LEMMA ColumnsType ==
  ASSUME StoreTypeOK, NEW p
  PROVE  /\ \A cv \in AttachmentStates :
              [profiles EXCEPT ![p].cv = cv] \in [Profiles -> ProfileRow]
         /\ \A b \in BOOLEAN :
              /\ [profiles EXCEPT ![p].doc = b] \in [Profiles -> ProfileRow]
              /\ [profiles EXCEPT ![p].file = b] \in [Profiles -> ProfileRow]
<1>1. ASSUME NEW row \in ProfileRow
      PROVE  [profiles EXCEPT ![p] = row] \in [Profiles -> ProfileRow]
  BY DEF StoreTypeOK
<1>2. p \in Profiles => profiles[p] \in ProfileRow
  BY DEF StoreTypeOK
<1>3. p \notin Profiles => \A row : [profiles EXCEPT ![p] = row] = profiles
  BY DEF StoreTypeOK
<1>4. ASSUME NEW cv \in AttachmentStates
      PROVE  [profiles EXCEPT ![p].cv = cv] \in [Profiles -> ProfileRow]
  <2> PICK row : row = [profiles[p] EXCEPT !.cv = cv]
    OBVIOUS
  <2>1. p \in Profiles => row \in ProfileRow
    BY <1>2 DEF ProfileRow
  <2>2. [profiles EXCEPT ![p].cv = cv] = [profiles EXCEPT ![p] = row]
    OBVIOUS
  <2>3. QED
    BY <1>1, <1>3, <2>1, <2>2 DEF StoreTypeOK
<1>5. ASSUME NEW b \in BOOLEAN
      PROVE  [profiles EXCEPT ![p].doc = b] \in [Profiles -> ProfileRow]
  <2> PICK row : row = [profiles[p] EXCEPT !.doc = b]
    OBVIOUS
  <2>1. p \in Profiles => row \in ProfileRow
    BY <1>2 DEF ProfileRow
  <2>2. [profiles EXCEPT ![p].doc = b] = [profiles EXCEPT ![p] = row]
    OBVIOUS
  <2>3. QED
    BY <1>1, <1>3, <2>1, <2>2 DEF StoreTypeOK
<1>6. ASSUME NEW b \in BOOLEAN
      PROVE  [profiles EXCEPT ![p].file = b] \in [Profiles -> ProfileRow]
  <2> PICK row : row = [profiles[p] EXCEPT !.file = b]
    OBVIOUS
  <2>1. p \in Profiles => row \in ProfileRow
    BY <1>2 DEF ProfileRow
  <2>2. [profiles EXCEPT ![p].file = b] = [profiles EXCEPT ![p] = row]
    OBVIOUS
  <2>3. QED
    BY <1>1, <1>3, <2>1, <2>2 DEF StoreTypeOK
<1>7. QED
  BY <1>4, <1>5, <1>6

LEMMA NoDraftType == NoDraft \in DraftRow
  BY StoreAssumption DEF NoDraft, DraftRow, Stamps

LEMMA NoOperationRowType == NoOperationRow \in OperationRow
  BY StoreAssumption DEF NoOperationRow, OperationRow, OperationStates, Stamps

LEMMA UpsertedType ==
  ASSUME StoreTypeOK, CanStamp,
         NEW p, NEW id \in Stamps,
         NEW op \in OperationIds \cup {NoOperation}, NEW sourced \in BOOLEAN
  PROVE  Upserted(p, id, op, sourced) \in [Profiles -> DraftRow]
<1>1. clock + 1 \in Stamps
  BY StampType
<1>2. QED
  BY <1>1 DEF Upserted, StoreTypeOK, DraftRow

LEMMA SelectType ==
  ASSUME StoreTypeOK, CanStamp, NEW p \in Profiles \cup {NoProfile}, NEW seen
  PROVE  Select(p, seen) \in [active: Profiles \cup {NoProfile}, rev: Stamps]
<1>1. clock + 1 \in Stamps
  BY StampType
<1>2. QED
  BY <1>1 DEF Select, StoreTypeOK

LEMMA WithoutOperationsType ==
  ASSUME StoreTypeOK, OperationsAssigned, NEW gone
  PROVE  /\ WithoutOperations(gone) \in [OperationIds -> OperationRow]
         /\ \A o \in OperationIds : WithoutOperations(gone)[o].state # "none" =>
                WithoutOperations(gone)[o].profile \in Profiles
  BY NoOperationRowType
     DEF WithoutOperations, StoreTypeOK, OperationsAssigned, NoOperationRow

LEMMA ReconciledType ==
  ASSUME StoreTypeOK, OperationsAssigned, NEW o \in OperationIds
  PROVE  /\ Reconciled(o) \in [OperationIds -> OperationRow]
         /\ \A q \in OperationIds : Reconciled(o)[q].state # "none" =>
                Reconciled(o)[q].profile \in Profiles
  BY DEF Reconciled, ReviewOutdated, StoreTypeOK, OperationRow, OperationStates,
         TerminalStates, OperationsAssigned

LEMMA TransitionType ==
  ASSUME StoreTypeOK, OperationsAssigned,
         NEW o \in OperationIds, NEW to \in OperationStates,
         TransitionRunning(o, to)
  PROVE  operations' \in [OperationIds -> OperationRow] /\ OperationsAssigned'
  BY DEF TransitionRunning, StoreTypeOK, OperationRow, OperationsAssigned

-----------------------------------------------------------------------------
(* The two transactions that consume a draft *)

LEMMA ApprovalWorkType ==
  ASSUME StoreTypeOK, NEW p \in Profiles, NEW o, NEW rev,
         ApprovalAdmissible(p, o, rev)
  PROVE  ApprovalWork(p) \in Work
<1> DEFINE replaced == ActiveAttachments \ {p}
<1>1. replaced # {} => (CHOOSE q \in replaced : TRUE) \in Profiles
  BY DEF ActiveAttachments
<1>2. profiles[p].state \in Modes
  BY DEF ApprovalAdmissible, Modes
<1>3. drafts[p] \in DraftRow
  BY DEF StoreTypeOK
<1> HIDE DEF replaced
<1>4. ApprovalWork(p) =
        [NoWork EXCEPT !.profile = p, !.mode = profiles[p].state,
                       !.id = drafts[p].id, !.rev = drafts[p].rev,
                       !.op = drafts[p].op, !.sourced = drafts[p].sourced,
                       !.other = IF profiles[p].state = "pending" /\ replaced # {}
                                 THEN CHOOSE q \in replaced : TRUE
                                 ELSE NoProfile]
  BY DEF ApprovalWork, replaced
<1>5. QED
  BY <1>1, <1>2, <1>3, <1>4, NoWorkType DEF Work, DraftRow

LEMMA DiscardWorkType ==
  ASSUME StoreTypeOK, NEW p \in Profiles,
         DiscardAdmissible(p, drafts[p].op, drafts[p].rev)
  PROVE  DiscardWork(p) \in Work
<1>1. drafts[p] \in DraftRow
  BY DEF StoreTypeOK
<1>2. drafts[p].op # NoOperation =>
        Reconciled(drafts[p].op)[drafts[p].op].state \in Modes
  <2> DEFINE o == drafts[p].op
  <2>1. o # NoOperation => o \in OperationIds
    BY <1>1 DEF DraftRow
  <2>2. o \in OperationIds =>
          Reconciled(o)[o].state \in {operations[o].state, "stale"}
    BY DEF Reconciled, StoreTypeOK
  <2>3. o # NoOperation => Reconciled(o)[o].state \in {"review_ready", "stale"}
    BY <2>1, <2>2 DEF DiscardAdmissible
  <2>4. QED
    BY <2>3 DEF Modes
<1>3. QED
  BY <1>1, <1>2, NoWorkType DEF DiscardWork, Work, DraftRow, Modes

LEMMA ApprovalWritesType ==
  ASSUME StoreTypeOK, OperationsAssigned, CanStamp,
         NEW w \in Work, w.profile \in Profiles, ApprovalWrites(w)
  PROVE  StoreInv'
<1>1. clock + 1 \in Stamps
  BY StampType
<1>2. ApprovedRow(w) \in ProfileRow
  <2> DEFINE row == profiles[w.profile]
             state == IF w.mode = "pending" THEN "ready" ELSE row.state
             cv == IF w.mode = "pending" THEN "active" ELSE row.cv
             doc == row.doc /\ ~ w.sourced
  <2>1. row \in ProfileRow
    BY DEF StoreTypeOK
  <2>2. /\ state \in ProfileStates
        /\ cv \in AttachmentStates
        /\ doc \in BOOLEAN
        /\ w.rev \in Stamps
    BY <2>1 DEF ProfileRow, Work, ProfileStates, LiveProfileStates,
                AttachmentStates
  <2>3. ApprovedRow(w) = [row EXCEPT !.state = state, !.cv = cv, !.doc = doc,
                                     !.rev = clock + 1, !.truth = w.rev]
    BY DEF ApprovedRow
  <2> HIDE DEF row, state, cv, doc
  <2>4. QED
    BY <1>1, <2>1, <2>2, <2>3 DEF ProfileRow
<1>3. profiles' \in [Profiles -> ProfileRow]
  BY <1>2 DEF ApprovalWrites, StoreTypeOK, ProfileRow, AttachmentStates
<1>4. workspace' \in [active: Profiles \cup {NoProfile}, rev: Stamps]
  BY SelectType DEF ApprovalWrites, StoreTypeOK
<1>5. drafts' \in [Profiles -> DraftRow]
  BY NoDraftType DEF ApprovalWrites, StoreTypeOK
<1>6. operations' \in [OperationIds -> OperationRow] /\ OperationsAssigned'
  BY NoOperationRowType
     DEF ApprovalWrites, StoreTypeOK, OperationsAssigned, NoOperationRow
<1>7. QED
  BY <1>1, <1>3, <1>4, <1>5, <1>6 DEF ApprovalWrites, Stamp, StoreTypeOK, StoreInv

LEMMA DiscardWritesType ==
  ASSUME StoreTypeOK, OperationsAssigned,
         NEW w \in Work, w.profile \in Profiles, DiscardWrites(w)
  PROVE  StoreInv'
<1>1. profiles' \in [Profiles -> ProfileRow]
  <2> DEFINE b == profiles[w.profile].doc /\ ~ w.sourced
  <2>1. profiles' = [profiles EXCEPT ![w.profile].doc = b]
    BY DEF DiscardWrites
  <2>2. b \in BOOLEAN
    OBVIOUS
  <2> HIDE DEF b
  <2>3. QED
    BY <2>1, <2>2, ColumnsType
<1>2. drafts' \in [Profiles -> DraftRow]
  BY NoDraftType DEF DiscardWrites, DeletedByKey, StoreTypeOK
<1>3. operations' \in [OperationIds -> OperationRow] /\ OperationsAssigned'
  BY NoOperationRowType
     DEF DiscardWrites, StoreTypeOK, OperationsAssigned, NoOperationRow
<1>4. QED
  BY <1>1, <1>2, <1>3 DEF DiscardWrites, StoreTypeOK, StoreInv

-----------------------------------------------------------------------------
(* Type correctness, one lemma per group of actions *)

LEMMA StreamStepType ==
  ASSUME TypeInv, NEW o \in OperationIds, StreamStep(o)
  PROVE  StoreInv' /\ StreamTypeOK'
<1> USE DEF TypeInv, StoreInv, StreamTypeOK, LiveStreams, At, Goto
<1>1. CASE StreamCheck(o)
  BY <1>1 DEF StreamCheck, storeVars, StoreTypeOK, OperationsAssigned
<1>2. CASE StreamPublish(o)
  <2>1. operations' \in [OperationIds -> OperationRow] /\ OperationsAssigned'
    BY <1>2, TransitionType DEF StreamPublish, OperationStates, ActionableStates
  <2>2. drafts' \in [Profiles -> DraftRow]
    <3>1. 0 \in Stamps /\ TRUE \in BOOLEAN
      BY StoreAssumption DEF Stamps
    <3>2. Upserted(operations[o].profile, 0, o, TRUE) \in [Profiles -> DraftRow]
      BY <1>2, <3>1, UpsertedType DEF StreamPublish
    <3>3. QED
      BY <1>2, <3>2 DEF StreamPublish
  <2>3. profiles' \in [Profiles -> ProfileRow]
    BY <1>2, ColumnsType DEF StreamPublish
  <2>4. clock' \in Stamps
    BY <1>2, StampType DEF StreamPublish, Stamp
  <2>5. QED
    BY <1>2, <2>1, <2>2, <2>3, <2>4 DEF StreamPublish, StoreTypeOK
<1>3. CASE StreamMarkStale(o)
  BY <1>3, TransitionType DEF StreamMarkStale, StoreTypeOK, OperationStates, TerminalStates
<1>4. CASE StreamFailed(o)
  BY <1>4, TransitionType DEF StreamFailed, StoreTypeOK, OperationStates, TerminalStates
<1>5. CASE StreamCancel(o)
  BY <1>5, TransitionType DEF StreamCancel, StoreTypeOK, OperationStates, TerminalStates
<1>6. CASE StreamFail(o) \/ StreamEnd(o)
  BY <1>6 DEF StreamFail, StreamEnd, storeVars, StoreTypeOK, OperationsAssigned
<1>7. QED
  BY <1>1, <1>2, <1>3, <1>4, <1>5, <1>6 DEF StreamStep

LEMMA ClaimType ==
  ASSUME TypeInv, NEW p \in Profiles, NEW o \in OperationIds, Claim(p, o)
  PROVE  StoreInv' /\ StreamTypeOK'
<1> USE DEF TypeInv, StoreInv
<1>1. operations' \in [OperationIds -> OperationRow] /\ OperationsAssigned'
  BY WithoutOperationsType
     DEF Claim, StoreTypeOK, OperationRow, OperationStates, ActionableStates,
         ProfileRow, OperationsAssigned
<1>2. StreamTypeOK'
  BY DEF Claim, Goto, StreamTypeOK, LiveStreams
<1>3. QED
  BY <1>1, <1>2 DEF Claim, StoreTypeOK

LEMMA ReadReviewType ==
  ASSUME TypeInv, NEW o \in OperationIds, ReadReview(o)
  PROVE  StoreInv' /\ StreamTypeOK'
  BY ReconciledType
     DEF TypeInv, StoreInv, ReadReview, StoreTypeOK, StreamTypeOK, OperationsAssigned

\* A disconnect inside the failure transition is an unfinalized stream too.
LEMMA CutOffUnfinalized ==
  ASSUME NEW o \in OperationIds, StreamCutOff(o)
  PROVE  StreamUnfinalized(o)
  BY DEF StreamCutOff, StreamUnfinalized, At, LiveStreams

LEMMA UnfinalizedType ==
  ASSUME TypeInv, NEW o \in OperationIds, StreamUnfinalized(o)
  PROVE  StoreInv' /\ StreamTypeOK'
  BY DEF TypeInv, StoreInv, StreamUnfinalized, Goto, StreamTypeOK, storeVars,
         StoreTypeOK, OperationsAssigned

LEMMA StoreKept ==
  ASSUME StoreInv, UNCHANGED storeVars
  PROVE  StoreInv'
  BY DEF StoreInv, storeVars, StoreTypeOK, OperationsAssigned

LEMMA RunsKept ==
  ASSUME StoreInv, UNCHANGED <<profiles, workspace, drafts, operations, clock>>,
         runs' \in [Runs -> RunRow]
  PROVE  StoreInv'
  BY DEF StoreInv, StoreTypeOK, OperationsAssigned

LEMMA TurnProfileType ==
  ASSUME TurnInv, NEW r \in Runs
  PROVE  /\ turn[r].work \in Work
         /\ TurnProfile(r) = turn[r].work.profile
         /\ turn[r].pc \notin {"idle", "lost"} => TurnProfile(r) \in Profiles
  BY DEF TurnInv, TurnTypeOK, TurnsAssigned, TurnProfile

LEMMA NextStepType ==
  ASSUME TurnInv, NEW r \in Runs, NEW pc \in TurnSteps, NEW w \in Work,
         pc \notin {"idle", "lost"} => w.profile \in Profiles,
         NextStep(r, pc, w)
  PROVE  TurnInv'
  BY DEF TurnInv, NextStep, TurnTypeOK, TurnsAssigned, TurnProfile

\* Work for a profile, before anything else has been read.
LEMMA WorkForType ==
  ASSUME NEW p \in Profiles
  PROVE  /\ [NoWork EXCEPT !.profile = p] \in Work
         /\ [NoWork EXCEPT !.profile = p].profile = p
  BY NoWorkType DEF Work

LEMMA ResumedType ==
  ASSUME TurnInv, NEW r \in Runs, TurnProfile(r) \in Profiles, Resumed(r)
  PROVE  TurnInv'
  BY NextStepType, WorkForType DEF Resumed, TurnSteps

LEMMA SetRunType ==
  ASSUME StoreInv, NEW r \in Runs, TurnProfile(r) \in Profiles,
         NEW state \in ActiveRunStates, SetRun(r, state)
  PROVE  runs' \in [Runs -> RunRow]
  BY DEF SetRun, StoreInv, StoreTypeOK, RunRow

LEMMA TurnStepType ==
  ASSUME TypeInv, NEW r \in Runs, TurnStep(r)
  PROVE  StoreInv' /\ TurnInv'
<1> DEFINE p == TurnProfile(r)
           w == turn[r].work
<1> USE DEF TypeInv, InStep, TurnSteps, ToolSteps
<1>1. /\ w \in Work
      /\ p = w.profile
      /\ turn[r].pc \notin {"idle", "lost"} => p \in Profiles
  BY TurnProfileType
<1> HIDE DEF p, w
<1>2. ASSUME NEW q \in Profiles, BeginTurn(r, q)
      PROVE  StoreInv' /\ TurnInv'
  <2> PICK b : b = (profiles[q].state = "pending" /\ ~ HasDraft(q))
    OBVIOUS
  <2>1. b \in BOOLEAN
    OBVIOUS
  <2> DEFINE v == [NoWork EXCEPT !.profile = q, !.sourced = b]
  <2>2. v \in Work /\ v.profile = q
    BY <2>1, NoWorkType DEF Work
  <2>3. NextStep(r, "starting", v)
    BY <1>2 DEF BeginTurn
  <2> HIDE DEF v
  <2>4. QED
    BY <1>2, <2>2, <2>3, NextStepType, StoreKept DEF BeginTurn
<1>3. CASE StartTurn(r)
  <2>1. w.sourced \in BOOLEAN /\ runs \in [Runs -> RunRow]
    BY <1>1 DEF Work, StoreInv, StoreTypeOK
  <2>3. runs' \in [Runs -> RunRow]
    <3>1. CASE UNCHANGED runs
      BY <2>1, <3>1
    <3>2. CASE runs' = [runs EXCEPT ![r] = [state |-> "running", profile |-> p,
                                            sourced |-> w.sourced]]
      BY <1>1, <1>3, <2>1, <3>2 DEF StartTurn, RunRow, ActiveRunStates
    <3>3. QED
      BY <1>3, <3>1, <3>2 DEF StartTurn, p, w
  <2>2. TurnInv'
    BY <1>1, <1>3, ResumedType, NextStepType, NoWorkType DEF StartTurn, p
  <2>4. QED
    BY <1>3, <2>2, <2>3, RunsKept DEF StartTurn
<1>4. CASE EndTurn(r)
  <2>1. runs' \in [Runs -> RunRow]
    BY <1>4 DEF EndTurn, NoRunRow, StoreInv, StoreTypeOK, RunRow
  <2>2. TurnInv'
    BY <1>4, NextStepType, NoWorkType DEF EndTurn
  <2>3. QED
    BY <1>4, <2>1, <2>2, RunsKept DEF EndTurn
<1>5. CASE ToolFails(r)
  BY <1>1, <1>5, ResumedType, StoreKept DEF ToolFails, p
<1>6. CASE ReadUpdateBase(r)
  <2> DEFINE v == [NoWork EXCEPT !.profile = p, !.op = drafts[p].op,
                                 !.sourced = drafts[p].sourced,
                                 !.mode = IF HasDraft(p) THEN "draft" ELSE "profile"]
  <2>1. p \in Profiles
    BY <1>1, <1>6 DEF ReadUpdateBase
  <2>2. drafts[p] \in DraftRow
    BY <2>1 DEF StoreInv, StoreTypeOK
  <2>3. v \in Work /\ v.profile = p
    BY <2>1, <2>2, NoWorkType DEF Work, DraftRow, Modes
  <2>4. NextStep(r, "editing", v)
    BY <1>6 DEF ReadUpdateBase, p
  <2> HIDE DEF v
  <2>5. QED
    BY <1>6, <2>1, <2>3, <2>4, NextStepType, StoreKept DEF ReadUpdateBase
<1>7. CASE CheckUpdate(r)
  <2> DEFINE o == drafts[p].op
             v == [w EXCEPT !.id = drafts[p].id, !.op = o,
                            !.sourced = IF o = NoOperation THEN @
                                                           ELSE drafts[p].sourced]
  <2>1. p \in Profiles
    BY <1>1, <1>7 DEF CheckUpdate
  <2>2. drafts[p] \in DraftRow
    BY <2>1 DEF StoreInv, StoreTypeOK
  <2>3. v \in Work /\ v.profile = p
    <3> DEFINE sourced == IF o = NoOperation THEN w.sourced ELSE drafts[p].sourced
    <3>1. /\ drafts[p].id \in Stamps
          /\ o \in OperationIds \cup {NoOperation}
          /\ sourced \in BOOLEAN
      BY <1>1, <2>2 DEF Work, DraftRow
    <3>2. v = [w EXCEPT !.id = drafts[p].id, !.op = o, !.sourced = sourced]
      OBVIOUS
    <3> HIDE DEF o, sourced
    <3>3. QED
      BY <1>1, <3>1, <3>2 DEF Work
  <2>4. NextStep(r, "updating", v)
    BY <1>1, <1>7 DEF CheckUpdate, w
  <2> HIDE DEF v
  <2>5. QED
    BY <1>7, <2>1, <2>3, <2>4, NextStepType, StoreKept DEF CheckUpdate
<1>8. CASE RefuseStaleUpdate(r)
  <2> DEFINE o == drafts[p].op
  <2>1. p \in Profiles
    BY <1>1, <1>8 DEF RefuseStaleUpdate
  <2>2. o \in OperationIds
    BY <1>1, <1>8, <2>1 DEF RefuseStaleUpdate, StoreInv, StoreTypeOK, DraftRow, w
  <2>3. StoreInv'
    BY <1>1, <1>8, <2>2, ReconciledType
       DEF RefuseStaleUpdate, StoreInv, StoreTypeOK, OperationsAssigned, w
  <2>4. QED
    BY <1>8, <2>1, <2>3, ResumedType DEF RefuseStaleUpdate, p
<1>9. CASE WriteUpdate(r)
  <2>1. p \in Profiles
    BY <1>1, <1>9 DEF WriteUpdate
  <2>2. Upserted(w.profile, w.id, w.op, w.sourced) \in [Profiles -> DraftRow]
    BY <1>1, <1>9, UpsertedType DEF WriteUpdate, StoreInv, Work
  <2>3. StoreInv'
    BY <1>9, <2>2, StampType
       DEF WriteUpdate, Stamp, StoreInv, StoreTypeOK, OperationsAssigned, w
  <2>4. QED
    BY <1>9, <2>1, <2>3, ResumedType DEF WriteUpdate, p
<1>10. ASSUME NEW mode \in {"bootstrap", "reprocess"}, StartExtraction(r, mode)
       PROVE  StoreInv' /\ TurnInv'
  <2> DEFINE v == [NoWork EXCEPT !.profile = p, !.mode = mode]
  <2>1. p \in Profiles
    BY <1>1, <1>10 DEF StartExtraction
  <2>2. v \in Work /\ v.profile = p
    BY <2>1, NoWorkType DEF Work, Modes
  <2>3. NextStep(r, "extracting", v)
    BY <1>10 DEF StartExtraction, p
  <2> HIDE DEF v
  <2>4. QED
    BY <1>10, <2>1, <2>2, <2>3, NextStepType, StoreKept DEF StartExtraction
<1>11. CASE CheckExtraction(r)
  <2> DEFINE v == [w EXCEPT !.id = drafts[w.profile].id]
  <2>1. p \in Profiles
    BY <1>1, <1>11 DEF CheckExtraction
  <2>2. v \in Work /\ v.profile = p
    BY <1>1, <2>1 DEF Work, StoreInv, StoreTypeOK, DraftRow
  <2>3. NextStep(r, "proposing", v)
    BY <1>11 DEF CheckExtraction, w
  <2> HIDE DEF v
  <2>4. QED
    BY <1>11, <2>1, <2>2, <2>3, NextStepType, StoreKept DEF CheckExtraction
<1>12. CASE PublishExtraction(r)
  <2>1. p \in Profiles
    BY <1>1, <1>12 DEF PublishExtraction
  <2>2. Upserted(w.profile, w.id, NoOperation, TRUE) \in [Profiles -> DraftRow]
    <3>1. TRUE \in BOOLEAN /\ w.id \in Stamps
      BY <1>1 DEF Work
    <3>2. QED
      BY <1>12, <3>1, UpsertedType DEF PublishExtraction, StoreInv
  <2>3. profiles' \in [Profiles -> ProfileRow]
    BY <1>12, ColumnsType DEF PublishExtraction, StoreInv
  <2>4. StoreInv'
    BY <1>12, <2>2, <2>3, StampType
       DEF PublishExtraction, Stamp, StoreInv, StoreTypeOK, OperationsAssigned, w
  <2>5. QED
    BY <1>12, <2>1, <2>4, ResumedType DEF PublishExtraction, p
<1>13. CASE FailExtraction(r)
  BY <1>1, <1>13, NextStepType, StoreKept DEF FailExtraction, w
<1>14. CASE MarkFailed(r)
  <2>1. profiles' \in [Profiles -> ProfileRow]
    BY <1>14, ColumnsType DEF MarkFailed, StoreInv, AttachmentStates
  <2>2. StoreInv'
    BY <1>14, <2>1 DEF MarkFailed, StoreInv, StoreTypeOK, OperationsAssigned
  <2>3. QED
    BY <1>1, <1>14, <2>2, ResumedType DEF MarkFailed, p
<1>15. CASE CaptureCommit(r)
  <2> DEFINE v == [NoWork EXCEPT !.profile = p, !.op = drafts[p].op,
                                 !.rev = drafts[p].rev]
  <2>1. p \in Profiles
    BY <1>1, <1>15 DEF CaptureCommit
  <2>2. drafts[p] \in DraftRow
    BY <2>1 DEF StoreInv, StoreTypeOK
  <2>3. v \in Work /\ v.profile = p
    BY <2>1, <2>2, NoWorkType DEF Work, DraftRow
  <2>4. NextStep(r, "captured", v)
    BY <1>15 DEF CaptureCommit, p
  <2> HIDE DEF v
  <2>5. runs' \in [Runs -> RunRow]
    BY <1>15, <2>1, SetRunType DEF CaptureCommit, p, ActiveRunStates
  <2>6. QED
    BY <1>15, <2>1, <2>3, <2>4, <2>5, NextStepType, RunsKept DEF CaptureCommit
<1>16. CASE ResumeWithoutCommit(r)
  <2>1. p \in Profiles
    BY <1>1, <1>16 DEF ResumeWithoutCommit
  <2>2. runs' \in [Runs -> RunRow]
    BY <1>16, <2>1, SetRunType DEF ResumeWithoutCommit, p, ActiveRunStates
  <2>3. QED
    BY <1>16, <2>1, <2>2, ResumedType, RunsKept DEF ResumeWithoutCommit, p
<1>17. CASE ResumeCommit(r)
  <2>1. p \in Profiles
    BY <1>1, <1>17 DEF ResumeCommit
  <2>2. runs' \in [Runs -> RunRow]
    BY <1>17, <2>1, SetRunType DEF ResumeCommit, p, ActiveRunStates
  <2>3. ApprovalWork(p) \in Work
    BY <1>1, <1>17, <2>1, ApprovalWorkType DEF ResumeCommit, StoreInv, w
  <2>4. ApprovalWork(p).profile = p
    BY NoWorkType DEF ApprovalWork, Work
  <2>5. NextStep(r, "committing", ApprovalWork(p))
    BY <1>1, <1>17 DEF ResumeCommit, w
  <2>6. QED
    BY <1>17, <2>1, <2>2, <2>3, <2>4, <2>5, NextStepType, RunsKept
       DEF ResumeCommit
<1>18. CASE CommitWrite(r)
  <2>1. p \in Profiles
    BY <1>1, <1>18 DEF CommitWrite
  <2>2. StoreInv'
    BY <1>1, <1>18, <2>1, ApprovalWritesType DEF CommitWrite, StoreInv, w
  <2>3. QED
    BY <1>18, <2>1, <2>2, ResumedType DEF CommitWrite, p
<1>19. CASE FailTurn(r)
  BY <1>1, <1>19, NextStepType, StoreKept DEF FailTurn, w
<1>20. CASE MarkTurnFailed(r)
  <2>1. profiles' \in [Profiles -> ProfileRow]
    <3> DEFINE q == TurnProfile(r)
    <3>1. profiles' \in {profiles, [profiles EXCEPT ![q].cv = "failed"]}
      BY <1>20 DEF MarkTurnFailed
    <3> HIDE DEF q
    <3>2. "failed" \in AttachmentStates
      BY DEF AttachmentStates
    <3>3. QED
      BY <3>1, <3>2, ColumnsType DEF StoreInv, StoreTypeOK
  <2>2. runs' \in [Runs -> RunRow]
    BY <1>20 DEF MarkTurnFailed, NoRunRow, StoreInv, StoreTypeOK, RunRow
  <2>3. StoreInv'
    BY <1>20, <2>1, <2>2 DEF MarkTurnFailed, StoreInv, StoreTypeOK, OperationsAssigned
  <2>4. QED
    BY <1>20, <2>3, NextStepType, NoWorkType DEF MarkTurnFailed
<1>21. CASE AbandonTurn(r)
  BY <1>21, NextStepType, NoWorkType, StoreKept DEF AbandonTurn
<1>22. QED
  BY <1>2, <1>3, <1>4, <1>5, <1>6, <1>7, <1>8, <1>9, <1>10, <1>11, <1>12,
     <1>13, <1>14, <1>15, <1>16, <1>17, <1>18, <1>19, <1>20, <1>21 DEF TurnStep

LEMMA RequestType ==
  ASSUME RequestInv, NEW c \in Clients, NEW pc \in RequestSteps, NEW w \in Work,
         pc # "idle" => w.profile \in Profiles, Request(c, pc, w)
  PROVE  RequestInv'
  BY DEF RequestInv, Request, RequestsAssigned

LEMMA RespondType ==
  ASSUME RequestInv, NEW c \in Clients, Respond(c)
  PROVE  RequestInv'
  BY RequestType, NoWorkType DEF Respond, RequestSteps

\* The transactions that stamp no row and leave operations alone.
LEMMA ProfilesKept ==
  ASSUME StoreInv, profiles' \in [Profiles -> ProfileRow],
         UNCHANGED <<workspace, drafts, operations, runs, clock>>
  PROVE  StoreInv'
  BY DEF StoreInv, StoreTypeOK, OperationsAssigned

LEMMA ClientStepType ==
  ASSUME TypeInv, NEW c \in Clients, ClientStep(c)
  PROVE  StoreInv' /\ RequestInv'
<1> DEFINE w == client[c].work
           p == w.profile
<1> USE DEF TypeInv, OnStep, RequestSteps
<1>1. w \in Work /\ (client[c].pc # "idle" => p \in Profiles)
  BY DEF RequestInv, RequestsAssigned
<1> HIDE DEF w, p
<1>2. ASSUME NEW q \in Profiles, BeginApprove(c, q)
      PROVE  StoreInv' /\ RequestInv'
  <2>1. ApprovalWork(q) \in Work
    BY <1>2, ApprovalWorkType DEF BeginApprove, StoreInv
  <2>2. ApprovalWork(q).profile = q
    BY NoWorkType DEF ApprovalWork, Work
  <2>3. QED
    BY <1>2, <2>1, <2>2, RequestType, StoreKept DEF BeginApprove
<1>3. ASSUME NEW q \in Profiles, BeginDiscard(c, q)
      PROVE  StoreInv' /\ RequestInv'
  <2>1. DiscardWork(q) \in Work
    BY <1>3, DiscardWorkType DEF BeginDiscard, StoreInv
  <2>2. DiscardWork(q).profile = q
    BY NoWorkType DEF DiscardWork, Work
  <2>3. QED
    BY <1>3, <2>1, <2>2, RequestType, StoreKept DEF BeginDiscard
<1>4. ASSUME NEW q \in Profiles, BeginActivate(c, q)
      PROVE  StoreInv' /\ RequestInv'
  <2> DEFINE current == workspace.active
             switch == current \notin {NoProfile, q}
             v == [NoWork EXCEPT !.profile = q, !.other = current,
                                 !.selected = current,
                                 !.mode = IF switch THEN "switch"
                                                    ELSE profiles[q].cv]
  <2>1. current \in Profiles \cup {NoProfile}
    BY DEF StoreInv, StoreTypeOK
  <2>2. ~ switch => profiles[q].cv \in Modes
    BY <1>4 DEF BeginActivate, Modes
  <2>3. v \in Work /\ v.profile = q
    BY <2>1, <2>2, NoWorkType DEF Work, Modes
  <2>4. Request(c, "activating", v)
    BY <1>4 DEF BeginActivate
  <2> HIDE DEF v
  <2>5. QED
    BY <1>4, <2>3, <2>4, RequestType, StoreKept DEF BeginActivate
<1>5. ASSUME NEW q \in Profiles, BeginDelete(c, q)
      PROVE  StoreInv' /\ RequestInv'
  <2> DEFINE v == [NoWork EXCEPT !.profile = q,
                                 !.mode = IF profiles[q].state = "deleting"
                                          THEN "retry" ELSE "mark"]
  <2>1. v \in Work /\ v.profile = q
    BY NoWorkType DEF Work, Modes
  <2>2. Request(c, "marking", v)
    BY <1>5 DEF BeginDelete
  <2> HIDE DEF v
  <2>3. QED
    BY <1>5, <2>1, <2>2, RequestType, StoreKept DEF BeginDelete
<1>6. ASSUME NEW q \in Profiles, BeginRetry(c, q)
      PROVE  StoreInv' /\ RequestInv'
  BY <1>6, WorkForType, RequestType, StoreKept DEF BeginRetry
<1>7. CASE Approve(c)
  BY <1>1, <1>7, ApprovalWritesType, RespondType DEF Approve, StoreInv, w, p
<1>8. CASE Discard(c)
  BY <1>1, <1>8, DiscardWritesType, RespondType DEF Discard, StoreInv, w, p
<1>9. CASE Activate(c)
  <2>1. profiles' \in [Profiles -> ProfileRow]
    BY <1>9 DEF Activate, StoreInv, StoreTypeOK, ProfileRow, AttachmentStates
  <2>2. workspace' \in [active: Profiles \cup {NoProfile}, rev: Stamps]
    BY <1>1, <1>9, SelectType DEF Activate, StoreInv, w, p
  <2>3. StoreInv'
    BY <1>9, <2>1, <2>2, StampType
       DEF Activate, Stamp, StoreInv, StoreTypeOK, OperationsAssigned
  <2>4. QED
    BY <1>9, <2>3, RespondType DEF Activate
<1>10. CASE MarkDeleting(c)
  <2>1. profiles' \in [Profiles -> ProfileRow]
    <3>1. profiles' \in {profiles, [profiles EXCEPT ![p] = BothDeleting(p)]}
      BY <1>10 DEF MarkDeleting, w, p
    <3>2. p \in Profiles => BothDeleting(p) \in ProfileRow
      <4> SUFFICES ASSUME p \in Profiles
                   PROVE  BothDeleting(p) \in ProfileRow
        OBVIOUS
      <4>1. profiles[p] \in ProfileRow
        BY DEF StoreInv, StoreTypeOK
      <4>2. QED
        BY <4>1 DEF BothDeleting, ProfileRow, ProfileStates, LiveProfileStates,
                    AttachmentStates
    <3>3. QED
      BY <3>1, <3>2 DEF StoreInv, StoreTypeOK
  <2>2. operations' \in [OperationIds -> OperationRow] /\ OperationsAssigned'
    BY <1>10, WithoutOperationsType DEF MarkDeleting, StoreInv, OperationsAssigned
  <2>3. StoreInv'
    BY <1>10, <2>1, <2>2 DEF MarkDeleting, StoreInv, StoreTypeOK
  <2>4. QED
    BY <1>1, <1>10, <2>3, RequestType DEF MarkDeleting, w, p
<1>11. CASE CleanUp(c)
  <2>1. profiles' \in [Profiles -> ProfileRow]
    BY <1>11, ColumnsType DEF CleanUp, StoreInv
  <2>2. StoreInv'
    BY <1>11, <2>1, ProfilesKept DEF CleanUp
  <2>3. QED
    BY <1>1, <1>11, <2>2, RequestType, RespondType DEF CleanUp, w, p
<1>12. CASE BeginFinalize(c)
  <2> DEFINE remaining == {q \in Profiles \ {p} : profiles[q].state = "ready"}
             Demote(f) == ActiveAttachments \cap (remaining \ {f})
             cv(f) == IF f = NoProfile THEN "active" ELSE profiles[f].cv
             Demoted(f) == IF Demote(f) = {} THEN NoProfile
                           ELSE CHOOSE q \in Demote(f) : TRUE
             Mode(f) == IF Demote(f) = {} THEN cv(f) ELSE "switch"
  <2>1. PICK f \in IF remaining = {} THEN {NoProfile} ELSE remaining :
               /\ Demote(f) = {} => cv(f) \in {"active", "staged", "archived"}
               /\ Request(c, "deleting",
                    [w EXCEPT !.other = f, !.demoted = Demoted(f),
                              !.selected = workspace.active, !.mode = Mode(f)])
    BY <1>12 DEF BeginFinalize, w, p
  <2>2. f \in Profiles \cup {NoProfile}
    BY <2>1
  <2>3. Demoted(f) \in Profiles \cup {NoProfile}
    <3>1. CASE Demote(f) = {}
      BY <3>1
    <3>2. CASE Demote(f) # {}
      <4>1. (CHOOSE q \in Demote(f) : TRUE) \in Demote(f)
        BY <3>2
      <4>2. QED
        BY <3>2, <4>1 DEF ActiveAttachments
    <3>3. QED
      BY <3>1, <3>2
  <2>4. workspace.active \in Profiles \cup {NoProfile}
    BY DEF StoreInv, StoreTypeOK
  <2>5. Mode(f) \in Modes
    BY <2>1 DEF Modes
  <2> HIDE DEF Demoted, Mode
  <2> DEFINE v == [w EXCEPT !.other = f, !.demoted = Demoted(f),
                            !.selected = workspace.active, !.mode = Mode(f)]
  <2>6. v \in Work /\ v.profile = p
    BY <1>1, <2>2, <2>3, <2>4, <2>5 DEF Work, p
  <2>7. p \in Profiles
    BY <1>1, <1>12 DEF BeginFinalize
  <2>8. Request(c, "deleting", v)
    BY <2>1
  <2> HIDE DEF v
  <2>9. QED
    BY <1>12, <2>6, <2>7, <2>8, RequestType, StoreKept DEF BeginFinalize
<1>13. CASE FinalizeDelete(c)
  <2> DEFINE f == w.other
             gone == {o \in OperationIds : operations[o].profile = p}
  <2>1. profiles' \in [Profiles -> ProfileRow]
    BY <1>13, NoRowType, SMTT(40)
       DEF FinalizeDelete, StoreInv, StoreTypeOK, ProfileRow, AttachmentStates,
           ProfileStates
  <2>2. f \in Profiles \cup {NoProfile}
    BY <1>1 DEF Work
  <2>3. workspace' \in [active: Profiles \cup {NoProfile}, rev: Stamps]
    <3> DEFINE selection == Select(f, IF w.mode = "switch" THEN NoProfile
                                                           ELSE w.selected)
    <3>1. workspace' = [selection EXCEPT !.active = IF @ = p THEN NoProfile ELSE @]
      BY <1>13 DEF FinalizeDelete, w, p
    <3>2. CanStamp
      BY <1>13 DEF FinalizeDelete
    <3>3. selection \in [active: Profiles \cup {NoProfile}, rev: Stamps]
      BY <2>2, <3>2, SelectType DEF StoreInv
    <3> HIDE DEF selection
    <3>4. QED
      <4> PICK a : a = IF selection.active = p THEN NoProfile ELSE selection.active
        OBVIOUS
      <4>1. workspace' = [selection EXCEPT !.active = a]
        BY <3>1
      <4>2. a \in Profiles \cup {NoProfile}
        BY <3>3
      <4>3. QED
        BY <3>3, <4>1, <4>2
  <2>4. drafts' \in [Profiles -> DraftRow]
    BY <1>13, NoDraftType DEF FinalizeDelete, StoreInv, StoreTypeOK
  <2>5. operations' \in [OperationIds -> OperationRow] /\ OperationsAssigned'
    <3>1. operations' = WithoutOperations(gone)
      BY <1>13 DEF FinalizeDelete, w, p
    <3>2. QED
      BY <3>1, WithoutOperationsType DEF StoreInv, OperationsAssigned
  <2>6. runs' \in [Runs -> RunRow]
    BY <1>13 DEF FinalizeDelete, NoRunRow, StoreInv, StoreTypeOK, RunRow
  <2>7. clock' \in Stamps
    BY <1>13, StampType DEF FinalizeDelete, Stamp, StoreInv
  <2>8. StoreInv'
    BY <2>1, <2>3, <2>4, <2>5, <2>6, <2>7 DEF StoreInv, StoreTypeOK
  <2>9. QED
    BY <1>13, <2>8, RespondType DEF FinalizeDelete
<1>14. CASE Retry(c)
  <2>1. profiles' \in [Profiles -> ProfileRow]
    BY <1>14, ColumnsType DEF Retry, StoreInv, AttachmentStates
  <2>2. QED
    BY <1>14, <2>1, ProfilesKept, RespondType DEF Retry
<1>15. CASE RequestFails(c)
  BY <1>15, RespondType, StoreKept DEF RequestFails
<1>16. QED
  BY <1>2, <1>3, <1>4, <1>5, <1>6, <1>7, <1>8, <1>9, <1>10, <1>11, <1>12,
     <1>13, <1>14, <1>15 DEF ClientStep

LEMMA UploadType ==
  ASSUME TypeInv, NEW p \in Profiles, Upload(p)
  PROVE  StoreInv' /\ RequestInv'
<1> USE DEF TypeInv, StoreInv
<1>1. clock + 1 \in Stamps /\ 0 \in Stamps
  BY StampType, StoreAssumption DEF Upload, Stamps
<1>2. profiles' \in [Profiles -> ProfileRow]
  BY <1>1 DEF Upload, StoreTypeOK, ProfileRow, ProfileStates, LiveProfileStates,
              AttachmentStates
<1>3. workspace' \in [active: Profiles \cup {NoProfile}, rev: Stamps]
  BY SelectType DEF Upload
<1>4. QED
  BY <1>1, <1>2, <1>3
     DEF Upload, Stamp, StoreTypeOK, OperationsAssigned, RequestInv, RequestsAssigned

LEMMA RenameType ==
  ASSUME TypeInv, NEW p \in Profiles, Rename(p)
  PROVE  StoreInv' /\ RequestInv'
<1> USE DEF TypeInv, StoreInv
<1>1. clock + 1 \in Stamps
  BY StampType DEF Rename
<1>2. profiles' \in [Profiles -> ProfileRow]
  BY <1>1 DEF Rename, StoreTypeOK, ProfileRow
<1>3. QED
  BY <1>1, <1>2
     DEF Rename, Stamp, StoreTypeOK, OperationsAssigned, RequestInv, RequestsAssigned

LEMMA CrashType ==
  ASSUME TypeInv, Crash
  PROVE  TypeInv'
<1> USE DEF TypeInv
<1>1. StoreInv'
  BY StoreKept DEF Crash
<1>2. StreamTypeOK'
  BY DEF Crash, StreamTypeOK
<1>3. TurnInv'
  BY NoWorkType
     DEF Crash, TurnsAfterCrash, TurnInv, TurnTypeOK, TurnsAssigned, TurnProfile,
         TurnSteps
<1>4. RequestInv'
  BY NoWorkType DEF Crash, RequestInv, RequestsAssigned, RequestSteps
<1>5. QED
  BY <1>1, <1>2, <1>3, <1>4 DEF Crash

LEMMA RestartType ==
  ASSUME TypeInv, Restart
  PROVE  TypeInv'
<1> USE DEF TypeInv, StoreInv
<1>1. operations' \in [OperationIds -> OperationRow] /\ OperationsAssigned'
  BY DEF Restart, RecoverRunning, StoreTypeOK, OperationRow, OperationStates,
         TerminalStates, OperationsAssigned
<1>2. QED
  BY <1>1 DEF Restart, StoreTypeOK, StreamTypeOK, TurnInv, TurnTypeOK,
              TurnsAssigned, TurnProfile, RequestInv, RequestsAssigned

-----------------------------------------------------------------------------
(* The tables, the streams, the turns and the requests in flight keep their *)
(* types, whatever interleaving the event loop takes.                       *)

LEMMA TypeInvInit == Init => TypeInv
<1> SUFFICES ASSUME Init PROVE TypeInv
  OBVIOUS
<1> USE DEF Init
<1>1. 0 \in Stamps /\ 1 \in Stamps
  BY StoreAssumption DEF Stamps
<1>2. StoreInv
  <2>1. workspace \in [active: Profiles \cup {NoProfile}, rev: Stamps]
    BY <1>1, StoreAssumption DEF StoreInit
  <2>2. profiles \in [Profiles -> ProfileRow]
    BY <1>1, NoRowType
       DEF StoreInit, ProfileRow, ProfileStates, LiveProfileStates, AttachmentStates
  <2>3. drafts \in [Profiles -> DraftRow]
    BY NoDraftType DEF StoreInit
  <2>4. operations \in [OperationIds -> OperationRow] /\ OperationsAssigned
    BY NoOperationRowType DEF StoreInit, OperationsAssigned, NoOperationRow
  <2>5. runs \in [Runs -> RunRow]
    BY DEF StoreInit, NoRunRow, RunRow
  <2>6. QED
    BY <1>1, <2>1, <2>2, <2>3, <2>4, <2>5 DEF StoreInit, StoreInv, StoreTypeOK
<1>3. StreamTypeOK
  BY DEF StreamInit, StreamTypeOK
<1>4. TurnInv
  BY NoWorkType
     DEF TurnInit, TurnInv, TurnTypeOK, TurnsAssigned, TurnSteps
<1>5. RequestInv
  BY NoWorkType DEF RequestInv, RequestsAssigned, RequestSteps
<1>6. QED
  BY <1>2, <1>3, <1>4, <1>5 DEF TypeInv

LEMMA TypeInvNext == TypeInv /\ [Next]_vars => TypeInv'
<1> SUFFICES ASSUME TypeInv, [Next]_vars PROVE TypeInv'
  OBVIOUS
<1>1. ASSUME UNCHANGED turn PROVE TurnInv'
  BY <1>1 DEF TypeInv, TurnInv, TurnTypeOK, TurnsAssigned, TurnProfile
<1>2. ASSUME UNCHANGED client PROVE RequestInv'
  BY <1>2 DEF TypeInv, RequestInv, RequestsAssigned
<1>3. ASSUME UNCHANGED stream PROVE StreamTypeOK'
  BY <1>3 DEF TypeInv, StreamTypeOK
<1>4. ASSUME UNCHANGED up PROVE (up \in BOOLEAN)'
  BY <1>4 DEF TypeInv
<1>5. ASSUME NEW p \in Profiles, NEW o \in OperationIds,
             Claim(p, o), UNCHANGED <<turn, client, up>>
      PROVE  TypeInv'
  BY <1>1, <1>2, <1>4, <1>5, ClaimType DEF TypeInv
<1>6. ASSUME NEW o \in OperationIds, StreamWork(o)
      PROVE  TypeInv'
  BY <1>1, <1>2, <1>4, <1>6, StreamStepType DEF TypeInv, StreamWork
<1>7. ASSUME NEW o \in OperationIds, ReadReview(o), UNCHANGED <<turn, client, up>>
      PROVE  TypeInv'
  BY <1>1, <1>2, <1>4, <1>7, ReadReviewType DEF TypeInv
<1>8. ASSUME NEW r \in Runs, TurnStep(r), UNCHANGED <<stream, client, up>>
      PROVE  TypeInv'
  BY <1>2, <1>3, <1>4, <1>8, TurnStepType DEF TypeInv
<1>9. ASSUME NEW c \in Clients, ClientStep(c), UNCHANGED <<stream, turn, up>>
      PROVE  TypeInv'
  BY <1>1, <1>3, <1>4, <1>9, ClientStepType DEF TypeInv
<1>10. ASSUME NEW p \in Profiles, Upload(p) \/ Rename(p),
              UNCHANGED <<stream, turn, up>>
       PROVE  TypeInv'
  BY <1>1, <1>3, <1>4, <1>10, UploadType, RenameType DEF TypeInv
<1>11. ASSUME UNCHANGED vars PROVE TypeInv'
  BY <1>1, <1>2, <1>3, <1>4, <1>11, StoreKept DEF TypeInv, vars
<1>12. ASSUME NEW o \in OperationIds, StreamUnfinalized(o),
              UNCHANGED <<turn, client, up>>
       PROVE  TypeInv'
  BY <1>1, <1>2, <1>4, <1>12, UnfinalizedType DEF TypeInv
<1>13. QED
  BY <1>5, <1>6, <1>7, <1>8, <1>9, <1>10, <1>11, <1>12, CrashType, RestartType,
     CutOffUnfinalized
     DEF Next

LEMMA TypeInvCorrect == Spec => []TypeInv
  BY TypeInvInit, TypeInvNext, PTL DEF Spec

\* No interleaving of streams, turns, requests, crashes and restarts leaves the
\* tables or what is held in memory outside their types.
THEOREM TypeCorrect == Spec => []TypeOK
<1>1. TypeInv => TypeOK
  BY DEF TypeInv, StoreInv, TurnInv, RequestInv, TypeOK
<1>2. QED
  BY <1>1, TypeInvCorrect, PTL

-----------------------------------------------------------------------------
(* Only a claim and a publication open an operation, only an upload opens a *)
(* set-up: every other step closes operations or leaves them as they are.   *)

OnlyCloses ==
    \A o \in OperationIds : \/ operations'[o] = operations[o]
                            \/ operations'[o].state \in TerminalStates \cup {"none"}

NoNewSetup ==
    \A p \in Profiles : profiles'[p].state = "pending" =>
                            profiles[p].state = "pending"

LEMMA WithoutCloses ==
  ASSUME NEW gone, operations' = WithoutOperations(gone)
  PROVE  OnlyCloses
  BY DEF OnlyCloses, WithoutOperations, NoOperationRow

LEMMA TransitionCloses ==
  ASSUME StoreTypeOK, NEW o \in OperationIds, NEW to \in TerminalStates,
         TransitionRunning(o, to)
  PROVE  OnlyCloses
  BY DEF TransitionRunning, OnlyCloses, StoreTypeOK, OperationRow

LEMMA ReconciledCloses ==
  ASSUME StoreTypeOK, NEW o \in OperationIds, operations' = Reconciled(o)
  PROVE  OnlyCloses
  BY DEF Reconciled, OnlyCloses, StoreTypeOK, OperationRow, TerminalStates

LEMMA ApprovalCloses ==
  ASSUME StoreTypeOK, NEW w, ApprovalWrites(w)
  PROVE  OnlyCloses /\ NoNewSetup
  BY DEF ApprovalWrites, ApprovedRow, OnlyCloses, NoNewSetup, NoOperationRow,
         StoreTypeOK, ProfileRow

LEMMA DiscardCloses ==
  ASSUME StoreTypeOK, NEW w, DiscardWrites(w)
  PROVE  OnlyCloses /\ NoNewSetup
  BY DEF DiscardWrites, OnlyCloses, NoNewSetup, NoOperationRow, StoreTypeOK,
         ProfileRow

LEMMA StreamCloses ==
  ASSUME StoreTypeOK, NEW o \in OperationIds, StreamStep(o)
  PROVE  NoNewSetup /\ (StreamPublish(o) \/ OnlyCloses)
<1>1. StreamPublish(o) => NoNewSetup
  BY DEF StreamPublish, NoNewSetup, StoreTypeOK, ProfileRow
<1>2. CASE StreamCheck(o) \/ StreamFail(o) \/ StreamEnd(o)
  BY <1>2 DEF StreamCheck, StreamFail, StreamEnd, storeVars, OnlyCloses, NoNewSetup
<1>3. CASE StreamMarkStale(o) \/ StreamFailed(o) \/ StreamCancel(o)
  BY <1>3, TransitionCloses
     DEF StreamMarkStale, StreamFailed, StreamCancel, TerminalStates, NoNewSetup
<1>4. QED
  BY <1>1, <1>2, <1>3 DEF StreamStep

LEMMA TurnCloses ==
  ASSUME TypeInv, NEW r \in Runs, TurnStep(r)
  PROVE  OnlyCloses /\ NoNewSetup
<1> USE DEF TypeInv, StoreInv
<1>1. CASE UNCHANGED <<profiles, operations>>
  BY <1>1 DEF OnlyCloses, NoNewSetup
<1>2. CASE RefuseStaleUpdate(r)
  <2> DEFINE p == turn[r].work.profile
  <2>1. p \in Profiles
    BY <1>2, TurnProfileType DEF RefuseStaleUpdate, InStep
  <2>2. drafts[p].op \in OperationIds
    BY <1>2, <2>1 DEF RefuseStaleUpdate, StoreTypeOK, DraftRow
  <2>3. QED
    BY <1>2, <2>2, ReconciledCloses DEF RefuseStaleUpdate, NoNewSetup
<1>3. CASE PublishExtraction(r)
  BY <1>3 DEF PublishExtraction, OnlyCloses, NoNewSetup, StoreTypeOK, ProfileRow
<1>4. CASE MarkFailed(r)
  BY <1>4 DEF MarkFailed, OnlyCloses, NoNewSetup, StoreTypeOK, ProfileRow
<1>5. CASE CommitWrite(r)
  BY <1>5, ApprovalCloses DEF CommitWrite
<1>6. CASE MarkTurnFailed(r)
  BY <1>6 DEF MarkTurnFailed, OnlyCloses, NoNewSetup, StoreTypeOK, ProfileRow
<1>7. QED
  BY <1>1, <1>2, <1>3, <1>4, <1>5, <1>6
     DEF TurnStep, BeginTurn, StartTurn, EndTurn, FailTurn, AbandonTurn, ToolFails,
         ReadUpdateBase, CheckUpdate, WriteUpdate, StartExtraction, CheckExtraction,
         FailExtraction, CaptureCommit, ResumeWithoutCommit, ResumeCommit, storeVars

LEMMA ClientCloses ==
  ASSUME TypeInv, NEW c \in Clients, ClientStep(c)
  PROVE  OnlyCloses /\ NoNewSetup
<1> USE DEF TypeInv, StoreInv
<1>1. CASE UNCHANGED <<profiles, operations>>
  BY <1>1 DEF OnlyCloses, NoNewSetup
<1>2. CASE Approve(c) \/ Discard(c)
  BY <1>2, ApprovalCloses, DiscardCloses DEF Approve, Discard
<1>3. CASE Activate(c)
  BY <1>3 DEF Activate, OnlyCloses, NoNewSetup, StoreTypeOK, ProfileRow
<1>4. CASE CleanUp(c)
  BY <1>4 DEF CleanUp, OnlyCloses, NoNewSetup, StoreTypeOK, ProfileRow
<1>5. CASE Retry(c)
  BY <1>5 DEF Retry, OnlyCloses, NoNewSetup, StoreTypeOK, ProfileRow
<1>6. CASE MarkDeleting(c)
  BY <1>6, WithoutCloses
     DEF MarkDeleting, BothDeleting, NoNewSetup, StoreTypeOK, ProfileRow
<1>7. CASE FinalizeDelete(c)
  <2>1. OnlyCloses
    BY <1>7, WithoutCloses DEF FinalizeDelete
  <2>2. NoNewSetup
    BY <1>7 DEF FinalizeDelete, NoRow, NoNewSetup, StoreTypeOK, ProfileRow
  <2>3. QED
    BY <2>1, <2>2
<1>8. QED
  BY <1>1, <1>2, <1>3, <1>4, <1>5, <1>6, <1>7
     DEF ClientStep, BeginApprove, BeginDiscard, BeginActivate, BeginDelete,
         BeginRetry, BeginFinalize, RequestFails, storeVars

LEMMA RestartCloses ==
  ASSUME Restart
  PROVE  OnlyCloses /\ NoNewSetup
  BY DEF Restart, RecoverRunning, OnlyCloses, NoNewSetup, TerminalStates

-----------------------------------------------------------------------------
(* A running operation has its stream *)

LEMMA RunningKept ==
  ASSUME RunningHasStream, OnlyCloses, UNCHANGED <<stream, up>>
  PROVE  RunningHasStream'
  BY DEF RunningHasStream, OnlyCloses, TerminalStates

LEMMA RunningStreamWork ==
  ASSUME TypeInv, RunningHasStream, NEW o \in OperationIds, StreamWork(o)
  PROVE  RunningHasStream'
<1> USE DEF TypeInv, StoreInv, StreamWork, RunningHasStream, LiveStreams, At, Goto
<1>1. \A q \in OperationIds \ {o} : stream'[q] = stream[q] /\ operations'[q] = operations[q]
  BY DEF StreamStep, StreamCheck, StreamPublish, StreamMarkStale, StreamFail,
         StreamFailed, StreamCancel, StreamEnd, TransitionRunning, StreamTypeOK, StoreTypeOK,
         storeVars
<1>2. operations'[o].state = "running" =>
        stream'[o] \in LiveStreams \ {"published"}
  <2>1. CASE StreamCheck(o)
    BY <2>1 DEF StreamCheck, StreamTypeOK
  <2>2. CASE StreamFail(o) \/ StreamEnd(o)
    BY <2>2 DEF StreamFail, StreamEnd, StreamTypeOK, storeVars
  <2>3. CASE StreamPublish(o)
    BY <2>3 DEF StreamPublish, TransitionRunning, StoreTypeOK, OperationRow
  <2>4. CASE StreamMarkStale(o) \/ StreamFailed(o) \/ StreamCancel(o)
    BY <2>4 DEF StreamMarkStale, StreamFailed, StreamCancel, TransitionRunning,
                StoreTypeOK, OperationRow
  <2>5. QED
    BY <2>1, <2>2, <2>3, <2>4 DEF StreamStep
<1>3. QED
  BY <1>1, <1>2

LEMMA RunningClaim ==
  ASSUME TypeInv, RunningHasStream, NEW p \in Profiles, NEW o \in OperationIds,
         Claim(p, o), UNCHANGED up
  PROVE  RunningHasStream'
  BY DEF TypeInv, StoreInv, RunningHasStream, Claim, Goto, WithoutOperations,
         NoOperationRow, LiveStreams, StreamTypeOK, StoreTypeOK

\* Cancellation, failure, crash and start-up recovery leave no operation running
\* without the generator that has still to move it, for any number of them, as
\* long as the finalization of a stream is neither locked out of the store nor
\* cut off by a disconnect.
THEOREM RunningHasStreamAlways ==
  ASSUME "busy" \notin Requests, "cutoff" \notin Requests
  PROVE  Spec => []RunningHasStream
<1>1. Init => RunningHasStream
  BY DEF Init, StoreInit, RunningHasStream, NoOperationRow
<1>2. TypeInv /\ RunningHasStream /\ [Next]_vars => RunningHasStream'
  <2> SUFFICES ASSUME TypeInv, RunningHasStream, [Next]_vars
               PROVE  RunningHasStream'
    OBVIOUS
  <2>1. ASSUME NEW p \in Profiles, NEW o \in OperationIds,
               Claim(p, o), UNCHANGED <<turn, client, up>>
        PROVE  RunningHasStream'
    BY <2>1, RunningClaim
  <2>2. ASSUME NEW o \in OperationIds, StreamWork(o)
        PROVE  RunningHasStream'
    BY <2>2, RunningStreamWork
  <2>3. ASSUME NEW o \in OperationIds, ReadReview(o),
               UNCHANGED <<turn, client, up>>
        PROVE  RunningHasStream'
    BY <2>3, ReconciledCloses, RunningKept DEF ReadReview, TypeInv, StoreInv
  <2>4. ASSUME NEW r \in Runs, TurnStep(r), UNCHANGED <<stream, client, up>>
        PROVE  RunningHasStream'
    BY <2>4, TurnCloses, RunningKept
  <2>5. ASSUME NEW c \in Clients, ClientStep(c), UNCHANGED <<stream, turn, up>>
        PROVE  RunningHasStream'
    BY <2>5, ClientCloses, RunningKept
  <2>6. ASSUME NEW p \in Profiles, Upload(p) \/ Rename(p),
               UNCHANGED <<stream, turn, up>>
        PROVE  RunningHasStream'
    BY <2>6, RunningKept DEF Upload, Rename, OnlyCloses
  <2>7. CASE Crash
    BY <2>7 DEF Crash, RunningHasStream
  <2>8. CASE Restart
    BY <2>8 DEF Restart, RecoverRunning, RunningHasStream, TypeInv, StoreInv,
                StoreTypeOK, OperationRow
  <2>9. CASE UNCHANGED vars
    BY <2>9, RunningKept DEF vars, storeVars, OnlyCloses
  <2>10. QED
    BY <2>1, <2>2, <2>3, <2>4, <2>5, <2>6, <2>7, <2>8, <2>9 DEF Next
<1>3. QED
  BY <1>1, <1>2, TypeInvCorrect, PTL DEF Spec

-----------------------------------------------------------------------------
(* Upload and re-extraction exclude each other *)

LEMMA SetupKept ==
  ASSUME SetupExcludesReextraction, OnlyCloses, NoNewSetup
  PROVE  SetupExcludesReextraction'
  BY DEF SetupExcludesReextraction, OnlyCloses, NoNewSetup, PendingSetup,
         TerminalStates, ActionableStates

\* The gates of upload_cv and of the claim exclude each other whatever else is
\* in flight: a set-up never coexists with a running or reviewable operation.
THEOREM SetupExclusion == Spec => []SetupExcludesReextraction
<1>1. Init => SetupExcludesReextraction
  BY DEF Init, StoreInit, SetupExcludesReextraction, NoOperationRow, ActionableStates
<1>2. TypeInv /\ SetupExcludesReextraction /\ [Next]_vars
        => SetupExcludesReextraction'
  <2> SUFFICES ASSUME TypeInv, SetupExcludesReextraction, [Next]_vars
               PROVE  SetupExcludesReextraction'
    OBVIOUS
  <2>1. ASSUME NEW p \in Profiles, NEW o \in OperationIds, Claim(p, o)
        PROVE  SetupExcludesReextraction'
    BY <2>1 DEF Claim, ClaimAllowed, PendingSetup, SetupExcludesReextraction
  <2>2. ASSUME NEW o \in OperationIds, StreamWork(o)
        PROVE  SetupExcludesReextraction'
    <3>1. CASE StreamPublish(o)
      <4>1. NoNewSetup
        BY <2>2, StreamCloses DEF TypeInv, StoreInv, StreamWork
      <4>2. operations[o].state = "running"
        BY <3>1 DEF StreamPublish
      <4>3. ~ PendingSetup
        BY <4>2 DEF SetupExcludesReextraction, ActionableStates
      <4>4. QED
        BY <4>1, <4>3 DEF NoNewSetup, PendingSetup, SetupExcludesReextraction
    <3>2. CASE OnlyCloses
      BY <2>2, <3>2, StreamCloses, SetupKept DEF TypeInv, StoreInv, StreamWork
    <3>3. QED
      BY <2>2, <3>1, <3>2, StreamCloses DEF TypeInv, StoreInv, StreamWork
  <2>3. ASSUME NEW o \in OperationIds, ReadReview(o)
        PROVE  SetupExcludesReextraction'
    BY <2>3, ReconciledCloses, SetupKept
       DEF ReadReview, TypeInv, StoreInv, NoNewSetup
  <2>4. ASSUME NEW r \in Runs, TurnStep(r)
        PROVE  SetupExcludesReextraction'
    BY <2>4, TurnCloses, SetupKept
  <2>5. ASSUME NEW c \in Clients, ClientStep(c)
        PROVE  SetupExcludesReextraction'
    BY <2>5, ClientCloses, SetupKept
  <2>6. ASSUME NEW p \in Profiles, Upload(p)
        PROVE  SetupExcludesReextraction'
    BY <2>6 DEF Upload, UploadClear, SetupExcludesReextraction
  <2>7. ASSUME NEW p \in Profiles, Rename(p)
        PROVE  SetupExcludesReextraction'
    <3>1. NoNewSetup
      BY <2>7 DEF Rename, NoNewSetup, TypeInv, StoreInv, StoreTypeOK, ProfileRow
    <3>2. QED
      BY <2>7, <3>1, SetupKept DEF Rename, OnlyCloses
  <2>8. CASE Crash
    BY <2>8, SetupKept DEF Crash, storeVars, OnlyCloses, NoNewSetup
  <2>9. CASE Restart
    BY <2>9, RestartCloses, SetupKept
  <2>10. CASE UNCHANGED storeVars
    BY <2>10, SetupKept DEF storeVars, OnlyCloses, NoNewSetup
  <2>11. QED
    BY <2>1, <2>2, <2>3, <2>4, <2>5, <2>6, <2>7, <2>8, <2>9, <2>10
       DEF Next, StreamUnfinalized, StreamCutOff, vars
<1>3. QED
  BY <1>1, <1>2, TypeInvCorrect, PTL DEF Spec

-----------------------------------------------------------------------------
(* What a deletion leaves behind, without chat turns.  A profile becomes      *)
(* ready through the approval of its set-up only, which a chat turn prepares: *)
(* without turns, a deletion meets profiles that were approved before, and    *)
(* their re-extractions and approvals.                                        *)

Doomed == {"deleting", "gone"}

\* Only what was approved, or is on its way out, has drafts and operations.
DraftsApproved ==
    \A p \in Profiles : HasDraft(p) => profiles[p].state \in {"ready", "deleting"}

OperationsApproved ==
    \A o \in OperationIds :
        operations[o].state # "none" =>
            profiles[operations[o].profile].state \in {"ready", "deleting"}

ApprovalsOfReady ==
    \A c \in Clients :
        client[c].pc = "approving" =>
            client[c].work.mode = "ready" /\ client[c].work.other = NoProfile

\* The check of a first deletion precedes the mark; that of a retry follows one.
DeletionsMarked ==
    \A c \in Clients :
        \/ client[c].pc = "marking" /\ client[c].work.mode = "retry"
        \/ client[c].pc \in {"cleaning", "finalizing", "deleting"}
        => profiles[client[c].work.profile].state \in Doomed

FilesInv ==
    ReadyKeepsFile /\ DraftsApproved /\ OperationsApproved
    /\ ApprovalsOfReady /\ DeletionsMarked

\* A switch moves the selection to another profile, and so does a deletion that
\* demotes one.  An extraction fails inside a turn only: without turns, no
\* attachment is failed and a retry has nothing to do.
PlanHolds(pc, w) ==
    /\ pc = "activating" /\ w.mode = "switch" => w.selected # w.profile
    /\ pc = "deleting" /\ w.demoted # NoProfile =>
         w.mode = "switch" /\ w.other # NoProfile
    /\ pc # "retrying"

PlansHold == \A c \in Clients : PlanHolds(client[c].pc, client[c].work)

NoneFailed == \A p \in Profiles : profiles[p].cv # "failed"

SelectionInv == PlansHold /\ NoneFailed

-----------------------------------------------------------------------------
(* The life of a profile row, whatever the step                              *)

RowStep(p) ==
    \/ /\ profiles'[p].state = profiles[p].state
       /\ profiles[p].state = "ready" => profiles'[p].file = profiles[p].file
    \/ profiles'[p].state = "deleting"
    \/ profiles[p].state = "unborn" /\ profiles'[p].state = "pending"
    \/ /\ profiles[p].state \in Doomed /\ profiles'[p].state = "gone"
       /\ ~ HasDraft(p)'
       /\ \A o \in OperationIds : operations'[o].state # "none" =>
                                      operations'[o].profile # p

DraftsFollow ==
    \A p \in Profiles :
        HasDraft(p)' => HasDraft(p) \/ profiles[p].state \in {"ready", "deleting"}

OperationsFollow ==
    \A o \in OperationIds :
        operations'[o].state # "none" =>
            \/ /\ operations[o].state # "none"
               /\ operations'[o].profile = operations[o].profile
            \/ profiles[operations'[o].profile].state = "ready"

LifeStep == (\A p \in Profiles : RowStep(p)) /\ DraftsFollow /\ OperationsFollow

LEMMA DoomedStays ==
  ASSUME LifeStep, NEW p \in Profiles, profiles[p].state \in Doomed
  PROVE  profiles'[p].state \in Doomed
  BY DEF LifeStep, RowStep, Doomed

LEMMA LifeKept ==
  ASSUME TypeInv, OperationsAssigned', FilesInv, LifeStep
  PROVE  ReadyKeepsFile' /\ DraftsApproved' /\ OperationsApproved'
<1> USE DEF FilesInv, LifeStep
<1>1. ReadyKeepsFile'
  BY DEF ReadyKeepsFile, RowStep
<1>2. DraftsApproved'
  BY DEF DraftsApproved, DraftsFollow, RowStep
<1>3. ASSUME NEW o \in OperationIds, operations'[o].state # "none"
      PROVE  profiles'[operations'[o].profile].state \in {"ready", "deleting"}
  <2> DEFINE p == operations'[o].profile
  <2>1. p \in Profiles
    BY <1>3 DEF OperationsAssigned
  <2>2. profiles[p].state \in {"ready", "deleting"}
    BY <1>3 DEF OperationsApproved, OperationsFollow
  <2>3. QED
    BY <1>3, <2>1, <2>2 DEF RowStep
<1>4. QED
  BY <1>1, <1>2, <1>3 DEF OperationsApproved

LEMMA FilesKept ==
  ASSUME TypeInv, OperationsAssigned', FilesInv, LifeStep, UNCHANGED client
  PROVE  FilesInv'
<1>1. ApprovalsOfReady'
  BY DEF FilesInv, ApprovalsOfReady
<1>2. DeletionsMarked'
  BY DoomedStays DEF TypeInv, RequestInv, RequestsAssigned, FilesInv, DeletionsMarked
<1>3. QED
  BY <1>1, <1>2, LifeKept DEF FilesInv

LEMMA RequestKeepsFiles ==
  ASSUME TypeInv, OperationsAssigned', FilesInv, LifeStep,
         NEW c \in Clients, NEW pc, NEW w, Request(c, pc, w),
         pc = "approving" => w.mode = "ready" /\ w.other = NoProfile,
         \/ pc = "marking" /\ w.mode = "retry"
         \/ pc \in {"cleaning", "finalizing", "deleting"}
         => profiles'[w.profile].state \in Doomed
  PROVE  FilesInv'
<1> USE DEF TypeInv, RequestInv
<1>1. /\ client'[c].pc = pc /\ client'[c].work = w
      /\ \A d \in Clients \ {c} : client'[d] = client[d]
  BY DEF Request
<1>2. ApprovalsOfReady'
  BY <1>1 DEF FilesInv, ApprovalsOfReady
<1>3. DeletionsMarked'
  BY <1>1, DoomedStays DEF RequestsAssigned, FilesInv, DeletionsMarked
<1>4. QED
  BY <1>2, <1>3, LifeKept DEF FilesInv

\* Steps that leave the rows, or all of them but their revision, as they are.
SameRows ==
    \A p \in Profiles : /\ profiles'[p].state = profiles[p].state
                        /\ profiles'[p].cv = profiles[p].cv
                        /\ profiles'[p].file = profiles[p].file

OperationsFewer ==
    \A o \in OperationIds :
        operations'[o].state # "none" =>
            /\ operations[o].state # "none"
            /\ operations'[o].profile = operations[o].profile

LEMMA SameRowsLive ==
  ASSUME SameRows, DraftsFollow, OperationsFollow
  PROVE  LifeStep
  BY DEF SameRows, LifeStep, RowStep

LEMMA FewerFollow ==
  ASSUME OperationsFewer
  PROVE  OperationsFollow
  BY DEF OperationsFewer, OperationsFollow

LEMMA SameFollow ==
  ASSUME UNCHANGED operations
  PROVE  OperationsFewer
  BY DEF OperationsFewer

LEMMA WithoutFollow ==
  ASSUME NEW gone, operations' = WithoutOperations(gone)
  PROVE  OperationsFewer
  BY DEF WithoutOperations, NoOperationRow, OperationsFewer

LEMMA TransitionFollow ==
  ASSUME StoreTypeOK, NEW o \in OperationIds, NEW to, TransitionRunning(o, to)
  PROVE  OperationsFewer
  BY DEF TransitionRunning, StoreTypeOK, OperationRow, OperationsFewer

LEMMA ApprovalLives ==
  ASSUME TypeInv, FilesInv, NEW w \in Work, w.profile \in Profiles,
         w.mode = "ready", w.other = NoProfile, ApprovalWrites(w)
  PROVE  LifeStep /\ SameRows /\ UNCHANGED workspace
<1> USE DEF TypeInv, StoreInv, StoreTypeOK
<1>1. SameRows
  BY StoreAssumption DEF ApprovalWrites, ApprovedRow, SameRows, ProfileRow
<1>2. DraftsFollow
  BY DEF ApprovalWrites, NoDraft, HasDraft, DraftsFollow
<1>3. OperationsFewer
  BY DEF ApprovalWrites, NoOperationRow, OperationsFewer
<1>4. UNCHANGED workspace
  BY DEF ApprovalWrites
<1>5. QED
  BY <1>1, <1>2, <1>3, <1>4, FewerFollow, SameRowsLive

LEMMA DiscardLives ==
  ASSUME TypeInv, FilesInv, NEW w \in Work, w.profile \in Profiles, DiscardWrites(w)
  PROVE  LifeStep /\ SameRows /\ UNCHANGED workspace
<1> USE DEF TypeInv, StoreInv, StoreTypeOK
<1>1. SameRows
  BY DEF DiscardWrites, SameRows, ProfileRow
<1>2. DraftsFollow
  BY DEF DiscardWrites, DeletedByKey, NoDraft, HasDraft, DraftsFollow
<1>3. OperationsFewer
  BY DEF DiscardWrites, NoOperationRow, OperationsFewer
<1>4. UNCHANGED workspace
  BY DEF DiscardWrites
<1>5. QED
  BY <1>1, <1>2, <1>3, <1>4, FewerFollow, SameRowsLive

LEMMA StreamLives ==
  ASSUME TypeInv, FilesInv, NEW o \in OperationIds,
         StreamStep(o) \/ StreamUnfinalized(o) \/ StreamCutOff(o)
  PROVE  LifeStep /\ SameRows /\ UNCHANGED workspace
<1> USE DEF TypeInv, StoreInv
<1>1. CASE StreamPublish(o)
  <2> DEFINE p == operations[o].profile
  <2>1. SameRows
    BY <1>1 DEF StreamPublish, SameRows, StoreTypeOK, ProfileRow
  <2>2. profiles[p].state \in {"ready", "deleting"}
    BY <1>1 DEF StreamPublish, FilesInv, OperationsApproved
  <2>3. DraftsFollow
    BY <1>1, <2>2 DEF StreamPublish, Upserted, HasDraft, DraftsFollow, StoreTypeOK
  <2>4. OperationsFewer
    BY <1>1, TransitionFollow DEF StreamPublish
  <2>5. QED
    BY <1>1, <2>1, <2>3, <2>4, FewerFollow, SameRowsLive DEF StreamPublish
<1>2. CASE UNCHANGED <<profiles, workspace, drafts>> /\ OperationsFewer
  BY <1>2, FewerFollow, SameRowsLive DEF SameRows, DraftsFollow, HasDraft
<1>3. QED
  BY <1>1, <1>2, SameFollow, TransitionFollow
     DEF StreamStep, StreamCheck, StreamMarkStale, StreamFail, StreamFailed,
         StreamCancel, StreamEnd, StreamUnfinalized, StreamCutOff, storeVars

LEMMA ClaimLives ==
  ASSUME TypeInv, FilesInv, NEW p \in Profiles, NEW o \in OperationIds, Claim(p, o)
  PROVE  LifeStep /\ SameRows /\ UNCHANGED workspace
<1>1. UNCHANGED <<profiles, workspace, drafts>> /\ profiles[p].state = "ready"
  BY DEF Claim, ClaimAllowed
<1>2. \A q \in OperationIds \ {o} : operations'[q] \in {operations[q], NoOperationRow}
  BY DEF Claim, WithoutOperations
<1>3. operations'[o].profile = p
  BY DEF Claim, WithoutOperations
<1>4. OperationsFollow
  BY <1>1, <1>2, <1>3 DEF OperationsFollow, NoOperationRow
<1>5. QED
  BY <1>1, <1>4, SameRowsLive DEF SameRows, DraftsFollow, HasDraft

LEMMA ReadReviewLives ==
  ASSUME TypeInv, FilesInv, NEW o \in OperationIds, ReadReview(o)
  PROVE  LifeStep /\ SameRows /\ UNCHANGED workspace
<1>1. OperationsFewer
  BY DEF ReadReview, Reconciled, TypeInv, StoreInv, StoreTypeOK, OperationRow,
         OperationsFewer, ReviewOutdated
<1>2. UNCHANGED <<profiles, workspace, drafts>>
  BY DEF ReadReview
<1>3. QED
  BY <1>1, <1>2, FewerFollow, SameRowsLive DEF SameRows, DraftsFollow, HasDraft

LEMMA RestartLives ==
  ASSUME TypeInv, FilesInv, Restart
  PROVE  LifeStep /\ SameRows /\ UNCHANGED workspace
<1>1. OperationsFewer
  BY DEF Restart, RecoverRunning, TypeInv, StoreInv, StoreTypeOK, OperationRow,
         OperationsFewer
<1>2. UNCHANGED <<profiles, workspace, drafts>>
  BY DEF Restart
<1>3. QED
  BY <1>1, <1>2, FewerFollow, SameRowsLive DEF SameRows, DraftsFollow, HasDraft

LEMMA StoreUnchangedLives ==
  ASSUME UNCHANGED storeVars
  PROVE  LifeStep /\ SameRows /\ UNCHANGED workspace
<1>1. OperationsFewer
  BY SameFollow DEF storeVars
<1>2. QED
  BY <1>1, FewerFollow, SameRowsLive DEF SameRows, DraftsFollow, HasDraft, storeVars

LEMMA UploadLives ==
  ASSUME TypeInv, FilesInv, NEW p \in Profiles, Upload(p) \/ Rename(p)
  PROVE  LifeStep
<1> USE DEF TypeInv, StoreInv, StoreTypeOK
<1>1. DraftsFollow /\ OperationsFewer
  BY DEF Upload, Rename, DraftsFollow, HasDraft, OperationsFewer
<1>2. CASE Upload(p)
  <2>1. \A q \in Profiles : RowStep(q)
    BY <1>2 DEF Upload, RowStep
  <2>2. QED
    BY <1>1, <2>1, FewerFollow DEF LifeStep
<1>3. CASE Rename(p)
  <2>1. \A q \in Profiles : RowStep(q)
    BY <1>3 DEF Rename, RowStep, ProfileRow
  <2>2. QED
    BY <1>1, <2>1, FewerFollow DEF LifeStep
<1>4. QED
  BY <1>2, <1>3

LEMMA CrashKeepsFiles ==
  ASSUME TypeInv, OperationsAssigned', FilesInv, Crash
  PROVE  FilesInv'
<1>1. \A c \in Clients : client'[c].pc = "idle"
  BY DEF Crash
<1>2. ReadyKeepsFile' /\ DraftsApproved' /\ OperationsApproved'
  BY LifeKept, StoreUnchangedLives DEF Crash
<1>3. QED
  BY <1>1, <1>2 DEF FilesInv, ApprovalsOfReady, DeletionsMarked

LEMMA ActivateLives ==
  ASSUME TypeInv, NEW c \in Clients, Activate(c)
  PROVE  LifeStep
<1> USE DEF TypeInv, StoreInv, StoreTypeOK
<1>1. DraftsFollow /\ OperationsFewer
  BY DEF Activate, DraftsFollow, HasDraft, OperationsFewer
<1>2. \A q \in Profiles : RowStep(q)
  BY DEF Activate, RowStep, ProfileRow
<1>3. QED
  BY <1>1, <1>2, FewerFollow DEF LifeStep

LEMMA MarkLives ==
  ASSUME TypeInv, FilesInv, NEW c \in Clients, MarkDeleting(c)
  PROVE  LifeStep /\ profiles'[client[c].work.profile].state \in Doomed
<1> DEFINE p == client[c].work.profile
<1> USE DEF TypeInv, StoreInv, StoreTypeOK
<1>1. p \in Profiles /\ client[c].pc = "marking"
  BY DEF MarkDeleting, OnStep, RequestInv, RequestsAssigned
<1>2. DraftsFollow
  BY DEF MarkDeleting, DraftsFollow, HasDraft
<1>3. OperationsFewer
  BY WithoutFollow DEF MarkDeleting
<1>4. CASE client[c].work.mode = "retry"
  <2>1. UNCHANGED profiles
    BY <1>4 DEF MarkDeleting
  <2>2. profiles[p].state \in Doomed
    BY <1>1, <1>4 DEF FilesInv, DeletionsMarked
  <2>3. QED
    BY <1>2, <1>3, <2>1, <2>2, FewerFollow DEF LifeStep, RowStep
<1>5. CASE client[c].work.mode # "retry"
  <2>1. profiles' = [profiles EXCEPT ![p] = BothDeleting(p)]
    BY <1>5 DEF MarkDeleting
  <2>2. BothDeleting(p).state = "deleting" /\ BothDeleting(p).file = profiles[p].file
    BY <1>1 DEF BothDeleting, ProfileRow
  <2>3. \A q \in Profiles : RowStep(q)
    BY <2>1, <2>2 DEF RowStep
  <2>4. profiles'[p].state = "deleting"
    BY <1>1, <2>1, <2>2
  <2>5. QED
    BY <1>2, <1>3, <2>3, <2>4, FewerFollow DEF LifeStep, Doomed
<1>6. QED
  BY <1>4, <1>5

LEMMA CleanUpLives ==
  ASSUME TypeInv, FilesInv, NEW c \in Clients, CleanUp(c)
  PROVE  LifeStep /\ profiles[client[c].work.profile].state \in Doomed
<1> DEFINE p == client[c].work.profile
<1> USE DEF TypeInv, StoreInv, StoreTypeOK
<1>1. profiles[p].state \in Doomed
  BY DEF CleanUp, OnStep, FilesInv, DeletionsMarked
<1>2. DraftsFollow /\ OperationsFewer
  BY DEF CleanUp, DraftsFollow, HasDraft, OperationsFewer
<1>3. \A q \in Profiles : RowStep(q)
  BY <1>1 DEF CleanUp, RowStep, ProfileRow, Doomed
<1>4. QED
  BY <1>1, <1>2, <1>3, FewerFollow DEF LifeStep

LEMMA FinalizeLives ==
  ASSUME TypeInv, FilesInv, NEW c \in Clients, FinalizeDelete(c)
  PROVE  LifeStep
<1> USE DEF TypeInv, StoreInv, StoreTypeOK
<1>1. PICK p \in Profiles : p = client[c].work.profile
  BY DEF FinalizeDelete, OnStep, RequestInv, RequestsAssigned
<1>2. profiles[p].state \in Doomed
  BY <1>1 DEF FinalizeDelete, OnStep, FilesInv, DeletionsMarked
<1>3. DraftsFollow /\ ~ HasDraft(p)'
  <2>1. drafts' = [drafts EXCEPT ![p] = NoDraft]
    BY <1>1 DEF FinalizeDelete
  <2>2. QED
    BY <2>1 DEF DraftsFollow, HasDraft, NoDraft
<1>4. operations' = WithoutOperations({o \in OperationIds : operations[o].profile = p})
  BY <1>1 DEF FinalizeDelete
<1>5. OperationsFewer
  BY <1>4, WithoutFollow
<1>6. \A o \in OperationIds : operations'[o].state # "none" =>
                                operations'[o].profile # p
  BY <1>4 DEF WithoutOperations, NoOperationRow
<1>7. profiles'[p].state = "gone"
  BY <1>1 DEF FinalizeDelete, NoRow
<1>8. \A q \in Profiles \ {p} : /\ profiles'[q].state = profiles[q].state
                               /\ profiles'[q].file = profiles[q].file
  BY <1>1 DEF FinalizeDelete, ProfileRow
<1>9. RowStep(p)
  BY <1>2, <1>3, <1>6, <1>7 DEF RowStep
<1>10. \A q \in Profiles \ {p} : RowStep(q)
  BY <1>8 DEF RowStep
<1>11. QED
  BY <1>3, <1>5, <1>9, <1>10, FewerFollow DEF LifeStep

LEMMA RetryLives ==
  ASSUME TypeInv, NEW c \in Clients, Retry(c)
  PROVE  LifeStep
<1> USE DEF TypeInv, StoreInv, StoreTypeOK
<1>1. DraftsFollow /\ OperationsFewer
  BY DEF Retry, DraftsFollow, HasDraft, OperationsFewer
<1>2. \A q \in Profiles : RowStep(q)
  BY DEF Retry, RowStep, ProfileRow
<1>3. QED
  BY <1>1, <1>2, FewerFollow DEF LifeStep

\* A request answers a read of the store with its next step, or writes.
LEMMA ClientKeepsFiles ==
  ASSUME TypeInv, OperationsAssigned', FilesInv, NEW c \in Clients, ClientStep(c)
  PROVE  FilesInv'
<1> DEFINE w == client[c].work
<1>1. ASSUME NEW q \in Profiles, BeginApprove(c, q)
      PROVE  FilesInv'
  <2>1. profiles[q].state = "ready"
    <3>1. profiles[q].state \in {"pending", "ready"} /\ HasDraft(q)
      BY <1>1 DEF BeginApprove, ApprovalAdmissible
    <3>2. QED
      BY <3>1 DEF FilesInv, DraftsApproved
  <2>2. ApprovalWork(q).mode = "ready" /\ ApprovalWork(q).other = NoProfile
    BY <2>1 DEF ApprovalWork, NoWork
  <2>3. QED
    BY <1>1, <2>2, StoreUnchangedLives, RequestKeepsFiles DEF BeginApprove
<1>2. ASSUME NEW q \in Profiles, BeginDiscard(c, q) \/ BeginActivate(c, q) \/ BeginRetry(c, q)
      PROVE  FilesInv'
  BY <1>2, StoreUnchangedLives, RequestKeepsFiles DEF BeginDiscard, BeginActivate, BeginRetry
<1>3. ASSUME NEW q \in Profiles, BeginDelete(c, q)
      PROVE  FilesInv'
  <2> DEFINE v == [NoWork EXCEPT !.profile = q,
                                 !.mode = IF profiles[q].state = "deleting"
                                          THEN "retry" ELSE "mark"]
  <2>1. Request(c, "marking", v) /\ UNCHANGED storeVars
    BY <1>3 DEF BeginDelete
  <2>2. v.profile = q /\ (v.mode = "retry" => profiles[q].state = "deleting")
    BY DEF NoWork
  <2>3. v.mode = "retry" => profiles'[v.profile].state \in Doomed
    BY <2>1, <2>2 DEF storeVars, Doomed
  <2> HIDE DEF v
  <2>4. QED
    BY <2>1, <2>3, StoreUnchangedLives, RequestKeepsFiles
<1>4. CASE Approve(c)
  <2>1. client[c].pc = "approving"
    BY <1>4 DEF Approve, OnStep
  <2>2. w \in Work /\ w.profile \in Profiles
    BY <2>1 DEF TypeInv, RequestInv, RequestsAssigned
  <2>3. w.mode = "ready" /\ w.other = NoProfile
    BY <2>1 DEF FilesInv, ApprovalsOfReady
  <2>4. LifeStep
    BY <1>4, <2>2, <2>3, ApprovalLives DEF Approve
  <2>5. QED
    BY <1>4, <2>4, RequestKeepsFiles DEF Approve, Respond
<1>5. CASE Discard(c)
  <2>1. w \in Work /\ w.profile \in Profiles
    BY <1>5 DEF TypeInv, RequestInv, RequestsAssigned, Discard, OnStep
  <2>2. LifeStep
    BY <1>5, <2>1, DiscardLives DEF Discard
  <2>3. QED
    BY <1>5, <2>2, RequestKeepsFiles DEF Discard, Respond
<1>6. CASE Activate(c)
  BY <1>6, ActivateLives, RequestKeepsFiles DEF Activate, Respond
<1>7. CASE MarkDeleting(c)
  BY <1>7, MarkLives, RequestKeepsFiles DEF MarkDeleting
<1>8. CASE CleanUp(c)
  <2>1. LifeStep /\ w.profile \in Profiles /\ profiles[w.profile].state \in Doomed
    BY <1>8, CleanUpLives DEF TypeInv, RequestInv, RequestsAssigned, CleanUp, OnStep
  <2>2. profiles'[w.profile].state \in Doomed
    BY <2>1, DoomedStays
  <2>3. QED
    BY <1>8, <2>1, <2>2, RequestKeepsFiles DEF CleanUp, Respond
<1>9. CASE BeginFinalize(c)
  <2>1. PICK v : /\ Request(c, "deleting", v)
                 /\ v.profile = w.profile
    <3> DEFINE V(f, d, s, m) == [w EXCEPT !.other = f, !.demoted = d,
                                          !.selected = s, !.mode = m]
    <3>1. PICK f, d, s, m : Request(c, "deleting", V(f, d, s, m))
      BY <1>9 DEF BeginFinalize
    <3>2. V(f, d, s, m).profile = w.profile
      BY DEF TypeInv, RequestInv, Work
    <3>3. QED
      BY <3>1, <3>2
  <2>2. LifeStep /\ UNCHANGED profiles
    BY <1>9, StoreUnchangedLives DEF BeginFinalize, storeVars
  <2>3. profiles'[v.profile].state \in Doomed
    BY <1>9, <2>1, <2>2 DEF BeginFinalize, Doomed
  <2>4. QED
    BY <2>1, <2>2, <2>3, RequestKeepsFiles
<1>10. CASE FinalizeDelete(c)
  BY <1>10, FinalizeLives, RequestKeepsFiles DEF FinalizeDelete, Respond
<1>11. CASE Retry(c)
  BY <1>11, RetryLives, RequestKeepsFiles DEF Retry, Respond
<1>12. CASE RequestFails(c)
  BY <1>12, StoreUnchangedLives, RequestKeepsFiles DEF RequestFails, Respond
<1>13. QED
  BY <1>1, <1>2, <1>3, <1>4, <1>5, <1>6, <1>7, <1>8, <1>9, <1>10, <1>11, <1>12
     DEF ClientStep

LEMMA FilesInit == Init => FilesInv
<1> SUFFICES ASSUME Init
             PROVE  FilesInv
  OBVIOUS
<1>1. ReadyKeepsFile
  BY DEF Init, StoreInit, ReadyKeepsFile, NoRow
<1>2. DraftsApproved /\ OperationsApproved
  BY DEF Init, StoreInit, DraftsApproved, OperationsApproved, HasDraft, NoDraft,
         NoOperationRow
<1>3. \A c \in Clients : client[c].pc = "idle"
  BY DEF Init
<1>4. QED
  BY <1>1, <1>2, <1>3 DEF FilesInv, ApprovalsOfReady, DeletionsMarked

LEMMA FilesNext ==
  ASSUME Runs = {}, TypeInv, FilesInv, [Next]_vars
  PROVE  FilesInv'
<1>1. OperationsAssigned'
  BY TypeInvNext DEF TypeInv, StoreInv
<1>2. ASSUME NEW p \in Profiles, NEW o \in OperationIds, Claim(p, o), UNCHANGED client
      PROVE  FilesInv'
  BY <1>1, <1>2, ClaimLives, FilesKept
<1>3. ASSUME NEW o \in OperationIds, UNCHANGED client,
             StreamStep(o) \/ StreamUnfinalized(o) \/ StreamCutOff(o) \/ ReadReview(o)
      PROVE  FilesInv'
  BY <1>1, <1>3, StreamLives, ReadReviewLives, FilesKept
<1>4. ASSUME NEW c \in Clients, ClientStep(c)
      PROVE  FilesInv'
  BY <1>1, <1>4, ClientKeepsFiles
<1>5. ASSUME NEW p \in Profiles, Upload(p) \/ Rename(p)
      PROVE  FilesInv'
  BY <1>1, <1>5, UploadLives, FilesKept DEF Upload, Rename
<1>6. CASE Crash
  BY <1>1, <1>6, CrashKeepsFiles
<1>7. CASE Restart
  BY <1>1, <1>7, RestartLives, FilesKept DEF Restart
<1>8. CASE UNCHANGED vars
  BY <1>1, <1>8, StoreUnchangedLives, FilesKept DEF vars
<1>9. QED
  BY <1>2, <1>3, <1>4, <1>5, <1>6, <1>7, <1>8 DEF Next, StreamWork

LEMMA FilesCorrect == ASSUME Runs = {} PROVE Spec => []FilesInv
  BY FilesInit, FilesNext, TypeInvCorrect, PTL DEF Spec

\* A profile that is ready has its retained PDF, however many uploads, activations,
\* approvals, re-extractions, deletions, retries and crashes interleave: a deletion
\* removes the file of a row that no request makes ready again.  A chat turn that
\* approves a set-up beside its deletion could, so there is none here.
THEOREM ReadyProfilesKeepFiles ==
  ASSUME Runs = {}
  PROVE  Spec => []ReadyKeepsFile
<1>1. FilesInv => ReadyKeepsFile
  BY DEF FilesInv
<1>2. QED
  BY <1>1, FilesCorrect, PTL

-----------------------------------------------------------------------------
(* Selection, attachments and deletions under any number of requests: what    *)
(* each step keeps whatever the requests before it did, and the two late      *)
(* writes that are the exception.                                             *)

SameStates ==
    \A p \in Profiles : /\ profiles'[p].state = profiles[p].state
                        /\ profiles'[p].cv = profiles[p].cv

RowsAgree == SelectionStep /\ RetryStep /\ NoneFailed'

LEMMA RowsKept ==
  ASSUME TypeInv, NoneFailed, SameStates, UNCHANGED workspace
  PROVE  RowsAgree
<1>1. workspace.active \in Profiles \cup {NoProfile}
  BY DEF TypeInv, StoreInv, StoreTypeOK
<1>2. SelectionStep
  BY <1>1 DEF SelectionStep, SelectionConsistent, SameStates
<1>3. RetryStep /\ NoneFailed'
  BY DEF RetryStep, DeletionRetryable, SameStates, NoneFailed
<1>4. QED
  BY <1>2, <1>3 DEF RowsAgree

LEMMA UploadRows ==
  ASSUME TypeInv, NoneFailed, NEW p \in Profiles, Upload(p)
  PROVE  RowsAgree
<1> USE DEF TypeInv, StoreInv, StoreTypeOK
<1>1. /\ profiles'[p].state = "pending" /\ profiles'[p].cv = "staged"
      /\ \A q \in Profiles \ {p} : profiles'[q] = profiles[q]
  BY DEF Upload
<1>2. workspace'.active = p
  BY StoreAssumption DEF Upload, Select
<1>3. SelectionStep
  BY <1>1, <1>2 DEF SelectionStep, SelectionConsistent
<1>4. RetryStep /\ NoneFailed'
  BY <1>1 DEF RetryStep, DeletionRetryable, NoneFailed
<1>5. QED
  BY <1>3, <1>4 DEF RowsAgree

\* An activation that writes the attachment of its target selects an active one;
\* one that does not relies on what it read.
LEMMA ActivateRows ==
  ASSUME TypeInv, SelectionInv, NEW c \in Clients, Activate(c)
  PROVE  RowsAgree
<1>1. PICK w \in Work : w = client[c].work
  BY DEF TypeInv, RequestInv
<1> DEFINE p == w.profile
<1>2. OnStep(c, "activating") /\ client[c].pc = "activating" /\ p \in Profiles
  BY <1>1 DEF Activate, OnStep, TypeInv, RequestInv, RequestsAssigned
<1>3. client'[c].pc = "idle" /\ client'[c] # client[c]
  BY <1>2 DEF Activate, Respond, Request, TypeInv, RequestInv
<1>4. \A q \in Profiles :
        /\ profiles'[q].state = profiles[q].state
        /\ profiles'[q].cv = IF q = p /\ w.mode # "active" THEN "active"
                             ELSE IF w.mode = "switch" /\ q = w.other THEN "archived"
                             ELSE profiles[q].cv
  BY <1>1 DEF Activate, TypeInv, StoreInv, StoreTypeOK, ProfileRow
<1>5. workspace'.active = IF w.selected = p THEN workspace.active ELSE p
  BY <1>1 DEF Activate, Select
<1>6. workspace.active \in Profiles \cup {NoProfile}
  BY DEF TypeInv, StoreInv, StoreTypeOK
<1>7. w.mode = "switch" => /\ w.selected # p
                           /\ profiles[p].cv \in {"active", "staged", "archived"}
  BY <1>1, <1>2 DEF Activate, SelectionInv, PlansHold, PlanHolds
<1>8. SelectionStep
  <2>1. CASE w.mode # "active"
    <3>1. CASE w.selected # p
      <4>1. workspace'.active = p /\ profiles'[p].cv = "active"
        BY <1>2, <1>4, <1>5, <2>1, <3>1
      <4>2. QED
        BY <4>1 DEF SelectionStep, SelectionConsistent
    <3>2. CASE w.selected = p
      <4>1. workspace'.active = workspace.active /\ w.mode # "switch"
        BY <1>5, <1>7, <3>2
      <4>2. \A q \in Profiles : /\ profiles'[q].state = profiles[q].state
                               /\ profiles'[q].cv \in {"active", profiles[q].cv}
        BY <1>4, <4>1
      <4>3. QED
        BY <1>6, <4>1, <4>2 DEF SelectionStep, SelectionConsistent
    <3>3. QED
      BY <3>1, <3>2
  <2>2. CASE w.mode = "active" /\ w.selected = p
    BY <1>4, <1>5, <1>6, <2>2 DEF SelectionStep, SelectionConsistent
  <2>3. CASE w.mode = "active" /\ w.selected # p /\ profiles[p].cv = "active"
    BY <1>2, <1>4, <1>5, <2>3 DEF SelectionStep, SelectionConsistent
  <2>4. CASE w.mode = "active" /\ w.selected # p /\ profiles[p].cv # "active"
    <3>1. SelectsOvertaken(c)
      BY <1>1, <1>2, <2>4, StoreAssumption DEF SelectsOvertaken
    <3>2. QED
      BY <1>3, <3>1 DEF SelectionStep
  <2>5. QED
    BY <2>1, <2>2, <2>3, <2>4
<1>9. RetryStep
  <2> SUFFICES ASSUME NEW q \in Profiles, DeletionRetryable(q), ~ DeletionRetryable(q)'
               PROVE  profiles[q].state = "deleting" /\ SetsAsRead(c, q)
    BY <1>3 DEF RetryStep
  <2>1. profiles[q].state = "deleting" /\ profiles[q].cv = "deleting"
    BY <1>4 DEF DeletionRetryable
  <2>2. CASE w.mode = "switch"
    BY <1>1, <1>2, <1>4, <1>7, <2>1, <2>2 DEF DeletionRetryable, SetsAsRead
  <2>3. CASE w.mode # "switch"
    BY <1>1, <1>2, <1>4, <2>1, <2>3 DEF DeletionRetryable, SetsAsRead
  <2>4. QED
    BY <2>2, <2>3
<1>10. NoneFailed'
  BY <1>4 DEF SelectionInv, NoneFailed
<1>11. QED
  BY <1>8, <1>9, <1>10 DEF RowsAgree

LEMMA MarkRows ==
  ASSUME TypeInv, SelectionInv, NEW c \in Clients, MarkDeleting(c)
  PROVE  RowsAgree
<1>1. PICK p \in Profiles : p = client[c].work.profile
  BY DEF MarkDeleting, OnStep, TypeInv, RequestInv, RequestsAssigned
<1>2. UNCHANGED workspace /\ workspace.active \in Profiles \cup {NoProfile}
  BY DEF MarkDeleting, TypeInv, StoreInv, StoreTypeOK
<1>3. CASE UNCHANGED profiles
  BY <1>2, <1>3, RowsKept DEF SelectionInv, SameStates
<1>4. CASE profiles' = [profiles EXCEPT ![p] = BothDeleting(p)]
  <2>1. BothDeleting(p).state = "deleting" /\ BothDeleting(p).cv = "deleting"
    BY DEF BothDeleting, TypeInv, StoreInv, StoreTypeOK, ProfileRow
  <2>2. /\ profiles'[p].state = "deleting" /\ profiles'[p].cv = "deleting"
        /\ \A q \in Profiles \ {p} : profiles'[q] = profiles[q]
    BY <1>4, <2>1 DEF TypeInv, StoreInv, StoreTypeOK
  <2>3. SelectionStep
    BY <1>2, <2>2 DEF SelectionStep, SelectionConsistent
  <2>4. RetryStep /\ NoneFailed'
    BY <2>2 DEF RetryStep, DeletionRetryable, SelectionInv, NoneFailed
  <2>5. QED
    BY <2>3, <2>4 DEF RowsAgree
<1>5. QED
  BY <1>1, <1>3, <1>4 DEF MarkDeleting

\* The fallback of a deletion is active after it, written or as it was read.  A
\* selection that is not moved to it stays where it was: nothing is demoted then.
LEMMA FinalizeRows ==
  ASSUME TypeInv, SelectionInv, NEW c \in Clients, FinalizeDelete(c)
  PROVE  RowsAgree
<1>1. PICK w \in Work : w = client[c].work
  BY DEF TypeInv, RequestInv
<1> DEFINE p == w.profile
           f == w.other
           raise == f # NoProfile /\ w.mode # "active"
           seen == IF w.mode = "switch" THEN NoProfile ELSE w.selected
<1>2. OnStep(c, "deleting") /\ client[c].pc = "deleting" /\ p \in Profiles
  BY <1>1 DEF FinalizeDelete, OnStep, TypeInv, RequestInv, RequestsAssigned
<1>3. client'[c].pc = "idle" /\ client'[c] # client[c]
  BY <1>2 DEF FinalizeDelete, Respond, Request, TypeInv, RequestInv
<1>4. f \in Profiles \cup {NoProfile} /\ w.demoted \in Profiles \cup {NoProfile}
  BY DEF Work
<1>5. w.demoted # NoProfile => w.mode = "switch" /\ f # NoProfile
  BY <1>1, <1>2 DEF SelectionInv, PlansHold, PlanHolds
<1>6. profiles'[p].state = "gone" /\ profiles'[p].cv = "none"
  BY <1>1, <1>2 DEF FinalizeDelete, NoRow
<1>7. \A q \in Profiles \ {p} :
        /\ profiles'[q].state = profiles[q].state
        /\ profiles'[q].cv = IF q = f /\ raise THEN "active"
                             ELSE IF q = w.demoted THEN "archived"
                             ELSE profiles[q].cv
  BY <1>1 DEF FinalizeDelete, TypeInv, StoreInv, StoreTypeOK, ProfileRow
<1>8. LET a == IF seen = f THEN workspace.active ELSE f
      IN workspace'.active = IF a = p THEN NoProfile ELSE a
  BY <1>1 DEF FinalizeDelete, Select
<1>9. workspace.active \in Profiles \cup {NoProfile}
  BY DEF TypeInv, StoreInv, StoreTypeOK
<1>10. w.mode = "switch" => profiles[f].cv \in {"active", "staged", "archived"}
  BY <1>1 DEF FinalizeDelete
<1> DEFINE b == workspace'.active
<1>11. SelectionStep
  <2>1. CASE b = NoProfile
    BY <2>1 DEF SelectionStep, SelectionConsistent
  <2>2. CASE b # NoProfile /\ seen = f
    <3>1. b = workspace.active /\ b \in Profiles \ {p} /\ w.demoted = NoProfile
      BY <1>5, <1>8, <1>9, <2>2
    <3>2. /\ profiles'[b].state = profiles[b].state
          /\ profiles'[b].cv \in {"active", profiles[b].cv}
      BY <1>7, <3>1, StoreAssumption
    <3>3. QED
      BY <3>1, <3>2 DEF SelectionStep, SelectionConsistent
  <2>3. CASE b # NoProfile /\ seen # f /\ w.mode # "active"
    <3>1. b = f /\ f \in Profiles \ {p}
      BY <1>4, <1>8, <2>3
    <3>2. profiles'[f].cv = "active"
      BY <1>7, <2>3, <3>1, StoreAssumption
    <3>3. QED
      BY <3>1, <3>2 DEF SelectionStep, SelectionConsistent
  <2>4. CASE b # NoProfile /\ seen # f /\ w.mode = "active"
    <3>1. b = f /\ f \in Profiles \ {p} /\ w.selected # f /\ w.demoted = NoProfile
      BY <1>4, <1>5, <1>8, <2>4
    <3>2. profiles'[f].cv = profiles[f].cv
      BY <1>7, <2>4, <3>1, StoreAssumption
    <3>3. CASE profiles[f].cv = "active"
      BY <3>1, <3>2, <3>3 DEF SelectionStep, SelectionConsistent
    <3>4. CASE profiles[f].cv # "active"
      <4>1. SelectsOvertaken(c)
        BY <1>1, <1>2, <2>4, <3>1, <3>4, StoreAssumption DEF SelectsOvertaken, OnStep
      <4>2. QED
        BY <1>3, <4>1 DEF SelectionStep
    <3>5. QED
      BY <3>3, <3>4
  <2>5. QED
    BY <2>1, <2>2, <2>3, <2>4
<1>12. RetryStep
  <2> SUFFICES ASSUME NEW q \in Profiles, DeletionRetryable(q), ~ DeletionRetryable(q)'
               PROVE  profiles[q].state = "deleting" /\ SetsAsRead(c, q)
    BY <1>3 DEF RetryStep
  <2>1. q # p
    BY <1>6 DEF DeletionRetryable
  <2>2. /\ profiles[q].state = "deleting" /\ profiles[q].cv = "deleting"
        /\ (q = f /\ raise) \/ q = w.demoted
    BY <1>7, <2>1 DEF DeletionRetryable
  <2>3. CASE w.mode = "switch"
    BY <1>1, <1>2, <1>10, <2>2, <2>3 DEF SetsAsRead
  <2>4. CASE w.mode # "switch"
    BY <1>1, <1>2, <1>5, <2>2, <2>4, StoreAssumption DEF SetsAsRead
  <2>5. QED
    BY <2>3, <2>4
<1>13. NoneFailed'
  BY <1>6, <1>7 DEF SelectionInv, NoneFailed
<1>14. QED
  BY <1>11, <1>12, <1>13 DEF RowsAgree

LEMMA PlansKept ==
  ASSUME TypeInv, PlansHold, NEW c \in Clients, NEW pc, NEW w,
         Request(c, pc, w), PlanHolds(pc, w)
  PROVE  PlansHold'
<1>1. /\ client'[c].pc = pc /\ client'[c].work = w
      /\ \A d \in Clients \ {c} : client'[d] = client[d]
  BY DEF Request, TypeInv, RequestInv
<1>2. QED
  BY <1>1 DEF PlansHold, PlanHolds

LEMMA ActivatePlans ==
  ASSUME TypeInv, PlansHold, NEW c \in Clients, NEW p \in Profiles, BeginActivate(c, p)
  PROVE  PlansHold'
<1> DEFINE current == workspace.active
           switch == current \notin {NoProfile, p}
<1>1. PICK v : v = [NoWork EXCEPT !.profile = p, !.other = current, !.selected = current,
                                  !.mode = IF switch THEN "switch" ELSE profiles[p].cv]
  OBVIOUS
<1>2. /\ v.profile = p /\ v.selected = current
      /\ v.mode = IF switch THEN "switch" ELSE profiles[p].cv
  BY <1>1 DEF NoWork
<1>3. /\ ~ switch => profiles[p].cv \in {"active", "staged", "archived"}
      /\ Request(c, "activating", v)
  BY <1>1 DEF BeginActivate
<1>4. PlanHolds("activating", v)
  BY <1>2, <1>3 DEF PlanHolds
<1>5. QED
  BY <1>3, <1>4, PlansKept

LEMMA FinalizePlans ==
  ASSUME TypeInv, PlansHold, NEW c \in Clients, BeginFinalize(c)
  PROVE  PlansHold'
<1>1. client[c].work \in Work
  BY DEF TypeInv, RequestInv
<1> DEFINE w == client[c].work
           remaining == {q \in Profiles \ {w.profile} : profiles[q].state = "ready"}
           demote(f) == ActiveAttachments \cap (remaining \ {f})
           cv(f) == IF f = NoProfile THEN "active" ELSE profiles[f].cv
           work(f) == [w EXCEPT !.other = f,
                                !.demoted = IF demote(f) = {} THEN NoProfile
                                            ELSE CHOOSE q \in demote(f) : TRUE,
                                !.selected = workspace.active,
                                !.mode = IF demote(f) = {} THEN cv(f) ELSE "switch"]
<1>2. PICK f \in IF remaining = {} THEN {NoProfile} ELSE remaining :
        Request(c, "deleting", work(f))
  BY Zenon DEF BeginFinalize
<1>3. f = NoProfile => demote(f) = {}
  BY <1>2, StoreAssumption
<1>4. PICK v : v = work(f)
  BY Zenon
<1> HIDE DEF w, cv
<1>5. /\ v.other = f
      /\ demote(f) = {} => v.demoted = NoProfile
      /\ demote(f) # {} => v.mode = "switch"
  BY <1>1, <1>4 DEF Work
<1> HIDE DEF demote
<1>6. PlanHolds("deleting", v)
  BY <1>3, <1>5 DEF PlanHolds
<1>7. QED
  BY <1>2, <1>4, <1>6, PlansKept

LEMMA ClientSelects ==
  ASSUME TypeInv, FilesInv, SelectionInv, NEW c \in Clients, ClientStep(c)
  PROVE  RowsAgree /\ PlansHold'
<1> DEFINE w == client[c].work
<1> USE DEF SelectionInv
<1>1. ASSUME UNCHANGED storeVars
      PROVE  RowsAgree
  BY <1>1, RowsKept DEF SameStates, storeVars
<1>2. \A pc, v : pc \notin {"activating", "deleting", "retrying"} => PlanHolds(pc, v)
  BY DEF PlanHolds
<1>3. ASSUME NEW q \in Profiles,
             BeginApprove(c, q) \/ BeginDiscard(c, q) \/ BeginDelete(c, q)
      PROVE  RowsAgree /\ PlansHold'
  BY <1>1, <1>2, <1>3, PlansKept DEF BeginApprove, BeginDiscard, BeginDelete
<1>4. ASSUME NEW q \in Profiles, BeginActivate(c, q)
      PROVE  RowsAgree /\ PlansHold'
  <2>1. UNCHANGED storeVars
    BY <1>4 DEF BeginActivate
  <2>2. QED
    BY <1>1, <1>4, <2>1, ActivatePlans
<1>5. ASSUME NEW q \in Profiles, BeginRetry(c, q)
      PROVE  FALSE
  BY <1>5 DEF BeginRetry, NoneFailed
<1>6. CASE Approve(c)
  <2>1. client[c].pc = "approving"
    BY <1>6 DEF Approve, OnStep
  <2>2. w \in Work /\ w.profile \in Profiles
    BY <2>1 DEF TypeInv, RequestInv, RequestsAssigned
  <2>3. w.mode = "ready" /\ w.other = NoProfile
    BY <2>1 DEF FilesInv, ApprovalsOfReady
  <2>4. SameStates /\ UNCHANGED workspace
    BY <1>6, <2>2, <2>3, ApprovalLives DEF Approve, SameRows, SameStates
  <2>5. QED
    BY <1>2, <1>6, <2>4, RowsKept, PlansKept DEF Approve, Respond
<1>7. CASE Discard(c)
  <2>1. w \in Work /\ w.profile \in Profiles
    BY <1>7 DEF TypeInv, RequestInv, RequestsAssigned, Discard, OnStep
  <2>2. SameStates /\ UNCHANGED workspace
    BY <1>7, <2>1, DiscardLives DEF Discard, SameRows, SameStates
  <2>3. QED
    BY <1>2, <1>7, <2>2, RowsKept, PlansKept DEF Discard, Respond
<1>8. CASE Activate(c)
  <2>1. Request(c, "idle", NoWork)
    BY <1>8 DEF Activate, Respond
  <2>2. QED
    BY <1>2, <1>8, <2>1, ActivateRows, PlansKept
<1>9. CASE MarkDeleting(c)
  BY <1>2, <1>9, MarkRows, PlansKept DEF MarkDeleting
<1>10. CASE CleanUp(c)
  <2>1. SameStates /\ UNCHANGED workspace
    BY <1>10 DEF CleanUp, SameStates, TypeInv, StoreInv, StoreTypeOK, ProfileRow
  <2>2. QED
    BY <1>2, <1>10, <2>1, RowsKept, PlansKept DEF CleanUp, Respond
<1>11. CASE BeginFinalize(c)
  BY <1>1, <1>11, FinalizePlans DEF BeginFinalize
<1>12. CASE FinalizeDelete(c)
  <2>1. Request(c, "idle", NoWork)
    BY <1>12 DEF FinalizeDelete, Respond
  <2>2. QED
    BY <1>2, <1>12, <2>1, FinalizeRows, PlansKept
<1>13. CASE Retry(c)
  BY <1>13 DEF Retry, OnStep, PlansHold, PlanHolds
<1>14. CASE RequestFails(c)
  BY <1>1, <1>2, <1>14, PlansKept DEF RequestFails, Respond
<1>15. QED
  BY <1>3, <1>4, <1>5, <1>6, <1>7, <1>8, <1>9, <1>10, <1>11, <1>12, <1>13, <1>14
     DEF ClientStep

LEMMA SelectionInit == Init => SelectionInv
<1> SUFFICES ASSUME Init
             PROVE  SelectionInv
  OBVIOUS
<1>1. NoneFailed
  BY DEF Init, StoreInit, NoRow, NoneFailed
<1>2. \A c \in Clients : client[c].pc = "idle"
  BY DEF Init
<1>3. QED
  BY <1>1, <1>2 DEF SelectionInv, PlansHold, PlanHolds

LEMMA SelectionNext ==
  ASSUME Runs = {}, TypeInv, FilesInv, SelectionInv, [Next]_vars
  PROVE  RowsAgree /\ PlansHold'
<1> USE DEF SelectionInv
<1>1. ASSUME UNCHANGED client
      PROVE  PlansHold'
  BY <1>1 DEF PlansHold, PlanHolds
<1>2. ASSUME NEW p \in Profiles, NEW o \in OperationIds, Claim(p, o), UNCHANGED client
      PROVE  RowsAgree /\ PlansHold'
  BY <1>1, <1>2, ClaimLives, RowsKept DEF SameRows, SameStates
<1>3. ASSUME NEW o \in OperationIds, UNCHANGED client,
             StreamStep(o) \/ StreamUnfinalized(o) \/ StreamCutOff(o) \/ ReadReview(o)
      PROVE  RowsAgree /\ PlansHold'
  BY <1>1, <1>3, StreamLives, ReadReviewLives, RowsKept DEF SameRows, SameStates
<1>4. ASSUME NEW c \in Clients, ClientStep(c)
      PROVE  RowsAgree /\ PlansHold'
  BY <1>4, ClientSelects
<1>5. ASSUME NEW p \in Profiles, Upload(p)
      PROVE  RowsAgree /\ PlansHold'
  BY <1>1, <1>5, UploadRows DEF Upload
<1>6. ASSUME NEW p \in Profiles, Rename(p)
      PROVE  RowsAgree /\ PlansHold'
  <2>1. SameStates
    BY <1>6 DEF Rename, SameStates, TypeInv, StoreInv, StoreTypeOK, ProfileRow
  <2>2. QED
    BY <1>1, <1>6, <2>1, RowsKept DEF Rename
<1>7. CASE Crash
  <2>1. \A c \in Clients : client'[c].pc = "idle"
    BY <1>7 DEF Crash
  <2>2. RowsAgree
    BY <1>7, RowsKept DEF Crash, storeVars, SameStates
  <2>3. QED
    BY <2>1, <2>2 DEF PlansHold, PlanHolds
<1>8. CASE Restart
  BY <1>1, <1>8, RestartLives, RowsKept DEF Restart, SameRows, SameStates
<1>9. CASE UNCHANGED vars
  BY <1>1, <1>9, RowsKept DEF vars, storeVars, SameStates
<1>10. QED
  BY <1>2, <1>3, <1>4, <1>5, <1>6, <1>7, <1>8, <1>9 DEF Next, StreamWork

LEMMA SelectionCorrect == ASSUME Runs = {} PROVE Spec => []SelectionInv
<1>1. TypeInv /\ FilesInv /\ SelectionInv /\ [Next]_vars => SelectionInv'
  BY SelectionNext DEF RowsAgree, SelectionInv
<1>2. QED
  BY <1>1, SelectionInit, FilesCorrect, TypeInvCorrect, PTL DEF Spec

\* Beside any activations, deletions with their fallbacks, approvals, uploads and
\* crashes, however they overlap: a selected profile that is ready owns the active
\* CV, and the only step that takes the two apart is the write of a request that
\* read its target as active before another one archived it.
THEOREM SelectionKeptByEveryStep ==
  ASSUME Runs = {}
  PROVE  Spec => SelectionKept
<1>1. TypeInv /\ FilesInv /\ SelectionInv /\ [Next]_vars => [SelectionStep]_vars
  BY SelectionNext DEF RowsAgree
<1>2. QED
  BY <1>1, SelectionCorrect, FilesCorrect, TypeInvCorrect, PTL DEF Spec, SelectionKept

\* Under the same hypothesis: a deletion that was interrupted anywhere finds the
\* rows that its retry demands, profile and attachment both deleting, and the only
\* step that takes them away is the write of a request that read the profile before
\* it was marked.
THEOREM DeletionsStayRetryable ==
  ASSUME Runs = {}
  PROVE  Spec => RetryKept
<1>1. TypeInv /\ FilesInv /\ SelectionInv /\ [Next]_vars => [RetryStep]_vars
  BY SelectionNext DEF RowsAgree
<1>2. QED
  BY <1>1, SelectionCorrect, FilesCorrect, TypeInvCorrect, PTL DEF Spec, RetryKept

-----------------------------------------------------------------------------
(***************************************************************************)
(* Drafts and the operations that own them stay together, for every number *)
(* of profiles, operations, runs and requests in flight.  What has to be   *)
(* known for that is about the sessions: what a transaction has read about *)
(* a draft either still describes the row or that row is gone for good,    *)
(* because draft ids and operations are never used twice.                  *)
(***************************************************************************)

Ended == {"published", "done"}

\* A draft row exists or does not, and its id is an earlier stamp.
DraftsSound ==
    \A p \in Profiles : /\ drafts[p].id = 0 <=> drafts[p].rev = 0
                        /\ drafts[p].id = 0 => drafts[p].op = NoOperation
                        /\ drafts[p].id <= clock

\* An operation has left running only if its stream has ended, and none
\* is live in a process that is down.
StreamsSound ==
    \A o \in OperationIds :
        /\ stream[o] = "unused" => operations[o].state = "none"
        /\ operations[o].state = "none" => operations[o].profile = NoProfile
        /\ operations[o].state \notin {"none", "running"} => stream[o] \in Ended
        /\ operations[o].state = "running" => stream[o] # "published"
        /\ ~ up => stream[o] \notin LiveStreams

\* What a session has read about a draft and its owner.
WorkSound(w) ==
    /\ w.id <= clock
    /\ w.id = 0 => w.op = NoOperation
    /\ w.id # 0 /\ drafts[w.profile].id = w.id => drafts[w.profile].op = w.op
    /\ w.op # NoOperation =>
         /\ stream[w.op] \in Ended
         /\ drafts[w.profile].op = w.op => drafts[w.profile].id = w.id
         /\ operations[w.op].state # "none" =>
              operations[w.op].profile = w.profile

TurnsSound ==
    \A r \in Runs :
        /\ turn[r].pc \in {"updating", "proposing", "committing"} =>
             WorkSound(turn[r].work)
        /\ turn[r].pc = "extracting" \/ turn[r].pc = "proposing" =>
             turn[r].work.op = NoOperation
        /\ turn[r].pc = "committing" => turn[r].work.id # 0

RequestsSound ==
    \A c \in Clients :
        client[c].pc \in {"approving", "discarding"} =>
            WorkSound(client[c].work) /\ client[c].work.id # 0

Owned == DraftHasOwner /\ ReviewHasDraft /\ OneOperationPerProfile

OwnershipInv ==
    Owned /\ DraftsSound /\ StreamsSound /\ TurnsSound /\ RequestsSound

-----------------------------------------------------------------------------
(* A step is regular when it keeps what sessions have read: a draft that is *)
(* written keeps id and owner, or is new and of no ended operation; an      *)
(* operation whose stream has begun is never another profile's.             *)

DraftStep(p) ==
    \/ drafts'[p] = drafts[p]
    \/ drafts'[p] = NoDraft
    \/ drafts'[p].id = drafts[p].id /\ drafts'[p].op = drafts[p].op
    \/ /\ drafts'[p].id = clock + 1
       /\ drafts'[p].op = NoOperation \/ stream[drafts'[p].op] \notin Ended

OperationStep(o) ==
    /\ stream[o] \in Ended => stream'[o] \in Ended
    /\ stream[o] # "unused" /\ operations'[o].state # "none" =>
         /\ operations[o].state # "none"
         /\ operations'[o].profile = operations[o].profile

Regular ==
    /\ clock' \in Nat /\ clock <= clock'
    /\ \A p \in Profiles : DraftStep(p)
    /\ \A o \in OperationIds : OperationStep(o)

LEMMA ClockType ==
  ASSUME StoreInv
  PROVE  clock \in Nat
  BY StoreAssumption DEF StoreInv, StoreTypeOK, Stamps

LEMMA WorkKept ==
  ASSUME TypeInv, Regular, NEW w \in Work, w.profile \in Profiles, WorkSound(w)
  PROVE  WorkSound(w)'
<1>1. clock \in Nat /\ w.id \in Nat /\ clock' \in Nat /\ clock <= clock'
  BY ClockType, StoreAssumption DEF TypeInv, Regular, Work, Stamps
<1>2. DraftStep(w.profile)
  BY DEF Regular
<1>3. w.id <= clock'
  BY <1>1 DEF WorkSound
<1>4. w.id # 0 /\ drafts'[w.profile].id = w.id => drafts'[w.profile].op = w.op
  BY <1>1, <1>2 DEF DraftStep, NoDraft, WorkSound
<1>5. ASSUME w.op # NoOperation
      PROVE  /\ stream'[w.op] \in Ended
             /\ drafts'[w.profile].op = w.op => drafts'[w.profile].id = w.id
             /\ operations'[w.op].state # "none" =>
                  operations'[w.op].profile = w.profile
  <2>1. w.op \in OperationIds /\ stream[w.op] \in Ended
    BY <1>5 DEF Work, WorkSound
  <2>2. OperationStep(w.op)
    BY <2>1 DEF Regular
  <2>3. drafts'[w.profile].op = w.op => drafts'[w.profile].id = w.id
    BY <1>2, <1>5, <2>1 DEF DraftStep, NoDraft, WorkSound
  <2>4. QED
    BY <1>5, <2>1, <2>2, <2>3 DEF OperationStep, WorkSound, Ended
<1>6. QED
  BY <1>3, <1>4, <1>5 DEF WorkSound

LEMMA TurnsKept ==
  ASSUME TypeInv, Regular, TurnsSound, UNCHANGED turn
  PROVE  TurnsSound'
<1> SUFFICES ASSUME NEW r \in Runs,
                    turn[r].pc \in {"updating", "proposing", "committing"}
             PROVE  WorkSound(turn[r].work)'
  BY DEF TurnsSound
<1>1. turn[r].work \in Work /\ turn[r].work.profile \in Profiles
  BY TurnProfileType DEF TypeInv
<1>2. QED
  BY <1>1, WorkKept DEF TurnsSound

LEMMA RequestsKept ==
  ASSUME TypeInv, Regular, RequestsSound, UNCHANGED client
  PROVE  RequestsSound'
<1> SUFFICES ASSUME NEW c \in Clients, client[c].pc \in {"approving", "discarding"}
             PROVE  WorkSound(client[c].work)'
  BY DEF RequestsSound
<1>1. client[c].work \in Work /\ client[c].work.profile \in Profiles
  BY DEF TypeInv, RequestInv, RequestsAssigned
<1>2. QED
  BY <1>1, WorkKept DEF RequestsSound

\* The steps that leave drafts and operations alone.
LEMMA StillRegular ==
  ASSUME StoreInv, StoreInv', UNCHANGED <<drafts, operations, stream>>, clock <= clock'
  PROVE  Regular
  BY ClockType, StoreAssumption
     DEF Regular, DraftStep, OperationStep, StoreInv, StoreTypeOK, Stamps

LEMMA StillOwned ==
  ASSUME Owned, DraftsSound, StoreInv, StoreInv', UNCHANGED <<drafts, operations>>,
         clock <= clock'
  PROVE  Owned' /\ DraftsSound'
<1>1. \A p \in Profiles : drafts[p].id \in Nat
  BY StoreAssumption DEF StoreInv, StoreTypeOK, DraftRow, Stamps
<1>2. clock \in Nat /\ clock' \in Nat
  BY ClockType, StoreAssumption DEF StoreInv, StoreTypeOK, Stamps
<1>3. QED
  BY <1>1, <1>2 DEF Owned, DraftHasOwner, ReviewHasDraft, OneOperationPerProfile,
                    OwnedDraft, HasDraft, DraftsSound

\* What requests and turns do to operations: they drop rows, or find a review
\* outdated.
OperationsWane ==
    \A o \in OperationIds :
        \/ operations'[o] = operations[o]
        \/ operations'[o] = NoOperationRow
        \/ /\ operations[o].state = "review_ready"
           /\ operations'[o] = [operations[o] EXCEPT !.state = "stale"]

LEMMA StreamsKept ==
  ASSUME StoreInv, StreamsSound, OperationsWane, UNCHANGED <<stream, up>>
  PROVE  StreamsSound' /\ (\A o \in OperationIds : OperationStep(o))
<1> SUFFICES ASSUME NEW o \in OperationIds
             PROVE  /\ stream'[o] = "unused" => operations'[o].state = "none"
                    /\ operations'[o].state = "none" =>
                         operations'[o].profile = NoProfile
                    /\ operations'[o].state \notin {"none", "running"} =>
                         stream'[o] \in Ended
                    /\ operations'[o].state = "running" => stream'[o] # "published"
                    /\ ~ up' => stream'[o] \notin LiveStreams
                    /\ OperationStep(o)
  BY DEF StreamsSound
<1>1. stream'[o] = stream[o] /\ up' = up
  OBVIOUS
<1>2. CASE operations'[o] = operations[o]
  BY <1>1, <1>2 DEF StreamsSound, OperationStep, Ended
<1>3. CASE operations'[o] = NoOperationRow
  BY <1>1, <1>3 DEF StreamsSound, OperationStep, NoOperationRow
<1>4. CASE /\ operations[o].state = "review_ready"
           /\ operations'[o] = [operations[o] EXCEPT !.state = "stale"]
  <2>1. operations'[o].state = "stale" /\ operations'[o].profile = operations[o].profile
    BY <1>4 DEF StoreInv, StoreTypeOK, OperationRow
  <2>2. QED
    BY <1>1, <1>4, <2>1 DEF StreamsSound, OperationStep, Ended
<1>5. QED
  BY <1>2, <1>3, <1>4 DEF OperationsWane

-----------------------------------------------------------------------------
(* The transactions that consume a draft *)

LEMMA ApprovalOwned ==
  ASSUME TypeInv, OwnershipInv, CanStamp, NEW w \in Work, w.profile \in Profiles,
         WorkSound(w), w.id # 0, ApprovalHolds(w), ApprovalWrites(w),
         UNCHANGED <<stream, up>>
  PROVE  Regular /\ Owned' /\ DraftsSound' /\ StreamsSound'
<1> DEFINE p == w.profile
           o == w.op
<1> USE DEF OwnershipInv, Owned, TypeInv, StoreInv
<1>1. drafts[p].id = w.id /\ drafts[p].op = o
  BY DEF ApprovalHolds, WorkSound
<1>2. drafts' = [drafts EXCEPT ![p] = NoDraft]
  BY DEF ApprovalWrites
<1>3. operations' = IF o = NoOperation THEN operations
                    ELSE [operations EXCEPT ![o] = NoOperationRow]
  BY DEF ApprovalWrites
<1>4. clock \in Nat /\ clock' = clock + 1
  BY ClockType DEF ApprovalWrites, Stamp
<1>5. OperationsWane
  BY <1>3 DEF OperationsWane, StoreTypeOK
<1>6. Regular
  BY <1>2, <1>4, <1>5, StreamsKept DEF Regular, DraftStep, StoreTypeOK
<1>7. DraftsSound'
  BY <1>2, <1>4, StoreAssumption
     DEF DraftsSound, NoDraft, StoreTypeOK, DraftRow, Stamps
<1>8. \A q \in Profiles : drafts'[q] = IF q = p THEN NoDraft ELSE drafts[q]
  BY <1>2 DEF StoreTypeOK
<1>9. \A q \in OperationIds :
        operations'[q] = IF q = o THEN NoOperationRow ELSE operations[q]
  BY <1>3, StoreAssumption DEF StoreTypeOK
<1>10. o # NoOperation => operations[o].profile = p
  BY <1>1 DEF DraftHasOwner, OwnedDraft, HasDraft, ApprovalHolds, StoreTypeOK, DraftRow
<1>11. DraftHasOwner'
  BY <1>1, <1>8, <1>9, <1>10, StoreAssumption
     DEF DraftHasOwner, OwnedDraft, HasDraft, NoDraft
<1>12. ReviewHasDraft'
  <2> SUFFICES ASSUME NEW q \in OperationIds, operations'[q].state = "review_ready"
               PROVE  /\ drafts'[operations'[q].profile].rev # 0
                      /\ drafts'[operations'[q].profile].op = q
    BY DEF ReviewHasDraft, OwnedDraft, HasDraft
  <2>1. q # o
    BY <1>9 DEF NoOperationRow
  <2>2. operations'[q] = operations[q] /\ operations[q].profile \in Profiles
    BY <1>9, <2>1 DEF OperationsAssigned
  <2>3. OwnedDraft(operations[q].profile, q)
    BY <1>9, <2>1 DEF ReviewHasDraft
  <2>4. operations[q].profile # p
    BY <1>1, <2>1, <2>3 DEF OwnedDraft
  <2>5. QED
    BY <1>8, <2>1, <2>2, <2>3, <2>4 DEF OwnedDraft, HasDraft
<1>13. OneOperationPerProfile'
  BY <1>9, StoreAssumption
     DEF OneOperationPerProfile, NoOperationRow, OperationsAssigned
<1>14. QED
  BY <1>5, <1>6, <1>7, <1>11, <1>12, <1>13, StreamsKept

LEMMA DiscardOwned ==
  ASSUME TypeInv, OwnershipInv, NEW w \in Work, w.profile \in Profiles,
         WorkSound(w), w.id # 0, DiscardWrites(w), UNCHANGED <<stream, up>>
  PROVE  Regular /\ Owned' /\ DraftsSound' /\ StreamsSound'
<1> DEFINE p == w.profile
           o == w.op
           hit == drafts[p].id = w.id
<1> USE DEF OwnershipInv, Owned, TypeInv, StoreInv
<1>1. hit => drafts[p].op = o
  BY DEF WorkSound
<1>2. clock \in Nat /\ clock' = clock
  BY ClockType DEF DiscardWrites
<1>3. \A q \in Profiles : drafts'[q] = IF q = p /\ hit THEN NoDraft ELSE drafts[q]
  BY DEF DiscardWrites, DeletedByKey, StoreTypeOK
<1>4. \A q \in OperationIds :
        operations'[q] = IF q = o THEN NoOperationRow ELSE operations[q]
  BY StoreAssumption DEF DiscardWrites, StoreTypeOK
<1>5. OperationsWane
  BY <1>4 DEF OperationsWane
<1>6. Regular
  BY <1>2, <1>3, <1>5, StreamsKept DEF Regular, DraftStep
<1>7. DraftsSound'
  BY <1>2, <1>3 DEF DraftsSound, NoDraft
<1>8. ASSUME NEW q \in Profiles, drafts'[q].op = o, o # NoOperation,
             drafts'[q].rev # 0
      PROVE  FALSE
  <2>1. drafts'[q] = drafts[q] /\ ~ (q = p /\ hit)
    BY <1>3, <1>8 DEF NoDraft
  <2>2. o \in OperationIds
    BY <1>8 DEF Work
  <2>3. operations[o].profile = q /\ operations[o].state # "none"
    BY <1>8, <2>1, <2>2 DEF DraftHasOwner, OwnedDraft, HasDraft
  <2>4. q = p
    BY <1>8, <2>3 DEF WorkSound
  <2>5. QED
    BY <1>8, <2>1, <2>4 DEF WorkSound
<1>9. DraftHasOwner'
  <2> SUFFICES ASSUME NEW q \in Profiles, NEW a \in OperationIds,
                      drafts'[q].rev # 0, drafts'[q].op = a
               PROVE  /\ operations'[a].profile = q
                      /\ operations'[a].state \in {"review_ready", "stale"}
    BY DEF DraftHasOwner, OwnedDraft, HasDraft
  <2>1. a # o
    BY <1>8, StoreAssumption
  <2>2. drafts'[q] = drafts[q]
    BY <1>3 DEF NoDraft
  <2>3. QED
    BY <1>4, <2>1, <2>2 DEF DraftHasOwner, OwnedDraft, HasDraft
<1>10. ReviewHasDraft'
  <2> SUFFICES ASSUME NEW q \in OperationIds, operations'[q].state = "review_ready"
               PROVE  /\ drafts'[operations'[q].profile].rev # 0
                      /\ drafts'[operations'[q].profile].op = q
    BY DEF ReviewHasDraft, OwnedDraft, HasDraft
  <2>1. q # o
    BY <1>4 DEF NoOperationRow
  <2>2. operations'[q] = operations[q] /\ operations[q].profile \in Profiles
    BY <1>4, <2>1 DEF OperationsAssigned
  <2>3. OwnedDraft(operations[q].profile, q)
    BY <1>4, <2>1 DEF ReviewHasDraft
  <2>4. ~ (operations[q].profile = p /\ hit)
    BY <1>1, <2>1, <2>3 DEF OwnedDraft
  <2>5. QED
    BY <1>3, <2>2, <2>3, <2>4 DEF OwnedDraft, HasDraft
<1>11. OneOperationPerProfile'
  BY <1>4, StoreAssumption
     DEF OneOperationPerProfile, NoOperationRow, OperationsAssigned
<1>12. QED
  BY <1>5, <1>6, <1>7, <1>9, <1>10, <1>11, StreamsKept

-----------------------------------------------------------------------------
(* The transactions of the agent that write a draft *)

LEMMA UpsertOwned ==
  ASSUME TypeInv, OwnershipInv, NEW w \in Work, w.profile \in Profiles,
         WorkSound(w), UpsertHolds(w.profile, w.id), NEW sourced,
         drafts' = Upserted(w.profile, w.id, w.op, sourced), Stamp,
         UNCHANGED <<operations, stream, up>>
  PROVE  Regular /\ Owned' /\ DraftsSound' /\ StreamsSound'
<1> DEFINE p == w.profile
<1> USE DEF OwnershipInv, Owned, TypeInv, StoreInv
<1>1. clock \in Nat /\ clock' = clock + 1 /\ \A q \in Profiles : drafts[q].id \in Nat
  BY ClockType, StoreAssumption DEF Stamp, StoreTypeOK, DraftRow, Stamps
<1>2. drafts[p].id = w.id /\ drafts[p].op = w.op
  BY DEF UpsertHolds, WorkSound, DraftsSound
<1>3. /\ drafts'[p].op = w.op
      /\ drafts'[p].rev = clock + 1
      /\ drafts'[p].id = IF w.id = 0 THEN clock + 1 ELSE w.id
      /\ \A q \in Profiles \ {p} : drafts'[q] = drafts[q]
  BY DEF Upserted, StoreTypeOK
<1>4. OperationsWane
  BY DEF OperationsWane
<1>5. Regular
  <2>1. DraftStep(p)
    BY <1>2, <1>3 DEF DraftStep, WorkSound
  <2>2. QED
    BY <1>1, <1>3, <1>4, <2>1, StreamsKept DEF Regular, DraftStep
<1>6. DraftsSound'
  BY <1>1, <1>2, <1>3 DEF DraftsSound
<1>7. w.op # NoOperation => HasDraft(p)
  BY <1>2 DEF DraftsSound, HasDraft
<1>8. DraftHasOwner'
  BY <1>2, <1>3, <1>7, StoreAssumption
     DEF DraftHasOwner, OwnedDraft, HasDraft
<1>9. ReviewHasDraft'
  <2> SUFFICES ASSUME NEW q \in OperationIds, operations[q].state = "review_ready"
               PROVE  /\ drafts'[operations[q].profile].rev # 0
                      /\ drafts'[operations[q].profile].op = q
    BY DEF ReviewHasDraft, OwnedDraft, HasDraft
  <2>1. OwnedDraft(operations[q].profile, q) /\ operations[q].profile \in Profiles
    BY DEF ReviewHasDraft, OperationsAssigned
  <2>2. QED
    BY <1>1, <1>2, <1>3, <2>1 DEF OwnedDraft, HasDraft
<1>10. OneOperationPerProfile'
  BY DEF OneOperationPerProfile
<1>11. QED
  BY <1>4, <1>5, <1>6, <1>8, <1>9, <1>10, StreamsKept

-----------------------------------------------------------------------------
(* Rows that are dropped: a purge, and the deletion of a profile *)

LEMMA PurgeOwned ==
  ASSUME TypeInv, OwnershipInv, NEW p \in Profiles,
         operations' = WithoutOperations(Purgeable(p)),
         UNCHANGED <<drafts, clock, stream, up>>
  PROVE  Regular /\ Owned' /\ DraftsSound' /\ StreamsSound'
<1> USE DEF OwnershipInv, Owned, TypeInv, StoreInv
<1>1. \A o \in OperationIds : operations'[o] = IF o \in Purgeable(p)
                                              THEN NoOperationRow ELSE operations[o]
  BY DEF WithoutOperations
<1>2. OperationsWane
  BY <1>1 DEF OperationsWane
<1>3. Regular
  BY <1>2, StreamsKept, ClockType DEF Regular, DraftStep
<1>4. DraftsSound'
  BY DEF DraftsSound
<1>5. DraftHasOwner'
  BY <1>1 DEF DraftHasOwner, OwnedDraft, HasDraft, Purgeable
<1>6. ReviewHasDraft'
  BY <1>1 DEF ReviewHasDraft, OwnedDraft, HasDraft, NoOperationRow
<1>7. OneOperationPerProfile'
  BY <1>1, StoreAssumption
     DEF OneOperationPerProfile, NoOperationRow, OperationsAssigned
<1>8. QED
  BY <1>2, <1>3, <1>4, <1>5, <1>6, <1>7, StreamsKept

LEMMA DeletionOwned ==
  ASSUME TypeInv, OwnershipInv, NEW p \in Profiles,
         drafts' = [drafts EXCEPT ![p] = NoDraft],
         operations' = WithoutOperations(
            {o \in OperationIds : operations[o].profile = p}),
         Stamp, UNCHANGED <<stream, up>>
  PROVE  Regular /\ Owned' /\ DraftsSound' /\ StreamsSound'
<1> USE DEF OwnershipInv, Owned, TypeInv, StoreInv
<1>1. \A o \in OperationIds :
        operations'[o] = IF operations[o].profile = p
                         THEN NoOperationRow ELSE operations[o]
  BY DEF WithoutOperations
<1>2. \A q \in Profiles : drafts'[q] = IF q = p THEN NoDraft ELSE drafts[q]
  BY DEF StoreTypeOK
<1>3. clock \in Nat /\ clock' = clock + 1 /\ \A q \in Profiles : drafts[q].id \in Nat
  BY ClockType, StoreAssumption DEF Stamp, StoreTypeOK, DraftRow, Stamps
<1>4. OperationsWane
  BY <1>1 DEF OperationsWane
<1>5. Regular
  BY <1>2, <1>3, <1>4, StreamsKept DEF Regular, DraftStep
<1>6. DraftsSound'
  BY <1>2, <1>3 DEF DraftsSound, NoDraft
<1>7. DraftHasOwner'
  BY <1>1, <1>2 DEF DraftHasOwner, OwnedDraft, HasDraft, NoDraft
<1>8. ReviewHasDraft'
  <2> SUFFICES ASSUME NEW q \in OperationIds, operations'[q].state = "review_ready"
               PROVE  /\ drafts'[operations'[q].profile].rev # 0
                      /\ drafts'[operations'[q].profile].op = q
    BY DEF ReviewHasDraft, OwnedDraft, HasDraft
  <2>1. operations'[q] = operations[q] /\ operations[q].profile # p
    BY <1>1 DEF NoOperationRow
  <2>2. operations[q].profile \in Profiles /\ OwnedDraft(operations[q].profile, q)
    BY <2>1 DEF OperationsAssigned, ReviewHasDraft
  <2>3. QED
    BY <1>2, <2>1, <2>2 DEF OwnedDraft, HasDraft
<1>9. OneOperationPerProfile'
  BY <1>1, StoreAssumption
     DEF OneOperationPerProfile, NoOperationRow, OperationsAssigned
<1>10. QED
  BY <1>4, <1>5, <1>6, <1>7, <1>8, <1>9, StreamsKept

LEMMA ReconcileOwned ==
  ASSUME TypeInv, OwnershipInv, NEW o \in OperationIds,
         operations' = Reconciled(o), UNCHANGED <<drafts, clock, stream, up>>
  PROVE  Regular /\ Owned' /\ DraftsSound' /\ StreamsSound'
<1> USE DEF OwnershipInv, Owned, TypeInv, StoreInv
<1>1. \/ operations' = operations
      \/ /\ operations[o].state = "review_ready"
         /\ operations' = [operations EXCEPT ![o].state = "stale"]
  BY DEF Reconciled, ReviewOutdated
<1>2. /\ \A q \in OperationIds \ {o} : operations'[q] = operations[q]
      /\ operations'[o].profile = operations[o].profile
      /\ \/ operations'[o] = operations[o]
         \/ operations[o].state = "review_ready" /\ operations'[o].state = "stale"
  BY <1>1 DEF StoreTypeOK, OperationRow
<1>3. OperationsWane
  BY <1>1 DEF OperationsWane, StoreTypeOK, OperationRow
<1>4. Regular
  BY <1>3, StreamsKept, ClockType DEF Regular, DraftStep
<1>5. DraftsSound'
  BY DEF DraftsSound
<1>6. DraftHasOwner'
  BY <1>2 DEF DraftHasOwner, OwnedDraft, HasDraft
<1>7. ReviewHasDraft'
  BY <1>2 DEF ReviewHasDraft, OwnedDraft, HasDraft
<1>8. OneOperationPerProfile'
  BY <1>2 DEF OneOperationPerProfile
<1>9. QED
  BY <1>3, <1>4, <1>5, <1>6, <1>7, <1>8, StreamsKept

-----------------------------------------------------------------------------
(* Claims and streams *)

LEMMA ClaimOwned ==
  ASSUME TypeInv, OwnershipInv, NEW p \in Profiles, NEW o \in OperationIds,
         Claim(p, o), up, UNCHANGED up
  PROVE  Regular /\ Owned' /\ DraftsSound' /\ StreamsSound'
<1> USE DEF OwnershipInv, Owned, TypeInv, StoreInv
<1>1. /\ operations'[o].state = "running" /\ operations'[o].profile = p
      /\ \A q \in OperationIds \ {o} :
           operations'[q] = IF q \in Purgeable(p) THEN NoOperationRow
                                                  ELSE operations[q]
  BY DEF Claim, WithoutOperations, StoreTypeOK
<1>2. /\ stream[o] = "unused" /\ stream'[o] = "extracting"
      /\ \A q \in OperationIds \ {o} : stream'[q] = stream[q]
  BY DEF Claim, At, Goto, StreamTypeOK
<1>3. UNCHANGED <<drafts, clock>>
  BY DEF Claim
<1>4. operations[o].state = "none"
  BY <1>2 DEF StreamsSound
<1>5. \A q \in OperationIds : operations[q].profile = p /\ operations[q].state # "none"
                              => q \in Purgeable(p)
  BY DEF Claim, ClaimAllowed, Actionable, Purgeable, StoreTypeOK, OperationRow,
         OperationStates, DraftHasOwner, OwnedDraft
<1>6. Regular
  BY <1>1, <1>2, <1>3, ClockType
     DEF Regular, DraftStep, OperationStep, Ended, NoOperationRow
<1>7. DraftsSound'
  BY <1>3 DEF DraftsSound
<1>8. DraftHasOwner'
  BY <1>1, <1>3, <1>4 DEF DraftHasOwner, OwnedDraft, HasDraft, Purgeable
<1>9. ReviewHasDraft'
  BY <1>1, <1>3 DEF ReviewHasDraft, OwnedDraft, HasDraft, NoOperationRow
<1>10. OneOperationPerProfile'
  <2>1. \A q \in OperationIds \ {o} : operations'[q].profile # p
    BY <1>1, <1>5, StoreAssumption DEF NoOperationRow, StreamsSound
  <2>2. \A q \in OperationIds \ {o} :
          operations'[q].profile \in Profiles => operations'[q] = operations[q]
    BY <1>1, StoreAssumption DEF NoOperationRow
  <2>3. \A q \in OperationIds \ {o} :
          operations'[q].state # "none" => /\ operations'[q] = operations[q]
                                           /\ operations[q].profile \in Profiles
    BY <1>1 DEF NoOperationRow, OperationsAssigned
  <2>4. QED
    BY <1>1, <2>1, <2>2, <2>3 DEF OneOperationPerProfile
<1>11. StreamsSound'
  <2> SUFFICES ASSUME NEW q \in OperationIds
               PROVE  /\ stream'[q] = "unused" => operations'[q].state = "none"
                      /\ operations'[q].state = "none" =>
                           operations'[q].profile = NoProfile
                      /\ operations'[q].state \notin {"none", "running"} =>
                           stream'[q] \in Ended
                      /\ operations'[q].state = "running" => stream'[q] # "published"
    BY DEF StreamsSound
  <2>1. CASE q = o
    BY <1>1, <1>2, <2>1
  <2>2. CASE q # o
    BY <1>1, <1>2, <2>2 DEF StreamsSound, NoOperationRow
  <2>3. QED
    BY <2>1, <2>2
<1>12. QED
  BY <1>6, <1>7, <1>8, <1>9, <1>10, <1>11

LEMMA PublishOwned ==
  ASSUME TypeInv, OwnershipInv, NEW o \in OperationIds, StreamPublish(o), up,
         UNCHANGED up
  PROVE  Regular /\ Owned' /\ DraftsSound' /\ StreamsSound'
<1> DEFINE p == operations[o].profile
<1> USE DEF OwnershipInv, Owned, TypeInv, StoreInv
<1>1. /\ operations[o].state = "running" /\ p \in Profiles
      /\ drafts[p].id = 0 /\ drafts[p].rev = 0
  BY DEF StreamPublish, OperationsAssigned, UpsertHolds, DraftsSound
<1>2. /\ operations'[o].state = "review_ready" /\ operations'[o].profile = p
      /\ \A q \in OperationIds \ {o} : operations'[q] = operations[q]
  BY <1>1 DEF StreamPublish, TransitionRunning, StoreTypeOK, OperationRow
<1>3. /\ drafts'[p].id = clock + 1 /\ drafts'[p].rev = clock + 1
      /\ drafts'[p].op = o
      /\ \A q \in Profiles \ {p} : drafts'[q] = drafts[q]
  BY <1>1 DEF StreamPublish, Upserted, StoreTypeOK
<1>4. /\ stream[o] = "checked" /\ stream'[o] = "published"
      /\ \A q \in OperationIds \ {o} : stream'[q] = stream[q]
  BY DEF StreamPublish, At, Goto, StreamTypeOK
<1>5. clock \in Nat /\ clock' = clock + 1 /\ \A q \in Profiles : drafts[q].id \in Nat
  BY ClockType, StoreAssumption DEF StreamPublish, Stamp, StoreTypeOK, DraftRow, Stamps
<1>6. Regular
  BY <1>1, <1>2, <1>3, <1>4, <1>5
     DEF Regular, DraftStep, OperationStep, Ended
<1>7. DraftsSound'
  BY <1>3, <1>5 DEF DraftsSound
<1>8. DraftHasOwner'
  BY <1>1, <1>2, <1>3 DEF DraftHasOwner, OwnedDraft, HasDraft
<1>9. ReviewHasDraft'
  <2> SUFFICES ASSUME NEW q \in OperationIds, operations'[q].state = "review_ready"
               PROVE  /\ drafts'[operations'[q].profile].rev # 0
                      /\ drafts'[operations'[q].profile].op = q
    BY DEF ReviewHasDraft, OwnedDraft, HasDraft
  <2>1. CASE q = o
    BY <1>2, <1>3, <1>5, <2>1
  <2>2. CASE q # o
    <3>1. operations[q].profile \in Profiles /\ OwnedDraft(operations[q].profile, q)
      BY <1>2, <2>2 DEF OperationsAssigned, ReviewHasDraft
    <3>2. QED
      BY <1>1, <1>2, <1>3, <2>2, <3>1 DEF OwnedDraft, HasDraft
  <2>3. QED
    BY <2>1, <2>2
<1>10. OneOperationPerProfile'
  BY <1>1, <1>2 DEF OneOperationPerProfile
<1>11. StreamsSound'
  BY <1>2, <1>4 DEF StreamsSound, Ended
<1>12. QED
  BY <1>6, <1>7, <1>8, <1>9, <1>10, <1>11

\* A running operation leaves running, without a draft.
LEMMA WithdrawOwned ==
  ASSUME TypeInv, OwnershipInv, NEW o \in OperationIds, NEW to \in TerminalStates,
         TransitionRunning(o, to), At(o, "unused") => FALSE, Goto(o, "done"), up,
         UNCHANGED <<drafts, clock, up>>
  PROVE  Regular /\ Owned' /\ DraftsSound' /\ StreamsSound'
<1> USE DEF OwnershipInv, Owned, TypeInv, StoreInv
<1>1. /\ operations'[o].profile = operations[o].profile
      /\ \/ operations'[o] = operations[o] /\ operations[o].state # "running"
         \/ operations[o].state = "running" /\ operations'[o].state = to
      /\ \A q \in OperationIds \ {o} : operations'[q] = operations[q]
  BY DEF TransitionRunning, StoreTypeOK, OperationRow
<1>2. /\ stream[o] # "unused" /\ stream'[o] = "done"
      /\ \A q \in OperationIds \ {o} : stream'[q] = stream[q]
  BY DEF At, Goto, StreamTypeOK
<1>3. Regular
  BY <1>1, <1>2, ClockType DEF Regular, DraftStep, OperationStep, Ended, TerminalStates
<1>4. DraftsSound'
  BY DEF DraftsSound
<1>5. DraftHasOwner'
  BY <1>1 DEF DraftHasOwner, OwnedDraft, HasDraft
<1>6. ReviewHasDraft'
  BY <1>1 DEF ReviewHasDraft, OwnedDraft, HasDraft, TerminalStates
<1>7. OneOperationPerProfile'
  BY <1>1 DEF OneOperationPerProfile, TerminalStates
<1>8. StreamsSound'
  BY <1>1, <1>2 DEF StreamsSound, Ended, TerminalStates
<1>9. QED
  BY <1>3, <1>4, <1>5, <1>6, <1>7, <1>8

LEMMA StreamOwned ==
  ASSUME TypeInv, OwnershipInv, NEW o \in OperationIds, StreamWork(o)
  PROVE  Regular /\ Owned' /\ DraftsSound' /\ StreamsSound'
<1> USE DEF StreamWork
<1>1. CASE StreamPublish(o)
  BY <1>1, PublishOwned
<1>2. CASE StreamMarkStale(o) \/ StreamFailed(o) \/ StreamCancel(o)
  BY <1>2, WithdrawOwned
     DEF StreamMarkStale, StreamFailed, StreamCancel, At, LiveStreams, TerminalStates
<1>3. CASE StreamCheck(o) \/ StreamFail(o) \/ StreamEnd(o)
  <2> USE DEF OwnershipInv, TypeInv, StoreInv
  <2>1. /\ stream[o] \notin {"unused", "done"}
        /\ stream[o] \in Ended => stream'[o] \in Ended
        /\ stream'[o] # "unused"
        /\ stream'[o] = "published" => stream[o] = "published"
        /\ \A q \in OperationIds \ {o} : stream'[q] = stream[q]
    BY <1>3 DEF StreamCheck, StreamFail, StreamEnd, LiveStreams, At, Goto, StreamTypeOK,
                Ended
  <2>2. UNCHANGED <<drafts, operations, clock, up>> /\ up
    BY <1>3 DEF StreamCheck, StreamFail, StreamEnd, storeVars
  <2>3. Regular
    BY <2>1, <2>2, ClockType DEF Regular, DraftStep, OperationStep
  <2>4. StreamsSound'
    BY <2>1, <2>2 DEF StreamsSound
  <2>5. Owned' /\ DraftsSound'
    BY <2>2 DEF Owned, DraftHasOwner, ReviewHasDraft, OneOperationPerProfile,
                OwnedDraft, HasDraft, DraftsSound
  <2>6. QED
    BY <2>3, <2>4, <2>5
<1>4. QED
  BY <1>1, <1>2, <1>3 DEF StreamStep

LEMMA UnfinalizedOwned ==
  ASSUME TypeInv, OwnershipInv, NEW o \in OperationIds, up,
         StreamUnfinalized(o), UNCHANGED up
  PROVE  Regular /\ Owned' /\ DraftsSound' /\ StreamsSound'
<1> USE DEF OwnershipInv, TypeInv, StoreInv
<1>1. /\ stream[o] # "unused" /\ stream'[o] = "done"
      /\ \A q \in OperationIds \ {o} : stream'[q] = stream[q]
  BY DEF StreamUnfinalized, LiveStreams, Goto, StreamTypeOK
<1>2. UNCHANGED <<drafts, operations, clock, up>>
  BY DEF StreamUnfinalized, storeVars
<1>3. Regular
  BY <1>1, <1>2, ClockType DEF Regular, DraftStep, OperationStep, Ended
<1>4. StreamsSound'
  BY <1>1, <1>2 DEF StreamsSound, Ended
<1>5. Owned' /\ DraftsSound'
  BY <1>2 DEF Owned, DraftHasOwner, ReviewHasDraft, OneOperationPerProfile,
              OwnedDraft, HasDraft, DraftsSound
<1>6. QED
  BY <1>3, <1>4, <1>5

LEMMA RestartOwned ==
  ASSUME TypeInv, OwnershipInv, Restart
  PROVE  Regular /\ Owned' /\ DraftsSound' /\ StreamsSound'
<1> USE DEF OwnershipInv, Owned, TypeInv, StoreInv
<1>1. \A o \in OperationIds :
        /\ operations'[o].profile = operations[o].profile
        /\ operations'[o].state = IF operations[o].state = "running"
                                  THEN "interrupted" ELSE operations[o].state
  BY DEF Restart, RecoverRunning, StoreTypeOK, OperationRow
<1>2. UNCHANGED <<drafts, clock, stream>> /\ ~ up /\ up'
  BY DEF Restart
<1>3. Regular
  BY <1>1, <1>2, ClockType DEF Regular, DraftStep, OperationStep
<1>4. StreamsSound'
  BY <1>1, <1>2 DEF StreamsSound, StreamTypeOK, LiveStreams, Ended
<1>5. DraftsSound'
  BY <1>2 DEF DraftsSound
<1>6. DraftHasOwner'
  BY <1>1, <1>2 DEF DraftHasOwner, OwnedDraft, HasDraft
<1>7. ReviewHasDraft'
  BY <1>1, <1>2 DEF ReviewHasDraft, OwnedDraft, HasDraft
<1>8. OneOperationPerProfile'
  BY <1>1 DEF OneOperationPerProfile
<1>9. QED
  BY <1>3, <1>4, <1>5, <1>6, <1>7, <1>8

-----------------------------------------------------------------------------
(* Turns and requests *)

\* The steps that write neither drafts nor operations.
LEMMA IdleOwned ==
  ASSUME TypeInv, StoreInv', OwnershipInv, clock <= clock',
         UNCHANGED <<drafts, operations, stream, up>>
  PROVE  Regular /\ Owned' /\ DraftsSound' /\ StreamsSound'
<1>1. Regular
  BY StillRegular DEF TypeInv
<1>2. Owned' /\ DraftsSound'
  BY StillOwned DEF OwnershipInv, TypeInv
<1>3. StreamsSound'
  BY DEF OwnershipInv, StreamsSound
<1>4. QED
  BY <1>1, <1>2, <1>3

LEMMA ClockKept ==
  ASSUME StoreInv, UNCHANGED clock \/ Stamp
  PROVE  clock <= clock'
  BY ClockType DEF Stamp

LEMMA TurnOwned ==
  ASSUME TypeInv, StoreInv', OwnershipInv, NEW r \in Runs, TurnStep(r),
         UNCHANGED <<stream, up>>
  PROVE  Regular /\ Owned' /\ DraftsSound' /\ StreamsSound'
<1> DEFINE w == turn[r].work
<1> USE DEF TypeInv, InStep
<1>1. w \in Work /\ (turn[r].pc \notin {"idle", "lost"} => w.profile \in Profiles)
  BY TurnProfileType
<1>2. CASE UNCHANGED <<drafts, operations, clock>>
  BY <1>2, IdleOwned, ClockKept
<1>3. CASE RefuseStaleUpdate(r)
  <2>1. drafts[w.profile].op \in OperationIds
    BY <1>1, <1>3 DEF RefuseStaleUpdate, StoreInv, StoreTypeOK, DraftRow
  <2>2. QED
    BY <1>3, <2>1, ReconcileOwned DEF RefuseStaleUpdate
<1>4. CASE WriteUpdate(r)
  BY <1>1, <1>4, UpsertOwned DEF WriteUpdate, OwnershipInv, TurnsSound
<1>5. CASE PublishExtraction(r)
  BY <1>1, <1>5, UpsertOwned DEF PublishExtraction, OwnershipInv, TurnsSound
<1>6. CASE CommitWrite(r)
  BY <1>1, <1>6, ApprovalOwned DEF CommitWrite, OwnershipInv, TurnsSound
<1>7. QED
  BY <1>2, <1>3, <1>4, <1>5, <1>6
     DEF TurnStep, BeginTurn, StartTurn, EndTurn, FailTurn,
         MarkTurnFailed, AbandonTurn, ToolFails, ReadUpdateBase,
         CheckUpdate, StartExtraction, CheckExtraction, FailExtraction,
         MarkFailed, CaptureCommit, ResumeWithoutCommit, ResumeCommit, storeVars

LEMMA ClientOwned ==
  ASSUME TypeInv, StoreInv', OwnershipInv, NEW c \in Clients, ClientStep(c),
         UNCHANGED <<stream, up>>
  PROVE  Regular /\ Owned' /\ DraftsSound' /\ StreamsSound'
<1> DEFINE w == client[c].work
<1> USE DEF TypeInv, OnStep
<1>1. w \in Work /\ (client[c].pc # "idle" => w.profile \in Profiles)
  BY DEF RequestInv, RequestsAssigned
<1>2. CASE UNCHANGED <<drafts, operations>> /\ (UNCHANGED clock \/ Stamp)
  BY <1>2, IdleOwned, ClockKept
<1>3. CASE Approve(c)
  BY <1>1, <1>3, ApprovalOwned DEF Approve, OwnershipInv, RequestsSound
<1>4. CASE Discard(c)
  BY <1>1, <1>4, DiscardOwned DEF Discard, OwnershipInv, RequestsSound
<1>5. CASE MarkDeleting(c)
  BY <1>1, <1>5, PurgeOwned DEF MarkDeleting
<1>6. CASE FinalizeDelete(c)
  BY <1>1, <1>6, DeletionOwned DEF FinalizeDelete
<1>7. QED
  BY <1>2, <1>3, <1>4, <1>5, <1>6
     DEF ClientStep, BeginApprove, BeginDiscard, BeginActivate, BeginDelete,
         BeginRetry, Activate, CleanUp, BeginFinalize, Retry, RequestFails,
         storeVars

-----------------------------------------------------------------------------
(* What a session reads is sound when it reads it *)

LEMMA ReadSound ==
  ASSUME TypeInv, OwnershipInv, NEW p \in Profiles, NEW w \in Work,
         w.profile = p, w.id = drafts[p].id, w.op = drafts[p].op
  PROVE  WorkSound(w)
<1>1. w.id <= clock /\ (w.id = 0 => w.op = NoOperation)
  BY DEF OwnershipInv, DraftsSound
<1>2. ASSUME w.op # NoOperation
      PROVE  stream[w.op] \in Ended /\ operations[w.op].profile = p
  <2>1. w.op \in OperationIds
    BY <1>2 DEF Work
  <2>2. HasDraft(p)
    BY <1>2 DEF OwnershipInv, DraftsSound, HasDraft
  <2>3. operations[w.op].profile = p
        /\ operations[w.op].state \in {"review_ready", "stale"}
    BY <2>1, <2>2 DEF OwnershipInv, Owned, DraftHasOwner, OwnedDraft
  <2>4. QED
    BY <2>1, <2>3 DEF OwnershipInv, StreamsSound
<1>3. QED
  BY <1>1, <1>2 DEF WorkSound

Writing == {"updating", "proposing", "committing"}

LEMMA TurnNextSound ==
  ASSUME TypeInv, Regular, TurnsSound, NEW r \in Runs, NEW pc, NEW v,
         NextStep(r, pc, v),
         pc \in Writing => WorkSound(v)',
         pc = "extracting" \/ pc = "proposing" => v.op = NoOperation,
         pc = "committing" => v.id # 0
  PROVE  TurnsSound'
<1>1. turn'[r].pc = pc /\ turn'[r].work = v
  BY DEF NextStep, TypeInv, TurnInv, TurnTypeOK
<1>2. \A q \in Runs \ {r} : turn'[q] = turn[q]
  BY DEF NextStep, TypeInv, TurnInv, TurnTypeOK
<1>3. ASSUME NEW q \in Runs \ {r}, turn[q].pc \in Writing
      PROVE  WorkSound(turn[q].work)'
  <2>1. turn[q].work \in Work /\ turn[q].work.profile \in Profiles
    BY <1>3, TurnProfileType DEF TypeInv, Writing
  <2>2. WorkSound(turn[q].work)
    BY <1>3 DEF TurnsSound, Writing
  <2>3. turn'[q].work = turn[q].work
    BY <1>2
  <2>4. QED
    BY <1>3, <2>1, <2>2, <2>3, WorkKept
<1>4. QED
  BY <1>1, <1>2, <1>3 DEF TurnsSound, Writing

LEMMA TurnStepSound ==
  ASSUME TypeInv, TypeInv', OwnershipInv, Regular, NEW r \in Runs, TurnStep(r)
  PROVE  TurnsSound'
<1> DEFINE w == turn[r].work
           p == w.profile
           Quiet == {"idle", "starting", "running", "editing", "failing", "captured",
                     "ending", "lost"}
<1> USE DEF OwnershipInv, InStep
<1>1. /\ w \in Work /\ TurnProfile(r) = p
      /\ turn[r].pc \notin {"idle", "lost"} => p \in Profiles
  BY TurnProfileType DEF TypeInv
<1>2. ASSUME NEW pc \in Quiet, NEW v, NextStep(r, pc, v)
      PROVE  TurnsSound'
  BY <1>2, TurnNextSound DEF Writing
<1>3. Resumed(r) => TurnsSound'
  BY <1>2 DEF Resumed
<1>4. CASE CheckUpdate(r)
  <2> DEFINE o == drafts[p].op
  <2> PICK v : v = [w EXCEPT !.id = drafts[p].id, !.op = o,
                             !.sourced = IF o = NoOperation THEN @
                                                            ELSE drafts[p].sourced]
    OBVIOUS
  <2>1. p \in Profiles /\ drafts[p] \in DraftRow
    BY <1>1, <1>4 DEF CheckUpdate, TypeInv, StoreInv, StoreTypeOK
  <2>2. v \in Work /\ v.profile = p /\ v.id = drafts[p].id /\ v.op = o
    BY <1>1, <2>1 DEF Work, DraftRow
  <2>3. NextStep(r, "updating", v)
    BY <1>4 DEF CheckUpdate
  <2>4. WorkSound(v)'
    BY <2>1, <2>2, ReadSound, WorkKept
  <2>5. QED
    BY <2>3, <2>4, TurnNextSound
<1>5. ASSUME NEW mode \in {"bootstrap", "reprocess"}, StartExtraction(r, mode)
      PROVE  TurnsSound'
  <2> PICK v : v = [NoWork EXCEPT !.profile = p, !.mode = mode]
    OBVIOUS
  <2>1. v.op = NoOperation
    BY DEF NoWork
  <2>2. NextStep(r, "extracting", v)
    BY <1>1, <1>5 DEF StartExtraction
  <2>3. QED
    BY <2>1, <2>2, TurnNextSound DEF Writing
<1>6. CASE CheckExtraction(r)
  <2> PICK v : v = [w EXCEPT !.id = drafts[p].id]
    OBVIOUS
  <2>1. p \in Profiles /\ drafts[p] \in DraftRow
    BY <1>1, <1>6 DEF CheckExtraction, TypeInv, StoreInv, StoreTypeOK
  <2>2. drafts[p].op = NoOperation /\ w.op = NoOperation
    BY <1>6 DEF CheckExtraction, TurnsSound
  <2>3. /\ v \in Work /\ v.profile = p
        /\ v.id = drafts[p].id /\ v.op = drafts[p].op /\ v.op = NoOperation
    BY <1>1, <2>1, <2>2 DEF Work, DraftRow
  <2>4. NextStep(r, "proposing", v)
    BY <1>6 DEF CheckExtraction
  <2>5. WorkSound(v)'
    BY <2>1, <2>3, ReadSound, WorkKept
  <2>6. QED
    BY <2>3, <2>4, <2>5, TurnNextSound
<1>7. CASE ResumeCommit(r)
  <2> PICK v : v = ApprovalWork(p)
    OBVIOUS
  <2>1. p \in Profiles /\ drafts[p] \in DraftRow
    BY <1>1, <1>7 DEF ResumeCommit, TypeInv, StoreInv, StoreTypeOK
  <2>2. v \in Work
    BY <1>7, <2>1, ApprovalWorkType DEF ResumeCommit, TypeInv, StoreInv
  <2>3. v.profile = p /\ v.id = drafts[p].id /\ v.op = drafts[p].op
    BY NoWorkType DEF ApprovalWork, Work
  <2>4. v.id # 0
    BY <1>7, <2>1, <2>3
       DEF ResumeCommit, ApprovalAdmissible, HasDraft, DraftsSound
  <2>5. NextStep(r, "committing", v)
    BY <1>7 DEF ResumeCommit
  <2>6. WorkSound(v)'
    BY <2>1, <2>2, <2>3, ReadSound, WorkKept
  <2>7. QED
    BY <2>4, <2>5, <2>6, TurnNextSound
<1>8. QED
  BY <1>2, <1>3, <1>4, <1>5, <1>6, <1>7
     DEF TurnStep, BeginTurn, StartTurn, EndTurn, FailTurn,
         MarkTurnFailed, AbandonTurn, ToolFails, ReadUpdateBase,
         RefuseStaleUpdate, WriteUpdate, PublishExtraction, FailExtraction,
         MarkFailed, CaptureCommit, ResumeWithoutCommit, CommitWrite

LEMMA RequestNextSound ==
  ASSUME TypeInv, Regular, RequestsSound, NEW c \in Clients, NEW pc, NEW v,
         Request(c, pc, v),
         pc \in {"approving", "discarding"} => WorkSound(v)' /\ v.id # 0
  PROVE  RequestsSound'
<1>1. client'[c].pc = pc /\ client'[c].work = v
  BY DEF Request, TypeInv, RequestInv
<1>2. \A d \in Clients \ {c} : client'[d] = client[d]
  BY DEF Request, TypeInv, RequestInv
<1>3. ASSUME NEW d \in Clients \ {c}, client[d].pc \in {"approving", "discarding"}
      PROVE  WorkSound(client[d].work)'
  <2>1. client[d].work \in Work /\ client[d].work.profile \in Profiles
    BY <1>3 DEF TypeInv, RequestInv, RequestsAssigned
  <2>2. WorkSound(client[d].work)
    BY <1>3 DEF RequestsSound
  <2>3. client'[d].work = client[d].work
    BY <1>2
  <2>4. QED
    BY <1>3, <2>1, <2>2, <2>3, WorkKept
<1>4. QED
  BY <1>1, <1>2, <1>3 DEF RequestsSound

LEMMA ClientStepSound ==
  ASSUME TypeInv, OwnershipInv, Regular, NEW c \in Clients, ClientStep(c)
  PROVE  RequestsSound'
<1> DEFINE Quiet == RequestSteps \ {"approving", "discarding"}
<1> USE DEF OwnershipInv
<1>1. ASSUME NEW pc \in Quiet, NEW v, Request(c, pc, v)
      PROVE  RequestsSound'
  BY <1>1, RequestNextSound
<1>2. Respond(c) => RequestsSound'
  BY <1>1 DEF Respond, RequestSteps
<1>3. ASSUME NEW p \in Profiles, BeginApprove(c, p)
      PROVE  RequestsSound'
  <2> PICK v : v = ApprovalWork(p)
    OBVIOUS
  <2>1. drafts[p] \in DraftRow /\ v \in Work
    BY <1>3, ApprovalWorkType DEF BeginApprove, TypeInv, StoreInv, StoreTypeOK
  <2>2. v.profile = p /\ v.id = drafts[p].id /\ v.op = drafts[p].op
    BY NoWorkType DEF ApprovalWork, Work
  <2>3. v.id # 0
    BY <1>3, <2>2 DEF BeginApprove, ApprovalAdmissible, HasDraft, DraftsSound
  <2>4. Request(c, "approving", v)
    BY <1>3 DEF BeginApprove
  <2>5. WorkSound(v)'
    BY <2>1, <2>2, ReadSound, WorkKept
  <2>6. QED
    BY <2>3, <2>4, <2>5, RequestNextSound
<1>4. ASSUME NEW p \in Profiles, BeginDiscard(c, p)
      PROVE  RequestsSound'
  <2> PICK v : v = DiscardWork(p)
    OBVIOUS
  <2>1. drafts[p] \in DraftRow /\ v \in Work
    BY <1>4, DiscardWorkType DEF BeginDiscard, TypeInv, StoreInv, StoreTypeOK
  <2>2. v.profile = p /\ v.id = drafts[p].id /\ v.op = drafts[p].op
    BY NoWorkType DEF DiscardWork, Work
  <2>3. v.id # 0
    BY <1>4, <2>2 DEF BeginDiscard, DiscardAdmissible, HasDraft, DraftsSound
  <2>4. Request(c, "discarding", v)
    BY <1>4 DEF BeginDiscard
  <2>5. WorkSound(v)'
    BY <2>1, <2>2, ReadSound, WorkKept
  <2>6. QED
    BY <2>3, <2>4, <2>5, RequestNextSound
<1>5. QED
  BY <1>1, <1>2, <1>3, <1>4
     DEF ClientStep, BeginActivate, BeginDelete, BeginRetry, Approve, Discard,
         Activate, MarkDeleting, CleanUp, BeginFinalize, FinalizeDelete, Retry,
         RequestFails, RequestSteps

-----------------------------------------------------------------------------
(* The invariant *)

LEMMA OwnershipInit == Init => OwnershipInv
<1> SUFFICES ASSUME Init
             PROVE  OwnershipInv
  OBVIOUS
<1> USE DEF Init, StoreInit, StreamInit, TurnInit
<1>1. /\ \A p \in Profiles : drafts[p] = NoDraft
      /\ \A o \in OperationIds : operations[o] = NoOperationRow
      /\ \A o \in OperationIds : stream[o] = "unused"
      /\ clock = 1 /\ up
  OBVIOUS
<1>2. Owned
  BY <1>1 DEF Owned, DraftHasOwner, ReviewHasDraft, OneOperationPerProfile,
              OwnedDraft, HasDraft, NoDraft, NoOperationRow
<1>3. DraftsSound
  BY <1>1 DEF DraftsSound, NoDraft
<1>4. StreamsSound
  BY <1>1 DEF StreamsSound, NoOperationRow, LiveStreams, Ended
<1>5. TurnsSound
  BY DEF TurnsSound
<1>6. RequestsSound
  BY DEF RequestsSound
<1>7. QED
  BY <1>2, <1>3, <1>4, <1>5, <1>6 DEF OwnershipInv

LEMMA CrashOwned ==
  ASSUME TypeInv, TypeInv', OwnershipInv, Crash
  PROVE  OwnershipInv'
<1> USE DEF OwnershipInv, TypeInv
<1>1. Owned' /\ DraftsSound'
  <2>1. UNCHANGED <<drafts, operations, clock>>
    BY DEF Crash, storeVars
  <2>2. clock <= clock'
    BY <2>1, ClockKept
  <2>3. QED
    BY <2>1, <2>2, StillOwned
<1>2. StreamsSound'
  <2> SUFFICES ASSUME NEW o \in OperationIds
               PROVE  /\ stream'[o] = "unused" => operations'[o].state = "none"
                      /\ operations'[o].state = "none" =>
                           operations'[o].profile = NoProfile
                      /\ operations'[o].state \notin {"none", "running"} =>
                           stream'[o] \in Ended
                      /\ operations'[o].state = "running" =>
                           stream'[o] # "published"
                      /\ ~ up' => stream'[o] \notin LiveStreams
    BY DEF StreamsSound
  <2>1. operations'[o] = operations[o]
    BY DEF Crash, storeVars
  <2>2. stream'[o] = IF stream[o] \in LiveStreams THEN "done" ELSE stream[o]
    BY DEF Crash
  <2>3. QED
    BY <2>1, <2>2 DEF StreamsSound, LiveStreams, Ended
<1>3. TurnsSound'
  <2>1. \A r \in Runs :
          turn'[r].pc \notin {"updating", "proposing", "committing", "extracting"}
    BY DEF Crash, TurnsAfterCrash
  <2>2. QED
    BY <2>1 DEF TurnsSound
<1>4. RequestsSound'
  BY DEF Crash, RequestsSound
<1>5. QED
  BY <1>1, <1>2, <1>3, <1>4

LEMMA OwnershipNext ==
  TypeInv /\ TypeInv' /\ OwnershipInv /\ [Next]_vars => OwnershipInv'
<1> SUFFICES ASSUME TypeInv, TypeInv', OwnershipInv, [Next]_vars
             PROVE  OwnershipInv'
  OBVIOUS
<1> DEFINE Kept == Regular /\ Owned' /\ DraftsSound' /\ StreamsSound'
<1>0. StoreInv'
  BY DEF TypeInv
<1>1. ASSUME Kept, UNCHANGED <<turn, client>>
      PROVE  OwnershipInv'
  BY <1>1, TurnsKept, RequestsKept DEF OwnershipInv
<1>2. ASSUME NEW p \in Profiles, NEW o \in OperationIds,
             up, Claim(p, o), UNCHANGED <<turn, client, up>>
      PROVE  OwnershipInv'
  BY <1>1, <1>2, ClaimOwned
<1>3. ASSUME NEW o \in OperationIds, StreamWork(o)
      PROVE  OwnershipInv'
  BY <1>1, <1>3, StreamOwned DEF StreamWork
<1>4. ASSUME NEW o \in OperationIds, ReadReview(o), UNCHANGED <<turn, client, up>>
      PROVE  OwnershipInv'
  BY <1>1, <1>4, ReconcileOwned DEF ReadReview
<1>5. ASSUME NEW r \in Runs, TurnStep(r), UNCHANGED <<stream, client, up>>
      PROVE  OwnershipInv'
  <2>1. Kept
    BY <1>0, <1>5, TurnOwned
  <2>2. TurnsSound'
    BY <1>5, <2>1, TurnStepSound
  <2>3. RequestsSound'
    BY <1>5, <2>1, RequestsKept DEF OwnershipInv
  <2>4. QED
    BY <2>1, <2>2, <2>3 DEF OwnershipInv
<1>6. ASSUME NEW c \in Clients, ClientStep(c), UNCHANGED <<stream, turn, up>>
      PROVE  OwnershipInv'
  <2>1. Kept
    BY <1>0, <1>6, ClientOwned
  <2>2. RequestsSound'
    BY <1>6, <2>1, ClientStepSound
  <2>3. TurnsSound'
    BY <1>6, <2>1, TurnsKept DEF OwnershipInv
  <2>4. QED
    BY <2>1, <2>2, <2>3 DEF OwnershipInv
<1>7. ASSUME NEW p \in Profiles, Upload(p) \/ Rename(p),
             UNCHANGED <<stream, turn, up>>
      PROVE  OwnershipInv'
  <2>1. UNCHANGED <<drafts, operations, client>> /\ clock <= clock'
    BY <1>7, ClockKept DEF Upload, Rename, TypeInv
  <2>2. Kept
    BY <1>0, <1>7, <2>1, IdleOwned
  <2>3. QED
    BY <1>1, <1>7, <2>1, <2>2
<1>8. CASE Crash
  BY <1>8, CrashOwned
<1>9. CASE Restart
  BY <1>1, <1>9, RestartOwned DEF Restart
<1>10. CASE UNCHANGED vars
  <2>1. UNCHANGED <<drafts, operations, stream, up, turn, client>> /\ clock <= clock'
    BY <1>10, ClockKept DEF vars, storeVars, TypeInv
  <2>2. Kept
    BY <1>0, <2>1, IdleOwned
  <2>3. QED
    BY <1>1, <2>1, <2>2
<1>11. ASSUME NEW o \in OperationIds, up, StreamUnfinalized(o),
              UNCHANGED <<turn, client, up>>
       PROVE  OwnershipInv'
  BY <1>1, <1>11, UnfinalizedOwned
<1>12. QED
  BY <1>2, <1>3, <1>4, <1>5, <1>6, <1>7, <1>8, <1>9, <1>10, <1>11,
     CutOffUnfinalized
     DEF Next

LEMMA OwnershipCorrect == Spec => []OwnershipInv
<1>1. Init => OwnershipInv
  BY OwnershipInit
<1>2. TypeInv /\ TypeInv' /\ OwnershipInv /\ [Next]_vars => OwnershipInv'
  BY OwnershipNext
<1>3. QED
  BY <1>1, <1>2, TypeInvCorrect, PTL DEF Spec

\* A draft that names an operation is the draft of that operation's profile,
\* and discard or approval can still consume the pair: publication, approval,
\* discard, purge, deletion and a retried agent edit never part them.
THEOREM DraftOwnership == Spec => []DraftHasOwner
<1>1. OwnershipInv => DraftHasOwner
  BY DEF OwnershipInv, Owned
<1>2. QED
  BY <1>1, OwnershipCorrect, PTL

\* A review that blocks a profile can always be opened: its draft is there.
THEOREM ReviewIsOpenable == Spec => []ReviewHasDraft
<1>1. OwnershipInv => ReviewHasDraft
  BY DEF OwnershipInv, Owned
<1>2. QED
  BY <1>1, OwnershipCorrect, PTL

\* A profile never has two operation rows.
THEOREM SingleOperation == Spec => []OneOperationPerProfile
<1>1. OwnershipInv => OneOperationPerProfile
  BY DEF OwnershipInv, Owned
<1>2. QED
  BY <1>1, OwnershipCorrect, PTL

-----------------------------------------------------------------------------
(* Approved content changes with its draft only *)

NoApproval == \A p \in Profiles : ~ Approved(p)

LEMMA ApprovalConsumesOwn ==
  ASSUME TypeInv, OwnershipInv, NEW w \in Work, w.profile \in Profiles,
         WorkSound(w), w.id # 0, ApprovalHolds(w), ApprovalWrites(w)
  PROVE  ApprovalConsumes
<1> USE DEF TypeInv, StoreInv, StoreTypeOK
<1>1. ASSUME NEW p \in Profiles, p # w.profile
      PROVE  ~ Approved(p)
  BY <1>1 DEF ApprovalWrites, Approved, ProfileRow
<1>2. drafts[w.profile].op = w.op /\ HasDraft(w.profile)
  BY DEF ApprovalHolds, WorkSound
<1>3. ~ HasDraft(w.profile)'
  BY DEF ApprovalWrites, HasDraft, NoDraft
<1>4. ASSUME w.op # NoOperation
      PROVE  /\ operations[w.op].state = "review_ready"
             /\ operations'[w.op].state = "none"
  <2>1. w.op \in OperationIds
    BY <1>4 DEF Work
  <2>2. QED
    BY <1>4, <2>1 DEF ApprovalHolds, ApprovalWrites, NoOperationRow
<1>5. QED
  BY <1>1, <1>2, <1>3, <1>4 DEF ApprovalConsumes

LEMMA NothingConsumed ==
  ASSUME NoApproval
  PROVE  ApprovalConsumes
  BY DEF NoApproval, ApprovalConsumes

LEMMA StreamApprovesNothing ==
  ASSUME TypeInv, NEW o \in OperationIds, StreamStep(o)
  PROVE  NoApproval
<1> USE DEF TypeInv, StoreInv, StoreTypeOK
<1>1. CASE StreamPublish(o)
  <2>1. profiles' = [profiles EXCEPT ![operations[o].profile].doc = TRUE]
    BY <1>1 DEF StreamPublish
  <2>2. \A q \in Profiles : profiles'[q].truth = profiles[q].truth
    BY <2>1 DEF ProfileRow
  <2>3. QED
    BY <2>2 DEF NoApproval, Approved
<1>2. CASE UNCHANGED profiles
  BY <1>2 DEF NoApproval, Approved
<1>3. QED
  BY <1>1, <1>2 DEF StreamStep, StreamCheck, StreamMarkStale, StreamFail,
                    StreamFailed, StreamCancel, StreamEnd, storeVars

LEMMA TurnConsumes ==
  ASSUME TypeInv, OwnershipInv, NEW r \in Runs, TurnStep(r)
  PROVE  ApprovalConsumes
<1> DEFINE w == turn[r].work
<1> USE DEF TypeInv, StoreInv, StoreTypeOK
<1>1. CASE CommitWrite(r)
  <2>1. /\ w \in Work /\ w.profile \in Profiles
        /\ WorkSound(w) /\ w.id # 0
    BY <1>1, TurnProfileType DEF CommitWrite, InStep, OwnershipInv, TurnsSound
  <2>2. QED
    BY <1>1, <2>1, ApprovalConsumesOwn DEF CommitWrite
<1>2. CASE PublishExtraction(r)
  <2>1. profiles' = [profiles EXCEPT ![w.profile].doc = TRUE]
    BY <1>2 DEF PublishExtraction
  <2>2. \A q \in Profiles : profiles'[q].truth = profiles[q].truth
    BY <2>1 DEF ProfileRow
  <2>3. QED
    BY <2>2, NothingConsumed DEF NoApproval, Approved
<1>3. CASE MarkFailed(r)
  <2>1. profiles' = [profiles EXCEPT ![w.profile].cv = "failed"]
    BY <1>3 DEF MarkFailed, TurnProfile
  <2>2. \A q \in Profiles : profiles'[q].truth = profiles[q].truth
    BY <2>1 DEF ProfileRow
  <2>3. QED
    BY <2>2, NothingConsumed DEF NoApproval, Approved
<1>4. CASE MarkTurnFailed(r)
  <2>1. \A q \in Profiles : profiles'[q].truth = profiles[q].truth
    BY <1>4 DEF MarkTurnFailed, ProfileRow
  <2>2. QED
    BY <2>1, NothingConsumed DEF NoApproval, Approved
<1>5. CASE UNCHANGED profiles
  BY <1>5, NothingConsumed DEF NoApproval, Approved
<1>6. QED
  BY <1>1, <1>2, <1>3, <1>4, <1>5
     DEF TurnStep, BeginTurn, StartTurn, EndTurn, FailTurn, AbandonTurn, ToolFails,
         ReadUpdateBase, CheckUpdate, RefuseStaleUpdate, WriteUpdate, StartExtraction,
         CheckExtraction, FailExtraction, CaptureCommit, ResumeWithoutCommit,
         ResumeCommit, storeVars

LEMMA ClientConsumes ==
  ASSUME TypeInv, OwnershipInv, NEW c \in Clients, ClientStep(c)
  PROVE  ApprovalConsumes
<1> DEFINE w == client[c].work
<1> USE DEF TypeInv, StoreInv, StoreTypeOK
<1>1. CASE Approve(c)
  <2>1. /\ w \in Work /\ w.profile \in Profiles
        /\ WorkSound(w) /\ w.id # 0
    BY <1>1 DEF Approve, OnStep, RequestInv, RequestsAssigned, OwnershipInv,
                RequestsSound
  <2>2. QED
    BY <1>1, <2>1, ApprovalConsumesOwn DEF Approve
<1>2. CASE Discard(c) \/ Activate(c) \/ MarkDeleting(c) \/ CleanUp(c) \/ Retry(c)
  <2>1. \A q \in Profiles : profiles'[q].truth = profiles[q].truth
    <3>1. CASE Discard(c)
      BY <3>1 DEF Discard, DiscardWrites, ProfileRow
    <3>2. CASE Activate(c)
      BY <3>2 DEF Activate, ProfileRow
    <3>3. CASE MarkDeleting(c)
      BY <3>3 DEF MarkDeleting, BothDeleting, ProfileRow
    <3>4. CASE CleanUp(c)
      BY <3>4 DEF CleanUp, ProfileRow
    <3>5. CASE Retry(c)
      BY <3>5 DEF Retry, ProfileRow
    <3>6. QED
      BY <1>2, <3>1, <3>2, <3>3, <3>4, <3>5
  <2>2. QED
    BY <2>1, NothingConsumed DEF NoApproval, Approved
<1>3. CASE FinalizeDelete(c)
  <2>1. \A q \in Profiles : profiles'[q].truth \in {profiles[q].truth, 0}
    BY <1>3 DEF FinalizeDelete, NoRow, ProfileRow
  <2>2. QED
    BY <2>1, NothingConsumed DEF NoApproval, Approved
<1>4. CASE UNCHANGED profiles
  BY <1>4, NothingConsumed DEF NoApproval, Approved
<1>5. QED
  BY <1>1, <1>2, <1>3, <1>4
     DEF ClientStep, BeginApprove, BeginDiscard, BeginActivate, BeginDelete,
         BeginRetry, BeginFinalize, RequestFails, storeVars

\* The approved content of a profile changes in one step with the deletion of a
\* draft and of the review_ready operation that owns it: no replayed approval,
\* withdrawn operation, crash or other request rewrites it.
THEOREM ApprovalsConsume == Spec => TruthConsumesDraft
<1>1. TypeInv /\ OwnershipInv /\ [Next]_vars => [ApprovalConsumes]_vars
  <2> SUFFICES ASSUME TypeInv, OwnershipInv, Next
               PROVE  ApprovalConsumes
    OBVIOUS
  <2>1. ASSUME NEW o \in OperationIds, StreamWork(o)
        PROVE  ApprovalConsumes
    BY <2>1, StreamApprovesNothing, NothingConsumed DEF StreamWork
  <2>2. ASSUME NEW r \in Runs, TurnStep(r)
        PROVE  ApprovalConsumes
    BY <2>2, TurnConsumes
  <2>3. ASSUME NEW c \in Clients, ClientStep(c)
        PROVE  ApprovalConsumes
    BY <2>3, ClientConsumes
  <2>4. ASSUME NEW p \in Profiles, Upload(p) \/ Rename(p)
        PROVE  ApprovalConsumes
    <3>1. \A q \in Profiles : profiles'[q].truth \in {profiles[q].truth, 0}
      BY <2>4 DEF Upload, Rename, TypeInv, StoreInv, StoreTypeOK, ProfileRow
    <3>2. QED
      BY <3>1, NothingConsumed DEF NoApproval, Approved
  <2>5. CASE UNCHANGED profiles
    BY <2>5, NothingConsumed DEF NoApproval, Approved
  <2>6. QED
    BY <2>1, <2>2, <2>3, <2>4, <2>5
       DEF Next, Claim, ReadReview, StreamUnfinalized, StreamCutOff, Crash, Restart, storeVars
<1>2. QED
  BY <1>1, TypeInvCorrect, OwnershipCorrect, PTL DEF Spec, TruthConsumesDraft

-----------------------------------------------------------------------------
(***************************************************************************)
(* The review lifecycle implements the operation state machine of          *)
(* ReviewContract, for every number of profiles, operations, runs and      *)
(* requests in flight.  Ownership says which operation a step moves; what  *)
(* it does not say is that an approval changes the approved content: for   *)
(* that a draft has to be younger than the content it would replace, and   *)
(* what a session has read of a draft has to be as young as its row.       *)
(***************************************************************************)

ContentSound ==
    \A p \in Profiles :
        /\ profiles[p].truth <= clock
        /\ drafts[p].rev <= clock
        /\ drafts[p].id # 0 => /\ profiles[p].truth < drafts[p].id
                               /\ drafts[p].id <= drafts[p].rev
        /\ profiles[p].state = "unborn" => profiles[p].truth = 0

\* The revision a session has read is no older than the row it was read from.
ReadFresh(w) == w.id <= w.rev /\ w.rev <= clock

TurnsFresh ==
    \A r \in Runs : turn[r].pc = "committing" => ReadFresh(turn[r].work)

RequestsFresh ==
    \A c \in Clients : client[c].pc = "approving" => ReadFresh(client[c].work)

FreshInv == ContentSound /\ TurnsFresh /\ RequestsFresh

-----------------------------------------------------------------------------
(* What a step does to the content of a profile and to its draft *)

ContentStep(p) ==
    /\ \/ /\ profiles'[p].truth \in {profiles[p].truth, 0}
          /\ \/ drafts'[p] = drafts[p]
             \/ drafts'[p] = NoDraft
             \/ /\ clock' = clock + 1
                /\ drafts'[p].rev = clock + 1
                /\ drafts'[p].id = IF drafts[p].id = 0 THEN clock + 1
                                                       ELSE drafts[p].id
       \/ profiles'[p].truth <= clock /\ drafts'[p] = NoDraft
    /\ profiles'[p].state = "unborn" =>
         /\ profiles[p].state = "unborn"
         /\ profiles'[p].truth \in {profiles[p].truth, 0}

FreshStep == clock <= clock' /\ \A p \in Profiles : ContentStep(p)

\* The steps that leave drafts alone and replace no content.
Untouched ==
    \A p \in Profiles :
        /\ profiles'[p].truth = profiles[p].truth
        /\ profiles'[p].state = "unborn" => profiles[p].state = "unborn"

LEMMA UntouchedFresh ==
  ASSUME StoreInv, Untouched, UNCHANGED drafts, UNCHANGED clock \/ Stamp
  PROVE  FreshStep
  BY ClockKept DEF Untouched, FreshStep, ContentStep

LEMMA ContentKept ==
  ASSUME StoreInv, StoreInv', ContentSound, FreshStep
  PROVE  ContentSound'
<1> SUFFICES ASSUME NEW p \in Profiles
             PROVE  /\ profiles'[p].truth <= clock'
                    /\ drafts'[p].rev <= clock'
                    /\ drafts'[p].id # 0 => /\ profiles'[p].truth < drafts'[p].id
                                            /\ drafts'[p].id <= drafts'[p].rev
                    /\ profiles'[p].state = "unborn" => profiles'[p].truth = 0
  BY DEF ContentSound
<1> DEFINE old == profiles[p].truth
           new == profiles'[p].truth
<1>1. /\ clock \in Nat /\ clock' \in Nat /\ old \in Nat /\ new \in Nat
      /\ drafts[p].id \in Nat /\ drafts[p].rev \in Nat
      /\ drafts'[p].id \in Nat /\ drafts'[p].rev \in Nat
  BY StoreAssumption DEF StoreInv, StoreTypeOK, ProfileRow, DraftRow, Stamps
<1>2. /\ old <= clock
      /\ drafts[p].rev <= clock
      /\ drafts[p].id # 0 => old < drafts[p].id /\ drafts[p].id <= drafts[p].rev
      /\ profiles[p].state = "unborn" => old = 0
  BY DEF ContentSound
<1>3. ContentStep(p) /\ clock <= clock'
  BY DEF FreshStep
<1> HIDE DEF old, new
<1>4. profiles'[p].state = "unborn" => new = 0
  BY <1>2, <1>3 DEF ContentStep, old, new
<1>5. /\ new <= clock'
      /\ drafts'[p].rev <= clock'
      /\ drafts'[p].id # 0 => new < drafts'[p].id /\ drafts'[p].id <= drafts'[p].rev
  <2>1. CASE new \in {old, 0} /\ drafts'[p] = drafts[p]
    BY <1>1, <1>2, <1>3, <2>1
  <2>2. CASE new \in {old, 0} /\ drafts'[p] = NoDraft
    BY <1>1, <1>2, <1>3, <2>2 DEF NoDraft
  <2>3. CASE /\ new \in {old, 0}
             /\ clock' = clock + 1
             /\ drafts'[p].rev = clock + 1
             /\ drafts'[p].id = IF drafts[p].id = 0 THEN clock + 1 ELSE drafts[p].id
    BY <1>1, <1>2, <1>3, <2>3
  <2>4. CASE new <= clock /\ drafts'[p] = NoDraft
    BY <1>1, <1>3, <2>4 DEF NoDraft
  <2>5. QED
    BY <1>3, <2>1, <2>2, <2>3, <2>4 DEF ContentStep, old, new
<1>6. QED
  BY <1>4, <1>5 DEF old, new

LEMMA ReadKept ==
  ASSUME StoreInv, StoreInv', clock <= clock', NEW w \in Work, ReadFresh(w)
  PROVE  ReadFresh(w)'
  BY ClockType, StoreAssumption DEF ReadFresh, StoreInv, StoreTypeOK, Work, Stamps

\* A session that reads a draft for its approval.
LEMMA ApprovalReadFresh ==
  ASSUME TypeInv, ContentSound, OwnershipInv, NEW p \in Profiles, NEW o, NEW rev,
         ApprovalAdmissible(p, o, rev)
  PROVE  ReadFresh(ApprovalWork(p))
<1>1. ApprovalWork(p).id = drafts[p].id /\ ApprovalWork(p).rev = drafts[p].rev
  BY NoWorkType DEF ApprovalWork, Work
<1>2. drafts[p].id # 0
  BY DEF ApprovalAdmissible, HasDraft, OwnershipInv, DraftsSound
<1>3. QED
  BY <1>1, <1>2 DEF ReadFresh, ContentSound

LEMMA UpsertFresh ==
  ASSUME StoreInv, Untouched, NEW p \in Profiles, NEW id, NEW op, NEW sourced,
         UpsertHolds(p, id), drafts' = Upserted(p, id, op, sourced), Stamp
  PROVE  FreshStep
<1>1. clock <= clock'
  BY ClockKept
<1>2. ASSUME NEW q \in Profiles
      PROVE  ContentStep(q)
  <2>1. CASE q = p
    BY <2>1 DEF Untouched, ContentStep, UpsertHolds, Upserted, Stamp, StoreInv, StoreTypeOK
  <2>2. CASE q # p
    BY <2>2 DEF Untouched, ContentStep, Upserted, StoreInv, StoreTypeOK
  <2>3. QED
    BY <2>1, <2>2
<1>3. QED
  BY <1>1, <1>2 DEF FreshStep

\* What the approval of w does to the content of each profile.
LEMMA ApprovalContent ==
  ASSUME StoreInv, NEW w \in Work, w.profile \in Profiles, Exists(w.profile),
         ApprovalWrites(w)
  PROVE  /\ profiles'[w.profile].truth = w.rev
         /\ profiles'[w.profile].state # "unborn"
         /\ \A q \in Profiles \ {w.profile} :
              profiles'[q].truth = profiles[q].truth
              /\ profiles'[q].state = profiles[q].state
<1> USE DEF StoreInv, StoreTypeOK
<1>1. ASSUME NEW q \in Profiles \ {w.profile}
      PROVE  profiles'[q].truth = profiles[q].truth
             /\ profiles'[q].state = profiles[q].state
  BY DEF ApprovalWrites, ProfileRow
<1>2. profiles'[w.profile] = ApprovedRow(w)
  BY DEF ApprovalWrites
<1>3. ApprovedRow(w).truth = w.rev
  BY DEF ApprovedRow, ProfileRow
<1>4. ApprovedRow(w).state # "unborn"
  BY DEF ApprovedRow, ProfileRow, Exists, LiveProfileStates
<1>5. QED
  BY <1>1, <1>2, <1>3, <1>4

LEMMA ApprovalFresh ==
  ASSUME StoreInv, NEW w \in Work, w.profile \in Profiles, ReadFresh(w),
         ApprovalHolds(w), ApprovalWrites(w)
  PROVE  FreshStep
<1>1. clock <= clock'
  BY ClockKept DEF ApprovalWrites
<1>2. Exists(w.profile)
  BY DEF ApprovalHolds
<1>3. ASSUME NEW q \in Profiles
      PROVE  ContentStep(q)
  <2>1. CASE q = w.profile
    BY <1>2, <2>1, ApprovalContent
       DEF ContentStep, ApprovalWrites, ReadFresh, StoreInv, StoreTypeOK
  <2>2. CASE q # w.profile
    BY <1>2, <2>2, ApprovalContent DEF ContentStep, ApprovalWrites, StoreInv, StoreTypeOK
  <2>3. QED
    BY <2>1, <2>2
<1>4. QED
  BY <1>1, <1>3 DEF FreshStep

-----------------------------------------------------------------------------
(* Every step is fresh *)

LEMMA StreamFresh ==
  ASSUME TypeInv, OwnershipInv, NEW o \in OperationIds, StreamStep(o)
  PROVE  FreshStep
<1> USE DEF TypeInv, StoreInv, StoreTypeOK
<1>1. CASE StreamPublish(o)
  <2>1. Untouched
    BY <1>1 DEF StreamPublish, Untouched, ProfileRow
  <2>2. QED
    BY <1>1, <2>1, UpsertFresh DEF StreamPublish, OperationsAssigned
<1>2. CASE UNCHANGED <<profiles, drafts, clock>>
  BY <1>2, UntouchedFresh DEF Untouched
<1>3. QED
  BY <1>1, <1>2 DEF StreamStep, StreamCheck, StreamMarkStale, StreamFail,
                    StreamFailed, StreamCancel, StreamEnd, storeVars

LEMMA TurnFresh ==
  ASSUME TypeInv, OwnershipInv, FreshInv, NEW r \in Runs, TurnStep(r)
  PROVE  FreshStep
<1> DEFINE w == turn[r].work
<1> USE DEF TypeInv, StoreInv, StoreTypeOK, InStep
<1>1. w \in Work /\ (turn[r].pc \notin {"idle", "lost"} => w.profile \in Profiles)
  BY TurnProfileType
<1>2. CASE WriteUpdate(r)
  <2>1. Untouched
    BY <1>2 DEF WriteUpdate, Untouched
  <2>2. QED
    BY <1>1, <1>2, <2>1, UpsertFresh DEF WriteUpdate
<1>3. CASE PublishExtraction(r)
  <2>1. Untouched
    BY <1>3 DEF PublishExtraction, Untouched, ProfileRow
  <2>2. QED
    BY <1>1, <1>3, <2>1, UpsertFresh DEF PublishExtraction
<1>4. CASE CommitWrite(r)
  BY <1>1, <1>4, ApprovalFresh DEF CommitWrite, FreshInv, TurnsFresh
<1>5. CASE MarkFailed(r) \/ MarkTurnFailed(r)
  <2>1. Untouched
    BY <1>5 DEF MarkFailed, MarkTurnFailed, Untouched, ProfileRow
  <2>2. QED
    BY <1>5, <2>1, UntouchedFresh DEF MarkFailed, MarkTurnFailed
<1>6. CASE UNCHANGED <<profiles, drafts, clock>>
  BY <1>6, UntouchedFresh DEF Untouched
<1>7. QED
  BY <1>2, <1>3, <1>4, <1>5, <1>6
     DEF TurnStep, BeginTurn, StartTurn, EndTurn, FailTurn, AbandonTurn, ToolFails,
         ReadUpdateBase, CheckUpdate, RefuseStaleUpdate, StartExtraction,
         CheckExtraction, FailExtraction, CaptureCommit, ResumeWithoutCommit,
         ResumeCommit, storeVars

LEMMA DeletionFresh ==
  ASSUME StoreInv, NEW p \in Profiles,
         drafts' = [drafts EXCEPT ![p] = NoDraft], Stamp,
         profiles'[p] = NoRow("gone"),
         \A q \in Profiles \ {p} : /\ profiles'[q].truth = profiles[q].truth
                                   /\ profiles'[q].state = profiles[q].state
  PROVE  FreshStep
<1>1. clock <= clock'
  BY ClockKept
<1>2. ASSUME NEW q \in Profiles
      PROVE  ContentStep(q)
  BY <1>1 DEF ContentStep, NoRow, StoreInv, StoreTypeOK
<1>3. QED
  BY <1>1, <1>2 DEF FreshStep

LEMMA FinalizeContent ==
  ASSUME TypeInv, NEW c \in Clients, FinalizeDelete(c)
  PROVE  LET p == client[c].work.profile
         IN /\ p \in Profiles
            /\ profiles'[p] = NoRow("gone")
            /\ \A q \in Profiles \ {p} : /\ profiles'[q].truth = profiles[q].truth
                                         /\ profiles'[q].state = profiles[q].state
<1> DEFINE p == client[c].work.profile
<1>1. p \in Profiles
  BY DEF FinalizeDelete, OnStep, TypeInv, RequestInv, RequestsAssigned
<1>2. profiles'[p] = NoRow("gone")
  BY <1>1 DEF FinalizeDelete
<1>3. ASSUME NEW q \in Profiles \ {p}
      PROVE  profiles'[q].truth = profiles[q].truth
             /\ profiles'[q].state = profiles[q].state
  BY DEF FinalizeDelete, TypeInv, StoreInv, StoreTypeOK, ProfileRow
<1>4. QED
  BY <1>1, <1>2, <1>3

LEMMA ClientFresh ==
  ASSUME TypeInv, OwnershipInv, FreshInv, NEW c \in Clients, ClientStep(c)
  PROVE  FreshStep
<1> DEFINE w == client[c].work
<1> USE DEF TypeInv, StoreInv, StoreTypeOK, OnStep
<1>1. w \in Work /\ (client[c].pc # "idle" => w.profile \in Profiles)
  BY DEF RequestInv, RequestsAssigned
<1>2. CASE Approve(c)
  BY <1>1, <1>2, ApprovalFresh DEF Approve, FreshInv, RequestsFresh
<1>3. CASE Discard(c)
  <2>1. Untouched
    BY <1>3 DEF Discard, DiscardWrites, Untouched, ProfileRow
  <2>2. ASSUME NEW q \in Profiles
        PROVE  drafts'[q] = drafts[q] \/ drafts'[q] = NoDraft
    BY <1>3 DEF Discard, DiscardWrites, DeletedByKey
  <2>3. clock <= clock'
    BY <1>3, ClockKept DEF Discard, DiscardWrites
  <2>4. QED
    BY <2>1, <2>2, <2>3 DEF Untouched, FreshStep, ContentStep
<1>4. CASE FinalizeDelete(c)
  BY <1>1, <1>4, FinalizeContent, DeletionFresh DEF FinalizeDelete
<1>5. CASE Activate(c) \/ MarkDeleting(c) \/ CleanUp(c) \/ Retry(c)
  <2>1. Untouched
    <3>1. CASE Activate(c)
      BY <3>1 DEF Activate, Untouched, ProfileRow
    <3>2. CASE MarkDeleting(c)
      BY <3>2 DEF MarkDeleting, BothDeleting, Untouched, ProfileRow
    <3>3. CASE CleanUp(c)
      BY <3>3 DEF CleanUp, Untouched, ProfileRow
    <3>4. CASE Retry(c)
      BY <3>4 DEF Retry, Untouched, ProfileRow
    <3>5. QED
      BY <1>5, <3>1, <3>2, <3>3, <3>4
  <2>2. UNCHANGED drafts /\ (UNCHANGED clock \/ Stamp)
    BY <1>5 DEF Activate, MarkDeleting, CleanUp, Retry
  <2>3. QED
    BY <2>1, <2>2, UntouchedFresh
<1>6. CASE UNCHANGED <<profiles, drafts, clock>>
  BY <1>6, UntouchedFresh DEF Untouched
<1>7. QED
  BY <1>2, <1>3, <1>4, <1>5, <1>6
     DEF ClientStep, BeginApprove, BeginDiscard, BeginActivate, BeginDelete,
         BeginRetry, BeginFinalize, RequestFails, storeVars

\* An upload gives a profile its first row, with no approved content.
LEMMA UploadFresh ==
  ASSUME TypeInv, NEW p \in Profiles, Upload(p)
  PROVE  FreshStep
<1> USE DEF TypeInv, StoreInv, StoreTypeOK
<1>1. clock <= clock'
  BY ClockKept DEF Upload
<1>2. ASSUME NEW q \in Profiles
      PROVE  ContentStep(q)
  BY DEF Upload, ContentStep
<1>3. QED
  BY <1>1, <1>2 DEF FreshStep

LEMMA RenameFresh ==
  ASSUME TypeInv, NEW p \in Profiles, Rename(p)
  PROVE  FreshStep
<1> USE DEF TypeInv, StoreInv, StoreTypeOK
<1>1. Untouched
  BY DEF Rename, Untouched, ProfileRow
<1>2. QED
  BY <1>1, UntouchedFresh DEF Rename

LEMMA EveryStepFresh ==
  ASSUME TypeInv, OwnershipInv, FreshInv, [Next]_vars
  PROVE  FreshStep
<1>1. CASE UNCHANGED <<profiles, drafts, clock>>
  BY <1>1, UntouchedFresh DEF Untouched, TypeInv
<1>2. QED
  BY <1>1, StreamFresh, TurnFresh, ClientFresh, UploadFresh, RenameFresh
     DEF Next, StreamWork, Claim, ReadReview, StreamUnfinalized, StreamCutOff, Crash,
         Restart, vars, storeVars

-----------------------------------------------------------------------------
(* What sessions have read stays fresh *)

LEMMA TurnReads ==
  ASSUME TypeInv, StoreInv', OwnershipInv, FreshInv, FreshStep,
         NEW r \in Runs, TurnStep(r)
  PROVE  TurnsFresh'
<1> USE DEF TypeInv, InStep
<1>1. ASSUME NEW pc, NEW v, NextStep(r, pc, v), pc = "committing" => ReadFresh(v)'
      PROVE  TurnsFresh'
  <2>1. turn'[r].pc = pc /\ turn'[r].work = v
    BY <1>1 DEF NextStep, TurnInv, TurnTypeOK
  <2>2. \A q \in Runs \ {r} : turn'[q] = turn[q]
    BY <1>1 DEF NextStep, TurnInv, TurnTypeOK
  <2>3. ASSUME NEW q \in Runs \ {r}, turn[q].pc = "committing"
        PROVE  ReadFresh(turn[q].work)'
    <3>1. turn[q].work \in Work /\ ReadFresh(turn[q].work)
      BY <2>3 DEF FreshInv, TurnsFresh, TurnInv, TurnTypeOK
    <3>2. turn'[q].work = turn[q].work
      BY <2>2
    <3>3. QED
      BY <3>1, <3>2, ReadKept DEF FreshStep, ReadFresh
  <2>4. QED
    BY <1>1, <2>1, <2>2, <2>3 DEF TurnsFresh
<1>2. CASE ResumeCommit(r)
  <2> DEFINE p == turn[r].work.profile
  <2> PICK v : v = ApprovalWork(p)
    OBVIOUS
  <2>1. p \in Profiles
    BY <1>2, TurnProfileType DEF ResumeCommit
  <2>2. v \in Work
    BY <1>2, <2>1, ApprovalWorkType DEF ResumeCommit, StoreInv
  <2>3. ReadFresh(v)
    BY <1>2, <2>1, ApprovalReadFresh DEF ResumeCommit, FreshInv
  <2>4. ReadFresh(v)'
    BY <2>2, <2>3, ReadKept DEF FreshStep
  <2>5. NextStep(r, "committing", v)
    BY <1>2 DEF ResumeCommit
  <2>6. QED
    BY <1>1, <2>4, <2>5
<1>3. CASE ~ ResumeCommit(r)
  BY <1>1, <1>3
     DEF TurnStep, BeginTurn, StartTurn, EndTurn, FailTurn, MarkTurnFailed,
         AbandonTurn, ToolFails, ReadUpdateBase, CheckUpdate, RefuseStaleUpdate,
         WriteUpdate, StartExtraction, CheckExtraction, PublishExtraction,
         FailExtraction, MarkFailed, CaptureCommit, ResumeWithoutCommit, CommitWrite,
         Resumed
<1>4. QED
  BY <1>2, <1>3

LEMMA RequestReads ==
  ASSUME TypeInv, StoreInv', OwnershipInv, FreshInv, FreshStep,
         NEW c \in Clients, ClientStep(c)
  PROVE  RequestsFresh'
<1> USE DEF TypeInv
<1>1. ASSUME NEW pc, NEW v, Request(c, pc, v), pc = "approving" => ReadFresh(v)'
      PROVE  RequestsFresh'
  <2>1. client'[c].pc = pc /\ client'[c].work = v
    BY <1>1 DEF Request, RequestInv
  <2>2. \A d \in Clients \ {c} : client'[d] = client[d]
    BY <1>1 DEF Request, RequestInv
  <2>3. ASSUME NEW d \in Clients \ {c}, client[d].pc = "approving"
        PROVE  ReadFresh(client[d].work)'
    <3>1. client[d].work \in Work /\ ReadFresh(client[d].work)
      BY <2>3 DEF FreshInv, RequestsFresh, RequestInv
    <3>2. client'[d].work = client[d].work
      BY <2>2
    <3>3. QED
      BY <3>1, <3>2, ReadKept DEF FreshStep, ReadFresh
  <2>4. QED
    BY <1>1, <2>1, <2>2, <2>3 DEF RequestsFresh
<1>2. ASSUME NEW p \in Profiles, BeginApprove(c, p)
      PROVE  RequestsFresh'
  <2> PICK v : v = ApprovalWork(p)
    OBVIOUS
  <2>1. v \in Work
    BY <1>2, ApprovalWorkType DEF BeginApprove, StoreInv
  <2>2. ReadFresh(v)
    BY <1>2, ApprovalReadFresh DEF BeginApprove, FreshInv
  <2>3. ReadFresh(v)'
    BY <2>1, <2>2, ReadKept DEF FreshStep
  <2>4. Request(c, "approving", v)
    BY <1>2 DEF BeginApprove
  <2>5. QED
    BY <1>1, <2>3, <2>4
<1>3. QED
  BY <1>1, <1>2
     DEF ClientStep, BeginDiscard, BeginActivate, BeginDelete, BeginRetry, Approve,
         Discard, Activate, MarkDeleting, CleanUp, BeginFinalize, FinalizeDelete,
         Retry, RequestFails, Respond

LEMMA TurnReadsKept ==
  ASSUME TypeInv, StoreInv', FreshInv, FreshStep, UNCHANGED turn
  PROVE  TurnsFresh'
<1>1. ASSUME NEW r \in Runs, turn[r].pc = "committing"
      PROVE  ReadFresh(turn[r].work)'
  <2>1. turn[r].work \in Work /\ ReadFresh(turn[r].work)
    BY <1>1 DEF FreshInv, TurnsFresh, TypeInv, TurnInv, TurnTypeOK
  <2>2. QED
    BY <2>1, ReadKept DEF FreshStep, TypeInv, ReadFresh
<1>2. QED
  BY <1>1 DEF TurnsFresh

LEMMA RequestReadsKept ==
  ASSUME TypeInv, StoreInv', FreshInv, FreshStep, UNCHANGED client
  PROVE  RequestsFresh'
<1>1. ASSUME NEW c \in Clients, client[c].pc = "approving"
      PROVE  ReadFresh(client[c].work)'
  <2>1. client[c].work \in Work /\ ReadFresh(client[c].work)
    BY <1>1 DEF FreshInv, RequestsFresh, TypeInv, RequestInv
  <2>2. QED
    BY <2>1, ReadKept DEF FreshStep, TypeInv, ReadFresh
<1>2. QED
  BY <1>1 DEF RequestsFresh

LEMMA CrashReads ==
  ASSUME TypeInv, StoreInv', FreshInv, FreshStep, Crash
  PROVE  TurnsFresh' /\ RequestsFresh'
<1>1. ASSUME NEW r \in Runs
      PROVE  turn'[r].pc # "committing"
  BY DEF Crash, TurnsAfterCrash
<1>2. QED
  BY <1>1 DEF Crash, TurnsFresh, RequestsFresh

LEMMA FreshInit == Init => FreshInv
<1> SUFFICES ASSUME Init PROVE FreshInv
  OBVIOUS
<1>1. ASSUME NEW p \in Profiles
      PROVE  /\ profiles[p].truth \in {0, 1} /\ clock = 1
             /\ drafts[p].rev = 0 /\ drafts[p].id = 0
             /\ profiles[p].state = "unborn" => profiles[p].truth = 0
  BY DEF Init, StoreInit, NoRow, NoDraft
<1>2. QED
  BY <1>1 DEF Init, TurnInit, FreshInv, ContentSound, TurnsFresh, RequestsFresh

LEMMA FreshNext ==
  TypeInv /\ TypeInv' /\ OwnershipInv /\ FreshInv /\ [Next]_vars => FreshInv'
<1> SUFFICES ASSUME TypeInv, TypeInv', OwnershipInv, FreshInv, [Next]_vars
             PROVE  FreshInv'
  OBVIOUS
<1>1. StoreInv' /\ FreshStep
  BY EveryStepFresh DEF TypeInv
<1>2. ContentSound'
  BY <1>1, ContentKept DEF TypeInv, FreshInv
<1>3. TurnsFresh' /\ RequestsFresh'
  <2>1. CASE UNCHANGED <<turn, client>>
    BY <1>1, <2>1, TurnReadsKept, RequestReadsKept
  <2>2. CASE Crash
    BY <1>1, <2>2, CrashReads
  <2>3. ASSUME NEW r \in Runs, TurnStep(r), UNCHANGED client
        PROVE  TurnsFresh' /\ RequestsFresh'
    BY <1>1, <2>3, TurnReads, RequestReadsKept
  <2>4. ASSUME NEW c \in Clients, ClientStep(c), UNCHANGED turn
        PROVE  TurnsFresh' /\ RequestsFresh'
    BY <1>1, <2>4, RequestReads, TurnReadsKept
  <2>5. QED
    BY <2>1, <2>2, <2>3, <2>4 DEF Next, StreamWork, Upload, Rename, Restart, vars
<1>4. QED
  BY <1>2, <1>3 DEF FreshInv

LEMMA FreshCorrect == Spec => []FreshInv
<1>1. Init => FreshInv
  BY FreshInit
<1>2. TypeInv /\ TypeInv' /\ OwnershipInv /\ FreshInv /\ [Next]_vars => FreshInv'
  BY FreshNext
<1>3. QED
  BY <1>1, <1>2, TypeInvCorrect, OwnershipCorrect, PTL DEF Spec

-----------------------------------------------------------------------------
(* The steps of the lifecycle as steps of the contract *)

PhaseMap == [o \in OperationIds |-> Phase(o)]
OwnerMap == [o \in OperationIds |-> operations[o].profile]
TruthMap == [p \in Profiles |-> profiles[p].truth]

ContractStep == [Contract!Next]_(Contract!contractVars)

SameTruth == \A p \in Profiles : profiles'[p].truth = profiles[p].truth

\* The contract cannot tell that the operation o has moved.
SameOperation(o) ==
    /\ operations'[o].state = operations[o].state
    /\ operations'[o].profile = operations[o].profile
    /\ stream'[o] = "unused" <=> stream[o] = "unused"

Dropped(o) ==
    /\ operations'[o] = NoOperationRow
    /\ stream'[o] # "unused"

LEMMA SamePhase ==
  ASSUME NEW o \in OperationIds, SameOperation(o)
  PROVE  Phase(o)' = Phase(o)
  BY DEF SameOperation, Phase, At

LEMMA DroppedPhase ==
  ASSUME NEW o \in OperationIds, Dropped(o)
  PROVE  Phase(o)' = "closed" /\ operations'[o].profile = NoProfile
  BY DEF Dropped, Phase, At, NoOperationRow, TerminalStates

LEMMA PhaseOf ==
  ASSUME NEW o \in OperationIds
  PROVE  /\ operations[o].state = "running" <=> Phase(o) = "working"
         /\ operations[o].state = "review_ready" <=> Phase(o) = "offered"
         /\ operations[o].state \in TerminalStates <=> Phase(o) = "withdrawn"
  BY DEF Phase, TerminalStates

LEMMA TruthKept ==
  ASSUME SameTruth
  PROVE  TruthMap' = TruthMap
  BY DEF SameTruth, TruthMap

LEMMA ContractStutters ==
  ASSUME SameTruth, \A o \in OperationIds : SameOperation(o)
  PROVE  ContractStep
<1>1. TruthMap' = TruthMap
  BY TruthKept
<1>2. PhaseMap' = PhaseMap
  BY SamePhase DEF PhaseMap
<1>3. OwnerMap' = OwnerMap
  BY DEF OwnerMap, SameOperation
<1>4. QED
  BY <1>1, <1>2, <1>3 DEF ContractStep, Contract!contractVars, PhaseMap, OwnerMap, TruthMap

\* The operations of a set are dropped, the others stay.
LEMMA OperationsDropped ==
  ASSUME NEW gone \in SUBSET OperationIds,
         \A o \in gone : Dropped(o),
         \A o \in OperationIds \ gone : SameOperation(o)
  PROVE  Contract!Closed(gone)
<1>1. PhaseMap' = [o \in OperationIds |-> IF o \in gone THEN "closed" ELSE PhaseMap[o]]
  BY SamePhase, DroppedPhase DEF PhaseMap
<1>2. OwnerMap' = [o \in OperationIds |-> IF o \in gone THEN NoProfile ELSE OwnerMap[o]]
  BY DroppedPhase DEF OwnerMap, SameOperation
<1>3. QED
  BY <1>1, <1>2 DEF Contract!Closed, PhaseMap, OwnerMap

\* Operations of a set are withdrawn, the others stay.
LEMMA OperationsWithdrawn ==
  ASSUME NEW ops \in SUBSET OperationIds,
         \A o \in ops : /\ operations[o].state \in ActionableStates
                        /\ operations'[o].state \in TerminalStates
                        /\ operations'[o].profile = operations[o].profile,
         \A o \in OperationIds \ ops : SameOperation(o),
         SameTruth
  PROVE  ContractStep
<1>1. CASE ops = {}
  BY <1>1, ContractStutters
<1>2. CASE ops # {}
  <2>1. \A o \in ops : Contract!Open(o)
    BY PhaseOf DEF Contract!Open, ActionableStates
  <2>2. \A o \in ops : Phase(o)' = "withdrawn"
    BY DEF Phase, TerminalStates
  <2>3. PhaseMap' =
          [o \in OperationIds |-> IF o \in ops THEN "withdrawn" ELSE PhaseMap[o]]
    BY <2>2, SamePhase DEF PhaseMap
  <2>4. OwnerMap' = OwnerMap
    BY DEF OwnerMap, SameOperation
  <2>5. TruthMap' = TruthMap
    BY TruthKept
  <2>6. Contract!Withdraw(ops)
    BY <1>2, <2>1, <2>3, <2>4, <2>5 DEF Contract!Withdraw, PhaseMap, OwnerMap, TruthMap
  <2>7. QED
    BY <2>6 DEF ContractStep, Contract!Next
<1>3. QED
  BY <1>1, <1>2

LEMMA TransitionWithdraws ==
  ASSUME TypeInv, NEW o \in OperationIds, NEW to \in TerminalStates,
         TransitionRunning(o, to), SameTruth,
         \A q \in OperationIds : stream'[q] = "unused" <=> stream[q] = "unused"
  PROVE  ContractStep
<1> DEFINE ops == IF operations[o].state = "running" THEN {o} ELSE {}
<1>1. \A q \in ops : /\ operations[q].state \in ActionableStates
                     /\ operations'[q].state \in TerminalStates
                     /\ operations'[q].profile = operations[q].profile
  BY DEF TransitionRunning, TypeInv, StoreInv, StoreTypeOK, OperationRow, ActionableStates
<1>2. \A q \in OperationIds \ ops : SameOperation(q)
  BY DEF TransitionRunning, SameOperation, TypeInv, StoreInv, StoreTypeOK, OperationRow
<1>3. ops \in SUBSET OperationIds
  OBVIOUS
<1> HIDE DEF ops
<1>4. QED
  BY <1>1, <1>2, <1>3, OperationsWithdrawn

LEMMA ReconciliationWithdraws ==
  ASSUME TypeInv, NEW o \in OperationIds, operations' = Reconciled(o), SameTruth,
         UNCHANGED stream
  PROVE  ContractStep
<1> DEFINE ops == IF ReviewOutdated(o) THEN {o} ELSE {}
<1>1. \A q \in ops : /\ operations[q].state \in ActionableStates
                     /\ operations'[q].state \in TerminalStates
                     /\ operations'[q].profile = operations[q].profile
  BY DEF Reconciled, ReviewOutdated, TypeInv, StoreInv, StoreTypeOK, OperationRow,
         ActionableStates, TerminalStates
<1>2. \A q \in OperationIds \ ops : SameOperation(q)
  BY DEF Reconciled, SameOperation, TypeInv, StoreInv, StoreTypeOK, OperationRow
<1>3. ops \in SUBSET OperationIds
  OBVIOUS
<1> HIDE DEF ops
<1>4. QED
  BY <1>1, <1>2, <1>3, OperationsWithdrawn

LEMMA RestartWithdraws ==
  ASSUME TypeInv, Restart
  PROVE  ContractStep
<1> DEFINE ops == {o \in OperationIds : operations[o].state = "running"}
<1>1. \A q \in ops : /\ operations[q].state \in ActionableStates
                     /\ operations'[q].state \in TerminalStates
                     /\ operations'[q].profile = operations[q].profile
  BY DEF Restart, RecoverRunning, TypeInv, StoreInv, StoreTypeOK, OperationRow,
         ActionableStates, TerminalStates
<1>2. \A q \in OperationIds \ ops : SameOperation(q)
  BY DEF Restart, RecoverRunning, SameOperation
<1>3. SameTruth
  BY DEF Restart, SameTruth
<1>4. QED
  BY <1>1, <1>2, <1>3, OperationsWithdrawn

\* An operation that has a row has had a stream.
LEMMA RowHasStream ==
  ASSUME OwnershipInv, NEW o \in OperationIds
  PROVE  /\ operations[o].state # "none" => stream[o] # "unused"
         /\ operations[o].state = "none" => operations[o].profile = NoProfile
  BY DEF OwnershipInv, StreamsSound

\* A claim drops what the profile has left over, all of it withdrawn.
LEMMA ClaimRefines ==
  ASSUME TypeInv, OwnershipInv, NEW p \in Profiles, NEW o \in OperationIds, Claim(p, o)
  PROVE  Contract!Claim(p, o)
<1> USE DEF TypeInv, StoreInv, StoreTypeOK, StreamTypeOK, At
<1>1. operations[o].state = "none" /\ operations[o].profile = NoProfile
  BY RowHasStream DEF Claim
<1>2. \A q \in OperationIds :
        operations[q].profile = p => operations[q].state \in TerminalStates
  <2>1. ASSUME NEW q \in OperationIds, operations[q].profile = p
        PROVE  operations[q].state \in TerminalStates
    <3>1. operations[q].state \notin ActionableStates
      BY <2>1 DEF Claim, ClaimAllowed, Actionable
    <3>2. operations[q].state # "none"
      BY <2>1, RowHasStream, StoreAssumption
    <3>3. QED
      BY <3>1, <3>2 DEF OperationRow, OperationStates
  <2>2. QED
    BY <2>1
<1>3. Purgeable(p) = {q \in OperationIds : operations[q].profile = p}
  <2>1. ASSUME NEW q \in OperationIds, operations[q].profile = p,
               NEW r \in Profiles, OwnedDraft(r, q)
        PROVE  FALSE
    <3>1. r = p
      BY <2>1 DEF OwnershipInv, Owned, DraftHasOwner
    <3>2. QED
      BY <2>1, <3>1 DEF Claim, ClaimAllowed
  <2>2. QED
    BY <1>2, <2>1 DEF Purgeable
<1>4. \A q \in OperationIds : q \in Purgeable(p) => q # o /\ Dropped(q)
  <2>1. ASSUME NEW q \in Purgeable(p)
        PROVE  q # o /\ Dropped(q)
    <3>1. q \in OperationIds /\ q # o
      BY <1>1, <1>3, StoreAssumption
    <3>2. stream[q] # "unused"
      BY <1>2, <1>3, <3>1, RowHasStream DEF TerminalStates
    <3>3. QED
      BY <3>1, <3>2 DEF Claim, Goto, WithoutOperations, Dropped
  <2>2. QED
    BY <2>1
<1>5. \A q \in OperationIds : q # o /\ q \notin Purgeable(p) => SameOperation(q)
  BY DEF Claim, Goto, WithoutOperations, SameOperation
<1>6. operations'[o].state = "running" /\ operations'[o].profile = p
  BY DEF Claim, WithoutOperations
<1>7. Phase(o) = "idle" /\ Phase(o)' = "working"
  BY <1>1, <1>6 DEF Phase, Claim, TerminalStates
<1>8. Contract!Of(p) = Purgeable(p)
  BY <1>3 DEF Contract!Of
<1>9. \A q \in Contract!Of(p) : ~ Contract!Open(q)
  BY <1>2, <1>3, <1>8, PhaseOf DEF Contract!Open
<1>10. PhaseMap' = [q \in OperationIds |->
          IF q = o THEN "working" ELSE IF q \in Purgeable(p) THEN "closed" ELSE PhaseMap[q]]
  BY <1>4, <1>5, <1>7, SamePhase, DroppedPhase DEF PhaseMap
<1>11. OwnerMap' = [q \in OperationIds |->
          IF q = o THEN p ELSE IF q \in Purgeable(p) THEN NoProfile ELSE OwnerMap[q]]
  BY <1>4, <1>5, <1>6, DroppedPhase DEF OwnerMap, SameOperation
<1>12. TruthMap' = TruthMap
  BY DEF Claim, TruthMap
<1>13. QED
  BY <1>7, <1>8, <1>9, <1>10, <1>11, <1>12
     DEF Contract!Claim, PhaseMap, OwnerMap, TruthMap

LEMMA PublishRefines ==
  ASSUME TypeInv, OwnershipInv, NEW o \in OperationIds, StreamPublish(o)
  PROVE  Contract!Offer(o)
<1> USE DEF TypeInv, StoreInv, StoreTypeOK, StreamTypeOK, At
<1>1. /\ operations[o].state = "running"
      /\ operations'[o].state = "review_ready"
      /\ operations'[o].profile = operations[o].profile
  BY DEF StreamPublish, TransitionRunning, OperationRow
<1>2. \A q \in OperationIds \ {o} : SameOperation(q)
  BY DEF StreamPublish, TransitionRunning, SameOperation, Goto
<1>3. PhaseMap' = [PhaseMap EXCEPT ![o] = "offered"]
  <2>1. Phase(o)' = "offered"
    BY <1>1 DEF Phase, TerminalStates
  <2>2. QED
    BY <1>2, <2>1, SamePhase DEF PhaseMap
<1>4. OwnerMap' = OwnerMap
  BY <1>1, <1>2 DEF OwnerMap, SameOperation
<1>5. TruthMap' = TruthMap
  BY DEF StreamPublish, TruthMap, ProfileRow
<1>6. QED
  BY <1>1, <1>3, <1>4, <1>5, PhaseOf DEF Contract!Offer, PhaseMap, OwnerMap, TruthMap

\* The approval of a review closes its operation and rewrites its profile.
LEMMA ApprovalRewrites ==
  ASSUME TypeInv, TypeInv', FreshInv, NEW w \in Work, w.profile \in Profiles,
         w.id # 0, ReadFresh(w), ApprovalHolds(w), ApprovalWrites(w)
  PROVE  Contract!Rewritten(w.profile)
<1> DEFINE p == w.profile
<1>1. Exists(p) /\ drafts[p].id = w.id
  BY DEF ApprovalHolds
<1>2. /\ TruthMap'[p] = w.rev
      /\ \A q \in Profiles \ {p} : TruthMap'[q] = TruthMap[q]
  BY <1>1, ApprovalContent DEF TypeInv, TruthMap
<1>3. TruthMap[p] < w.id /\ w.id <= w.rev
  BY <1>1 DEF FreshInv, ContentSound, ReadFresh, TruthMap
<1>4. TruthMap[p] \in Nat /\ w.id \in Nat /\ w.rev \in Nat
  BY StoreAssumption DEF TruthMap, TypeInv, StoreInv, StoreTypeOK, ProfileRow, Work, Stamps
<1>5. TruthMap' \in [Profiles -> Nat]
  BY StoreAssumption DEF TruthMap, TypeInv, StoreInv, StoreTypeOK, ProfileRow, Stamps
<1>6. TruthMap'[p] # TruthMap[p]
  BY <1>2, <1>3, <1>4
<1>7. QED
  BY <1>2, <1>5, <1>6 DEF Contract!Rewritten, TruthMap

LEMMA ApprovalRefines ==
  ASSUME TypeInv, TypeInv', OwnershipInv, FreshInv, NEW w \in Work,
         w.profile \in Profiles, WorkSound(w), w.id # 0, ReadFresh(w),
         ApprovalHolds(w), ApprovalWrites(w), UNCHANGED stream
  PROVE  ContractStep
<1> DEFINE p == w.profile
           o == w.op
<1> USE DEF TypeInv, StoreInv, StoreTypeOK
<1>1. Contract!Rewritten(p)
  BY ApprovalRewrites
<1>2. CASE o = NoOperation
  <2>1. \A q \in OperationIds : SameOperation(q)
    BY <1>2 DEF ApprovalWrites, SameOperation
  <2>2. PhaseMap' = PhaseMap /\ OwnerMap' = OwnerMap
    BY <2>1, SamePhase DEF PhaseMap, OwnerMap, SameOperation
  <2>3. ASSUME NEW q \in Contract!Of(p)
        PROVE  Phase(q) # "offered"
    <3>1. q \in OperationIds /\ operations[q].profile = p
      BY DEF Contract!Of
    <3>2. drafts[p].op = NoOperation
      BY <1>2 DEF ApprovalHolds, WorkSound
    <3>3. operations[q].state # "review_ready"
      BY <3>1, <3>2, StoreAssumption
         DEF OwnershipInv, Owned, ReviewHasDraft, OwnedDraft
    <3>4. QED
      BY <3>1, <3>3, PhaseOf
  <2>4. Contract!Revise(p)
    BY <1>1, <2>2, <2>3 DEF Contract!Revise, Contract!Of, PhaseMap, OwnerMap
  <2>5. QED
    BY <2>4 DEF ContractStep, Contract!Next
<1>3. CASE o # NoOperation
  <2>1. /\ o \in OperationIds
        /\ operations[o].state = "review_ready"
        /\ operations[o].profile = p
    BY <1>3 DEF Work, ApprovalHolds, WorkSound
  <2>2. Phase(o) = "offered" /\ stream[o] # "unused"
    BY <2>1, PhaseOf, RowHasStream
  <2>3. Dropped(o)
    BY <1>3, <2>1, <2>2 DEF ApprovalWrites, Dropped
  <2>4. \A q \in OperationIds \ {o} : SameOperation(q)
    BY <1>3, <2>1 DEF ApprovalWrites, SameOperation
  <2>5. Contract!Closed({o})
    BY <2>1, <2>3, <2>4, OperationsDropped
  <2>6. Contract!Approve(o)
    BY <1>1, <2>1, <2>2, <2>5 DEF Contract!Approve, Contract!Rewritten
  <2>7. QED
    BY <2>1, <2>6 DEF ContractStep, Contract!Next
<1>4. QED
  BY <1>2, <1>3

LEMMA DiscardRefines ==
  ASSUME TypeInv, OwnershipInv, NEW w \in Work, w.profile \in Profiles,
         DiscardHolds(w), DiscardWrites(w), UNCHANGED stream
  PROVE  ContractStep
<1> DEFINE o == w.op
<1> USE DEF TypeInv, StoreInv, StoreTypeOK
<1>1. SameTruth
  BY DEF DiscardWrites, SameTruth, ProfileRow
<1>2. CASE o = NoOperation
  <2>1. \A q \in OperationIds : SameOperation(q)
    BY <1>2 DEF DiscardWrites, SameOperation
  <2>2. QED
    BY <1>1, <2>1, ContractStutters
<1>3. CASE o # NoOperation
  <2>1. o \in OperationIds
    BY <1>3 DEF Work
  <2>2. operations[o].state \in {"review_ready", "stale"}
    <3>1. operations[o].state \in OperationStates /\ w.mode \in Modes
      BY <2>1 DEF OperationRow, Work
    <3>2. operations[o].state \in {w.mode, "review_ready"}
      BY <1>3 DEF DiscardHolds
    <3>3. QED
      BY <3>1, <3>2 DEF OperationStates, TerminalStates, ActionableStates, Modes
  <2>3. Phase(o) \in {"offered", "withdrawn"} /\ stream[o] # "unused"
    BY <2>1, <2>2, PhaseOf, RowHasStream DEF TerminalStates
  <2>4. Dropped(o)
    BY <1>3, <2>1, <2>3 DEF DiscardWrites, Dropped
  <2>5. \A q \in OperationIds \ {o} : SameOperation(q)
    BY <1>3, <2>1 DEF DiscardWrites, SameOperation
  <2>6. Contract!Closed({o})
    BY <2>1, <2>4, <2>5, OperationsDropped
  <2>7. TruthMap' = TruthMap
    BY <1>1, TruthKept
  <2>8. Contract!Discard(o)
    BY <2>1, <2>3, <2>6, <2>7 DEF Contract!Discard, TruthMap
  <2>9. QED
    BY <2>1, <2>8 DEF ContractStep, Contract!Next
<1>4. QED
  BY <1>2, <1>3

LEMMA DroppingDrops ==
  ASSUME TypeInv, OwnershipInv, NEW gone \in SUBSET OperationIds,
         \A o \in gone : operations[o].state # "none",
         operations' = WithoutOperations(gone), UNCHANGED stream
  PROVE  Contract!Closed(gone)
<1>1. ASSUME NEW o \in gone
      PROVE  Dropped(o)
  BY RowHasStream DEF WithoutOperations, Dropped
<1>2. ASSUME NEW o \in OperationIds \ gone
      PROVE  SameOperation(o)
  BY DEF WithoutOperations, SameOperation
<1>3. QED
  BY <1>1, <1>2, OperationsDropped

LEMMA MarkingRefines ==
  ASSUME TypeInv, OwnershipInv, NEW c \in Clients, MarkDeleting(c), UNCHANGED stream
  PROVE  ContractStep
<1> PICK gone : gone = Purgeable(client[c].work.profile)
  OBVIOUS
<1>1. /\ gone \in SUBSET OperationIds
      /\ \A o \in gone : operations[o].state \in TerminalStates
  BY DEF Purgeable
<1>2. Contract!Closed(gone)
  BY <1>1, DroppingDrops DEF MarkDeleting, TerminalStates
<1>3. SameTruth
  BY DEF MarkDeleting, BothDeleting, SameTruth, TypeInv, StoreInv, StoreTypeOK, ProfileRow
<1>4. TruthMap' = TruthMap
  BY <1>3, TruthKept
<1>5. \A o \in gone : Phase(o) = "withdrawn"
  BY <1>1, PhaseOf
<1>6. Contract!Purge(gone)
  BY <1>1, <1>2, <1>4, <1>5 DEF Contract!Purge, TruthMap
<1>7. QED
  BY <1>1, <1>6 DEF ContractStep, Contract!Next

LEMMA DeletionRefines ==
  ASSUME TypeInv, OwnershipInv, NEW c \in Clients, FinalizeDelete(c), UNCHANGED stream
  PROVE  ContractStep
<1> PICK p : p = client[c].work.profile
  OBVIOUS
<1> PICK gone : gone = {o \in OperationIds : operations[o].profile = p}
  OBVIOUS
<1>1. /\ p \in Profiles
      /\ profiles'[p] = NoRow("gone")
      /\ \A q \in Profiles \ {p} : profiles'[q].truth = profiles[q].truth
  BY FinalizeContent
<1>2. operations' = WithoutOperations(gone)
  BY DEF FinalizeDelete
<1>3. \A o \in gone : operations[o].state # "none"
  BY <1>1, RowHasStream, StoreAssumption
<1>4. gone \in SUBSET OperationIds /\ gone = Contract!Of(p)
  BY DEF Contract!Of
<1>5. Contract!Closed(gone)
  BY <1>2, <1>3, <1>4, DroppingDrops
<1>6. TruthMap' = [TruthMap EXCEPT ![p] = 0]
  <2>1. profiles'[p].truth = 0
    BY <1>1 DEF NoRow
  <2>2. QED
    BY <1>1, <2>1 DEF TruthMap
<1>7. Contract!Remove(p)
  BY <1>4, <1>5, <1>6 DEF Contract!Remove, Contract!Closed, TruthMap
<1>8. QED
  BY <1>1, <1>7 DEF ContractStep, Contract!Next

LEMMA StreamRefines ==
  ASSUME TypeInv, OwnershipInv, NEW o \in OperationIds,
         StreamStep(o) \/ StreamUnfinalized(o)
  PROVE  ContractStep
<1> USE DEF TypeInv, StreamTypeOK, At, Goto
<1>1. CASE StreamPublish(o)
  BY <1>1, PublishRefines DEF ContractStep, Contract!Next
<1>2. CASE StreamMarkStale(o) \/ StreamFailed(o) \/ StreamCancel(o)
  <2>1. \A q \in OperationIds : stream'[q] = "unused" <=> stream[q] = "unused"
    BY <1>2 DEF StreamMarkStale, StreamFailed, StreamCancel, LiveStreams
  <2>2. SameTruth
    BY <1>2 DEF StreamMarkStale, StreamFailed, StreamCancel, SameTruth
  <2>3. QED
    BY <1>2, <2>1, <2>2, TransitionWithdraws
       DEF StreamMarkStale, StreamFailed, StreamCancel, TerminalStates
<1>3. CASE StreamCheck(o) \/ StreamFail(o) \/ StreamEnd(o) \/ StreamUnfinalized(o)
  <2>1. UNCHANGED storeVars
    BY <1>3 DEF StreamCheck, StreamFail, StreamEnd, StreamUnfinalized
  <2>2. \A q \in OperationIds : stream'[q] = "unused" <=> stream[q] = "unused"
    BY <1>3 DEF StreamCheck, StreamFail, StreamEnd, StreamUnfinalized, LiveStreams
  <2>3. QED
    BY <2>1, <2>2, ContractStutters DEF storeVars, SameTruth, SameOperation
<1>4. QED
  BY <1>1, <1>2, <1>3 DEF StreamStep

LEMMA QuietStep ==
  ASSUME SameTruth, UNCHANGED <<operations, stream>>
  PROVE  ContractStep
  BY ContractStutters DEF SameOperation

LEMMA TurnRefines ==
  ASSUME TypeInv, TypeInv', OwnershipInv, FreshInv, NEW r \in Runs, TurnStep(r),
         UNCHANGED stream
  PROVE  ContractStep
<1> DEFINE w == turn[r].work
<1> USE DEF TypeInv, InStep
<1>1. w \in Work /\ (turn[r].pc \notin {"idle", "lost"} => w.profile \in Profiles)
  BY TurnProfileType
<1>2. CASE CommitWrite(r)
  BY <1>1, <1>2, ApprovalRefines
     DEF CommitWrite, OwnershipInv, TurnsSound, FreshInv, TurnsFresh
<1>3. CASE RefuseStaleUpdate(r)
  <2>1. drafts[w.profile].op \in OperationIds
    BY <1>1, <1>3 DEF RefuseStaleUpdate, StoreInv, StoreTypeOK, DraftRow
  <2>2. SameTruth
    BY <1>3 DEF RefuseStaleUpdate, SameTruth
  <2>3. QED
    BY <1>3, <2>1, <2>2, ReconciliationWithdraws DEF RefuseStaleUpdate
<1>4. CASE PublishExtraction(r) \/ MarkFailed(r) \/ MarkTurnFailed(r)
  <2>1. SameTruth
    <3> USE DEF SameTruth, StoreInv, StoreTypeOK, ProfileRow
    <3>1. CASE PublishExtraction(r)
      BY <3>1 DEF PublishExtraction
    <3>2. CASE MarkFailed(r)
      BY <3>2 DEF MarkFailed
    <3>3. CASE MarkTurnFailed(r)
      BY <3>3 DEF MarkTurnFailed
    <3>4. QED
      BY <1>4, <3>1, <3>2, <3>3
  <2>2. QED
    BY <1>4, <2>1, QuietStep DEF PublishExtraction, MarkFailed, MarkTurnFailed
<1>5. CASE UNCHANGED <<profiles, operations>>
  BY <1>5, QuietStep DEF SameTruth
<1>6. QED
  BY <1>2, <1>3, <1>4, <1>5
     DEF TurnStep, BeginTurn, StartTurn, EndTurn, FailTurn, AbandonTurn, ToolFails,
         ReadUpdateBase, CheckUpdate, WriteUpdate, StartExtraction, CheckExtraction,
         FailExtraction, CaptureCommit, ResumeWithoutCommit, ResumeCommit, storeVars

LEMMA ClientRefines ==
  ASSUME TypeInv, TypeInv', OwnershipInv, FreshInv, NEW c \in Clients, ClientStep(c),
         UNCHANGED stream
  PROVE  ContractStep
<1> DEFINE w == client[c].work
<1> USE DEF TypeInv, OnStep
<1>1. w \in Work /\ (client[c].pc # "idle" => w.profile \in Profiles)
  BY DEF RequestInv, RequestsAssigned
<1>2. CASE Approve(c)
  BY <1>1, <1>2, ApprovalRefines
     DEF Approve, OwnershipInv, RequestsSound, FreshInv, RequestsFresh
<1>3. CASE Discard(c)
  BY <1>1, <1>3, DiscardRefines DEF Discard
<1>4. CASE MarkDeleting(c)
  BY <1>4, MarkingRefines
<1>5. CASE FinalizeDelete(c)
  BY <1>5, DeletionRefines
<1>6. CASE Activate(c) \/ CleanUp(c) \/ Retry(c)
  <2>1. SameTruth
    <3>1. CASE Activate(c)
      BY <3>1 DEF Activate, SameTruth, StoreInv, StoreTypeOK, ProfileRow
    <3>2. CASE CleanUp(c)
      BY <3>2 DEF CleanUp, SameTruth, StoreInv, StoreTypeOK, ProfileRow
    <3>3. CASE Retry(c)
      BY <3>3 DEF Retry, SameTruth, StoreInv, StoreTypeOK, ProfileRow
    <3>4. QED
      BY <1>6, <3>1, <3>2, <3>3
  <2>2. QED
    BY <1>6, <2>1, QuietStep DEF Activate, CleanUp, Retry
<1>7. CASE UNCHANGED <<profiles, operations>>
  BY <1>7, QuietStep DEF SameTruth
<1>8. QED
  BY <1>2, <1>3, <1>4, <1>5, <1>6, <1>7
     DEF ClientStep, BeginApprove, BeginDiscard, BeginActivate, BeginDelete,
         BeginRetry, BeginFinalize, RequestFails, storeVars

\* A profile that has no row yet has no approved content to lose.
LEMMA UploadRefines ==
  ASSUME TypeInv, FreshInv, NEW p \in Profiles, Upload(p) \/ Rename(p),
         UNCHANGED stream
  PROVE  ContractStep
<1> USE DEF TypeInv, StoreInv, StoreTypeOK
<1>1. SameTruth
  BY DEF Upload, Rename, SameTruth, FreshInv, ContentSound, ProfileRow
<1>2. QED
  BY <1>1, QuietStep DEF Upload, Rename

LEMMA CrashRefines ==
  ASSUME Crash
  PROVE  ContractStep
<1>1. \A o \in OperationIds : SameOperation(o)
  BY DEF Crash, storeVars, SameOperation, LiveStreams
<1>2. SameTruth
  BY DEF Crash, storeVars, SameTruth
<1>3. QED
  BY <1>1, <1>2, ContractStutters

-----------------------------------------------------------------------------
(* The refinement *)

LEMMA ContractInit == Init => Contract!Init
<1> SUFFICES ASSUME Init PROVE Contract!Init
  OBVIOUS
<1>1. ASSUME NEW o \in OperationIds
      PROVE  Phase(o) = "idle" /\ operations[o].profile = NoProfile
  BY DEF Init, StoreInit, StreamInit, NoOperationRow, Phase, At, TerminalStates
<1>2. ASSUME NEW p \in Profiles
      PROVE  profiles[p].truth \in Nat
  BY DEF Init, StoreInit, NoRow
<1>3. QED
  BY <1>1, <1>2 DEF Contract!Init

LEMMA ContractNext ==
  TypeInv /\ TypeInv' /\ OwnershipInv /\ FreshInv /\ [Next]_vars => ContractStep
<1> SUFFICES ASSUME TypeInv, TypeInv', OwnershipInv, FreshInv, [Next]_vars
             PROVE  ContractStep
  OBVIOUS
<1>1. ASSUME NEW p \in Profiles, NEW o \in OperationIds, Claim(p, o)
      PROVE  ContractStep
  BY <1>1, ClaimRefines DEF ContractStep, Contract!Next
<1>2. ASSUME NEW o \in OperationIds, StreamWork(o) \/ StreamUnfinalized(o)
      PROVE  ContractStep
  BY <1>2, StreamRefines DEF StreamWork
<1>3. ASSUME NEW o \in OperationIds, ReadReview(o)
      PROVE  ContractStep
  BY <1>3, ReconciliationWithdraws DEF ReadReview, SameTruth
<1>4. ASSUME NEW r \in Runs, TurnStep(r), UNCHANGED stream
      PROVE  ContractStep
  BY <1>4, TurnRefines
<1>5. ASSUME NEW c \in Clients, ClientStep(c), UNCHANGED stream
      PROVE  ContractStep
  BY <1>5, ClientRefines
<1>6. ASSUME NEW p \in Profiles, Upload(p) \/ Rename(p), UNCHANGED stream
      PROVE  ContractStep
  BY <1>6, UploadRefines
<1>7. CASE Crash
  BY <1>7, CrashRefines
<1>8. CASE Restart
  BY <1>8, RestartWithdraws
<1>9. CASE UNCHANGED vars
  BY <1>9, QuietStep DEF vars, storeVars, SameTruth
<1>10. QED
  BY <1>1, <1>2, <1>3, <1>4, <1>5, <1>6, <1>7, <1>8, <1>9, CutOffUnfinalized DEF Next

\* Drafts, streams, turns, requests, crashes and restarts implement the
\* operation state machine: no operation is claimed, offered, approved or
\* discarded twice, and while a review is offered only its own approval, or the
\* deletion of the profile, changes what is approved.
THEOREM ContractImplemented == Spec => ImplementsContract
<1>1. Init => Contract!Init
  BY ContractInit
<1>2. TypeInv /\ TypeInv' /\ OwnershipInv /\ FreshInv /\ [Next]_vars =>
        [Contract!Next]_(Contract!contractVars)
  BY ContractNext DEF ContractStep
<1>3. QED
  BY <1>1, <1>2, TypeInvCorrect, OwnershipCorrect, FreshCorrect, PTL
     DEF Spec, ImplementsContract, Contract!Spec
=============================================================================
