------------------------ MODULE TailoringGeneration -------------------------
(***************************************************************************)
(* TailoringCoordinator: the generation of an AI version, streamed to a    *)
(* client that may leave, and of a manual version.  Both render, compile,  *)
(* promote the files, and append the version in one IMMEDIATE transaction. *)
(***************************************************************************)
EXTENDS TailoringStore

CONSTANTS
    Duties,     \* what each request may be asked to do
    Faults      \* failures outside the code that the behaviour may have

VARIABLES
    request,    \* control state and locals of each request
    lost,       \* history: sessions whose generation ended without finalization
    cut         \* history: requests that were cancelled or died with files

generationVars == <<request, lost, cut>>

\* Between the marking of a session and the end of its finalization.
Generating == {"loading", "writing", "compiling", "committing", "unchanged",
               "failing", "finalizing"}

\* The states in which a cancelled stream finalizes: a version may be committed.
Cancellable == {"loading", "writing", "compiling", "committing", "unchanged",
                "cleaning"}

RequestStates == Generating \cup
    {"idle", "starting", "guarding", "confirming", "remarking", "marking",
     "cleaning", "deleting", "removing", "dropping", "deleted", "done"}

RequestRow ==
    [at: RequestStates, session: Sessions \cup {NoSession}, row: SessionRow,
     expected: Nat, parent: Requests \cup {NoRequest},
     kind: {"ai", "user"}, shielded: BOOLEAN]

Idle == [at |-> "idle", session |-> NoSession, row |-> EmptySession, expected |-> 0,
         parent |-> NoRequest, kind |-> "ai", shielded |-> FALSE]

GenerationTypeOK ==
    request \in [Requests -> RequestRow] /\ lost \subseteq Sessions /\ cut \subseteq Requests

GenerationInit ==
    request = [r \in Requests |-> Idle] /\ lost = {} /\ cut = {}

At(r, state) == request[r].at = state
Target(r) == request[r].session
Streamed(r) == request[r].kind = "ai"

\* A request that is done forgets its locals.
Goto(r, state) ==
    request' = [request EXCEPT ![r] =
        IF state \in {"done", "deleted"} THEN [Idle EXCEPT !.at = state]
                                        ELSE [@ EXCEPT !.at = state]]

FilesSame == UNCHANGED <<staged, artifacts>>
RowsSame == UNCHANGED <<sessions, versions, runs>>
OnlyRequest == RowsSame /\ FilesSame /\ UNCHANGED <<source, lost, cut>>

-----------------------------------------------------------------------------
(* Preparation *)

\* prepare_session: gate and sources are read, then both rows inserted.
ReadStart(r) ==
    /\ At(r, "idle") /\ "start" \in Duties[r]
    /\ TailoringIdle
    /\ request' = [request EXCEPT ![r].at = "starting", ![r].row.source = source]
    /\ OnlyRequest

InsertSession(r) ==
    /\ At(r, "starting")
    /\ \E s \in Sessions :
         /\ sessions[s].state = "none"
         /\ sessions' = [sessions EXCEPT ![s] =
                            [state |-> "generating", latest |-> 0,
                             source |-> request[r].row.source]]
         /\ runs' = [runs EXCEPT ![r] = [session |-> s, state |-> "running"]]
         /\ request' = [request EXCEPT ![r].session = s, ![r].at = "loading"]
    /\ UNCHANGED <<versions, source, lost, cut>> /\ FilesSame

\* The reads of prepare_ai_version and of create_manual_version.  The client names
\* the version it has seen, which must be the head; a session without a version is
\* only generated again.
ReadSession(r, s, kind) ==
    /\ At(r, "idle") /\ kind \in Duties[r]
    /\ Live(s) /\ TailoringIdle /\ SourceCurrent(s)
    /\ kind = "user" => Head(s) # NoRequest
    /\ kind = "ai" => MayGenerate(sessions[s])
    /\ request' = [request EXCEPT
           ![r].session = s, ![r].kind = kind, ![r].row = sessions[s],
           ![r].expected = sessions[s].latest, ![r].parent = Head(s),
           ![r].at = IF kind = "ai" THEN "marking" ELSE "guarding"]
    /\ OnlyRequest

\* The guard of a manual version asks the provider.  Content that is unsupported
\* ends the request, content that is equal is confirmed.
GuardContent(r) ==
    /\ At(r, "guarding")
    /\ \E next \in {"done", "confirming", "remarking"} : Goto(r, next)
    /\ OnlyRequest

\* BEGIN IMMEDIATE, two reads, no write.
ConfirmHead(r) ==
    /\ At(r, "confirming")
    /\ Goto(r, "done")
    /\ OnlyRequest

ReadAgain(r) ==
    LET s == Target(r) IN
    /\ At(r, "remarking")
    /\ IF /\ Live(s) /\ sessions[s].latest = request[r].expected
          /\ MayGenerate(sessions[s])
       THEN request' = [request EXCEPT ![r].row = sessions[s], ![r].at = "marking"]
       ELSE Goto(r, "done")
    /\ OnlyRequest

\* A manual version has no run; its staging directory is made in the same step in
\* which its transaction returns.
MarkGenerating(r) ==
    LET s == Target(r) IN
    /\ At(r, "marking")
    /\ IF WriteHolds(s, request[r].row, "generating")
       THEN /\ sessions' = Written(s, request[r].row, "generating")
            /\ runs' = IF Streamed(r)
                       THEN [runs EXCEPT ![r] = [session |-> s, state |-> "running"]]
                       ELSE runs
            /\ staged' = IF Streamed(r) THEN staged ELSE staged \cup {r}
            /\ Goto(r, IF Streamed(r) THEN "loading" ELSE "compiling")
       ELSE Goto(r, "done") /\ UNCHANGED <<sessions, runs, staged>>
    /\ UNCHANGED <<versions, artifacts, source, lost, cut>>

-----------------------------------------------------------------------------
(* Generation *)

\* Every error leads to the finalization of the session.
Fails(r) == Goto(r, "failing")

LoadContext(r) ==
    LET s == Target(r)
        parent == request[r].parent IN
    /\ At(r, "loading")
    /\ IF /\ sessions[s].state = "generating" /\ runs[r].state = "running"
          /\ SourceCurrent(s)
          /\ request[r].expected > 0 =>
                /\ versions[parent].session = s
                /\ versions[parent].number = request[r].expected
       THEN Goto(r, "writing") ELSE Fails(r)
    /\ OnlyRequest

\* The five-node graph: a guarded patch, one equal to its parent, or an error.
WriteContent(r) ==
    /\ At(r, "writing")
    /\ \/ Fails(r) /\ UNCHANGED staged
       \/ request[r].expected > 0 /\ Goto(r, "unchanged") /\ UNCHANGED staged
       \/ Goto(r, "compiling") /\ staged' = staged \cup {r}
    /\ RowsSame /\ UNCHANGED <<artifacts, source, lost, cut>>

\* Compilation and, in the step in which it returns, promotion.  The staging
\* directory of a failed compilation goes by the finally of promote.
Compile(r) ==
    /\ At(r, "compiling")
    /\ \/ /\ artifacts' = [artifacts EXCEPT ![r] = Target(r)]
          /\ Goto(r, "committing")
       \/ Fails(r) /\ UNCHANGED artifacts
    /\ staged' = staged \ {r}
    /\ RowsSame /\ UNCHANGED <<source, lost, cut>>

Versioned(r) ==
    LET s == Target(r) IN
    /\ sessions' = [sessions EXCEPT ![s].state = "ready",
                                    ![s].latest = request[r].expected + 1]
    /\ versions' = [versions EXCEPT ![r] =
           [session |-> s, number |-> request[r].expected + 1,
            parent |-> request[r].parent]]
    /\ runs' = IF Streamed(r) THEN [runs EXCEPT ![r].state = "completed"] ELSE runs

\* A stream goes on to remove its checkpoint.
Settled(r) == Goto(r, IF Streamed(r) THEN "cleaning" ELSE "done")

MayCommit(r) ==
    /\ Live(Target(r)) /\ SourceCurrent(Target(r))
    /\ Appends(Target(r), request[r].expected, request[r].parent)
    /\ Streamed(r) => runs[r].state = "running"

\* Faulty variant: the files of a refused version stay.
CommitVersionKeepingFiles(r) ==
    /\ At(r, "committing")
    /\ IF MayCommit(r) THEN Versioned(r) /\ Settled(r) ELSE Fails(r) /\ RowsSame
    /\ UNCHANGED <<staged, artifacts, source, lost, cut>>

\* BEGIN IMMEDIATE.  A refusal removes the promoted files again.
CommitVersion(r) ==
    /\ At(r, "committing")
    /\ IF MayCommit(r)
       THEN Versioned(r) /\ Settled(r) /\ UNCHANGED artifacts
       ELSE /\ artifacts' = [artifacts EXCEPT ![r] = NoSession]
            /\ Fails(r) /\ RowsSame
    /\ UNCHANGED <<staged, source, lost, cut>>

\* BEGIN IMMEDIATE.
CompleteUnchanged(r) ==
    LET s == Target(r)
        parent == request[r].parent IN
    /\ At(r, "unchanged")
    /\ IF /\ Live(s) /\ versions[parent].session = s
          /\ versions[parent].number = request[r].expected
          /\ sessions[s].latest = request[r].expected
          /\ runs[r].state = "running"
       THEN /\ sessions' = [sessions EXCEPT ![s].state = "ready"]
            /\ runs' = [runs EXCEPT ![r].state = "completed"]
            /\ Settled(r)
       ELSE Fails(r) /\ UNCHANGED <<sessions, runs>>
    /\ UNCHANGED <<versions, source, lost, cut>> /\ FilesSame

CleanCheckpoint(r) ==
    /\ At(r, "cleaning")
    /\ Goto(r, "done")
    /\ OnlyRequest

-----------------------------------------------------------------------------
(* Finalization of a failure *)

\* _fail_generation and _restore_ready read the session.
ReadForFailure(r) ==
    /\ At(r, "failing")
    /\ request' = [request EXCEPT ![r].row = sessions[Target(r)],
                                  ![r].at = "finalizing"]
    /\ OnlyRequest

\* Faulty variant: a state that runs do not have.
FailRunAsCancelled(r) ==
    runs' = [runs EXCEPT ![r].state = "cancelled"]

\* The run is read inside the transaction that the session's UPDATE has begun.
FailRun(r) ==
    runs' = IF runs[r].state = "running" THEN [runs EXCEPT ![r].state = "failed"]
                                         ELSE runs

\* Faulty variant: every failed generation gives its session back.
RestoredAlways(row) == "ready"

\* failed without a version, ready with one.
Restored(row) == IF row.latest = 0 THEN "failed" ELSE "ready"

\* _restore_ready has no run to end and does not take a session without a version.
\* An error is swallowed.
FinalizeFailure(r) ==
    LET s == Target(r)
        read == request[r].row
        to == Restored(read) IN
    /\ At(r, "finalizing")
    /\ IF read.state = "gone" THEN UNCHANGED <<sessions, lost>> /\ FailRun(r)
       ELSE IF WriteHolds(s, read, to)
       THEN sessions' = Written(s, read, to) /\ FailRun(r) /\ UNCHANGED lost
       ELSE UNCHANGED <<sessions, runs>> /\ lost' = lost \cup {s}
    /\ Goto(r, "done")
    /\ UNCHANGED <<versions, source, cut>> /\ FilesSame

\* The store stays locked beyond its timeout.
FinalizeBusy(r) ==
    /\ "busy" \in Faults
    /\ request[r].at \in {"failing", "finalizing"}
    /\ lost' = lost \cup {Target(r)}
    /\ Goto(r, "done")
    /\ RowsSame /\ FilesSame /\ UNCHANGED <<source, cut>>

\* Faulty variant: cancellation is not caught.
DisconnectUnhandled(r) ==
    /\ "disconnect" \in Faults
    /\ Streamed(r) /\ request[r].at \in Cancellable
    /\ Goto(r, "done")
    /\ cut' = cut \cup {r}
    /\ RowsSame /\ FilesSame /\ UNCHANGED <<source, lost>>

\* Faulty variant: what was promoted is removed although the commit under way may
\* still go through.
DisconnectDiscarding(r) ==
    /\ "disconnect" \in Faults
    /\ Streamed(r) /\ request[r].at \in Cancellable
    /\ \/ RowsSame
       \/ At(r, "committing") /\ MayCommit(r) /\ Versioned(r)
    /\ request' = [request EXCEPT ![r].at = "failing", ![r].shielded = TRUE]
    /\ artifacts' = [artifacts EXCEPT ![r] = NoSession]
    /\ UNCHANGED <<staged, source, lost, cut>>

\* The client leaves: a generation is finalized in a shielded scope.  Files that it
\* has staged or promoted stay, and a commit under way may still go through.
Disconnect(r) ==
    /\ "disconnect" \in Faults
    /\ Streamed(r) /\ request[r].at \in Cancellable
    /\ \/ RowsSame
       \/ At(r, "committing") /\ MayCommit(r) /\ Versioned(r)
    /\ request' = [request EXCEPT ![r].at = "failing", ![r].shielded = TRUE]
    /\ cut' = cut \cup {r}
    /\ FilesSame /\ UNCHANGED <<source, lost>>

\* The finalization of an error is not shielded.
DisconnectFinalization(r) ==
    /\ "disconnect" \in Faults
    /\ Streamed(r) /\ ~request[r].shielded
    /\ request[r].at \in {"failing", "finalizing"}
    /\ lost' = lost \cup {Target(r)}
    /\ Goto(r, "done")
    /\ RowsSame /\ FilesSame /\ UNCHANGED <<source, cut>>

GenerationStep(r) ==
    \/ ReadStart(r) \/ InsertSession(r)
    \/ \E s \in Sessions, kind \in {"ai", "user"} : ReadSession(r, s, kind)
    \/ GuardContent(r) \/ ConfirmHead(r) \/ ReadAgain(r) \/ MarkGenerating(r)
    \/ LoadContext(r) \/ WriteContent(r) \/ Compile(r)
    \/ CommitVersion(r) \/ CompleteUnchanged(r) \/ CleanCheckpoint(r)
    \/ ReadForFailure(r) \/ FinalizeFailure(r)
=============================================================================
