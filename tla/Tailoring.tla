----------------------------- MODULE Tailoring ------------------------------
(***************************************************************************)
(* CV tailoring composed: generations, deletions of sessions, changes of   *)
(* the sources, cancelled streams and the end of the process.              *)
(***************************************************************************)
EXTENDS TailoringGeneration

CONSTANT MaxSource     \* bound on the revision of the sources

VARIABLE removed       \* history: sessions whose files a deletion has removed

tailoringVars == <<sessions, versions, runs, staged, artifacts, source,
                   request, lost, cut, removed>>

-----------------------------------------------------------------------------
(* delete_tailoring_session *)

\* Any state will do, so that a deletion that failed can be repeated; only an
\* active run is in the way.
ReadDeletion(r, s) ==
    /\ At(r, "idle") /\ "delete" \in Duties[r]
    /\ Live(s)
    /\ \A q \in RunsOf(s) : runs[q].state # "running"
    /\ request' = [request EXCEPT ![r].session = s, ![r].row = sessions[s],
                                  ![r].at = "deleting"]
    /\ OnlyRequest /\ UNCHANGED removed

MarkDeleting(r) ==
    LET s == Target(r) IN
    /\ At(r, "deleting")
    /\ IF WriteHolds(s, request[r].row, "deleting")
       THEN sessions' = Written(s, request[r].row, "deleting") /\ Goto(r, "removing")
       ELSE Goto(r, "done") /\ UNCHANGED sessions
    /\ UNCHANGED <<versions, runs, source, lost, cut, removed>> /\ FilesSame

\* Checkpoints and the session directory; a failure ends the request here.
RemoveFiles(r) ==
    /\ At(r, "removing")
    /\ \/ /\ artifacts' = DirectoryRemoved(Target(r))
          /\ removed' = removed \cup {Target(r)}
          /\ Goto(r, "dropping")
       \/ Goto(r, "done") /\ UNCHANGED <<artifacts, removed>>
    /\ RowsSame /\ UNCHANGED <<staged, source, lost, cut>>

DropSession(r) ==
    /\ At(r, "dropping")
    /\ IF Live(Target(r)) THEN DropSessionRow(Target(r)) ELSE RowsSame
    /\ Goto(r, "deleted")
    /\ UNCHANGED <<source, lost, cut, removed>> /\ FilesSame

-----------------------------------------------------------------------------
(* The world around *)

\* An approval, a rename or preferences give the profile a new revision, a
\* re-extraction the job.
ChangeSource ==
    /\ source < MaxSource
    /\ source' = source + 1
    /\ RowsSame /\ FilesSame /\ UNCHANGED <<request, lost, cut, removed>>

\* The process ends, or the server cancels the request at shutdown.
Die(r) ==
    /\ "crash" \in Faults
    /\ request[r].at \notin {"idle", "done", "deleted"}
    /\ lost' = IF request[r].at \in Generating THEN lost \cup {Target(r)} ELSE lost
    /\ cut' = cut \cup {r}
    /\ Goto(r, "done")
    /\ RowsSame /\ FilesSame /\ UNCHANGED <<source, removed>>

RequestStep(r) ==
    \/ GenerationStep(r) /\ UNCHANGED removed
    \/ \E s \in Sessions : ReadDeletion(r, s)
    \/ MarkDeleting(r) \/ RemoveFiles(r) \/ DropSession(r)

Interrupted(r) ==
    \/ /\ Disconnect(r) \/ DisconnectFinalization(r) \/ FinalizeBusy(r)
       /\ UNCHANGED removed
    \/ Die(r)

TailoringInit == TailoringStoreInit /\ GenerationInit /\ removed = {}

TailoringNext ==
    \/ \E r \in Requests : RequestStep(r) \/ Interrupted(r)
    \/ ChangeSource

TailoringSpec == TailoringInit /\ [][TailoringNext]_tailoringVars

-----------------------------------------------------------------------------
(* Properties *)

TailoringTypeOK ==
    TailoringStoreTypeOK /\ GenerationTypeOK /\ removed \subseteq Sessions

\* What blocks every gate, a session that is generating or a tailoring run that is
\* running, is being worked on by a request, unless the one that had it was lost:
\* overlapping generations of one session do not leave each other's marks behind.
GenerationServed ==
    \A s \in Sessions :
        \/ sessions[s].state = "generating"
        \/ \E q \in RunsOf(s) : runs[q].state = "running"
        => \/ \E r \in Requests : request[r].at \in Generating /\ Target(r) = s
           \/ s \in lost

\* The versions of a session form one line: numbered from one without gaps, each
\* with its predecessor as parent, whoever else generated at the same time.
VersionsFormLine ==
    \A s \in Sessions : Live(s) =>
        /\ {versions[v].number : v \in VersionsOf(s)} = 1..sessions[s].latest
        /\ Cardinality(VersionsOf(s)) = sessions[s].latest
        /\ \A v \in VersionsOf(s) :
             IF versions[v].number = 1 THEN versions[v].parent = NoRequest
             ELSE /\ versions[v].parent \in VersionsOf(s)
                  /\ versions[versions[v].parent].number = versions[v].number - 1

\* A committed version has its files, unless a deletion of its session has removed
\* them.
VersionHasArtifacts ==
    \A v \in Requests : versions[v] # NoVersion =>
        artifacts[v] = versions[v].session \/ versions[v].session \in removed

\* Files without a version are those of a request that was cut off, or that
\* overlapped with the deletion of its session; every error path removes its own.
FilesOwned ==
    \A r \in Requests :
        /\ At(r, "done") /\ r \notin cut => r \notin staged
        /\ /\ artifacts[r] # NoSession /\ versions[r] = NoVersion
           /\ At(r, "done") /\ r \notin cut
           => artifacts[r] \in removed
=============================================================================
