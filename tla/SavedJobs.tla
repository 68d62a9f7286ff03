----------------------------- MODULE SavedJobs -----------------------------
(***************************************************************************)
(* The requests on saved jobs composed: ingestion, re-extraction,          *)
(* evaluation against the selected profile, deletion, the approval of a    *)
(* newer profile, and the rebuild of the graph by its own process.         *)
(***************************************************************************)
EXTENDS JobIngestion, FiniteSets

savedJobsVars == <<jobs, evaluations, profileRevision, nodes, candidate,
                   request, orphans>>

\* The rest of a request that writes only its own locals.
OnlyReads == UNCHANGED <<jobs, orphans>> /\ GraphSame

-----------------------------------------------------------------------------
(* Re-extraction *)

\* The snapshot needs retained text, whatever the status of the row.
CaptureJob(r, j) ==
    /\ At(r, "idle") /\ "reextract" \in Duties[r]
    /\ Live(j) /\ jobs[j].content # NoContent
    /\ request' = [request EXCEPT ![r].job = j, ![r].row = jobs[j],
                                  ![r].at = "reextracting"]
    /\ OnlyReads

\* A failed or unscorable extraction leaves the row as it was.
Reextract(r) ==
    /\ At(r, "reextracting")
    /\ \E next \in {"replacing", "done"} : Goto(r, next)
    /\ OnlyReads

Unchanged(r) ==
    Live(Target(r)) /\ jobs[Target(r)].revision = request[r].row.revision

\* UPDATE ... WHERE id AND updated_at = the captured one.
ReplaceIfUnchanged(r) ==
    LET captured == request[r].row.revision IN
    /\ At(r, "replacing") /\ Unchanged(r)
    /\ \E now \in {captured, captured + 1} :
         jobs' = Replaced(Target(r), captured, now)
    /\ Goto(r, "loading")
    /\ UNCHANGED orphans /\ GraphSame

ReplaceConflicts(r) ==
    /\ At(r, "replacing") /\ ~Unchanged(r)
    /\ Goto(r, "done")
    /\ OnlyReads

-----------------------------------------------------------------------------
(* Evaluation *)

Stored(j, revision, profile) ==
    \E e \in evaluations :
        e.job = j /\ e.revision = revision /\ e.profile = profile

\* The route, or save-and-evaluate after its ingestion.
BeginEvaluate(r, j) ==
    /\ \/ At(r, "idle") /\ "evaluate" \in Duties[r]
       \/ At(r, "saved") /\ "evaluate" \in Duties[r] /\ j = Target(r)
    /\ request' = [request EXCEPT ![r].job = j, ![r].at = "resolving"]
    /\ OnlyReads

\* The context: a scorable job and the selected profile.  An evaluation stored
\* for it is returned at once.
ResolveContext(r) ==
    LET row == jobs[Target(r)] IN
    /\ At(r, "resolving")
    /\ request' = [request EXCEPT
           ![r].row = row, ![r].profile = profileRevision,
           ![r].at = IF ScorableRow(row)
                        /\ ~Stored(Target(r), row.revision, profileRevision)
                     THEN "gating" ELSE "done"]
    /\ OnlyReads

\* The consistency gate reads SQLite first and the graph after it.
GateReadsTruth(r) ==
    /\ At(r, "gating")
    /\ request' = [request EXCEPT ![r].snapshot = Projection,
                                  ![r].gated = profileRevision,
                                  ![r].at = "comparing"]
    /\ OnlyReads

GateComparesGraph(r) ==
    LET same == /\ candidate = request[r].gated
                /\ \A j \in Jobs :
                     nodes[j].revision = request[r].snapshot[j].revision IN
    /\ At(r, "comparing")
    /\ Goto(r, IF same /\ request[r].snapshot[Target(r)] # NoNode
               THEN "retrieving" ELSE "done")
    /\ OnlyReads

\* The cosine read needs the node, the hydration a scorable row: its extraction
\* is the one that is scored.
RetrieveExact(r) ==
    LET row == jobs[Target(r)] IN
    /\ At(r, "retrieving")
    /\ request' = [request EXCEPT
           ![r].snapshot = [@ EXCEPT ![Target(r)].version = row.version],
           ![r].at = IF nodes[Target(r)] # NoNode /\ ScorableRow(row)
                     THEN "rechecking" ELSE "done"]
    /\ OnlyReads

\* EVALUATION_CONTEXT_CHANGED unless the same context resolves again.
Recheck(r) ==
    LET row == jobs[Target(r)] IN
    /\ At(r, "rechecking")
    /\ Goto(r, IF /\ ScorableRow(row)
                  /\ row.revision = request[r].row.revision
                  /\ profileRevision = request[r].profile
                  /\ ~Stored(Target(r), row.revision, profileRevision)
               THEN "persisting" ELSE "done")
    /\ OnlyReads

\* The unique key makes the loser of a race return the winner's row, the foreign
\* key refuses an evaluation of a deleted job.
InsertEvaluation(r) ==
    LET j == Target(r)
        seen == request[r] IN
    /\ At(r, "persisting")
    /\ evaluations' =
         IF Stored(j, seen.row.revision, seen.profile) \/ ~Live(j)
         THEN evaluations
         ELSE evaluations \cup
                {[job |-> j, revision |-> seen.row.revision,
                  profile |-> seen.profile,
                  scored |-> seen.snapshot[j].version,
                  named |-> seen.row.version]}
    /\ Goto(r, "done")
    /\ UNCHANGED <<jobs, profileRevision, nodes, candidate, orphans>>

-----------------------------------------------------------------------------
(* Deletion: the graph first, SQLite second *)

BeginDelete(r, j) ==
    /\ At(r, "idle") /\ "delete" \in Duties[r]
    /\ Live(j)
    /\ request' = [request EXCEPT ![r].job = j, ![r].at = "detaching"]
    /\ OnlyReads

DetachNode(r) ==
    /\ At(r, "detaching")
    /\ nodes' = [nodes EXCEPT ![Target(r)] = NoNode]
    /\ Goto(r, "checking")
    /\ UNCHANGED <<jobs, evaluations, profileRevision, candidate, orphans>>

ConfirmDetached(r) ==
    /\ At(r, "checking")
    /\ Goto(r, IF nodes[Target(r)] = NoNode THEN "dropping" ELSE "done")
    /\ OnlyReads

\* Already absent counts as success.
DropRow(r) ==
    /\ At(r, "dropping")
    /\ IF Live(Target(r)) THEN DeleteJobRow(Target(r))
                          ELSE UNCHANGED <<jobs, evaluations>>
    /\ Goto(r, "deleted")
    /\ UNCHANGED <<profileRevision, nodes, candidate, orphans>>

-----------------------------------------------------------------------------
(* Another profile revision, and the rebuild *)

\* An approval commits a revision and then projects the candidate.
ApproveProfile(r) ==
    /\ At(r, "idle") /\ "approve" \in Duties[r]
    /\ profileRevision' = profileRevision + 1
    /\ request' = [request EXCEPT ![r].profile = profileRevision',
                                  ![r].at = "projecting"]
    /\ UNCHANGED <<jobs, evaluations, nodes, candidate, orphans>>

SyncCandidate(r) ==
    /\ At(r, "projecting")
    /\ \/ candidate' = request[r].profile
       \/ "graph" \in Faults /\ UNCHANGED candidate
    /\ Goto(r, "done")
    /\ UNCHANGED <<jobs, evaluations, profileRevision, nodes, orphans>>

\* The preflight reads everything before the first destructive statement.
LoadRebuildInputs(r) ==
    /\ At(r, "idle") /\ "rebuild" \in Duties[r]
    /\ request' = [request EXCEPT ![r].snapshot = Projection,
                                  ![r].profile = profileRevision,
                                  ![r].at = "clearing"]
    /\ OnlyReads

ClearGraph(r) ==
    /\ At(r, "clearing")
    /\ nodes' = [j \in Jobs |-> NoNode]
    /\ candidate' = 0
    /\ Goto(r, "rebuilding")
    /\ UNCHANGED <<jobs, evaluations, profileRevision, orphans>>

\* Candidate first, then one job after another, from the snapshot and over whatever
\* was projected meanwhile.  What has been projected leaves the snapshot.
RebuildNode(r) ==
    /\ At(r, "rebuilding")
    /\ \/ /\ request[r].profile # 0
          /\ candidate' = request[r].profile
          /\ request' = [request EXCEPT ![r].profile = 0]
          /\ UNCHANGED nodes
       \/ /\ request[r].profile = 0
          /\ \E j \in Jobs :
               /\ request[r].snapshot[j] # NoNode
               /\ nodes' = [nodes EXCEPT ![j] = request[r].snapshot[j]]
               /\ request' = [request EXCEPT ![r].snapshot[j] = NoNode]
          /\ UNCHANGED candidate
    /\ UNCHANGED <<jobs, evaluations, profileRevision, orphans>>

EndRebuild(r) ==
    /\ At(r, "rebuilding") /\ request[r].profile = 0
    /\ request[r].snapshot = [j \in Jobs |-> NoNode]
    /\ Goto(r, "done")
    /\ OnlyReads

-----------------------------------------------------------------------------
(* The workspace *)

RequestStep(r) ==
    \/ IngestionStep(r)
    \/ \E j \in Jobs : CaptureJob(r, j) \/ BeginEvaluate(r, j) \/ BeginDelete(r, j)
    \/ Reextract(r) \/ ReplaceIfUnchanged(r) \/ ReplaceConflicts(r)
    \/ ResolveContext(r) \/ GateReadsTruth(r) \/ GateComparesGraph(r)
    \/ RetrieveExact(r) \/ Recheck(r) \/ InsertEvaluation(r)
    \/ DetachNode(r) \/ ConfirmDetached(r) \/ DropRow(r)
    \/ ApproveProfile(r) \/ SyncCandidate(r)
    \/ LoadRebuildInputs(r) \/ ClearGraph(r) \/ RebuildNode(r) \/ EndRebuild(r)

\* The process stops, the task is cancelled, or a statement on the graph raises:
\* the request goes no further, and nothing resumes it.
Abort(r) ==
    /\ "abort" \in Faults
    /\ request[r].at \notin {"idle", "done", "saved", "deleted"}
    /\ orphans' = IF request[r].at \in Serving THEN orphans \cup {Target(r)}
                                               ELSE orphans
    /\ Goto(r, "done")
    /\ UNCHANGED jobs /\ GraphSame

SavedJobsInit == JobStoreInit /\ IngestionInit

SavedJobsNext == \E r \in Requests : RequestStep(r) \/ Abort(r)

SavedJobsSpec == SavedJobsInit /\ [][SavedJobsNext]_savedJobsVars

-----------------------------------------------------------------------------
(* Properties *)

SavedJobsTypeOK == JobStoreTypeOK /\ IngestionTypeOK

\* A row that waits to be processed is being worked on by a request, unless the
\* one that had it was lost: no error path of ingestion leaves a row behind, and
\* no other request takes it out of its owner's hands.
IngestionServed ==
    \A j \in Jobs : jobs[j].status \in {"received", "processing"} =>
        \/ \E r \in Requests : request[r].at \in Serving /\ Target(r) = j
        \/ j \in orphans

\* What was scored is the extraction that the key of the evaluation names,
\* although the key, the gate, the vector and the extraction are read apart.
EvaluationFaithful == \A e \in evaluations : e.scored = e.named

\* The gate compares revisions only.  When they agree, the node carries the
\* embedding of the extraction that SQLite holds.
GateSound ==
    \A j \in Jobs :
        ScorableRow(jobs[j]) /\ nodes[j].revision = jobs[j].revision
            => nodes[j].version = jobs[j].version

\* A job that can be matched stays so until it is deleted: no request that read
\* it in an earlier state takes the result of another one back.
ScorableKept ==
    [][\A j \in Jobs : ScorableRow(jobs[j]) =>
           ScorableRow(jobs'[j]) \/ jobs'[j].status = "gone"]_savedJobsVars

\* delete_job "returns only after the Job row and exact graph node are both gone"
\* (services/job_deletion.py:79).
DeletionComplete ==
    [][\A r \in Requests :
           At(r, "dropping") /\ request'[r].at = "deleted"
               => jobs'[Target(r)].status = "gone" /\ nodes'[Target(r)] = NoNode]_savedJobsVars

\* A request that has begun goes on: the event loop runs every ready task and
\* every external call returns or times out.
FairSavedJobsSpec ==
    /\ SavedJobsSpec
    /\ \A r \in Requests : WF_savedJobsVars(request[r].at # "idle" /\ RequestStep(r))
=============================================================================
