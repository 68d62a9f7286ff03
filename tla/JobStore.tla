------------------------------ MODULE JobStore ------------------------------
(***************************************************************************)
(* job_posts and job_evaluations in SQLite, and the Job and Candidate      *)
(* nodes that Neo4j derives from them.                                     *)
(*                                                                         *)
(* A transition of a job is checked against the row a session read before  *)
(* its first write, and written by primary key with the columns that       *)
(* changed.  What can still refuse the write is the row being gone or a    *)
(* CHECK constraint over the columns the write does not touch: the         *)
(* ...Holds operators say when it goes through.                            *)
(*                                                                         *)
(* updated_at is a revision that grows with every write of the row;        *)
(* version counts the extractions stored in it.                            *)
(***************************************************************************)
EXTENDS Integers

CONSTANTS
    Jobs,        \* job_posts ids, each used by one insert
    Contents,    \* texts, equal when their SHA-256 is
    NoContent    \* the raw content of a URL placeholder

ASSUME JobStoreAssumption == NoContent \notin Contents

VARIABLES
    jobs,               \* job_posts rows
    evaluations,        \* job_evaluations rows
    profileRevision,    \* updated_at of the selected ready profile
    nodes,              \* (:Job) nodes
    candidate           \* source_updated_at of its (:Candidate) node, 0 if none

jobStoreVars == <<jobs, evaluations, profileRevision, nodes, candidate>>

JobStates == {"none", "received", "processing", "processed", "failed", "gone"}
JobRow == [status: JobStates, content: Contents \cup {NoContent},
           scorable: BOOLEAN, revision: Nat, version: Nat]

\* The part of a Job node that matching reads: its revision and its embedding.
NodeRow == [revision: Nat, version: Nat]
NoNode == [revision |-> 0, version |-> 0]

\* The key of an evaluation (job, profile and CV facts, hashed), the extraction
\* that was scored, and as history the one stored under the key's revision.
EvaluationRow ==
    [job: Jobs, revision: Nat, profile: Nat, scored: Nat, named: Nat]

EmptyRow == [status |-> "none", content |-> NoContent, scorable |-> FALSE,
             revision |-> 0, version |-> 0]

JobStoreTypeOK ==
    /\ jobs \in [Jobs -> JobRow]
    /\ evaluations \subseteq EvaluationRow
    /\ profileRevision \in Nat
    /\ nodes \in [Jobs -> NodeRow]
    /\ candidate \in Nat

JobStoreInit ==
    /\ jobs = [j \in Jobs |-> EmptyRow]
    /\ evaluations = {}
    /\ profileRevision = 1
    /\ nodes = [j \in Jobs |-> NoNode]
    /\ candidate = 1

-----------------------------------------------------------------------------
(* Queries *)

Live(j) == jobs[j].status \notin {"none", "gone"}

Matching(c) == {j \in Jobs : Live(j) /\ jobs[j].content = c}

ScorableRow(row) == row.status = "processed" /\ row.scorable

\* The nodes a complete projection of the scorable rows would have.
Projection ==
    [j \in Jobs |-> IF ScorableRow(jobs[j])
                    THEN [revision |-> jobs[j].revision,
                          version |-> jobs[j].version]
                    ELSE NoNode]

-----------------------------------------------------------------------------
(* Writes *)

\* Any write of a row gives it a later updated_at.
Rewritten(j, status) ==
    [jobs EXCEPT ![j].status = status, ![j].revision = @ + 1]

\* Faulty variant: a state that the CHECK constraint does not list.
InsertedPending(j, status, c) ==
    [jobs EXCEPT ![j] = [EmptyRow EXCEPT !.status = "pending", !.content = c,
                                         !.revision = 1]]

Inserted(j, status, c) ==
    [jobs EXCEPT ![j] = [status |-> status, content |-> c, scorable |-> FALSE,
                         revision |-> 1, version |-> 0]]

\* failure_coupling: failure_code is not among the columns written when the row
\* read was processing.  embedding_all_or_none: an unscorable result clears only
\* one of the three embedding columns.
ProcessedHolds(j, scorable) ==
    /\ Live(j)
    /\ jobs[j].status # "failed"
    /\ scorable \/ ~ScorableRow(jobs[j])

Processed(j, scorable) ==
    [jobs EXCEPT ![j].status = "processed", ![j].scorable = scorable,
                 ![j].revision = @ + 1, ![j].version = @ + 1]

\* processed_scorable_embedding: only a scorable processed row has an embedding,
\* and neither of these writes clears all of it.  The first operator is the faulty
\* variant, without the constraint.
EmbeddingUnchecked(j) == Live(j)
EmbeddingKept(j) == Live(j) /\ ~ScorableRow(jobs[j])

FailedHolds(j) == EmbeddingKept(j)
RetryHolds(j) == EmbeddingKept(j)

\* Faulty variant: the clock alone.
ClockRevision(captured, now) == now

\* _strictly_later_revision: the clock may read no later than the revision that
\* was captured.
ReplacementRevision(captured, now) == IF now > captured THEN now ELSE captured + 1

Replaced(j, captured, now) ==
    [jobs EXCEPT ![j].status = "processed", ![j].scorable = TRUE,
                 ![j].revision = ReplacementRevision(captured, now),
                 ![j].version = @ + 1]

\* Foreign keys cascade from a job to its evaluations.
DeleteJobRow(j) ==
    /\ jobs' = [jobs EXCEPT ![j] = [EmptyRow EXCEPT !.status = "gone"]]
    /\ evaluations' = {e \in evaluations : e.job # j}
=============================================================================
