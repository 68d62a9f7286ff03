--------------------------- MODULE TailoringStore ---------------------------
(***************************************************************************)
(* cv_tailoring_sessions and cv_tailoring_versions of one profile, the     *)
(* tailoring runs, and the artifact directories that belong to versions.   *)
(*                                                                         *)
(* A version has the name of the request that makes it, and so has the run *)
(* that request may have.  A session scope reads outside of a transaction  *)
(* and writes by primary key the columns that differ from what it read;    *)
(* only the transactions that begin IMMEDIATE are one step.                *)
(***************************************************************************)
EXTENDS Naturals, FiniteSets

CONSTANTS
    Sessions,      \* cv_tailoring_sessions ids, each used by one insert
    Requests,      \* requests on sessions, each of which runs once
    NoSession,
    NoRequest

ASSUME TailoringStoreAssumption ==
    NoSession \notin Sessions /\ NoRequest \notin Requests

VARIABLES
    sessions,    \* session rows
    versions,    \* version rows
    runs,        \* agent_runs of kind cv_tailoring
    staged,      \* versions that have a staging directory
    artifacts,   \* the session directory that holds the files of a version
    source       \* revision of the profile, its CV and the job

tailoringStoreVars == <<sessions, versions, runs, staged, artifacts, source>>

SessionStates == {"none", "generating", "ready", "failed", "deleting", "gone"}
SessionRow == [state: SessionStates, latest: Nat, source: Nat]
VersionRow ==
    [session: Sessions \cup {NoSession}, number: Nat, parent: Requests \cup {NoRequest}]
RunStates == {"none", "running", "completed", "failed"}
RunRow == [session: Sessions \cup {NoSession}, state: RunStates]

EmptySession == [state |-> "none", latest |-> 0, source |-> 0]
NoVersion == [session |-> NoSession, number |-> 0, parent |-> NoRequest]
NoRun == [session |-> NoSession, state |-> "none"]

TailoringStoreTypeOK ==
    /\ sessions \in [Sessions -> SessionRow]
    /\ versions \in [Requests -> VersionRow]
    /\ runs \in [Requests -> RunRow]
    /\ staged \subseteq Requests
    /\ artifacts \in [Requests -> Sessions \cup {NoSession}]
    /\ source \in Nat

TailoringStoreInit ==
    /\ sessions = [s \in Sessions |-> EmptySession]
    /\ versions = [r \in Requests |-> NoVersion]
    /\ runs = [r \in Requests |-> NoRun]
    /\ staged = {}
    /\ artifacts = [r \in Requests |-> NoSession]
    /\ source = 1

-----------------------------------------------------------------------------
(* Queries *)

Live(s) == sessions[s].state \notin {"none", "gone"}

VersionsOf(s) == {v \in Requests : versions[v].session = s}

\* get_latest_version: the greatest number.
Head(s) ==
    IF VersionsOf(s) = {} THEN NoRequest
    ELSE CHOOSE v \in VersionsOf(s) :
           \A w \in VersionsOf(s) : versions[w].number <= versions[v].number

RunsOf(s) == {r \in Requests : runs[r].session = s}

\* The tailoring half of assert_profile_idle.
TailoringIdle ==
    /\ \A s \in Sessions : sessions[s].state # "generating"
    /\ \A r \in Requests : runs[r].state # "running"

\* _resolve_session_snapshot: the sources are those the session was made from.
SourceCurrent(s) == sessions[s].source = source

-----------------------------------------------------------------------------
(* Writes *)

\* The state that an UPDATE leaves whose session had read this row, and whether
\* error_code is set after it.
StateWritten(s, read, state) ==
    IF read.state = state THEN sessions[s].state ELSE state
ErrorWritten(s, read, state) ==
    IF (read.state = "failed") = (state = "failed")
    THEN sessions[s].state = "failed" ELSE state = "failed"

\* error_coupling, and the row must be there.
WriteHolds(s, read, state) ==
    /\ Live(s)
    /\ (StateWritten(s, read, state) = "failed") = ErrorWritten(s, read, state)

Written(s, read, state) ==
    [sessions EXCEPT ![s].state = StateWritten(s, read, state)]

\* mark_session_generating tests the row it read.
MayGenerate(read) == read.state \in {"ready", "failed"}

\* Faulty variant: the head is tested by number only when it has a parent.
AppendsAnywhere(s, expected, parent) ==
    parent # NoRequest => versions[parent].session = s

\* create_version_cas.
Appends(s, expected, parent) ==
    /\ sessions[s].latest = expected
    /\ IF expected = 0 THEN parent = NoRequest
       ELSE /\ parent # NoRequest
            /\ versions[parent].session = s
            /\ versions[parent].number = expected

\* Foreign keys cascade from a session to its versions and runs.
DropSessionRow(s) ==
    /\ sessions' = [sessions EXCEPT ![s] = [EmptySession EXCEPT !.state = "gone"]]
    /\ versions' = [v \in Requests |-> IF versions[v].session = s THEN NoVersion
                                                                 ELSE versions[v]]
    /\ runs' = [r \in Requests |-> IF runs[r].session = s THEN NoRun ELSE runs[r]]

\* TailoringArtifactStorage.delete_session.
DirectoryRemoved(s) ==
    [v \in Requests |-> IF artifacts[v] = s THEN NoSession ELSE artifacts[v]]
=============================================================================
