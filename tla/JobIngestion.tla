---------------------------- MODULE JobIngestion ----------------------------
(***************************************************************************)
(* Ingestion of pasted text and of URLs (services/jd_ingestion.py), as the *)
(* save_job tool and the save-and-evaluate route run it, any number of     *)
(* them at once.  Each request alternates short transactions with provider *)
(* and network calls made outside of them.                                 *)
(***************************************************************************)
EXTENDS JobStore

CONSTANTS
    Requests,      \* concurrent requests, each of which runs once
    Duties,        \* what each of them may be asked to do
    Faults,        \* failures outside the code that the behaviour may have
    NoJob          \* the job of a request that has none yet

ASSUME JobRequestAssumption == NoJob \notin Jobs

VARIABLES
    request,       \* control state and locals of each request
    orphans        \* history: jobs whose ingestion was lost half way

\* The states in which a request has a row to bring to its end.
Serving == {"fetching", "disposing", "extracting", "finishing",
            "writing"}

RequestStates == Serving \cup
    {"idle", "inserting", "retrying", "loading", "syncing", "saved",
     "reextracting", "replacing", "resolving", "gating", "comparing",
     "retrieving", "rechecking", "persisting", "detaching", "checking",
     "dropping", "deleted", "projecting", "clearing", "rebuilding", "done"}

RequestRow ==
    [at: RequestStates, job: Jobs \cup {NoJob}, match: Jobs \cup {NoJob},
     content: Contents \cup {NoContent}, row: JobRow,
     result: {"none", "failed", "unscorable", "scorable"},
     profile: Nat, gated: Nat, snapshot: [Jobs -> NodeRow]]

Idle == [at |-> "idle", job |-> NoJob, match |-> NoJob, content |-> NoContent,
         row |-> EmptyRow, result |-> "none", profile |-> 0, gated |-> 0,
         snapshot |-> [j \in Jobs |-> NoNode]]

IngestionTypeOK == request \in [Requests -> RequestRow] /\ orphans \subseteq Jobs

IngestionInit ==
    /\ request = [r \in Requests |-> Idle]
    /\ orphans = {}

At(r, state) == request[r].at = state

\* A request that is done forgets its locals.
Goto(r, state) ==
    request' = [request EXCEPT ![r] =
        IF state = "done" THEN [Idle EXCEPT !.at = "done"]
                          ELSE [@ EXCEPT !.at = state]]

Target(r) == request[r].job

\* What ingestion never touches.
GraphSame == UNCHANGED <<evaluations, profileRevision, nodes, candidate>>

Unused(j) == jobs[j].status = "none"

-----------------------------------------------------------------------------
(* Pasted text *)

\* SELECT by hash; a match that has not failed is returned as it is.
SelectText(r, c) ==
    /\ At(r, "idle") /\ "text" \in Duties[r]
    /\ \/ \E j \in Matching(c) :
            request' = [request EXCEPT
                ![r].job = j, ![r].content = c,
                ![r].at = IF jobs[j].status = "failed" THEN "retrying"
                                                       ELSE "saved"]
       \/ /\ Matching(c) = {}
          /\ request' = [request EXCEPT ![r].content = c, ![r].at = "inserting"]
    /\ UNCHANGED <<jobs, orphans>> /\ GraphSame

\* received and processing in one transaction; the unique index on the hash
\* refuses a second insert.
InsertText(r) ==
    /\ At(r, "inserting")
    /\ IF Matching(request[r].content) = {}
       THEN \E j \in Jobs :
              /\ Unused(j)
              /\ jobs' = Inserted(j, "processing", request[r].content)
              /\ request' = [request EXCEPT ![r].job = j,
                                            ![r].at = "extracting"]
       ELSE Goto(r, "done") /\ UNCHANGED jobs
    /\ UNCHANGED orphans /\ GraphSame

RetryText(r) ==
    /\ At(r, "retrying")
    /\ IF RetryHolds(Target(r))
       THEN jobs' = Rewritten(Target(r), "processing") /\ Goto(r, "extracting")
       ELSE Goto(r, "done") /\ UNCHANGED jobs
    /\ UNCHANGED orphans /\ GraphSame

-----------------------------------------------------------------------------
(* URLs *)

CommitPlaceholder(r) ==
    /\ At(r, "idle") /\ "url" \in Duties[r]
    /\ \E j \in Jobs :
         /\ Unused(j)
         /\ jobs' = Inserted(j, "received", NoContent)
         /\ request' = [request EXCEPT ![r].job = j, ![r].at = "fetching"]
    /\ UNCHANGED orphans /\ GraphSame

FetchFails(r) ==
    /\ At(r, "fetching")
    /\ request' = [request EXCEPT ![r].at = "finishing", ![r].result = "failed"]
    /\ UNCHANGED <<jobs, orphans>> /\ GraphSame

\* The fetch ends and the disposition reads the row that has this text.
FetchAndSelect(r, c) ==
    /\ At(r, "fetching")
    /\ \/ \E j \in Matching(c) :
            request' = [request EXCEPT ![r].content = c, ![r].match = j,
                            ![r].row = jobs[j], ![r].at = "disposing"]
       \/ /\ Matching(c) = {}
          /\ request' = [request EXCEPT ![r].content = c, ![r].at = "disposing"]
    /\ UNCHANGED <<jobs, orphans>> /\ GraphSame

\* A match that has not failed replaces the placeholder.
DropPlaceholder(r) ==
    /\ At(r, "disposing") /\ request[r].match # NoJob
    /\ request[r].row.status # "failed"
    /\ IF Live(Target(r))
       THEN /\ jobs' = [jobs EXCEPT ![Target(r)] = [EmptyRow EXCEPT !.status = "gone"]]
            /\ request' = [request EXCEPT ![r].job = request[r].match,
                                          ![r].at = "saved"]
       ELSE Goto(r, "done") /\ UNCHANGED jobs
    /\ UNCHANGED orphans /\ GraphSame

\* A failed match is retried in the transaction that deletes the placeholder.  A
\* refused retry rolls both back, and nothing comes back for the placeholder.
RetryMatch(r) ==
    LET j == request[r].match IN
    /\ At(r, "disposing") /\ j # NoJob
    /\ request[r].row.status = "failed"
    /\ IF Live(Target(r)) /\ RetryHolds(j)
       THEN /\ jobs' = [Rewritten(j, "processing") EXCEPT
                            ![Target(r)] = [EmptyRow EXCEPT !.status = "gone"]]
            /\ request' = [request EXCEPT ![r].job = j, ![r].at = "extracting"]
            /\ UNCHANGED orphans
       ELSE /\ Goto(r, "done")
            /\ orphans' = orphans \cup {Target(r)}
            /\ UNCHANGED jobs
    /\ GraphSame

\* The text is attached to the placeholder.  A row inserted for it since the read
\* makes the unique index refuse, and the placeholder stays received.
AttachContent(r) ==
    /\ At(r, "disposing") /\ request[r].match = NoJob
    /\ IF Live(Target(r)) /\ Matching(request[r].content) = {}
       THEN /\ jobs' = [Rewritten(Target(r), "processing") EXCEPT
                            ![Target(r)].content = request[r].content]
            /\ Goto(r, "extracting")
            /\ UNCHANGED orphans
       ELSE /\ Goto(r, "done")
            /\ orphans' = orphans \cup {Target(r)}
            /\ UNCHANGED jobs
    /\ GraphSame

-----------------------------------------------------------------------------
(* The processor that text and URLs share *)

\* Faulty variant: an extraction error leaves without the terminal write.
ExtractAndForget(r) ==
    /\ At(r, "extracting")
    /\ \E result \in {"failed", "unscorable", "scorable"} :
         request' = [request EXCEPT
             ![r].at = IF result = "failed" THEN "done" ELSE "finishing",
             ![r].result = result]
    /\ UNCHANGED <<jobs, orphans>> /\ GraphSame

\* Extraction, classification and embedding, outside transactions.
Extract(r) ==
    /\ At(r, "extracting")
    /\ \E result \in {"failed", "unscorable", "scorable"} :
         request' = [request EXCEPT ![r].at = "finishing", ![r].result = result]
    /\ UNCHANGED <<jobs, orphans>> /\ GraphSame

\* The terminal write reads the row and checks the transition on what it read.
ReadForFinish(r) ==
    LET from == IF request[r].result = "failed" THEN {"received", "processing"}
                                                ELSE {"processing"} IN
    /\ At(r, "finishing")
    /\ Goto(r, IF jobs[Target(r)].status \in from THEN "writing" ELSE "done")
    /\ UNCHANGED <<jobs, orphans>> /\ GraphSame

WriteFinish(r) ==
    LET j == Target(r)
        scorable == request[r].result = "scorable" IN
    /\ At(r, "writing")
    /\ \/ /\ request[r].result = "failed" /\ FailedHolds(j)
          /\ jobs' = Rewritten(j, "failed")
          /\ Goto(r, "saved")
       \/ /\ request[r].result # "failed" /\ ProcessedHolds(j, scorable)
          /\ jobs' = Processed(j, scorable)
          /\ Goto(r, "loading")
       \/ /\ IF request[r].result = "failed" THEN ~FailedHolds(j)
                                             ELSE ~ProcessedHolds(j, scorable)
          /\ Goto(r, "done")
          /\ UNCHANGED jobs
    /\ UNCHANGED orphans /\ GraphSame

-----------------------------------------------------------------------------
(* sync_persisted_job: the committed row is read again and projected *)

LoadCommitted(r) ==
    LET row == jobs[Target(r)] IN
    /\ At(r, "loading")
    /\ request' = [request EXCEPT
           ![r].row = row,
           ![r].at = IF ScorableRow(row) THEN "syncing"
                     ELSE IF Live(Target(r)) THEN "saved" ELSE "done"]
    /\ UNCHANGED <<jobs, orphans>> /\ GraphSame

\* Faulty variant: the revision of the row as it is now, the rest as it was loaded.
SyncLatestRevision(r) ==
    /\ At(r, "syncing")
    /\ nodes' = [nodes EXCEPT ![Target(r)] =
                    [revision |-> jobs[Target(r)].revision,
                     version |-> request[r].row.version]]
    /\ Goto(r, "saved")
    /\ UNCHANGED <<jobs, orphans, evaluations, profileRevision, candidate>>

\* MERGE by id.  Only the first statement writes what matching reads; a failure
\* may come before or after it and is reported, not raised.
SyncJob(r) ==
    LET row == request[r].row IN
    /\ At(r, "syncing")
    /\ nodes' = [nodes EXCEPT ![Target(r)] =
                    [revision |-> row.revision, version |-> row.version]]
    /\ Goto(r, "saved")
    /\ UNCHANGED <<jobs, orphans, evaluations, profileRevision, candidate>>

SyncJobFails(r) ==
    /\ "graph" \in Faults
    /\ At(r, "syncing")
    /\ Goto(r, "saved")
    /\ UNCHANGED <<jobs, orphans>> /\ GraphSame

IngestionStep(r) ==
    \/ \E c \in Contents : SelectText(r, c) \/ FetchAndSelect(r, c)
    \/ InsertText(r) \/ RetryText(r)
    \/ CommitPlaceholder(r) \/ FetchFails(r)
    \/ DropPlaceholder(r) \/ RetryMatch(r) \/ AttachContent(r)
    \/ Extract(r) \/ ReadForFinish(r) \/ WriteFinish(r)
    \/ LoadCommitted(r) \/ SyncJob(r) \/ SyncJobFails(r)
=============================================================================
