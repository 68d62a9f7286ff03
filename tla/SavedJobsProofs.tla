-------------------------- MODULE SavedJobsProofs --------------------------
(***************************************************************************)
(* Theorems about saved jobs, for every number of jobs, texts and          *)
(* requests, and for every mix of duties and faults.                       *)
(*                                                                         *)
(* A row moves forward (Later): it comes into being once, is gone for      *)
(* good, and every write in between has a later revision.  A copy of       *)
(* a row, on the graph or in a request, is therefore either old or right   *)
(* (Faithful), and stays so whatever is written.                           *)
(***************************************************************************)
EXTENDS SavedJobs, TLAPS

\* A row that has been inserted and whose text is known.
Settled(j) == jobs[j].status \notin {"none", "received"}

Faithful(copy, j) ==
    \/ jobs[j].status = "gone"
    \/ /\ copy.revision <= jobs[j].revision
       /\ copy.revision = jobs[j].revision => copy.version = jobs[j].version

RowSound(j) ==
    /\ jobs[j].status = "none" => jobs[j] = EmptyRow
    /\ Live(j) => jobs[j].revision > 0
    /\ jobs[j].status = "received" => jobs[j].content = NoContent

\* The states in which a request has no job.
Unbound == {"idle", "inserting", "projecting", "clearing", "rebuilding", "done"}

Placeholding == {"fetching", "disposing"}
Finishing == {"finishing", "writing"}

\* What a request of ingestion or re-extraction knows of its row.
RowHeld(q) ==
    /\ q.at \notin Unbound => q.job \in Jobs
    /\ q.at \in {"retrying", "extracting", "reextracting", "replacing"} =>
         Settled(q.job)
    /\ q.at \in Finishing =>
         /\ jobs[q.job].status # "none"
         /\ q.result # "failed" => Settled(q.job)
    /\ q.at \in Placeholding => jobs[q.job].status \in {"received", "gone"}
    /\ q.at \in {"idle", "fetching"} => q.match = NoJob
    /\ q.at = "disposing" /\ q.match # NoJob => Settled(q.match)

\* What it knows of the copies that it carries.
CopiesHeld(q) ==
    /\ q.at \in {"syncing", "gating", "comparing", "retrieving", "rechecking"} =>
         Faithful(q.row, q.job)
    /\ q.at = "rechecking" =>
         \/ jobs[q.job].status = "gone"
         \/ q.row.revision = jobs[q.job].revision =>
              q.snapshot[q.job].version = jobs[q.job].version
    /\ q.at = "persisting" => q.snapshot[q.job].version = q.row.version
    /\ q.at \in {"clearing", "rebuilding"} =>
         \A j \in Jobs : Faithful(q.snapshot[j], j)

\* A placeholder is in the hands of one request.
PlaceholderOwned(r, s) ==
    /\ request[r].at \in Placeholding /\ request[s].at \in Serving
    /\ Target(r) = Target(s)
    => r = s \/ jobs[Target(r)].status = "gone"

IInv ==
    /\ SavedJobsTypeOK
    /\ \A j \in Jobs : RowSound(j)
    /\ \A r \in Requests : RowHeld(request[r])
    /\ \A r \in Requests : CopiesHeld(request[r])
    /\ \A r, s \in Requests : PlaceholderOwned(r, s)
    /\ \A j \in Jobs : Faithful(nodes[j], j)
    /\ IngestionServed
    /\ EvaluationFaithful

-----------------------------------------------------------------------------
(* One request takes a step *)

Turned(r) ==
    /\ request' \in [Requests -> RequestRow]
    /\ \A s \in Requests \ {r} : request'[s] = request[s]

\* A row waits to be processed.
Waits(j) == jobs[j].status \in {"received", "processing"}

\* Request r lets go of no row that waits.
HoldsOn(r) ==
    /\ request'[r].at \in Serving =>
         request[r].at \in Serving /\ request'[r].job = request[r].job
    /\ request'[r].at \in Placeholding => request[r].at \in Placeholding
    /\ request[r].at \in Serving /\ request'[r].at \notin Serving =>
         ~ Waits(Target(r)) \/ Target(r) \in orphans'

\* A step that leaves the rows as they are.
Reads(r) ==
    /\ Turned(r)
    /\ jobs' = jobs
    /\ orphans \subseteq orphans' /\ orphans' \subseteq Jobs
    /\ RowHeld(request'[r]) /\ CopiesHeld(request'[r])
    /\ HoldsOn(r)

LEMMA IdleTyped == Idle \in RequestRow /\ EmptyRow \in JobRow /\ NoNode \in NodeRow
  BY DEF Idle, RequestRow, RequestStates, Serving, EmptyRow, JobRow, JobStates, NoNode, NodeRow

\* A request that goes on with another snapshot is still a request.
LEMMA SnapshotTyped ==
  ASSUME NEW row \in RequestRow, NEW snap \in [Jobs -> NodeRow], NEW state \in RequestStates
  PROVE  [row EXCEPT !.snapshot = snap, !.at = state] \in RequestRow
  BY DEF RequestRow

\* Goto keeps the locals, or forgets all of them.
LEMMA GotoEffect ==
  ASSUME SavedJobsTypeOK, NEW r \in Requests, NEW state \in RequestStates, Goto(r, state)
  PROVE  /\ Turned(r)
         /\ request'[r].at = state
         /\ state # "done" =>
              /\ request'[r].job = request[r].job
              /\ request'[r].match = request[r].match
              /\ request'[r].content = request[r].content
              /\ request'[r].row = request[r].row
              /\ request'[r].result = request[r].result
              /\ request'[r].profile = request[r].profile
              /\ request'[r].gated = request[r].gated
              /\ request'[r].snapshot = request[r].snapshot
  <1>1. request \in [Requests -> RequestRow]
    BY DEF SavedJobsTypeOK, IngestionTypeOK
  <1>2. CASE state = "done"
    BY <1>1, <1>2, IdleTyped DEF Goto, Turned, RequestRow, Idle
  <1>3. CASE state # "done"
    BY <1>1, <1>3 DEF Goto, Turned, RequestRow
  <1> QED BY <1>2, <1>3

\* A request that takes on other locals.
LEMMA Moved ==
  ASSUME SavedJobsTypeOK, NEW r \in Requests, NEW q \in RequestRow,
         request' = [request EXCEPT ![r] = q]
  PROVE  Turned(r) /\ request'[r] = q
  BY DEF Turned, SavedJobsTypeOK, IngestionTypeOK

LEMMA Typed ==
  ASSUME IInv, NEW r \in Requests
  PROVE  /\ request \in [Requests -> RequestRow] /\ request[r] \in RequestRow
         /\ jobs \in [Jobs -> JobRow] /\ orphans \subseteq Jobs
         /\ RowHeld(request[r]) /\ CopiesHeld(request[r])
         /\ SavedJobsTypeOK
  BY DEF IInv, SavedJobsTypeOK, JobStoreTypeOK, IngestionTypeOK

\* A request that is done holds nothing and has let nothing go.
LEMMA DoneReads ==
  ASSUME IInv, NEW r \in Requests, Goto(r, "done"), jobs' = jobs,
         orphans \subseteq orphans', orphans' \subseteq Jobs,
         request[r].at \in Serving => ~ Waits(Target(r)) \/ Target(r) \in orphans'
  PROVE  Reads(r)
  <1>1. "done" \in RequestStates  BY DEF RequestStates
  <1>2. Turned(r) /\ request'[r].at = "done"  BY <1>1, Typed, GotoEffect
  <1> QED
    BY <1>2 DEF Reads, HoldsOn, RowHeld, CopiesHeld, Unbound, Serving, Placeholding, Finishing

\* A request that goes on beyond ingestion with the job it has.
LEMMA GoneOnReads ==
  ASSUME IInv, NEW r \in Requests, request[r].at \notin Serving \cup Unbound,
         NEW state \in {"saved", "checking", "dropping", "deleted"}, Goto(r, state),
         jobs' = jobs, orphans' = orphans
  PROVE  Reads(r)
  <1>1. state \in RequestStates  BY DEF RequestStates
  <1>2. Turned(r) /\ request'[r].at = state /\ request'[r].job = request[r].job
    BY <1>1, Typed, GotoEffect
  <1>3. RowHeld(request'[r]) /\ CopiesHeld(request'[r])
    BY <1>2, Typed DEF RowHeld, CopiesHeld, Unbound, Placeholding, Finishing
  <1> QED  BY <1>2, <1>3, Typed DEF Reads, HoldsOn, Serving, Placeholding

-----------------------------------------------------------------------------
(* The steps that leave the rows as they are *)

LEMMA SelectTextReads ==
  ASSUME IInv, NEW r \in Requests, NEW c \in Contents, SelectText(r, c)
  PROVE  Reads(r)
  <1>1. request[r].at = "idle" /\ jobs' = jobs /\ orphans' = orphans  BY DEF SelectText, At
  <1>2. ASSUME NEW j \in Matching(c), NEW at \in {"retrying", "saved"},
               request' = [request EXCEPT ![r].job = j, ![r].content = c, ![r].at = at]
        PROVE  Reads(r)
    <2> DEFINE q == [request[r] EXCEPT !.job = j, !.content = c, !.at = at]
    <2>1. j \in Jobs /\ at \in RequestStates  BY DEF Matching, RequestStates
    <2>2. q \in RequestRow  BY <2>1, Typed DEF RequestRow
    <2>3. request' = [request EXCEPT ![r] = q]  BY <1>2, Typed
    <2>4. q.at = at /\ q.job = j  BY Typed DEF RequestRow
    <2> HIDE DEF q
    <2>5. Turned(r) /\ request'[r] = q  BY <2>2, <2>3, Typed, Moved
    <2>6. Settled(j)
      BY <2>1, JobStoreAssumption DEF IInv, RowSound, Matching, Live, Settled
    <2> QED
      BY <1>1, <2>1, <2>4, <2>5, <2>6, Typed DEF Reads, RowHeld, CopiesHeld, HoldsOn,
         Unbound, Serving, Placeholding, Finishing
  <1>3. CASE request' = [request EXCEPT ![r].content = c, ![r].at = "inserting"]
    <2> DEFINE q == [request[r] EXCEPT !.content = c, !.at = "inserting"]
    <2>1. "inserting" \in RequestStates  BY DEF RequestStates
    <2>2. q \in RequestRow  BY <2>1, Typed DEF RequestRow
    <2>3. request' = [request EXCEPT ![r] = q]  BY <1>3, Typed
    <2>4. q.at = "inserting"  BY Typed DEF RequestRow
    <2> HIDE DEF q
    <2>5. Turned(r) /\ request'[r] = q  BY <2>2, <2>3, Typed, Moved
    <2> QED
      BY <1>1, <2>4, <2>5, Typed DEF Reads, RowHeld, CopiesHeld, HoldsOn,
         Unbound, Serving, Placeholding, Finishing
  <1>4. \/ request' = [request EXCEPT ![r].content = c, ![r].at = "inserting"]
        \/ \E j \in Matching(c), at \in {"retrying", "saved"} :
             request' = [request EXCEPT ![r].job = j, ![r].content = c, ![r].at = at]
    BY DEF SelectText
  <1> QED BY <1>2, <1>3, <1>4

LEMMA FetchFailsReads ==
  ASSUME IInv, NEW r \in Requests, FetchFails(r)
  PROVE  Reads(r)
  <1>1. request[r].at = "fetching" /\ jobs' = jobs /\ orphans' = orphans
    BY DEF FetchFails, At
  <1> DEFINE q == [request[r] EXCEPT !.at = "finishing", !.result = "failed"]
  <1>2. "finishing" \in RequestStates  BY DEF RequestStates, Serving
  <1>3. q \in RequestRow  BY <1>2, Typed DEF RequestRow
  <1>4. request' = [request EXCEPT ![r] = q]  BY Typed DEF FetchFails
  <1>5. q.at = "finishing" /\ q.result = "failed" /\ q.job = request[r].job
    BY Typed DEF RequestRow
  <1> HIDE DEF q
  <1>6. Turned(r) /\ request'[r] = q  BY <1>3, <1>4, Typed, Moved
  <1> QED
    BY <1>1, <1>5, <1>6, Typed DEF Reads, RowHeld, CopiesHeld, HoldsOn,
       Unbound, Serving, Placeholding, Finishing

LEMMA FetchReads ==
  ASSUME IInv, NEW r \in Requests, NEW c \in Contents, FetchAndSelect(r, c)
  PROVE  Reads(r)
  <1>1. request[r].at = "fetching" /\ jobs' = jobs /\ orphans' = orphans
    BY DEF FetchAndSelect, At
  <1>2. "disposing" \in RequestStates  BY DEF RequestStates, Serving
  <1>3. ASSUME NEW j \in Matching(c),
               request' = [request EXCEPT ![r].content = c, ![r].match = j,
                             ![r].row = jobs[j], ![r].at = "disposing"]
        PROVE  Reads(r)
    <2> DEFINE q == [request[r] EXCEPT !.content = c, !.match = j, !.row = jobs[j],
                                       !.at = "disposing"]
    <2>1. j \in Jobs  BY DEF Matching
    <2>2. q \in RequestRow  BY <1>2, <2>1, Typed DEF RequestRow
    <2>3. request' = [request EXCEPT ![r] = q]  BY <1>3, Typed
    <2>4. q.at = "disposing" /\ q.job = request[r].job /\ q.match = j
      BY Typed DEF RequestRow
    <2> HIDE DEF q
    <2>5. Turned(r) /\ request'[r] = q  BY <2>2, <2>3, Typed, Moved
    <2>6. Settled(j)
      BY <2>1, JobStoreAssumption DEF IInv, RowSound, Matching, Live, Settled
    <2> QED
      BY <1>1, <2>4, <2>5, <2>6, Typed DEF Reads, RowHeld, CopiesHeld, HoldsOn,
         Unbound, Serving, Placeholding, Finishing
  <1>4. CASE request' = [request EXCEPT ![r].content = c, ![r].at = "disposing"]
    <2> DEFINE q == [request[r] EXCEPT !.content = c, !.at = "disposing"]
    <2>1. q \in RequestRow  BY <1>2, Typed DEF RequestRow
    <2>2. request' = [request EXCEPT ![r] = q]  BY <1>4, Typed
    <2>3. q.at = "disposing" /\ q.job = request[r].job /\ q.match = request[r].match
      BY Typed DEF RequestRow
    <2> HIDE DEF q
    <2>4. Turned(r) /\ request'[r] = q  BY <2>1, <2>2, Typed, Moved
    <2> QED
      BY <1>1, <2>3, <2>4, Typed DEF Reads, RowHeld, CopiesHeld, HoldsOn,
         Unbound, Serving, Placeholding, Finishing
  <1> QED BY <1>3, <1>4 DEF FetchAndSelect

LEMMA ExtractReads ==
  ASSUME IInv, NEW r \in Requests, Extract(r)
  PROVE  Reads(r)
  <1>1. request[r].at = "extracting" /\ jobs' = jobs /\ orphans' = orphans
    BY DEF Extract, At
  <1>2. PICK result \in {"failed", "unscorable", "scorable"} :
          request' = [request EXCEPT ![r].at = "finishing", ![r].result = result]
    BY DEF Extract
  <1> DEFINE q == [request[r] EXCEPT !.at = "finishing", !.result = result]
  <1>3. "finishing" \in RequestStates  BY DEF RequestStates, Serving
  <1>4. q \in RequestRow  BY <1>3, Typed DEF RequestRow
  <1>5. request' = [request EXCEPT ![r] = q]  BY <1>2, Typed
  <1>6. q.at = "finishing" /\ q.job = request[r].job  BY Typed DEF RequestRow
  <1> HIDE DEF q
  <1>7. Turned(r) /\ request'[r] = q  BY <1>4, <1>5, Typed, Moved
  <1> QED
    BY <1>1, <1>6, <1>7, Typed DEF Reads, RowHeld, CopiesHeld, HoldsOn,
       Unbound, Serving, Placeholding, Finishing, Settled

LEMMA ReadForFinishReads ==
  ASSUME IInv, NEW r \in Requests, ReadForFinish(r)
  PROVE  Reads(r)
  <1> DEFINE from == IF request[r].result = "failed" THEN {"received", "processing"}
                                                     ELSE {"processing"}
  <1>1. request[r].at = "finishing" /\ jobs' = jobs /\ orphans' = orphans
    BY DEF ReadForFinish, At
  <1>2. CASE jobs[Target(r)].status \in from
    <2>1. Goto(r, "writing") /\ "writing" \in RequestStates
      BY <1>2 DEF ReadForFinish, RequestStates, Serving
    <2>2. /\ Turned(r) /\ request'[r].at = "writing"
          /\ request'[r].job = request[r].job /\ request'[r].result = request[r].result
      BY <2>1, Typed, GotoEffect
    <2> QED
      BY <1>1, <2>2, Typed DEF Reads, RowHeld, CopiesHeld, HoldsOn,
         Unbound, Serving, Placeholding, Finishing
  <1>3. CASE jobs[Target(r)].status \notin from
    <2>1. Goto(r, "done")  BY <1>3 DEF ReadForFinish
    <2>2. ~ Waits(Target(r))
      BY <1>1, <1>3, Typed DEF Waits, RowHeld, Finishing, Settled, Target
    <2> QED BY <1>1, <2>1, <2>2, Typed, DoneReads
  <1> QED BY <1>2, <1>3

LEMMA LoadCommittedReads ==
  ASSUME IInv, NEW r \in Requests, LoadCommitted(r)
  PROVE  Reads(r)
  <1> DEFINE row == jobs[Target(r)]
             at == IF ScorableRow(row) THEN "syncing"
                   ELSE IF Live(Target(r)) THEN "saved" ELSE "done"
             q == [request[r] EXCEPT !.row = row, !.at = at]
  <1>1. request[r].at = "loading" /\ jobs' = jobs /\ orphans' = orphans
    BY DEF LoadCommitted, At
  <1>2. Target(r) \in Jobs  BY <1>1, Typed DEF RowHeld, Unbound, Target
  <1>3. at \in {"syncing", "saved", "done"} /\ at \in RequestStates  BY DEF RequestStates
  <1>4. request' = [request EXCEPT ![r] = q]  BY Typed DEF LoadCommitted
  <1>5. row \in JobRow  BY <1>2, Typed
  <1>6. Faithful(row, Target(r))  BY <1>2, Typed DEF Faithful, JobRow
  <1> HIDE DEF at, row
  <1>7. q \in RequestRow  BY <1>3, <1>5, Typed DEF RequestRow
  <1>8. q.at = at /\ q.job = Target(r) /\ q.row = row  BY Typed DEF RequestRow, Target
  <1> HIDE DEF q
  <1>9. Turned(r) /\ request'[r] = q  BY <1>4, <1>7, Typed, Moved
  <1> QED
    BY <1>1, <1>2, <1>3, <1>6, <1>8, <1>9, Typed DEF Reads, RowHeld, CopiesHeld, HoldsOn,
       Unbound, Serving, Placeholding, Finishing

LEMMA CaptureJobReads ==
  ASSUME IInv, NEW r \in Requests, NEW j \in Jobs, CaptureJob(r, j)
  PROVE  Reads(r)
  <1> DEFINE q == [request[r] EXCEPT !.job = j, !.row = jobs[j], !.at = "reextracting"]
  <1>1. request[r].at = "idle" /\ jobs' = jobs /\ orphans' = orphans
    BY DEF CaptureJob, OnlyReads, At
  <1>2. "reextracting" \in RequestStates  BY DEF RequestStates
  <1>3. q \in RequestRow  BY <1>2, Typed DEF RequestRow
  <1>4. request' = [request EXCEPT ![r] = q]  BY Typed DEF CaptureJob
  <1>5. q.at = "reextracting" /\ q.job = j  BY Typed DEF RequestRow
  <1> HIDE DEF q
  <1>6. Turned(r) /\ request'[r] = q  BY <1>3, <1>4, Typed, Moved
  <1>7. Settled(j)  BY DEF IInv, RowSound, CaptureJob, Live, Settled
  <1> QED
    BY <1>1, <1>5, <1>6, <1>7, Typed DEF Reads, RowHeld, CopiesHeld, HoldsOn,
       Unbound, Serving, Placeholding, Finishing

LEMMA ReextractReads ==
  ASSUME IInv, NEW r \in Requests, Reextract(r)
  PROVE  Reads(r)
  <1>1. request[r].at = "reextracting" /\ jobs' = jobs /\ orphans' = orphans
    BY DEF Reextract, OnlyReads, At
  <1>2. CASE Goto(r, "replacing")
    <2>1. "replacing" \in RequestStates  BY DEF RequestStates
    <2>2. Turned(r) /\ request'[r].at = "replacing" /\ request'[r].job = request[r].job
      BY <1>2, <2>1, Typed, GotoEffect
    <2> QED
      BY <1>1, <2>2, Typed DEF Reads, RowHeld, CopiesHeld, HoldsOn,
         Unbound, Serving, Placeholding, Finishing
  <1>3. CASE Goto(r, "done")
    BY <1>1, <1>3, Typed, DoneReads DEF Serving
  <1> QED BY <1>2, <1>3 DEF Reextract

LEMMA ReplaceConflictsReads ==
  ASSUME IInv, NEW r \in Requests, ReplaceConflicts(r)
  PROVE  Reads(r)
  BY Typed, DoneReads DEF ReplaceConflicts, OnlyReads, At, Serving

LEMMA BeginReads ==
  ASSUME IInv, NEW r \in Requests, NEW j \in Jobs, BeginEvaluate(r, j) \/ BeginDelete(r, j)
  PROVE  Reads(r)
  <1>1. request[r].at \in {"idle", "saved"} /\ jobs' = jobs /\ orphans' = orphans
    BY DEF BeginEvaluate, BeginDelete, OnlyReads, At
  <1>2. PICK at \in {"resolving", "detaching"} :
          request' = [request EXCEPT ![r].job = j, ![r].at = at]
    BY DEF BeginEvaluate, BeginDelete
  <1> DEFINE q == [request[r] EXCEPT !.job = j, !.at = at]
  <1>3. at \in RequestStates  BY DEF RequestStates
  <1>4. q \in RequestRow  BY <1>3, Typed DEF RequestRow
  <1>5. request' = [request EXCEPT ![r] = q]  BY <1>2, Typed
  <1>6. q.at = at /\ q.job = j  BY Typed DEF RequestRow
  <1> HIDE DEF q
  <1>7. Turned(r) /\ request'[r] = q  BY <1>4, <1>5, Typed, Moved
  <1> QED
    BY <1>1, <1>6, <1>7, Typed DEF Reads, RowHeld, CopiesHeld, HoldsOn,
       Unbound, Serving, Placeholding, Finishing

LEMMA ResolveContextReads ==
  ASSUME IInv, NEW r \in Requests, ResolveContext(r)
  PROVE  Reads(r)
  <1> DEFINE row == jobs[Target(r)]
             at == IF ScorableRow(row) /\ ~ Stored(Target(r), row.revision, profileRevision)
                   THEN "gating" ELSE "done"
             q == [request[r] EXCEPT !.row = row, !.profile = profileRevision, !.at = at]
  <1>1. request[r].at = "resolving" /\ jobs' = jobs /\ orphans' = orphans
    BY DEF ResolveContext, OnlyReads, At
  <1>2. Target(r) \in Jobs  BY <1>1, Typed DEF RowHeld, Unbound, Target
  <1>3. at \in {"gating", "done"} /\ at \in RequestStates  BY DEF RequestStates
  <1>4. request' = [request EXCEPT ![r] = q]  BY Typed DEF ResolveContext
  <1>5. row \in JobRow /\ profileRevision \in Nat
    BY <1>2, Typed DEF SavedJobsTypeOK, JobStoreTypeOK
  <1>6. Faithful(row, Target(r))  BY <1>2, Typed DEF Faithful, JobRow
  <1> HIDE DEF at, row
  <1>7. q \in RequestRow  BY <1>3, <1>5, Typed DEF RequestRow
  <1>8. q.at = at /\ q.job = Target(r) /\ q.row = row  BY Typed DEF RequestRow, Target
  <1> HIDE DEF q
  <1>9. Turned(r) /\ request'[r] = q  BY <1>4, <1>7, Typed, Moved
  <1> QED
    BY <1>1, <1>2, <1>3, <1>6, <1>8, <1>9, Typed DEF Reads, RowHeld, CopiesHeld, HoldsOn,
       Unbound, Serving, Placeholding, Finishing

\* What a projection would write is faithful to the rows it is taken from.
LEMMA ProjectionFaithful ==
  ASSUME IInv
  PROVE  /\ Projection \in [Jobs -> NodeRow]
         /\ \A j \in Jobs : Faithful(Projection[j], j) /\ Faithful(NoNode, j)
  <1>1. jobs \in [Jobs -> JobRow]  BY DEF IInv, SavedJobsTypeOK, JobStoreTypeOK
  <1>2. \A j \in Jobs : Faithful(NoNode, j)
    <2> TAKE j \in Jobs
    <2>1. jobs[j].revision \in Nat /\ jobs[j].version \in Nat  BY <1>1 DEF JobRow
    <2>2. RowSound(j)  BY DEF IInv
    <2> QED  BY <2>1, <2>2 DEF Faithful, RowSound, Live, NoNode, EmptyRow
  <1> QED
    BY <1>1, <1>2 DEF Projection, Faithful, JobRow, NodeRow, NoNode

LEMMA GateReadsTruthReads ==
  ASSUME IInv, NEW r \in Requests, GateReadsTruth(r)
  PROVE  Reads(r)
  <1> DEFINE q == [request[r] EXCEPT !.snapshot = Projection, !.gated = profileRevision,
                                     !.at = "comparing"]
  <1>1. request[r].at = "gating" /\ jobs' = jobs /\ orphans' = orphans
    BY DEF GateReadsTruth, OnlyReads, At
  <1>2. "comparing" \in RequestStates  BY DEF RequestStates
  <1>3. Projection \in [Jobs -> NodeRow] /\ profileRevision \in Nat
    BY ProjectionFaithful DEF IInv, SavedJobsTypeOK, JobStoreTypeOK
  <1>4. request' = [request EXCEPT ![r] = q]  BY Typed DEF GateReadsTruth
  <1>5. q \in RequestRow  BY <1>2, <1>3, Typed DEF RequestRow
  <1>6. q.at = "comparing" /\ q.job = request[r].job /\ q.row = request[r].row
    BY Typed DEF RequestRow
  <1> HIDE DEF q
  <1>7. Turned(r) /\ request'[r] = q  BY <1>4, <1>5, Typed, Moved
  <1> QED
    BY <1>1, <1>6, <1>7, Typed DEF Reads, RowHeld, CopiesHeld, HoldsOn,
       Unbound, Serving, Placeholding, Finishing

LEMMA GateComparesGraphReads ==
  ASSUME IInv, NEW r \in Requests, GateComparesGraph(r)
  PROVE  Reads(r)
  <1>1. request[r].at = "comparing" /\ jobs' = jobs /\ orphans' = orphans
    BY DEF GateComparesGraph, OnlyReads, At
  <1>2. Goto(r, "retrieving") \/ Goto(r, "done")  BY DEF GateComparesGraph
  <1>3. CASE Goto(r, "retrieving")
    <2>1. "retrieving" \in RequestStates  BY DEF RequestStates
    <2>2. /\ Turned(r) /\ request'[r].at = "retrieving"
          /\ request'[r].job = request[r].job /\ request'[r].row = request[r].row
      BY <1>3, <2>1, Typed, GotoEffect
    <2> QED
      BY <1>1, <2>2, Typed DEF Reads, RowHeld, CopiesHeld, HoldsOn,
         Unbound, Serving, Placeholding, Finishing
  <1>4. CASE Goto(r, "done")
    BY <1>1, <1>4, Typed, DoneReads DEF Serving
  <1> QED BY <1>2, <1>3, <1>4

\* The extraction that was hydrated is the one of the revision in hand, unless the
\* row has a later one by now.
LEMMA RetrieveExactReads ==
  ASSUME IInv, NEW r \in Requests, RetrieveExact(r)
  PROVE  Reads(r)
  <1> DEFINE j == Target(r)
             snapshot == [request[r].snapshot EXCEPT ![j].version = jobs[j].version]
             at == IF nodes[j] # NoNode /\ ScorableRow(jobs[j]) THEN "rechecking" ELSE "done"
             q == [request[r] EXCEPT !.snapshot = snapshot, !.at = at]
  <1>1. request[r].at = "retrieving" /\ jobs' = jobs /\ orphans' = orphans
    BY DEF RetrieveExact, OnlyReads, At
  <1>2. j \in Jobs  BY <1>1, Typed DEF RowHeld, Unbound, Target
  <1>3. at \in {"rechecking", "done"} /\ at \in RequestStates  BY DEF RequestStates
  <1>4. request' = [request EXCEPT ![r] = q]  BY Typed DEF RetrieveExact
  <1>5. request[r].snapshot \in [Jobs -> NodeRow] /\ jobs[j].version \in Nat
    BY <1>2, Typed DEF RequestRow, JobRow
  <1>6. snapshot \in [Jobs -> NodeRow] /\ snapshot[j].version = jobs[j].version
    BY <1>2, <1>5 DEF NodeRow
  <1>10. Faithful(request[r].row, j)  BY <1>1, Typed DEF CopiesHeld, Target
  <1>11. q.job = j  BY Typed DEF RequestRow, Target
  <1> HIDE DEF at, snapshot, j
  <1>7. q \in RequestRow  BY <1>3, <1>6, Typed, SnapshotTyped
  <1>8. q.at = at /\ q.row = request[r].row /\ q.snapshot = snapshot
    BY Typed DEF RequestRow
  <1> HIDE DEF q
  <1>9. Turned(r) /\ request'[r] = q  BY <1>4, <1>7, Typed, Moved
  <1> QED
    BY <1>1, <1>2, <1>3, <1>6, <1>8, <1>9, <1>10, <1>11, Typed DEF Reads, RowHeld, CopiesHeld,
       HoldsOn, Unbound, Serving, Placeholding, Finishing

LEMMA RecheckReads ==
  ASSUME IInv, NEW r \in Requests, Recheck(r)
  PROVE  Reads(r)
  <1>1. request[r].at = "rechecking" /\ jobs' = jobs /\ orphans' = orphans
    BY DEF Recheck, OnlyReads, At
  <1>2. CASE Goto(r, "persisting") /\ ScorableRow(jobs[Target(r)])
             /\ jobs[Target(r)].revision = request[r].row.revision
    <2>1. "persisting" \in RequestStates  BY DEF RequestStates
    <2>2. /\ Turned(r) /\ request'[r].at = "persisting"
          /\ request'[r].job = request[r].job /\ request'[r].row = request[r].row
          /\ request'[r].snapshot = request[r].snapshot
      BY <1>2, <2>1, Typed, GotoEffect
    <2>3. request[r].snapshot[Target(r)].version = request[r].row.version
      BY <1>1, <1>2, Typed DEF CopiesHeld, Faithful, ScorableRow, Target
    <2> QED
      BY <1>1, <2>2, <2>3, Typed DEF Reads, RowHeld, CopiesHeld, HoldsOn,
         Unbound, Serving, Placeholding, Finishing, Target
  <1>3. CASE Goto(r, "done")
    BY <1>1, <1>3, Typed, DoneReads DEF Serving
  <1> QED BY <1>2, <1>3 DEF Recheck

LEMMA LoadRebuildInputsReads ==
  ASSUME IInv, NEW r \in Requests, LoadRebuildInputs(r)
  PROVE  Reads(r)
  <1> DEFINE q == [request[r] EXCEPT !.snapshot = Projection, !.profile = profileRevision,
                                     !.at = "clearing"]
  <1>1. request[r].at = "idle" /\ jobs' = jobs /\ orphans' = orphans
    BY DEF LoadRebuildInputs, OnlyReads, At
  <1>2. "clearing" \in RequestStates  BY DEF RequestStates
  <1>3. Projection \in [Jobs -> NodeRow] /\ profileRevision \in Nat
    BY ProjectionFaithful DEF IInv, SavedJobsTypeOK, JobStoreTypeOK
  <1>4. request' = [request EXCEPT ![r] = q]  BY Typed DEF LoadRebuildInputs
  <1>5. q \in RequestRow  BY <1>2, <1>3, Typed DEF RequestRow
  <1>6. q.at = "clearing" /\ q.snapshot = Projection  BY Typed DEF RequestRow
  <1> HIDE DEF q
  <1>7. Turned(r) /\ request'[r] = q  BY <1>4, <1>5, Typed, Moved
  <1> QED
    BY <1>1, <1>6, <1>7, Typed, ProjectionFaithful DEF Reads, RowHeld, CopiesHeld, HoldsOn,
       Unbound, Serving, Placeholding, Finishing

LEMMA AbortReads ==
  ASSUME IInv, NEW r \in Requests, Abort(r)
  PROVE  Reads(r)
  <1>1. /\ Goto(r, "done") /\ jobs' = jobs
        /\ orphans' = IF request[r].at \in Serving THEN orphans \cup {Target(r)} ELSE orphans
    BY DEF Abort
  <1>2. request[r].at \in Serving => Target(r) \in Jobs
    BY Typed DEF RowHeld, Unbound, Serving, Target
  <1> QED  BY <1>1, <1>2, Typed, DoneReads

-----------------------------------------------------------------------------
(* The steps that write the graph or the evaluations *)

\* What such a step leaves behind besides the request.
Derived ==
    /\ JobStoreTypeOK'
    /\ \A j \in Jobs : Faithful(nodes'[j], j)
    /\ EvaluationFaithful'

LEMMA GraphSameDerived ==
  ASSUME IInv, jobs' = jobs, GraphSame
  PROVE  Derived
  BY DEF IInv, SavedJobsTypeOK, JobStoreTypeOK, GraphSame, Derived, EvaluationFaithful

LEMMA SyncJobReads ==
  ASSUME IInv, NEW r \in Requests, SyncJob(r) \/ SyncJobFails(r)
  PROVE  Reads(r) /\ Derived
  <1>1. /\ request[r].at = "syncing" /\ Goto(r, "saved")
        /\ jobs' = jobs /\ orphans' = orphans
    BY DEF SyncJob, SyncJobFails, At
  <1>2. Reads(r)  BY <1>1, GoneOnReads DEF Serving, Unbound
  <1>3. CASE SyncJob(r)
    <2>1. nodes' = [nodes EXCEPT ![Target(r)] = [revision |-> request[r].row.revision,
                                                 version |-> request[r].row.version]]
          /\ UNCHANGED <<evaluations, profileRevision, candidate>>
      BY <1>3 DEF SyncJob
    <2>2. Target(r) \in Jobs /\ Faithful(request[r].row, Target(r))
      BY <1>1, Typed DEF RowHeld, CopiesHeld, Unbound, Target
    <2>3. request[r].row \in JobRow  BY Typed DEF RequestRow
    <2>4. nodes' \in [Jobs -> NodeRow]
      BY <2>1, <2>2, <2>3 DEF IInv, SavedJobsTypeOK, JobStoreTypeOK, JobRow, NodeRow
    <2>5. \A j \in Jobs : Faithful(nodes'[j], j)
      BY <2>1, <2>2 DEF IInv, SavedJobsTypeOK, JobStoreTypeOK, Faithful
    <2> QED
      BY <1>1, <1>2, <2>1, <2>4, <2>5 DEF IInv, SavedJobsTypeOK, JobStoreTypeOK, Derived,
         EvaluationFaithful
  <1>4. CASE SyncJobFails(r)
    BY <1>1, <1>2, <1>4, GraphSameDerived DEF SyncJobFails
  <1> QED BY <1>2, <1>3, <1>4

LEMMA DetachReads ==
  ASSUME IInv, NEW r \in Requests, DetachNode(r)
  PROVE  Reads(r) /\ Derived
  <1>1. /\ request[r].at = "detaching" /\ Goto(r, "checking")
        /\ jobs' = jobs /\ orphans' = orphans
        /\ nodes' = [nodes EXCEPT ![Target(r)] = NoNode]
        /\ UNCHANGED <<evaluations, profileRevision, candidate>>
    BY DEF DetachNode, At
  <1>2. Reads(r)  BY <1>1, GoneOnReads DEF Serving, Unbound
  <1>3. nodes' \in [Jobs -> NodeRow] /\ \A j \in Jobs : Faithful(nodes'[j], j)
    BY <1>1, IdleTyped, ProjectionFaithful DEF IInv, SavedJobsTypeOK, JobStoreTypeOK
  <1> QED
    BY <1>1, <1>2, <1>3 DEF IInv, SavedJobsTypeOK, JobStoreTypeOK, Derived, EvaluationFaithful

LEMMA ConfirmDetachedReads ==
  ASSUME IInv, NEW r \in Requests, ConfirmDetached(r)
  PROVE  Reads(r)
  <1>1. /\ request[r].at = "checking" /\ jobs' = jobs /\ orphans' = orphans
        /\ Goto(r, "dropping") \/ Goto(r, "done")
    BY DEF ConfirmDetached, OnlyReads, At
  <1> QED  BY <1>1, Typed, GoneOnReads, DoneReads DEF Serving, Unbound

LEMMA InsertEvaluationReads ==
  ASSUME IInv, NEW r \in Requests, InsertEvaluation(r)
  PROVE  Reads(r) /\ Derived
  <1> DEFINE j == Target(r)
             seen == request[r]
             new == [job |-> j, revision |-> seen.row.revision, profile |-> seen.profile,
                     scored |-> seen.snapshot[j].version, named |-> seen.row.version]
  <1>1. /\ request[r].at = "persisting" /\ Goto(r, "done")
        /\ jobs' = jobs /\ orphans' = orphans
        /\ UNCHANGED <<profileRevision, nodes, candidate>>
        /\ evaluations' \in {evaluations, evaluations \cup {new}}
    BY DEF InsertEvaluation, At
  <1>2. Reads(r)  BY <1>1, Typed, DoneReads DEF Serving
  <1>3. j \in Jobs /\ seen.snapshot[j].version = seen.row.version
    BY <1>1, Typed DEF RowHeld, CopiesHeld, Unbound, Target
  <1>4. seen.row \in JobRow /\ seen.profile \in Nat /\ seen.snapshot \in [Jobs -> NodeRow]
    BY Typed DEF RequestRow
  <1>5. new \in EvaluationRow  BY <1>3, <1>4 DEF EvaluationRow, JobRow, NodeRow
  <1>6. new.scored = new.named  BY <1>3
  <1> HIDE DEF new
  <1> QED
    BY <1>1, <1>2, <1>5, <1>6 DEF IInv, SavedJobsTypeOK, JobStoreTypeOK, Derived,
       EvaluationFaithful, Faithful

LEMMA ApproveProfileReads ==
  ASSUME IInv, NEW r \in Requests, ApproveProfile(r)
  PROVE  Reads(r) /\ Derived
  <1> DEFINE q == [request[r] EXCEPT !.profile = profileRevision', !.at = "projecting"]
  <1>1. /\ request[r].at = "idle" /\ jobs' = jobs /\ orphans' = orphans
        /\ profileRevision' = profileRevision + 1
        /\ UNCHANGED <<evaluations, nodes, candidate>>
    BY DEF ApproveProfile, At
  <1>2. "projecting" \in RequestStates  BY DEF RequestStates
  <1>3. profileRevision' \in Nat
    BY <1>1 DEF IInv, SavedJobsTypeOK, JobStoreTypeOK
  <1>4. request' = [request EXCEPT ![r] = q]  BY Typed DEF ApproveProfile
  <1>5. q \in RequestRow  BY <1>2, <1>3, Typed DEF RequestRow
  <1>6. q.at = "projecting"  BY Typed DEF RequestRow
  <1> HIDE DEF q
  <1>7. Turned(r) /\ request'[r] = q  BY <1>4, <1>5, Typed, Moved
  <1>8. Reads(r)
    BY <1>1, <1>6, <1>7, Typed DEF Reads, RowHeld, CopiesHeld, HoldsOn,
       Unbound, Serving, Placeholding, Finishing
  <1> QED
    BY <1>1, <1>3, <1>8 DEF IInv, SavedJobsTypeOK, JobStoreTypeOK, Derived,
       EvaluationFaithful, Faithful

LEMMA SyncCandidateReads ==
  ASSUME IInv, NEW r \in Requests, SyncCandidate(r)
  PROVE  Reads(r) /\ Derived
  <1>1. /\ request[r].at = "projecting" /\ Goto(r, "done")
        /\ jobs' = jobs /\ orphans' = orphans
        /\ candidate' \in {candidate, request[r].profile}
        /\ UNCHANGED <<evaluations, profileRevision, nodes>>
    BY DEF SyncCandidate, At
  <1>2. Reads(r)  BY <1>1, Typed, DoneReads DEF Serving
  <1>3. request[r].profile \in Nat  BY Typed DEF RequestRow
  <1> QED
    BY <1>1, <1>2, <1>3 DEF IInv, SavedJobsTypeOK, JobStoreTypeOK, Derived,
       EvaluationFaithful, Faithful

LEMMA ClearGraphReads ==
  ASSUME IInv, NEW r \in Requests, ClearGraph(r)
  PROVE  Reads(r) /\ Derived
  <1>1. /\ request[r].at = "clearing" /\ Goto(r, "rebuilding")
        /\ jobs' = jobs /\ orphans' = orphans
        /\ nodes' = [j \in Jobs |-> NoNode] /\ candidate' = 0
        /\ UNCHANGED <<evaluations, profileRevision>>
    BY DEF ClearGraph, At
  <1>2. "rebuilding" \in RequestStates  BY DEF RequestStates
  <1>3. /\ Turned(r) /\ request'[r].at = "rebuilding"
        /\ request'[r].snapshot = request[r].snapshot
    BY <1>1, <1>2, Typed, GotoEffect
  <1>4. Reads(r)
    BY <1>1, <1>3, Typed DEF Reads, RowHeld, CopiesHeld, HoldsOn,
       Unbound, Serving, Placeholding, Finishing
  <1>5. nodes' \in [Jobs -> NodeRow] /\ \A j \in Jobs : Faithful(nodes'[j], j)
    BY <1>1, IdleTyped, ProjectionFaithful
  <1> QED
    BY <1>1, <1>4, <1>5 DEF IInv, SavedJobsTypeOK, JobStoreTypeOK, Derived, EvaluationFaithful

LEMMA RebuildReads ==
  ASSUME IInv, NEW r \in Requests, RebuildNode(r)
  PROVE  Reads(r) /\ Derived
  <1>1. /\ request[r].at = "rebuilding" /\ jobs' = jobs /\ orphans' = orphans
        /\ UNCHANGED <<evaluations, profileRevision>>
    BY DEF RebuildNode, At
  <1>2. request[r].snapshot \in [Jobs -> NodeRow] /\ request[r].profile \in Nat
    BY Typed DEF RequestRow
  <1>3. CASE /\ candidate' = request[r].profile /\ UNCHANGED nodes
             /\ request' = [request EXCEPT ![r].profile = 0]
    <2> DEFINE q == [request[r] EXCEPT !.profile = 0]
    <2>1. request' = [request EXCEPT ![r] = q]  BY <1>3, Typed
    <2>2. q \in RequestRow  BY Typed DEF RequestRow
    <2>3. q.at = "rebuilding" /\ q.snapshot = request[r].snapshot
      BY <1>1, Typed DEF RequestRow
    <2> HIDE DEF q
    <2>4. Turned(r) /\ request'[r] = q  BY <2>1, <2>2, Typed, Moved
    <2>5. Reads(r)
      BY <1>1, <2>3, <2>4, Typed DEF Reads, RowHeld, CopiesHeld, HoldsOn,
         Unbound, Serving, Placeholding, Finishing
    <2> QED
      BY <1>1, <1>2, <1>3, <2>5 DEF IInv, SavedJobsTypeOK, JobStoreTypeOK, Derived,
         EvaluationFaithful, Faithful
  <1>4. ASSUME NEW j \in Jobs, UNCHANGED candidate,
               nodes' = [nodes EXCEPT ![j] = request[r].snapshot[j]],
               request' = [request EXCEPT ![r].snapshot[j] = NoNode]
        PROVE  Reads(r) /\ Derived
    <2> DEFINE rest == [request[r].snapshot EXCEPT ![j] = NoNode]
               q == [request[r] EXCEPT !.snapshot = rest]
    <2>1. rest \in [Jobs -> NodeRow]  BY <1>2, IdleTyped
    <2>2. \A i \in Jobs : Faithful(request[r].snapshot[i], i)
      BY <1>1, Typed DEF CopiesHeld
    <2>3. \A i \in Jobs : Faithful(rest[i], i)  BY <1>2, <2>2, ProjectionFaithful
    <2>4. request' = [request EXCEPT ![r] = q]  BY <1>4, Typed
    <2> HIDE DEF rest
    <2>5. q \in RequestRow  BY <2>1, Typed DEF RequestRow
    <2>6. q.at = "rebuilding" /\ q.snapshot = rest  BY <1>1, Typed DEF RequestRow
    <2> HIDE DEF q
    <2>7. Turned(r) /\ request'[r] = q  BY <2>4, <2>5, Typed, Moved
    <2>8. Reads(r)
      BY <1>1, <2>3, <2>6, <2>7, Typed DEF Reads, RowHeld, CopiesHeld, HoldsOn,
         Unbound, Serving, Placeholding, Finishing
    <2>9. nodes' \in [Jobs -> NodeRow] /\ \A i \in Jobs : Faithful(nodes'[i], i)
      BY <1>2, <1>4, <2>2 DEF IInv, SavedJobsTypeOK, JobStoreTypeOK
    <2> QED
      BY <1>1, <1>4, <2>8, <2>9 DEF IInv, SavedJobsTypeOK, JobStoreTypeOK, Derived,
         EvaluationFaithful
  <1> QED BY <1>3, <1>4 DEF RebuildNode

LEMMA EndRebuildReads ==
  ASSUME IInv, NEW r \in Requests, EndRebuild(r)
  PROVE  Reads(r)
  BY Typed, DoneReads DEF EndRebuild, OnlyReads, At, Serving

-----------------------------------------------------------------------------
(* A step that leaves the rows as they are preserves the invariant *)

LEMMA ReadsPreserves ==
  ASSUME IInv, NEW r \in Requests, Reads(r), Derived
  PROVE  IInv'
  <1> USE DEF Target
  <1>1. /\ Turned(r) /\ jobs' = jobs /\ orphans \subseteq orphans' /\ orphans' \subseteq Jobs
        /\ HoldsOn(r)
    BY DEF Reads
  <1>2. SavedJobsTypeOK'
    BY <1>1 DEF Derived, Turned, SavedJobsTypeOK, IngestionTypeOK
  <1>3. \A j \in Jobs : RowSound(j)'
    BY <1>1 DEF IInv, RowSound, Live
  <1>4. \A s \in Requests : RowHeld(request'[s]) /\ CopiesHeld(request'[s])
    BY <1>1 DEF IInv, Reads, Turned
  <1>5. \A s \in Requests : RowHeld(request[s])' /\ CopiesHeld(request[s])'
    BY <1>1, <1>4 DEF RowHeld, CopiesHeld, Settled, Faithful
  <1>6. \A s, t \in Requests : PlaceholderOwned(s, t)'
    <2> TAKE s, t \in Requests
    <2>1. /\ request'[s].at \in Placeholding =>
                request[s].at \in Placeholding /\ request'[s].job = request[s].job
          /\ request'[t].at \in Serving =>
                request[t].at \in Serving /\ request'[t].job = request[t].job
      BY <1>1 DEF HoldsOn, Turned, Serving, Placeholding
    <2>2. PlaceholderOwned(s, t)  BY DEF IInv
    <2> QED  BY <1>1, <2>1, <2>2 DEF PlaceholderOwned
  <1>7. IngestionServed'
    <2> SUFFICES ASSUME NEW j \in Jobs, Waits(j)'
                 PROVE  \/ \E s \in Requests : request'[s].at \in Serving /\ request'[s].job = j
                        \/ j \in orphans'
      BY DEF IngestionServed, Waits
    <2>1. Waits(j)  BY <1>1 DEF Waits
    <2>2. CASE j \in orphans  BY <1>1, <2>2
    <2>3. CASE \E s \in Requests : request[s].at \in Serving /\ request[s].job = j
      <3>1. PICK s \in Requests : request[s].at \in Serving /\ request[s].job = j
        BY <2>3
      <3>2. CASE s # r  BY <1>1, <3>1, <3>2 DEF Turned
      <3>3. CASE s = r  BY <1>1, <2>1, <3>1, <3>3 DEF HoldsOn
      <3> QED  BY <3>2, <3>3
    <2> QED  BY <2>1, <2>2, <2>3 DEF IInv, IngestionServed, Waits
  <1>8. \A j \in Jobs : Faithful(nodes[j], j)'
    BY <1>1 DEF Derived, Faithful
  <1> QED
    BY <1>2, <1>3, <1>5, <1>6, <1>7, <1>8 DEF IInv, Derived

-----------------------------------------------------------------------------
(* A step that writes rows *)

\* How a row may change: once gone it stays, once settled it stays so, and its
\* revision grows.
Later(j) ==
    \/ jobs'[j] = jobs[j]
    \/ /\ jobs[j].status # "gone"
       /\ \/ jobs'[j].status = "gone"
          \/ /\ jobs'[j].status \notin {"none", "gone"}
             /\ jobs'[j].revision > jobs[j].revision
             /\ jobs'[j].status = "received" =>
                  jobs[j].status = "none" /\ jobs'[j].content = NoContent

\* Request r writes rows that no other request holds as its placeholder, and
\* serves those that wait afterwards.
Writes(r) ==
    /\ Turned(r)
    /\ jobs' \in [Jobs -> JobRow]
    /\ orphans \subseteq orphans' /\ orphans' \subseteq Jobs
    /\ \A j \in Jobs : Later(j)
    /\ \A j \in Jobs : jobs'[j] # jobs[j] /\ jobs'[j].status # "gone" =>
         \A s \in Requests \ {r} :
            ~ (request[s].at \in Placeholding /\ request[s].job = j)
    /\ \A j \in Jobs : jobs'[j] # jobs[j] /\ Waits(j)' =>
         request'[r].at \in Serving /\ request'[r].job = j
    /\ request[r].at \in Serving =>
         \/ jobs'[Target(r)].status \notin {"received", "processing"}
         \/ Target(r) \in orphans'
         \/ request'[r].at \in Serving /\ request'[r].job = request[r].job
    /\ RowHeld(request[r])' /\ CopiesHeld(request[r])'
    /\ \A s \in Requests : PlaceholderOwned(r, s)' /\ PlaceholderOwned(s, r)'
    /\ evaluations' \subseteq evaluations
    /\ UNCHANGED <<profileRevision, nodes, candidate>>
    /\ \A j \in Jobs : ScorableRow(jobs[j]) =>
         ScorableRow(jobs'[j]) \/ jobs'[j].status = "gone"

LEMMA FaithfulKept ==
  ASSUME NEW j \in Jobs, Later(j), NEW copy, Faithful(copy, j),
         copy.revision \in Nat, jobs \in [Jobs -> JobRow], jobs' \in [Jobs -> JobRow]
  PROVE  Faithful(copy, j)'
  <1>1. jobs[j].revision \in Nat /\ jobs'[j].revision \in Nat  BY DEF JobRow
  <1> QED  BY <1>1 DEF Later, Faithful

LEMMA WritesPreserves ==
  ASSUME IInv, NEW r \in Requests, Writes(r)
  PROVE  IInv'
  <1> USE DEF Target
  <1>1. /\ Turned(r) /\ jobs \in [Jobs -> JobRow] /\ jobs' \in [Jobs -> JobRow]
        /\ request \in [Requests -> RequestRow]
        /\ \A j \in Jobs : Later(j)
    BY Typed DEF Writes
  <1>2. SavedJobsTypeOK'
    BY <1>1 DEF Writes, Turned, IInv, SavedJobsTypeOK, IngestionTypeOK, JobStoreTypeOK
  <1>3. \A j \in Jobs : RowSound(j)'
    <2> TAKE j \in Jobs
    <2>1. RowSound(j) /\ Later(j)  BY <1>1 DEF IInv
    <2>2. jobs[j].revision \in Nat /\ jobs'[j].revision \in Nat  BY <1>1 DEF JobRow
    <2> QED  BY <2>1, <2>2 DEF RowSound, Later, Live
  <1>4. \A s \in Requests \ {r} : RowHeld(request[s])'
    <2> TAKE s \in Requests \ {r}
    <2>1. request'[s] = request[s] /\ RowHeld(request[s])  BY <1>1 DEF IInv, Turned
    <2>2. \A j \in Jobs : Settled(j) => Settled(j)'
      BY <1>1 DEF Settled, Later
    <2>3. \A j \in Jobs : jobs[j].status # "none" => jobs'[j].status # "none"
      BY <1>1 DEF Later
    <2>4. request[s].at \in Placeholding => jobs'[request[s].job].status \in {"received", "gone"}
      <3> SUFFICES ASSUME request[s].at \in Placeholding
                   PROVE  jobs'[request[s].job].status \in {"received", "gone"}
        OBVIOUS
      <3>1. request[s].job \in Jobs /\ jobs[request[s].job].status \in {"received", "gone"}
        BY <2>1 DEF RowHeld, Placeholding, Unbound
      <3>2. \/ jobs'[request[s].job] = jobs[request[s].job]
            \/ jobs'[request[s].job].status = "gone"
        BY <3>1 DEF Writes
      <3> QED  BY <3>1, <3>2
    <2>5. request[s].match \in Jobs \cup {NoJob}  BY <1>1 DEF RequestRow
    <2> QED
      BY <2>1, <2>2, <2>3, <2>4, <2>5 DEF RowHeld, Unbound, Placeholding, Finishing
  <1>5. \A s \in Requests \ {r} : CopiesHeld(request[s])'
    <2> TAKE s \in Requests \ {r}
    <2>1. request'[s] = request[s] /\ RowHeld(request[s]) /\ CopiesHeld(request[s])
      BY <1>1 DEF IInv, Turned
    <2>2. request[s].row.revision \in Nat  BY <1>1 DEF RequestRow, JobRow
    <2>3. \A j \in Jobs : request[s].snapshot[j].revision \in Nat
      BY <1>1 DEF RequestRow, NodeRow
    <2>4. request[s].at \notin Unbound => request[s].job \in Jobs
      BY <2>1 DEF RowHeld
    <2>5. request[s].at \in {"syncing", "gating", "comparing", "retrieving", "rechecking"} =>
            Faithful(request[s].row, request[s].job)'
      BY <1>1, <2>1, <2>2, <2>4, FaithfulKept DEF CopiesHeld, Unbound
    <2>6. request[s].at \in {"clearing", "rebuilding"} =>
            \A j \in Jobs : Faithful(request[s].snapshot[j], j)'
      BY <1>1, <2>1, <2>3, FaithfulKept DEF CopiesHeld
    <2>7. request[s].at = "rechecking" =>
            \/ jobs'[request[s].job].status = "gone"
            \/ request[s].row.revision = jobs'[request[s].job].revision =>
                 request[s].snapshot[request[s].job].version = jobs'[request[s].job].version
      <3> SUFFICES ASSUME request[s].at = "rechecking"
                   PROVE  \/ jobs'[request[s].job].status = "gone"
                          \/ request[s].row.revision = jobs'[request[s].job].revision =>
                               request[s].snapshot[request[s].job].version
                                 = jobs'[request[s].job].version
        OBVIOUS
      <3>1. request[s].job \in Jobs  BY <2>4 DEF Unbound
      <3>2. Later(request[s].job)  BY <1>1, <3>1
      <3>3. /\ jobs[request[s].job].revision \in Nat /\ jobs'[request[s].job].revision \in Nat
        BY <1>1, <3>1 DEF JobRow
      <3> QED  BY <2>1, <2>2, <3>2, <3>3 DEF CopiesHeld, Faithful, Later
    <2> QED  BY <2>1, <2>5, <2>6, <2>7 DEF CopiesHeld
  <1>6. \A s, t \in Requests : PlaceholderOwned(s, t)'
    <2> TAKE s, t \in Requests
    <2>1. CASE s = r \/ t = r  BY <2>1 DEF Writes
    <2>2. CASE s # r /\ t # r
      <3>1. PlaceholderOwned(s, t) /\ request'[s] = request[s] /\ request'[t] = request[t]
        BY <1>1, <2>2 DEF IInv, Turned
      <3>2. request[s].at \in Placeholding => request[s].job \in Jobs
        BY DEF IInv, RowHeld, Placeholding, Unbound
      <3> QED  BY <1>1, <3>1, <3>2 DEF PlaceholderOwned, Later
    <2> QED  BY <2>1, <2>2
  <1>7. IngestionServed'
    <2> SUFFICES ASSUME NEW j \in Jobs, Waits(j)'
                 PROVE  \/ \E s \in Requests : request'[s].at \in Serving /\ request'[s].job = j
                        \/ j \in orphans'
      BY DEF IngestionServed, Waits
    <2>1. CASE jobs'[j] # jobs[j]  BY <2>1 DEF Writes
    <2>2. CASE jobs'[j] = jobs[j]
      <3>1. \/ \E s \in Requests : request[s].at \in Serving /\ request[s].job = j
            \/ j \in orphans
        BY <2>2 DEF IInv, IngestionServed, Waits
      <3>2. ASSUME NEW s \in Requests, request[s].at \in Serving, request[s].job = j, s # r
            PROVE  \E t \in Requests : request'[t].at \in Serving /\ request'[t].job = j
        BY <1>1, <3>2 DEF Turned
      <3>3. CASE request[r].at \in Serving /\ request[r].job = j
        BY <3>3 DEF Writes, Waits
      <3> QED  BY <3>1, <3>2, <3>3 DEF Writes
    <2> QED  BY <2>1, <2>2
  <1>8. \A j \in Jobs : Faithful(nodes[j], j)'
    <2> TAKE j \in Jobs
    <2>1. nodes' = nodes /\ Faithful(nodes[j], j) /\ nodes[j].revision \in Nat
      BY DEF Writes, IInv, SavedJobsTypeOK, JobStoreTypeOK, NodeRow
    <2>2. Later(j) /\ jobs[j].revision \in Nat /\ jobs'[j].revision \in Nat
      BY <1>1 DEF JobRow
    <2>3. nodes'[j] = nodes[j]  BY <2>1
    <2> HIDE DEF Target
    <2> QED  BY <2>1, <2>2, <2>3 DEF Faithful, Later
  <1>9. EvaluationFaithful'
    BY DEF IInv, EvaluationFaithful, Writes
  <1>10. \A s \in Requests : RowHeld(request[s])' /\ CopiesHeld(request[s])'
    BY <1>4, <1>5 DEF Writes
  <1> QED
    BY <1>2, <1>3, <1>6, <1>7, <1>8, <1>9, <1>10 DEF IInv

\* The row has no other request that waits for its text.
LEMMA NotHeld ==
  ASSUME IInv, NEW r \in Requests, NEW j \in Jobs, jobs[j].status # "gone",
         jobs[j].status = "received" => request[r].at \in Serving /\ Target(r) = j
  PROVE  \A s \in Requests \ {r} :
            ~ (request[s].at \in Placeholding /\ request[s].job = j)
  <1> SUFFICES ASSUME NEW s \in Requests \ {r}, request[s].at \in Placeholding,
                      request[s].job = j
               PROVE  FALSE
    OBVIOUS
  <1>1. RowHeld(request[s]) /\ PlaceholderOwned(s, r)  BY DEF IInv
  <1> QED  BY <1>1 DEF RowHeld, PlaceholderOwned, Target

\* One row is written, by the request that has it.
LEMMA RowWrites ==
  ASSUME IInv, NEW r \in Requests, NEW j \in Jobs, NEW row \in JobRow, Turned(r),
         jobs' = [jobs EXCEPT ![j] = row], orphans' = orphans, GraphSame,
         request[r].at \in Serving => Target(r) = j,
         jobs[j].status = "received" => request[r].at \in Serving,
         jobs[j].status # "gone", row.status \notin {"none", "gone"},
         row.revision > jobs[j].revision,
         row.status = "received" => jobs[j].status = "none" /\ row.content = NoContent,
         request'[r].at \in Serving \cup {"saved", "loading"}, request'[r].job = j,
         row.status \in {"received", "processing"} => request'[r].at \in Serving,
         request'[r].at \in Placeholding => jobs[j].status = "none",
         RowHeld(request[r])', CopiesHeld(request[r])',
         ScorableRow(jobs[j]) => ScorableRow(row)
  PROVE  Writes(r)
  <1>1. /\ jobs \in [Jobs -> JobRow] /\ orphans \subseteq Jobs
        /\ \A s \in Requests \ {r} : request'[s] = request[s]
    BY Typed DEF Turned
  <1>2. /\ jobs'[j] = row /\ \A i \in Jobs \ {j} : jobs'[i] = jobs[i]
        /\ jobs' \in [Jobs -> JobRow]
    BY <1>1
  <1>3. \A i \in Jobs : Later(i)  BY <1>2 DEF Later
  <1>4. \A s \in Requests \ {r} :
            ~ (request[s].at \in Placeholding /\ request[s].job = j)
    BY NotHeld
  <1>5. \A s \in Requests : PlaceholderOwned(s, r)'
    BY <1>1, <1>4 DEF PlaceholderOwned, Target
  <1>6. \A s \in Requests : PlaceholderOwned(r, s)'
    <2> SUFFICES ASSUME NEW s \in Requests \ {r}, request'[r].at \in Placeholding,
                        request[s].at \in Serving, request[s].job = j
                 PROVE  FALSE
      BY <1>1 DEF PlaceholderOwned, Target
    <2>1. RowHeld(request[s]) /\ jobs[j].status = "none"  BY DEF IInv
    <2> QED  BY <2>1 DEF RowHeld, Settled, Serving, Placeholding, Finishing
  <1>7. \A i \in Jobs : jobs'[i] # jobs[i] /\ Waits(i)' =>
            request'[r].at \in Serving /\ request'[r].job = i
    BY <1>2 DEF Waits
  <1>8. request[r].at \in Serving =>
            \/ jobs'[Target(r)].status \notin {"received", "processing"}
            \/ request'[r].at \in Serving /\ request'[r].job = request[r].job
    BY <1>2 DEF Target
  <1>9. \A i \in Jobs : ScorableRow(jobs[i]) => ScorableRow(jobs'[i])
    BY <1>2
  <1> QED
    BY <1>1, <1>2, <1>3, <1>4, <1>5, <1>6, <1>7, <1>8, <1>9 DEF Writes, GraphSame, Target

\* One row is deleted.
LEMMA DeletionWrites ==
  ASSUME IInv, NEW r \in Requests, NEW j \in Jobs, Turned(r), Live(j),
         jobs' = [jobs EXCEPT ![j] = [EmptyRow EXCEPT !.status = "gone"]],
         orphans' = orphans, evaluations' \subseteq evaluations,
         UNCHANGED <<profileRevision, nodes, candidate>>,
         request[r].at \in Serving => Target(r) = j,
         request'[r].at \in {"saved", "deleted"}, request'[r].job \in Jobs
  PROVE  Writes(r)
  <1>1. /\ jobs \in [Jobs -> JobRow] /\ orphans \subseteq Jobs
    BY Typed
  <1>2. /\ [EmptyRow EXCEPT !.status = "gone"] \in JobRow
        /\ [EmptyRow EXCEPT !.status = "gone"].status = "gone"
    BY DEF EmptyRow, JobRow, JobStates
  <1>3. /\ jobs'[j].status = "gone" /\ \A i \in Jobs \ {j} : jobs'[i] = jobs[i]
        /\ jobs' \in [Jobs -> JobRow]
    BY <1>1, <1>2
  <1>4. \A i \in Jobs : Later(i)  BY <1>3 DEF Later, Live
  <1>5. RowHeld(request[r])' /\ CopiesHeld(request[r])'
    BY DEF RowHeld, CopiesHeld, Unbound, Placeholding, Finishing
  <1>6. \A s \in Requests : PlaceholderOwned(r, s)' /\ PlaceholderOwned(s, r)'
    BY DEF PlaceholderOwned, Placeholding, Serving
  <1>7. \A i \in Jobs : jobs'[i] # jobs[i] => ~ Waits(i)'  BY <1>3 DEF Waits
  <1>8. request[r].at \in Serving =>
            jobs'[Target(r)].status \notin {"received", "processing"}
    BY <1>3
  <1>9. \A i \in Jobs : ScorableRow(jobs[i]) =>
            ScorableRow(jobs'[i]) \/ jobs'[i].status = "gone"
    BY <1>3
  <1> QED
    BY <1>1, <1>3, <1>4, <1>5, <1>6, <1>7, <1>8, <1>9 DEF Writes, Target

-----------------------------------------------------------------------------
(* The steps of ingestion and re-extraction that may write a row *)

\* A refused write: the request is done, and its row is no longer waiting or lost.
LEMMA RefusedReads ==
  ASSUME IInv, NEW r \in Requests, Goto(r, "done"), jobs' = jobs, GraphSame,
         orphans \subseteq orphans', orphans' \subseteq Jobs,
         request[r].at \in Serving => ~ Waits(Target(r)) \/ Target(r) \in orphans'
  PROVE  Reads(r) /\ Derived
  BY DoneReads, GraphSameDerived

LEMMA InsertTextKeeps ==
  ASSUME IInv, NEW r \in Requests, InsertText(r)
  PROVE  Writes(r) \/ (Reads(r) /\ Derived)
  <1>1. request[r].at = "inserting" /\ orphans' = orphans /\ GraphSame
    BY DEF InsertText, At
  <1>2. ASSUME NEW j \in Jobs, Unused(j),
               jobs' = Inserted(j, "processing", request[r].content),
               request' = [request EXCEPT ![r].job = j, ![r].at = "extracting"]
        PROVE  Writes(r)
    <2> DEFINE row == [status |-> "processing", content |-> request[r].content,
                       scorable |-> FALSE, revision |-> 1, version |-> 0]
               q == [request[r] EXCEPT !.job = j, !.at = "extracting"]
    <2>1. row \in JobRow  BY Typed DEF JobRow, JobStates, RequestRow
    <2>2. row.status = "processing" /\ row.revision = 1  OBVIOUS
    <2>3. jobs' = [jobs EXCEPT ![j] = row]  BY <1>2 DEF Inserted
    <2> HIDE DEF row
    <2>4. "extracting" \in RequestStates  BY DEF RequestStates, Serving
    <2>5. q \in RequestRow  BY <2>4, Typed DEF RequestRow
    <2>6. request' = [request EXCEPT ![r] = q]  BY <1>2, Typed
    <2>7. q.at = "extracting" /\ q.job = j  BY Typed DEF RequestRow
    <2> HIDE DEF q
    <2>8. Turned(r) /\ request'[r] = q  BY <2>5, <2>6, Typed, Moved
    <2>9. jobs'[j] = row  BY <2>3, Typed
    <2>10. RowHeld(request[r])' /\ CopiesHeld(request[r])'
      BY <2>2, <2>7, <2>8, <2>9 DEF RowHeld, CopiesHeld, Unbound, Placeholding, Finishing, Settled
    <2>11. jobs[j].status = "none" /\ jobs[j].revision = 0
      BY <1>2 DEF IInv, RowSound, Unused, EmptyRow
    <2>12. row.revision > jobs[j].revision  BY <2>2, <2>11
    <2>13. request'[r].at = "extracting" /\ request'[r].job = j  BY <2>7, <2>8
    <2>14. "extracting" \in Serving \ Placeholding /\ "inserting" \notin Serving
      BY DEF Serving, Placeholding
    <2>15. ~ ScorableRow(jobs[j])  BY <2>11 DEF ScorableRow
    <2> QED
      BY <1>1, <2>1, <2>2, <2>3, <2>8, <2>10, <2>11, <2>12, <2>13, <2>14, <2>15, RowWrites
  <1>3. CASE Goto(r, "done") /\ jobs' = jobs
    BY <1>1, <1>3, Typed, RefusedReads DEF Serving
  <1> QED  BY <1>2, <1>3 DEF InsertText

LEMMA CommitPlaceholderWrites ==
  ASSUME IInv, NEW r \in Requests, CommitPlaceholder(r)
  PROVE  Writes(r)
  <1>1. request[r].at = "idle" /\ orphans' = orphans /\ GraphSame
    BY DEF CommitPlaceholder, At
  <1>2. PICK j \in Jobs :
          /\ Unused(j) /\ jobs' = Inserted(j, "received", NoContent)
          /\ request' = [request EXCEPT ![r].job = j, ![r].at = "fetching"]
    BY DEF CommitPlaceholder
  <1> DEFINE row == [status |-> "received", content |-> NoContent,
                     scorable |-> FALSE, revision |-> 1, version |-> 0]
             q == [request[r] EXCEPT !.job = j, !.at = "fetching"]
  <1>3. row \in JobRow  BY DEF JobRow, JobStates
  <1>4. row.status = "received" /\ row.revision = 1 /\ row.content = NoContent  OBVIOUS
  <1>5. jobs' = [jobs EXCEPT ![j] = row]  BY <1>2 DEF Inserted
  <1> HIDE DEF row
  <1>6. "fetching" \in RequestStates  BY DEF RequestStates, Serving
  <1>7. q \in RequestRow  BY <1>6, Typed DEF RequestRow
  <1>8. request' = [request EXCEPT ![r] = q]  BY <1>2, Typed
  <1>9. q.at = "fetching" /\ q.job = j /\ q.match = NoJob
    BY <1>1, Typed DEF RequestRow, RowHeld
  <1> HIDE DEF q
  <1>10. Turned(r) /\ request'[r] = q  BY <1>7, <1>8, Typed, Moved
  <1>11. jobs'[j] = row  BY <1>5, Typed
  <1>12. RowHeld(request[r])' /\ CopiesHeld(request[r])'
    BY <1>4, <1>9, <1>10, <1>11 DEF RowHeld, CopiesHeld, Unbound, Placeholding, Finishing, Settled
  <1>13. jobs[j].status = "none" /\ jobs[j].revision = 0
    BY <1>2 DEF IInv, RowSound, Unused, EmptyRow
  <1>14. row.revision > jobs[j].revision  BY <1>4, <1>13
  <1>15. request'[r].at = "fetching" /\ request'[r].job = j  BY <1>9, <1>10
  <1>16. "fetching" \in Serving /\ "idle" \notin Serving  BY DEF Serving
  <1>17. ~ ScorableRow(jobs[j])  BY <1>13 DEF ScorableRow
  <1> QED
    BY <1>1, <1>3, <1>4, <1>5, <1>10, <1>12, <1>13, <1>14, <1>15, <1>16, <1>17, RowWrites

\* A write of a live row that does not change its text.
LEMMA RewriteWrites ==
  ASSUME IInv, NEW r \in Requests, NEW j \in Jobs, NEW row \in JobRow, Live(j),
         jobs' = [jobs EXCEPT ![j] = row], orphans' = orphans, GraphSame,
         request[r].at \in Serving => Target(r) = j,
         jobs[j].status = "received" => request[r].at \in Serving,
         row.status \in {"processing", "processed", "failed"},
         row.revision > jobs[j].revision,
         NEW state \in {"extracting", "saved", "loading"}, Goto(r, state), Target(r) = j,
         row.status = "processing" => state = "extracting",
         ScorableRow(jobs[j]) => ScorableRow(row)
  PROVE  Writes(r)
  <1>1. state \in RequestStates  BY DEF RequestStates, Serving
  <1>2. Turned(r) /\ request'[r].at = state /\ request'[r].job = j
    BY <1>1, Typed, GotoEffect DEF Target
  <1>3. jobs'[j] = row  BY Typed
  <1>4. RowHeld(request[r])' /\ CopiesHeld(request[r])'
    BY <1>2, <1>3 DEF RowHeld, CopiesHeld, Unbound, Placeholding, Finishing, Settled
  <1>5. jobs[j].status \notin {"none", "gone"}  BY DEF Live
  <1>6. state \notin Placeholding /\ state \in Serving \cup {"saved", "loading"}
    BY DEF Placeholding, Serving
  <1>7. row.status = "processing" => state \in Serving  BY DEF Serving
  <1> QED
    BY <1>2, <1>4, <1>5, <1>6, <1>7, RowWrites

\* What the write operators leave of the row.
LEMMA RewrittenRow ==
  ASSUME jobs \in [Jobs -> JobRow], NEW j \in Jobs, NEW status \in JobStates
  PROVE  \E row \in JobRow :
            /\ Rewritten(j, status) = [jobs EXCEPT ![j] = row]
            /\ row.status = status /\ row.revision > jobs[j].revision
            /\ row.scorable = jobs[j].scorable
  <1> DEFINE old == jobs[j]
             revision == old.revision + 1
             row == [old EXCEPT !.status = status, !.revision = revision]
  <1>1. old \in JobRow  OBVIOUS
  <1>2. Rewritten(j, status) = [jobs EXCEPT ![j] = row]  BY DEF Rewritten
  <1> HIDE DEF old
  <1>3. revision \in Nat /\ revision > old.revision  BY <1>1 DEF JobRow
  <1> HIDE DEF revision
  <1>4. row \in JobRow  BY <1>1, <1>3 DEF JobRow
  <1>5. row.status = status /\ row.revision = revision /\ row.scorable = old.scorable
    BY <1>1 DEF JobRow
  <1> HIDE DEF row
  <1> USE DEF old
  <1> QED  BY <1>2, <1>3, <1>4, <1>5

LEMMA ProcessedRow ==
  ASSUME jobs \in [Jobs -> JobRow], NEW j \in Jobs, NEW scorable \in BOOLEAN
  PROVE  \E row \in JobRow :
            /\ Processed(j, scorable) = [jobs EXCEPT ![j] = row]
            /\ row.status = "processed" /\ row.revision > jobs[j].revision
            /\ row.scorable = scorable
  <1> DEFINE old == jobs[j]
             revision == old.revision + 1
             version == old.version + 1
             row == [old EXCEPT !.status = "processed", !.scorable = scorable,
                                !.revision = revision, !.version = version]
  <1>1. old \in JobRow  OBVIOUS
  <1>2. Processed(j, scorable) = [jobs EXCEPT ![j] = row]  BY DEF Processed
  <1> HIDE DEF old
  <1>3. revision \in Nat /\ version \in Nat /\ revision > old.revision
    BY <1>1 DEF JobRow
  <1> HIDE DEF revision, version
  <1>4. row \in JobRow  BY <1>1, <1>3 DEF JobRow, JobStates
  <1>5. row.status = "processed" /\ row.revision = revision /\ row.scorable = scorable
    BY <1>1 DEF JobRow
  <1> HIDE DEF row
  <1> USE DEF old
  <1> QED  BY <1>2, <1>3, <1>4, <1>5

\* A replacement has a later revision, whatever the clock reads.
LEMMA ReplacedRow ==
  ASSUME jobs \in [Jobs -> JobRow], NEW j \in Jobs, NEW now \in Nat
  PROVE  \E row \in JobRow :
            /\ Replaced(j, jobs[j].revision, now) = [jobs EXCEPT ![j] = row]
            /\ row.status = "processed" /\ row.revision > jobs[j].revision
            /\ row.scorable = TRUE
  <1> DEFINE old == jobs[j]
             revision == ReplacementRevision(old.revision, now)
             version == old.version + 1
             row == [old EXCEPT !.status = "processed", !.scorable = TRUE,
                                !.revision = revision, !.version = version]
  <1>1. old \in JobRow  OBVIOUS
  <1>2. Replaced(j, old.revision, now) = [jobs EXCEPT ![j] = row]  BY DEF Replaced
  <1> HIDE DEF old
  <1>3. revision \in Nat /\ version \in Nat /\ revision > old.revision
    BY <1>1 DEF JobRow, ReplacementRevision
  <1> HIDE DEF revision, version
  <1>4. row \in JobRow  BY <1>1, <1>3 DEF JobRow, JobStates
  <1>5. row.status = "processed" /\ row.revision = revision /\ row.scorable = TRUE
    BY <1>1 DEF JobRow
  <1> HIDE DEF row
  <1> USE DEF old
  <1> QED  BY <1>2, <1>3, <1>4, <1>5

LEMMA RetryTextKeeps ==
  ASSUME IInv, NEW r \in Requests, RetryText(r)
  PROVE  Writes(r) \/ (Reads(r) /\ Derived)
  <1>1. request[r].at = "retrying" /\ orphans' = orphans /\ GraphSame
    BY DEF RetryText, At
  <1>2. Target(r) \in Jobs /\ Settled(Target(r))
    BY <1>1, Typed DEF RowHeld, Unbound, Target
  <1>3. CASE RetryHolds(Target(r))
    <2>1. Live(Target(r)) /\ Goto(r, "extracting") /\ ~ ScorableRow(jobs[Target(r)])
          /\ jobs' = Rewritten(Target(r), "processing")
      BY <1>3 DEF RetryText, RetryHolds, EmbeddingKept
    <2>2. PICK row \in JobRow :
            /\ jobs' = [jobs EXCEPT ![Target(r)] = row]
            /\ row.status = "processing" /\ row.revision > jobs[Target(r)].revision
      BY <1>2, <2>1, Typed, RewrittenRow DEF JobStates
    <2> QED
      BY <1>1, <1>2, <2>1, <2>2, RewriteWrites DEF Settled, Serving
  <1>4. CASE ~ RetryHolds(Target(r))
    BY <1>1, <1>4, Typed, RefusedReads DEF RetryText, Serving
  <1> QED  BY <1>3, <1>4

LEMMA WriteFinishKeeps ==
  ASSUME IInv, NEW r \in Requests, WriteFinish(r)
  PROVE  Writes(r) \/ (Reads(r) /\ Derived)
  <1> DEFINE j == Target(r)
             scorable == request[r].result = "scorable"
  <1>1. request[r].at = "writing" /\ orphans' = orphans /\ GraphSame
    BY DEF WriteFinish, At
  <1>2. /\ j \in Jobs /\ jobs \in [Jobs -> JobRow]
        /\ request[r].result # "failed" => Settled(j)
    BY <1>1, Typed DEF RowHeld, Unbound, Finishing, Target
  <1>3. request[r].at \in Serving  BY <1>1 DEF Serving
  <1>4. CASE FailedHolds(j) /\ jobs' = Rewritten(j, "failed") /\ Goto(r, "saved")
    <2>1. PICK row \in JobRow :
            /\ jobs' = [jobs EXCEPT ![j] = row]
            /\ row.status = "failed" /\ row.revision > jobs[j].revision
      BY <1>2, <1>4, RewrittenRow DEF JobStates
    <2>2. Live(j) /\ ~ ScorableRow(jobs[j])  BY <1>4 DEF FailedHolds, EmbeddingKept
    <2> QED
      BY <1>1, <1>2, <1>3, <1>4, <2>1, <2>2, RewriteWrites
  <1>5. CASE ProcessedHolds(j, scorable) /\ jobs' = Processed(j, scorable) /\ Goto(r, "loading")
    <2>1. PICK row \in JobRow :
            /\ jobs' = [jobs EXCEPT ![j] = row]
            /\ row.status = "processed" /\ row.revision > jobs[j].revision
            /\ row.scorable = scorable
      BY <1>2, <1>5, ProcessedRow
    <2>2. Live(j) /\ (ScorableRow(jobs[j]) => ScorableRow(row))
      BY <1>5, <2>1 DEF ProcessedHolds, ScorableRow
    <2> QED
      BY <1>1, <1>2, <1>3, <1>5, <2>1, <2>2, RewriteWrites
  <1>6. CASE /\ Goto(r, "done") /\ jobs' = jobs
             /\ IF request[r].result = "failed" THEN ~ FailedHolds(j)
                                                ELSE ~ ProcessedHolds(j, scorable)
    <2>1. ~ Waits(j)
      <3>1. CASE request[r].result = "failed"
        BY <1>6, <3>1 DEF FailedHolds, EmbeddingKept, Live, ScorableRow, Waits
      <3>2. CASE request[r].result # "failed"
        BY <1>6, <3>2 DEF ProcessedHolds, Live, ScorableRow, Waits
      <3> QED  BY <3>1, <3>2
    <2> QED  BY <1>1, <1>6, <2>1, Typed, RefusedReads
  <1> QED  BY <1>4, <1>5, <1>6 DEF WriteFinish

LEMMA ReplaceWrites ==
  ASSUME IInv, NEW r \in Requests, ReplaceIfUnchanged(r)
  PROVE  Writes(r)
  <1> DEFINE j == Target(r)
             captured == request[r].row.revision
  <1>1. /\ request[r].at = "replacing" /\ orphans' = orphans /\ GraphSame
        /\ Live(j) /\ jobs[j].revision = captured /\ Goto(r, "loading")
    BY DEF ReplaceIfUnchanged, Unchanged, At
  <1>2. j \in Jobs /\ jobs \in [Jobs -> JobRow] /\ Settled(j)
    BY <1>1, Typed DEF RowHeld, Unbound, Target
  <1>3. jobs[j] \in JobRow /\ captured \in Nat  BY <1>1, <1>2 DEF JobRow
  <1>4. PICK now \in {captured, captured + 1} : jobs' = Replaced(j, captured, now)
    BY DEF ReplaceIfUnchanged
  <1>5. now \in Nat /\ jobs' = Replaced(j, jobs[j].revision, now)
    BY <1>1, <1>3, <1>4
  <1>6. PICK row \in JobRow :
          /\ jobs' = [jobs EXCEPT ![j] = row]
          /\ row.status = "processed" /\ row.revision > jobs[j].revision
          /\ row.scorable = TRUE
    BY <1>2, <1>5, ReplacedRow
  <1>7. ScorableRow(row)  BY <1>6 DEF ScorableRow
  <1> QED
    BY <1>1, <1>2, <1>6, <1>7, RewriteWrites DEF Settled, Serving

LEMMA AttachedRow ==
  ASSUME jobs \in [Jobs -> JobRow], NEW j \in Jobs, NEW c \in Contents \cup {NoContent}
  PROVE  \E row \in JobRow :
            /\ [Rewritten(j, "processing") EXCEPT ![j].content = c]
                 = [jobs EXCEPT ![j] = row]
            /\ row.status = "processing" /\ row.revision > jobs[j].revision
  <1>1. PICK first \in JobRow :
          /\ Rewritten(j, "processing") = [jobs EXCEPT ![j] = first]
          /\ first.status = "processing" /\ first.revision > jobs[j].revision
    BY RewrittenRow DEF JobStates
  <1> DEFINE row == [first EXCEPT !.content = c]
  <1>2. row \in JobRow  BY DEF JobRow, JobStates
  <1>3. row.status = "processing" /\ row.revision > jobs[j].revision
    BY <1>1 DEF JobRow
  <1>4. [Rewritten(j, "processing") EXCEPT ![j].content = c] = [jobs EXCEPT ![j] = row]
    BY <1>1
  <1> HIDE DEF row
  <1> QED  BY <1>2, <1>3, <1>4

LEMMA AttachContentKeeps ==
  ASSUME IInv, NEW r \in Requests, AttachContent(r)
  PROVE  Writes(r) \/ (Reads(r) /\ Derived)
  <1> DEFINE j == Target(r)
  <1>1. request[r].at = "disposing" /\ GraphSame
    BY DEF AttachContent, At
  <1>2. /\ j \in Jobs /\ jobs[j].status \in {"received", "gone"}
        /\ request[r].content \in Contents \cup {NoContent}
    BY <1>1, Typed DEF RowHeld, Unbound, Placeholding, Target, RequestRow
  <1>3. request[r].at \in Serving  BY <1>1 DEF Serving
  <1>4. CASE /\ Live(j) /\ orphans' = orphans /\ Goto(r, "extracting")
             /\ jobs' = [Rewritten(j, "processing") EXCEPT ![j].content = request[r].content]
    <2>1. PICK row \in JobRow :
            /\ jobs' = [jobs EXCEPT ![j] = row]
            /\ row.status = "processing" /\ row.revision > jobs[j].revision
      BY <1>2, <1>4, Typed, AttachedRow
    <2>2. ~ ScorableRow(jobs[j])  BY <1>2 DEF ScorableRow
    <2> QED
      BY <1>1, <1>2, <1>3, <1>4, <2>1, <2>2, RewriteWrites
  <1>5. CASE Goto(r, "done") /\ orphans' = orphans \cup {j} /\ jobs' = jobs
    BY <1>1, <1>2, <1>5, Typed, RefusedReads
  <1> QED  BY <1>4, <1>5 DEF AttachContent

LEMMA DropPlaceholderKeeps ==
  ASSUME IInv, NEW r \in Requests, DropPlaceholder(r)
  PROVE  Writes(r) \/ (Reads(r) /\ Derived)
  <1> DEFINE j == Target(r)
  <1>1. /\ request[r].at = "disposing" /\ request[r].match # NoJob
        /\ orphans' = orphans /\ GraphSame
    BY DEF DropPlaceholder, At
  <1>2. /\ j \in Jobs /\ jobs[j].status \in {"received", "gone"}
        /\ request[r].match \in Jobs
    BY <1>1, Typed DEF RowHeld, Unbound, Placeholding, Target, RequestRow
  <1>3. CASE /\ Live(j)
             /\ jobs' = [jobs EXCEPT ![j] = [EmptyRow EXCEPT !.status = "gone"]]
             /\ request' = [request EXCEPT ![r].job = request[r].match, ![r].at = "saved"]
    <2> DEFINE q == [request[r] EXCEPT !.job = request[r].match, !.at = "saved"]
    <2>1. "saved" \in RequestStates  BY DEF RequestStates
    <2>2. q \in RequestRow  BY <1>2, <2>1, Typed DEF RequestRow
    <2>3. request' = [request EXCEPT ![r] = q]  BY <1>3, Typed
    <2>4. q.at = "saved" /\ q.job = request[r].match  BY Typed DEF RequestRow
    <2> HIDE DEF q
    <2>5. Turned(r) /\ request'[r] = q  BY <2>2, <2>3, Typed, Moved
    <2> QED
      BY <1>1, <1>2, <1>3, <2>4, <2>5, DeletionWrites DEF GraphSame
  <1>4. CASE ~ Live(j) /\ Goto(r, "done") /\ jobs' = jobs
    BY <1>1, <1>4, Typed, RefusedReads DEF Live, Waits
  <1> QED  BY <1>3, <1>4 DEF DropPlaceholder

LEMMA DropRowKeeps ==
  ASSUME IInv, NEW r \in Requests, DropRow(r)
  PROVE  Writes(r) \/ (Reads(r) /\ Derived)
  <1> DEFINE j == Target(r)
  <1>1. /\ request[r].at = "dropping" /\ Goto(r, "deleted")
        /\ UNCHANGED <<profileRevision, nodes, candidate, orphans>>
    BY DEF DropRow, At
  <1>2. j \in Jobs  BY <1>1, Typed DEF RowHeld, Unbound, Target
  <1>3. "deleted" \in RequestStates /\ request[r].at \notin Serving \cup Unbound
    BY <1>1 DEF RequestStates, Serving, Unbound
  <1>4. Turned(r) /\ request'[r].at = "deleted" /\ request'[r].job = j
    BY <1>1, <1>3, Typed, GotoEffect DEF Target
  <1>5. CASE Live(j) /\ DeleteJobRow(j)
    <2>1. /\ jobs' = [jobs EXCEPT ![j] = [EmptyRow EXCEPT !.status = "gone"]]
          /\ evaluations' \subseteq evaluations
      BY <1>5 DEF DeleteJobRow
    <2> QED
      BY <1>1, <1>2, <1>3, <1>4, <1>5, <2>1, DeletionWrites
  <1>6. CASE jobs' = jobs /\ evaluations' = evaluations
    <2>1. Reads(r)  BY <1>1, <1>3, <1>6, GoneOnReads
    <2>2. Derived  BY <1>1, <1>6, GraphSameDerived DEF GraphSame
    <2> QED  BY <2>1, <2>2
  <1> QED  BY <1>5, <1>6 DEF DropRow

LEMMA RetryMatchKeeps ==
  ASSUME IInv, NEW r \in Requests, RetryMatch(r)
  PROVE  Writes(r) \/ (Reads(r) /\ Derived)
  <1> DEFINE placeholder == Target(r)
             j == request[r].match
             removed == [EmptyRow EXCEPT !.status = "gone"]
  <1>1. request[r].at = "disposing" /\ j # NoJob /\ GraphSame  BY DEF RetryMatch, At
  <1>2. /\ j \in Jobs /\ Settled(j)
        /\ placeholder \in Jobs /\ jobs[placeholder].status \in {"received", "gone"}
    BY <1>1, Typed DEF RowHeld, Unbound, Placeholding, Target, RequestRow
  <1>3. ASSUME Live(placeholder), RetryHolds(j), orphans' = orphans,
               jobs' = [Rewritten(j, "processing") EXCEPT ![placeholder] = removed],
               request' = [request EXCEPT ![r].job = j, ![r].at = "extracting"]
        PROVE  Writes(r)
    <2> DEFINE q == [request[r] EXCEPT !.job = j, !.at = "extracting"]
    <2>1. "extracting" \in RequestStates  BY DEF RequestStates, Serving
    <2>2. q \in RequestRow  BY <1>2, <2>1, Typed DEF RequestRow
    <2>3. request' = [request EXCEPT ![r] = q]  BY <1>3, Typed
    <2>4. q.at = "extracting" /\ q.job = j  BY Typed DEF RequestRow
    <2> HIDE DEF q
    <2>5. Turned(r) /\ request'[r] = q  BY <2>2, <2>3, Typed, Moved
    <2>6. PICK row \in JobRow :
            /\ Rewritten(j, "processing") = [jobs EXCEPT ![j] = row]
            /\ row.status = "processing" /\ row.revision > jobs[j].revision
      BY <1>2, Typed, RewrittenRow DEF JobStates
    <2>7. removed \in JobRow /\ removed.status = "gone"  BY DEF EmptyRow, JobRow, JobStates
    <2>8. Live(j) /\ ~ ScorableRow(jobs[j]) /\ jobs[j].status \notin {"none", "gone"}
      BY <1>3 DEF RetryHolds, EmbeddingKept, Live
    <2>9. placeholder # j  BY <1>2, <1>3 DEF Settled, Live
    <2> HIDE DEF removed, placeholder, j
    <2>10. /\ jobs' \in [Jobs -> JobRow]
           /\ jobs'[j] = row /\ jobs'[placeholder] = removed
           /\ \A i \in Jobs \ {j, placeholder} : jobs'[i] = jobs[i]
      BY <1>2, <1>3, <2>6, <2>7, <2>9, Typed
    <2>11. \A i \in Jobs : Later(i)
      BY <1>2, <1>3, <2>6, <2>7, <2>8, <2>10 DEF Later, Live
    <2>12. \A s \in Requests \ {r} :
              ~ (request[s].at \in Placeholding /\ request[s].job = j)
      BY <1>2, <2>8, NotHeld DEF Settled
    <2>13. RowHeld(request[r])' /\ CopiesHeld(request[r])'
      BY <1>2, <2>4, <2>5, <2>6, <2>10 DEF RowHeld, CopiesHeld, Unbound, Placeholding,
         Finishing, Settled
    <2>14. \A s \in Requests : PlaceholderOwned(r, s)' /\ PlaceholderOwned(s, r)'
      BY <2>4, <2>5, <2>12 DEF PlaceholderOwned, Target, Turned, Placeholding
    <2>15. \A i \in Jobs : jobs'[i] # jobs[i] /\ Waits(i)' =>
              request'[r].at \in Serving /\ request'[r].job = i
      BY <2>4, <2>5, <2>7, <2>10 DEF Waits, Serving
    <2>16. \A i \in Jobs : jobs'[i] # jobs[i] /\ jobs'[i].status # "gone" => i = j
      BY <2>7, <2>10
    <2>17. \A i \in Jobs : ScorableRow(jobs[i]) =>
              ScorableRow(jobs'[i]) \/ jobs'[i].status = "gone"
      BY <2>7, <2>8, <2>10
    <2>18. jobs'[Target(r)].status = "gone"  BY <2>7, <2>10 DEF placeholder
    <2> QED
      BY <1>1, <1>3, <2>5, <2>10, <2>11, <2>12, <2>13, <2>14, <2>15, <2>16, <2>17, <2>18,
         Typed DEF Writes, GraphSame
  <1>4. CASE Goto(r, "done") /\ orphans' = orphans \cup {placeholder} /\ jobs' = jobs
    BY <1>1, <1>2, <1>4, Typed, RefusedReads
  <1> QED  BY <1>3, <1>4 DEF RetryMatch

-----------------------------------------------------------------------------
(* The invariant is inductive *)

LEMMA InitInv == SavedJobsInit => IInv
  <1> SUFFICES ASSUME SavedJobsInit PROVE IInv
    OBVIOUS
  <1> USE DEF SavedJobsInit, JobStoreInit, IngestionInit
  <1>1. \A r \in Requests : request[r] = Idle  OBVIOUS
  <1>2. \A j \in Jobs : jobs[j] = EmptyRow /\ nodes[j] = NoNode  OBVIOUS
  <1>3. SavedJobsTypeOK
    BY IdleTyped DEF SavedJobsTypeOK, JobStoreTypeOK, IngestionTypeOK
  <1>4. \A j \in Jobs : RowSound(j) /\ Faithful(nodes[j], j)
    <2> TAKE j \in Jobs
    <2>1. jobs[j] = EmptyRow /\ nodes[j] = NoNode  BY <1>2
    <2>2. /\ EmptyRow.status = "none" /\ EmptyRow.revision = 0 /\ EmptyRow.version = 0
          /\ NoNode.revision = 0 /\ NoNode.version = 0
      BY DEF EmptyRow, NoNode
    <2> QED  BY <2>1, <2>2 DEF RowSound, Faithful, Live
  <1>5. \A r \in Requests : RowHeld(request[r]) /\ CopiesHeld(request[r])
    BY <1>1 DEF RowHeld, CopiesHeld, Idle, Unbound, Placeholding, Finishing
  <1>6. \A r, s \in Requests : PlaceholderOwned(r, s)
    BY <1>1 DEF PlaceholderOwned, Idle, Placeholding
  <1>7. IngestionServed
    BY <1>2 DEF IngestionServed, EmptyRow
  <1>8. EvaluationFaithful  BY DEF EvaluationFaithful
  <1> QED  BY <1>3, <1>4, <1>5, <1>6, <1>7, <1>8 DEF IInv

\* Every step either writes rows, or leaves them and keeps what is derived from them.
LEMMA StepKeeps ==
  ASSUME IInv, NEW r \in Requests, RequestStep(r) \/ Abort(r)
  PROVE  Writes(r) \/ (Reads(r) /\ Derived)
  <1>1. ASSUME NEW c \in Contents, SelectText(r, c) \/ FetchAndSelect(r, c)
        PROVE  Reads(r) /\ Derived
    BY <1>1, SelectTextReads, FetchReads, GraphSameDerived DEF SelectText, FetchAndSelect
  <1>2. CASE FetchFails(r) \/ Extract(r) \/ ReadForFinish(r) \/ LoadCommitted(r)
    BY <1>2, FetchFailsReads, ExtractReads, ReadForFinishReads, LoadCommittedReads,
       GraphSameDerived DEF FetchFails, Extract, ReadForFinish, LoadCommitted
  <1>3. CASE InsertText(r) \/ RetryText(r) \/ CommitPlaceholder(r) \/ DropPlaceholder(r)
    BY <1>3, InsertTextKeeps, RetryTextKeeps, CommitPlaceholderWrites, DropPlaceholderKeeps
  <1>4. CASE RetryMatch(r) \/ AttachContent(r) \/ WriteFinish(r)
    BY <1>4, RetryMatchKeeps, AttachContentKeeps, WriteFinishKeeps
  <1>5. CASE SyncJob(r) \/ SyncJobFails(r)
    BY <1>5, SyncJobReads
  <1>6. ASSUME NEW j \in Jobs, CaptureJob(r, j) \/ BeginEvaluate(r, j) \/ BeginDelete(r, j)
        PROVE  Reads(r) /\ Derived
    BY <1>6, CaptureJobReads, BeginReads, GraphSameDerived
       DEF CaptureJob, BeginEvaluate, BeginDelete, OnlyReads
  <1>7. CASE Reextract(r) \/ ReplaceConflicts(r)
    BY <1>7, ReextractReads, ReplaceConflictsReads, GraphSameDerived
       DEF Reextract, ReplaceConflicts, OnlyReads
  <1>8. CASE ReplaceIfUnchanged(r)
    BY <1>8, ReplaceWrites
  <1>9. CASE ResolveContext(r) \/ GateReadsTruth(r) \/ GateComparesGraph(r)
    BY <1>9, ResolveContextReads, GateReadsTruthReads, GateComparesGraphReads,
       GraphSameDerived DEF ResolveContext, GateReadsTruth, GateComparesGraph, OnlyReads
  <1>10. CASE RetrieveExact(r) \/ Recheck(r)
    BY <1>10, RetrieveExactReads, RecheckReads, GraphSameDerived
       DEF RetrieveExact, Recheck, OnlyReads
  <1>11. CASE InsertEvaluation(r)
    BY <1>11, InsertEvaluationReads
  <1>12. CASE DetachNode(r)
    BY <1>12, DetachReads
  <1>13. CASE ConfirmDetached(r) \/ LoadRebuildInputs(r) \/ EndRebuild(r)
    BY <1>13, ConfirmDetachedReads, LoadRebuildInputsReads, EndRebuildReads,
       GraphSameDerived DEF ConfirmDetached, LoadRebuildInputs, EndRebuild, OnlyReads
  <1>14. CASE DropRow(r)
    BY <1>14, DropRowKeeps
  <1>15. CASE ApproveProfile(r) \/ SyncCandidate(r)
    BY <1>15, ApproveProfileReads, SyncCandidateReads
  <1>16. CASE ClearGraph(r) \/ RebuildNode(r)
    BY <1>16, ClearGraphReads, RebuildReads
  <1>17. CASE Abort(r)
    BY <1>17, AbortReads, GraphSameDerived DEF Abort
  <1> QED
    BY <1>1, <1>2, <1>3, <1>4, <1>5, <1>6, <1>7, <1>8, <1>9, <1>10, <1>11, <1>12, <1>13,
       <1>14, <1>15, <1>16, <1>17 DEF RequestStep, IngestionStep

LEMMA NextInv == IInv /\ [SavedJobsNext]_savedJobsVars => IInv'
  <1> SUFFICES ASSUME IInv, [SavedJobsNext]_savedJobsVars PROVE IInv'
    OBVIOUS
  <1>1. ASSUME NEW r \in Requests, RequestStep(r) \/ Abort(r)
        PROVE  IInv'
    BY <1>1, StepKeeps, ReadsPreserves, WritesPreserves
  <1>2. CASE UNCHANGED savedJobsVars
    BY <1>2 DEF savedJobsVars, IInv, SavedJobsTypeOK, JobStoreTypeOK, IngestionTypeOK,
       RowSound, RowHeld, CopiesHeld, PlaceholderOwned, Faithful, IngestionServed,
       EvaluationFaithful, Live, Settled, Target
  <1> QED  BY <1>1, <1>2 DEF SavedJobsNext

LEMMA SpecInv == SavedJobsSpec => []IInv
  <1>1. SavedJobsInit => IInv  BY InitInv
  <1>2. IInv /\ [SavedJobsNext]_savedJobsVars => IInv'  BY NextInv
  <1> QED  BY <1>1, <1>2, PTL DEF SavedJobsSpec

-----------------------------------------------------------------------------
(* Theorems *)

\* The rows, the nodes and the locals of every request keep their types.
THEOREM JobsTypeCorrect == SavedJobsSpec => []SavedJobsTypeOK
  <1>1. IInv => SavedJobsTypeOK  BY DEF IInv
  <1> QED  BY <1>1, SpecInv, PTL

\* However many requests ingest at once, a row that waits to be processed
\* (jobs.status received or processing, services/jd_ingestion.py) is in the hands of
\* a request that will end it, or was lost to an abort or a refused write.
THEOREM NoRowForgotten == SavedJobsSpec => []IngestionServed
  <1>1. IInv => IngestionServed  BY DEF IInv
  <1> QED  BY <1>1, SpecInv, PTL

\* Every stored evaluation scores the extraction that its key names, whatever was
\* written between the reads of services/job_evaluation.py.
THEOREM EvaluationsFaithful == SavedJobsSpec => []EvaluationFaithful
  <1>1. IInv => EvaluationFaithful  BY DEF IInv
  <1> QED  BY <1>1, SpecInv, PTL

\* The consistency gate may compare revisions alone: a node with the revision of a
\* scorable row carries the embedding of that row.
THEOREM RevisionSuffices == SavedJobsSpec => []GateSound
  <1>1. IInv => GateSound
    BY DEF IInv, GateSound, Faithful, ScorableRow
  <1> QED  BY <1>1, SpecInv, PTL

\* No request takes back a scorable extraction that another one stored: a scorable
\* row stays scorable until it is deleted.
THEOREM ScorableNeverLost == SavedJobsSpec => ScorableKept
  <1> DEFINE Kept == \A j \in Jobs : ScorableRow(jobs[j]) =>
                        ScorableRow(jobs'[j]) \/ jobs'[j].status = "gone"
  <1>1. ASSUME IInv, [SavedJobsNext]_savedJobsVars
        PROVE  [Kept]_savedJobsVars
    <2>1. ASSUME NEW r \in Requests, RequestStep(r) \/ Abort(r)
          PROVE  Kept
      BY <1>1, <2>1, StepKeeps DEF Writes, Reads
    <2>2. CASE UNCHANGED savedJobsVars
      BY <2>2
    <2> QED  BY <1>1, <2>1, <2>2 DEF SavedJobsNext
  <1> QED  BY <1>1, SpecInv, PTL DEF SavedJobsSpec, ScorableKept
=============================================================================
