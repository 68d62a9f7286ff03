\* Three requests on two jobs with one text. Requests that are done leave nothing
\* to do, so the system may stop.
SPECIFICATION SavedJobsSpec
CONSTANTS
    q1 = q1
    q2 = q2
    q3 = q3
    j1 = j1
    j2 = j2
    NoJob = NoJob
    NoContent = NoContent
    Jobs = {j1, j2}
    Contents = {c1}
    Requests = {q1, q2, q3}
    Duties <- Requested
    Faults = {"abort", "graph"}
INVARIANTS
    SavedJobsTypeOK
    IngestionServed
    EvaluationFaithful
    GateSound
PROPERTIES
    ScorableKept
CHECK_DEADLOCK FALSE
