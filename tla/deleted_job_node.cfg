\* A save and the deletion of the job it saved.
SPECIFICATION FairSavedJobsSpec
CONSTANTS
    q1 = q1
    q2 = q2
    q3 = q3
    j1 = j1
    j2 = j2
    NoJob = NoJob
    NoContent = NoContent
    Jobs = {j1}
    Contents = {c1}
    Requests = {q1, q2}
    Duties <- SaveAndDelete
    Faults = {}
PROPERTIES
    DeletionComplete
CHECK_DEADLOCK FALSE
