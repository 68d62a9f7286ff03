\* Three requests on two sessions. Requests that are done leave nothing to do, so
\* the system may stop.
SPECIFICATION TailoringSpec
CONSTANTS
    q1 = q1
    q2 = q2
    q3 = q3
    Requests = {q1, q2, q3}
    Sessions = {s1, s2}
    NoSession = NoSession
    NoRequest = NoRequest
    Duties <- Overlapping
    Faults = {"disconnect", "crash", "busy"}
    MaxSource = 2
INVARIANTS
    TailoringTypeOK
    GenerationServed
    VersionsFormLine
    VersionHasArtifacts
    FilesOwned
CHECK_DEADLOCK FALSE
