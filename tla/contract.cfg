SPECIFICATION Spec
CONSTANTS
    Profiles = {p1}
    OperationIds = {o1, o2}
    Runs = {r1}
    Clients = {c1}
    InitiallyReady = {p1}
    Requests <- ReviewRequests
    MaxClock = 4
    NoProfile = NoProfile
    NoOperation = NoOperation
INVARIANTS
    RunningHasStream
PROPERTIES
    ImplementsContract
    RunningEnds
\* A backend that no request reaches stops; so does a model out of stamps.
CHECK_DEADLOCK FALSE
