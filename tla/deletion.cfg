SPECIFICATION Spec
CONSTANTS
    Profiles = {p1, p2, p3, p4}
    OperationIds = {}
    Runs = {}
    Clients = {c1, c2}
    InitiallyReady = {p1, p2, p3}
    Requests <- DeletionRequests
    MaxClock = 4
    NoProfile = NoProfile
    NoOperation = NoOperation
INVARIANTS
    ReadyKeepsFile
PROPERTIES
    SelectionKept
    RetryKept
SYMMETRY Symmetry
\* A backend that no request reaches stops; so does a model out of stamps.
CHECK_DEADLOCK FALSE
