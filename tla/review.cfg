\* A ready profile that is re-extracted and another one that is set up; it is
\* selected, and ready itself, once its draft is approved.
SPECIFICATION Spec
CONSTANTS
    Profiles = {p1, p2}
    OperationIds = {o1}
    Runs = {r1}
    Clients = {c1}
    InitiallyReady = {p1}
    Requests <- SetupRequests
    MaxClock = 6
    NoProfile = NoProfile
    NoOperation = NoOperation
INVARIANTS
    TypeOK
    DraftHasOwner
    ReviewHasDraft
    SetupExcludesReextraction
PROPERTIES
    TruthConsumesDraft
\* A backend that no request reaches stops; so does a model out of stamps.
CHECK_DEADLOCK FALSE
