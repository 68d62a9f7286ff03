\* Three writers beside one match; the index returns at most two of three jobs.
SPECIFICATION MatchingSpec
CONSTANTS
    q1 = q1
    q2 = q2
    q3 = q3
    j1 = j1
    j2 = j2
    j3 = j3
    c1 = c1
    c2 = c2
    c3 = c3
    NoJob = NoJob
    NoContent = NoContent
    Absent = Absent
    Jobs = {j1, j2, j3}
    Contents = {c1, c2, c3}
    Requests = {q1, q2, q3}
    Duties <- Writers
    Faults = {"graph", "provider"}
    SavedContent <- Earlier
    Seeds <- Taxonomies
    Extraction <- Posts
    ProfileAt <- Profiles
    Names <- RawNames
    Similarity <- Overlap
    IdOrder <- ById
    Limits = {0, 1, 2}
    MaxLimit = 2
    RetrievalSize = 2
    One = 100
    MaxItems = 4
INVARIANTS
    MatchingTypeOK
    AnotherSkillNeverHurts
    IdentitiesDistinct
PROPERTIES
    MatchIsCurrent
CHECK_DEADLOCK FALSE
