\* A walk over the CV or over a list that is over leaves the writers, which are
\* bounded, so the system may stop.
SPECIFICATION ReadingSpec
CONSTANTS
    d1 = d1
    d2 = d2
    Documents = {d1, d2}
    NoDocument = NoDocument
    Outline <- TwoOutlines
    Chunks <- ThreeChunks
    ExcerptLimit = 2
    SearchCeiling = 6
    Asks <- Questions
    ResultCaps = {1, 3}
    CharCaps = {4, 9}
    MaxExtractions = 2
    Profiles = {p1, p2}
    Cv = p1
    NoProfile = NoProfile
    Ids = {1, 2, 3}
    Stamps = {1, 2}
    Limits = {1, 2}
INVARIANTS
    ReadingTypeOK
    CvWalkExact
    ListWalkExact
CHECK_DEADLOCK FALSE
