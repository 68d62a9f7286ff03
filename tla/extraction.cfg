SPECIFICATION ExtractionSpec
CONSTANTS
    JoinSize = 1
    ChunkSize = 4
    BatchSize = 8
    OutlineSize = 6
    NoTitle = "blank"
    Texts <- MCTexts
    BatchAnswers <- MCBatchAnswers
    OutlineAnswers <- MCOutlineAnswers
    SkillAnswers <- MCSkillAnswers
    JobAnswers <- MCJobAnswers
    Canonical <- MCCanonical
    Structural <- MCStructural
    Compound <- MCCompound
    LongTitles <- MCLongTitles
    BulkyTitles <- MCBulkyTitles
    SkillBatchSize = 2
    NoKey = "nokey"
INVARIANTS
    ExtractionTypeOK
    DocumentKeepsOutline
    PublishedGrounded
PROPERTIES
    DocumentIsBuilt
    ExtractionEnds
CHECK_DEADLOCK FALSE
