SPECIFICATION Spec
CONSTANTS
    Items = {1, 2}
    LangOf <- OneLanguage
    Corpus <- TwoSentences
    MaxSentence = 3
    MaxShown = 3
    MaxSession = 2
    MaxTick = 2
    MaxReports = 1
    FlagAt = 2
    WorkerAlways = FALSE
    Used <- OneReviewed
    Interval <- Soon
    Ratios <- DefaultRatios
    BacklogRatios <- OverdueRatios
    BacklogThreshold = 1
    Share = 20
    MinExposures = 2
    BatchSize = 1
    MaxTargets = 2
    PerBatch = 1
    MaxProbes = 2
    ProbeGap = 1
    Passive = 1
    Cooldown = 2
    Recently = 1
INVARIANTS
    TypeOK
    PoolIsShowable
    ScheduleNeedsPromotion
    CacheNeverOvercounts
    StageIsEarned
    ProbesAreSpaced
    ContextsAreNew
PROPERTIES
    ReviewIsTimely
    AnchorIsKept
    StageFallsOnFailure
    StarvingAsksForContent
CHECK_DEADLOCK FALSE
