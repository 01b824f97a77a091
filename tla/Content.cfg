\* Three workers, attempts may outlast the lease; or two scripts that overlap,
\* over files that grow.
SPECIFICATION MCSpec
CONSTANTS
    j1 = j1  j2 = j2  e1 = e1  e2 = e2  t1 = t1  t2 = t2  w1 = w1  w2 = w2  w3 = w3
    NoJob = NoJob
    Jobs = {j1}
    Workers = {w1, w2, w3}
    MaxAttempts = 3
    Texts = {t1}
    ExplainJobs <- Empty
    Slot <- NoSlots
    Overruns = TRUE
    FaultPoints <- AllPoints
    ja = ja  en = en  p1 = p1  p2 = p2
    None = None
    Japanese = ja
    English = en
    Directories <- Files
    Normal <- Folded
    EnTopicTags <- Tags
    MaxLength <- Lengths
    MaxNewItems = 2
    Scripts = {p1, p2}
    Legacy <- Old
    Failures <- Never
    WorkerTexts <- Stored
    MaxGenerated = 1
SYMMETRY Interchangeable
INVARIANTS NeverTooManyRuns NothingTwice
PROPERTIES LoadedWhole RowsStay
