\* Liveness, with faults everywhere but while content is stored.
SPECIFICATION FairSpec
CONSTANTS
    j1 = j1  j2 = j2  e1 = e1  e2 = e2  t1 = t1  t2 = t2  w1 = w1  w2 = w2  w3 = w3
    NoJob = NoJob
    Jobs = {j1, e1, e2}
    Workers = {w1}
    MaxAttempts = 2
    Texts = {t1, t2}
    ExplainJobs <- ExplainBoth
    Slot <- OneSlot
    Overruns = TRUE
    FaultPoints <- RecoverablePoints
INVARIANTS NoDuplicateText
PROPERTIES EveryJobEnds
