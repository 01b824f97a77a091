\* Two workers, attempts never outlast the lease, faults everywhere.
SPECIFICATION Spec
CONSTANTS
    j1 = j1  j2 = j2  e1 = e1  e2 = e2  t1 = t1  t2 = t2  w1 = w1  w2 = w2  w3 = w3
    NoJob = NoJob
    Jobs = {j1, j2}
    Workers = {w1, w2}
    MaxAttempts = 3
    Texts = {t1, t2}
    ExplainJobs <- Empty
    Slot <- NoSlots
    Overruns = FALSE
    FaultPoints <- AllPoints
SYMMETRY SymAll
INVARIANTS TypeOK AtMostOneExecution RowFollowsWorker
    ContentOnlyWithCompletion FailedAfterHalfTheBudget
PROPERTIES ImplementsLifecycle
