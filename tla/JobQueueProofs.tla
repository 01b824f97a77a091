--------------------------- MODULE JobQueueProofs ---------------------------
(***************************************************************************)
(* Theorems about JobQueue for any number of jobs, texts, workers and      *)
(* attempts and any fault points. Most need SafeDeployment: either no      *)
(* attempt outlasts its lease or there is a single worker process, as      *)
(* infra/docker-compose.yml has it. Type correctness and the last section, *)
(* on the budget, hold for every deployment; that texts are unique is      *)
(* proved for the single worker.                                           *)
(***************************************************************************)
EXTENDS JobQueue, FiniteSetTheorems, TLAPS

SafeDeployment == ~Overruns \/ \A v, w \in Workers : v = w

-----------------------------------------------------------------------------
(* Type correctness *)

LEMMA InitTypeOK == Init => TypeOK
BY NoJobAssumption
DEF Init, TypeOK, RowsTypeOK, WorkersTypeOK, Status, Blank, Executing

\* A worker that is busy is busy with some job.
LEMMA BusyHasJob ==
    ASSUME TypeOK, NEW w \in Workers, pc[w] \notin {"idle", "polling"}
    PROVE  job[w] \in Jobs
BY DEF TypeOK, WorkersTypeOK

LEMMA LeavesTypeOK ==
    ASSUME TypeOK, NEW w \in Workers, Leaves(w)
    PROVE  WorkersTypeOK'
BY NoJobAssumption
DEF TypeOK, WorkersTypeOK, Leaves, Forgets, Blank, Status, Executing

LEMMA CompletesTypeOK ==
    ASSUME TypeOK, NEW w \in Workers, Completes(w),
           pc[w] \notin {"idle", "polling"}
    PROVE  WorkersTypeOK'
BY NoJobAssumption
DEF TypeOK, WorkersTypeOK, Completes, Forgets, Blank, Status, Executing

LEMMA FailureTypeOK == \A rc : AfterFailure(rc) \in {"failed", "retry"}
BY DEF AfterFailure

LEMMA RetryFreshTypeOK ==
    ASSUME TypeOK, NEW j \in Jobs, RetryFresh(j) PROVE RowsTypeOK'
BY FailureTypeOK DEF TypeOK, RowsTypeOK, RetryFresh, Status

LEMMA WriteTypeOK ==
    ASSUME TypeOK, NEW w \in Workers, NEW j \in Jobs, NEW s \in Status
    PROVE  Write(w, j, s) \in [Jobs -> Status]
BY DEF TypeOK, RowsTypeOK, Write

LEMMA RetrySeenTypeOK ==
    ASSUME TypeOK, NEW w \in Workers, NEW j \in Jobs, RetrySeen(w, j)
    PROVE  RowsTypeOK'
<1>1. AfterFailure(seen[w].rc) \in Status
    BY FailureTypeOK DEF Status
<1>2. status' \in [Jobs -> Status]
    BY <1>1, WriteTypeOK DEF RetrySeen
<1>3. due' \in [Jobs -> BOOLEAN]
    BY DEF RetrySeen, TypeOK, RowsTypeOK
<1> QED BY <1>2, <1>3 DEF RetrySeen, TypeOK, RowsTypeOK

LEMMA NextTypeOK == TypeOK /\ [Next]_vars => TypeOK'
<1> SUFFICES ASSUME TypeOK, [Next]_vars PROVE TypeOK'
    OBVIOUS
<1>1. ASSUME NEW j \in Jobs, Enqueue(j) \/ BackoffPasses(j) \/ LeaseRunsOut(j)
      PROVE  TypeOK'
    BY <1>1 DEF TypeOK, RowsTypeOK, WorkersTypeOK, Enqueue, BackoffPasses,
                LeaseRunsOut, Status, localVars
<1>2. ASSUME NEW w \in Workers, Reclaim(w) PROVE TypeOK'
    <2>1. status' \in [Jobs -> Status]
        BY <1>2, FailureTypeOK
        DEF TypeOK, RowsTypeOK, Reclaim, ReclaimRows, Status
    <2>2. RowsTypeOK'
        BY <1>2, <2>1 DEF TypeOK, RowsTypeOK, Reclaim, ReclaimRows
    <2>3. WorkersTypeOK'
        BY <1>2 DEF TypeOK, WorkersTypeOK, Reclaim, ReclaimRows, localVars
    <2> QED BY <2>2, <2>3 DEF TypeOK
<1>3. ASSUME NEW w \in Workers, NothingDue(w) \/ CeilingStops(w) PROVE TypeOK'
    BY <1>3 DEF TypeOK, RowsTypeOK, WorkersTypeOK, NothingDue, CeilingStops,
                rowVars, localVars
<1>4. ASSUME NEW w \in Workers, NEW j \in Jobs, Claim(w, j) PROVE TypeOK'
    BY <1>4, NoJobAssumption
    DEF TypeOK, RowsTypeOK, WorkersTypeOK, Claim, Executing, Status
<1>5. ASSUME NEW w \in Workers, Attempt(w) PROVE TypeOK'
    <2> DEFINE j == job[w]
    <2>0. j \in Jobs
        BY <1>5, BusyHasJob
        DEF Attempt, DeadLetter, NothingToDo, CallProvider, ProviderFails,
            Answer, RejectAll, MarkValidated, LookUp, Store, StoreNothing,
            StoreFails, Reports
    <2>1. CASE DeadLetter(w)
        BY <2>0, <2>1, LeavesTypeOK
        DEF DeadLetter, TypeOK, RowsTypeOK, Status
    <2>2. CASE NothingToDo(w)
        BY <2>0, <2>2, CompletesTypeOK
        DEF NothingToDo, TypeOK, RowsTypeOK, Status
    <2>3. CASE CallProvider(w)
        BY <2>0, <2>3
        DEF CallProvider, TypeOK, RowsTypeOK, WorkersTypeOK, Executing,
            StoredByOthers, rowVars
    <2>4. CASE ProviderFails(w)
        BY <2>0, <2>4, LeavesTypeOK, RetryFreshTypeOK DEF ProviderFails, TypeOK
    <2>5. CASE Answer(w)
        BY <2>0, <2>5
        DEF Answer, TypeOK, RowsTypeOK, WorkersTypeOK, Executing, rowVars
    <2>6. CASE RejectAll(w)
        BY <2>0, <2>6, LeavesTypeOK, RetrySeenTypeOK DEF RejectAll, TypeOK
    <2>7. CASE MarkValidated(w)
        <3>1. RowsTypeOK'
            BY <2>0, <2>7, WriteTypeOK
            DEF MarkValidated, TypeOK, RowsTypeOK, Status
        <3>2. PICK passed \in Screened(w, j) :
                  accepted' = [accepted EXCEPT ![w] = passed]
            BY <2>7 DEF MarkValidated
        <3>3. passed \in SUBSET Texts
            BY <2>0, <3>2, ExplainAssumption DEF Screened, Sentences
        <3>4. WorkersTypeOK'
            BY <2>7, <3>2, <3>3
            DEF MarkValidated, TypeOK, WorkersTypeOK, Executing, Status
        <3> QED BY <3>1, <3>4 DEF TypeOK
    <2>8. CASE LookUp(w)
        <3> DEFINE mine == accepted[w] \cap StoredBy(j)
                   taken == accepted[w] \cap StoredByOthers(j)
        <3>0. accepted[w] \subseteq Texts
            BY DEF TypeOK, WorkersTypeOK
        <3> HIDE DEF mine, taken
        <3>1. \E S \in SUBSET Texts : own' = [own EXCEPT ![w] = S]
            <4>1. CASE j \in ExplainJobs
                BY <2>8, <4>1 DEF LookUp
            <4>2. CASE j \notin ExplainJobs
                <5>1. PICK S \in SUBSET mine : own' = [own EXCEPT ![w] = S]
                    BY <2>8, <4>2 DEF LookUp, mine
                <5> QED BY <3>0, <5>1 DEF mine
            <4> QED BY <4>1, <4>2
        <3>2. \E S \in SUBSET Texts : fresh' = [fresh EXCEPT ![w] = S]
            <4>1. CASE j \in ExplainJobs
                BY <2>8, <3>0, <4>1 DEF LookUp
            <4>2. CASE j \notin ExplainJobs
                BY <2>8, <3>0, <4>2 DEF LookUp
            <4> QED BY <4>1, <4>2
        <3>3. /\ pc[w] = "storing" /\ pc' = [pc EXCEPT ![w] = "committing"]
              /\ UNCHANGED <<job, seen, corpus, accepted>>
            BY <2>8 DEF LookUp
        <3>4. RowsTypeOK'
            BY <2>8 DEF LookUp, TypeOK, RowsTypeOK, rowVars
        <3>5. WorkersTypeOK'
            BY <3>1, <3>2, <3>3 DEF TypeOK, WorkersTypeOK, Executing
        <3> QED BY <3>4, <3>5 DEF TypeOK
    <2>9. CASE Store(w)
        <3>1. status' \in [Jobs -> Status]
            BY <2>0, <2>9, WriteTypeOK DEF Store, Status
        <3>2. rows' \in [Texts -> [Jobs -> Nat]]
            BY <2>0, <2>9 DEF Store, TypeOK, RowsTypeOK
        <3>3. WorkersTypeOK'
            BY <2>9, CompletesTypeOK DEF Store
        <3> QED BY <2>9, <3>1, <3>2, <3>3 DEF Store, TypeOK, RowsTypeOK
    <2>10. CASE StoreNothing(w)
        BY <2>0, <2>10, LeavesTypeOK, RetrySeenTypeOK DEF StoreNothing, TypeOK
    <2>11. CASE StoreFails(w)
        BY <2>0, <2>11, LeavesTypeOK, RetryFreshTypeOK DEF StoreFails, TypeOK
    <2>12. CASE Reports(w)
        BY <2>12, LeavesTypeOK DEF Reports, TypeOK, RowsTypeOK, rowVars
    <2> QED BY <1>5, <2>1, <2>2, <2>3, <2>4, <2>5, <2>6, <2>7, <2>8, <2>9,
               <2>10, <2>11, <2>12 DEF Attempt
<1>6. ASSUME NEW w \in Workers, Throws(w) PROVE TypeOK'
    <2>1. job[w] \in Jobs
        BY <1>6, BusyHasJob, FaultAssumption DEF Throws, Executing
    <2> QED BY <1>6, <2>1, LeavesTypeOK, RetryFreshTypeOK
            DEF Throws, TypeOK, RowsTypeOK, rowVars
<1>7. ASSUME NEW w \in Workers, Crash(w) PROVE TypeOK'
    BY <1>7, LeavesTypeOK DEF Crash, TypeOK, RowsTypeOK, rowVars
<1>8. CASE UNCHANGED vars
    BY <1>8 DEF TypeOK, RowsTypeOK, WorkersTypeOK, vars, rowVars, localVars
<1> QED BY <1>1, <1>2, <1>3, <1>4, <1>5, <1>6, <1>7, <1>8 DEF Next, Rotation

\* The rows of generation_jobs, the stored content and the workers' sessions
\* keep their types; a busy worker always has a job.
THEOREM TypeCorrect == Spec => []TypeOK
<1> QED BY InitTypeOK, NextTypeOK, PTL DEF Spec

-----------------------------------------------------------------------------
(* The inductive invariant *)

\* A worker that is executing holds its job alone, the row says so, and its
\* lease can only be over where attempts may overrun.
Held ==
    \A w \in Workers : \A j \in Jobs :
        Executes(w, j) =>
            /\ status[j] = IF pc[w] \in {"storing", "committing"}
                           THEN "validated" ELSE "running"
            /\ expired[j] => Overruns

\* A session's copy of its job is up to date, and a worker that reports on a
\* job has completed it.
Current ==
    \A w \in Workers :
        /\ pc[w] \in {"answered", "storing", "committing"} =>
               seen[w] = [status |-> status[job[w]], rc |-> retryCount[job[w]]]
        /\ pc[w] = "logging" => status[job[w]] = "completed"

\* retry_count counts the attempts and the reclaims. One unit is left when
\* the job waits, and a failed job has none.
SpentBy(j) ==
    /\ status[j] = "none" => retryCount[j] = 0
    /\ status[j] \in Claimable => retryCount[j] < MaxAttempts
    /\ status[j] \in {"running", "validated"} =>
           retryCount[j] <= MaxAttempts /\ retryCount[j] < 2 * runs[j]
    /\ status[j] = "failed" => retryCount[j] >= MaxAttempts
    /\ runs[j] <= MaxAttempts
    /\ runs[j] <= retryCount[j]
    /\ retryCount[j] <= 2 * runs[j]

Spent == \A j \in Jobs : SpentBy(j)

SafetyInv ==
    /\ Held
    /\ AtMostOneExecution
    /\ Current
    /\ Spent
    /\ ContentOnlyWithCompletion

LEMMA InitSafety == Init => SafetyInv
BY NoJobAssumption, AttemptsAssumption
DEF Init, SafetyInv, Held, AtMostOneExecution, Current, Spent, SpentBy,
    ContentOnlyWithCompletion, Executes, Executing, Claimable

\* Only the rows of jobs that nobody executes are reclaimed.
LEMMA StaleIsUnheld ==
    ASSUME SafeDeployment, TypeOK, SafetyInv,
           NEW w \in Workers, pc[w] = "idle",
           NEW v \in Workers, NEW j \in Stale
    PROVE  ~Executes(v, j)
BY DEF SafeDeployment, SafetyInv, Held, Stale, Executes, Executing

\* What SafetyInv and the types say of the worker that takes a step.
LEMMA HolderState ==
    ASSUME TypeOK, SafetyInv, NEW w \in Workers, pc[w] \in Executing
    PROVE  /\ job[w] \in Jobs
           /\ status[job[w]] = IF pc[w] \in {"storing", "committing"}
                               THEN "validated" ELSE "running"
           /\ \A v \in Workers \ {w} : ~Executes(v, job[w])
<1>1. job[w] \in Jobs
    BY BusyHasJob DEF Executing
<1> QED BY <1>1 DEF SafetyInv, Held, AtMostOneExecution, Executes

\* The attempt of w ends without content: with its row moved to a status
\* that fits what is left of the budget.
LEMMA EndsSafely ==
    ASSUME TypeOK, SafetyInv, NEW w \in Workers, pc[w] \in Executing,
           NEW s \in {"failed", "retry", "dead_letter"},
           s = "failed" => retryCount[job[w]] >= MaxAttempts,
           s = "retry" => retryCount[job[w]] < MaxAttempts,
           status' = [status EXCEPT ![job[w]] = s],
           UNCHANGED <<retryCount, expired, rows, runs>>,
           Leaves(w)
    PROVE  SafetyInv'
<1> DEFINE j == job[w]
<1>1. /\ j \in Jobs
      /\ status[j] \in {"running", "validated"}
      /\ \A v \in Workers \ {w} : ~Executes(v, j)
    BY HolderState
<1>2. /\ status \in [Jobs -> Status]
      /\ pc' = [pc EXCEPT ![w] = "idle"]
      /\ job' = [job EXCEPT ![w] = NoJob]
      /\ pc \in [Workers -> Executing \cup {"idle", "polling", "logging"}]
      /\ job \in [Workers -> Jobs \cup {NoJob}]
    BY DEF TypeOK, RowsTypeOK, WorkersTypeOK, Leaves
<1>3. \A v \in Workers \ {w} : pc'[v] = pc[v] /\ job'[v] = job[v]
    BY <1>2
<1>4. pc'[w] = "idle"
    BY <1>2
<1>5. \A v \in Workers, k \in Jobs :
          Executes(v, k)' => v # w /\ Executes(v, k) /\ k # j
    BY <1>1, <1>3, <1>4 DEF Executes, Executing
<1>6. \A k \in Jobs \ {j} : status'[k] = status[k]
    BY <1>2
<1>7. status'[j] = s
    BY <1>1, <1>2
<1>8. Held'
    BY <1>3, <1>5, <1>6 DEF SafetyInv, Held
<1>9. AtMostOneExecution'
    BY <1>5 DEF SafetyInv, AtMostOneExecution
<1>10. Current'
    <2> SUFFICES ASSUME NEW v \in Workers, v # w,
                        pc[v] \in {"answered", "storing", "committing", "logging"}
                 PROVE  /\ seen'[v] = seen[v]
                        /\ job[v] \in Jobs
                        /\ job[v] # j
        BY <1>3, <1>4, <1>6 DEF SafetyInv, Current
    <2>1. job[v] \in Jobs
        BY BusyHasJob
    <2>2. seen'[v] = seen[v]
        BY DEF Leaves, Forgets, TypeOK, WorkersTypeOK
    <2>3. CASE pc[v] = "logging"
        BY <1>1, <2>1, <2>2, <2>3 DEF SafetyInv, Current
    <2>4. CASE pc[v] # "logging"
        BY <1>1, <2>1, <2>2, <2>4 DEF Executes, Executing
    <2> QED BY <2>3, <2>4
<1>11. Spent'
    BY <1>1, <1>6, <1>7 DEF SafetyInv, Spent, SpentBy, Claimable
<1>12. ContentOnlyWithCompletion'
    BY <1>1, <1>6 DEF SafetyInv, ContentOnlyWithCompletion
<1> QED BY <1>8, <1>9, <1>10, <1>11, <1>12 DEF SafetyInv

LEMMA RetriesSafely ==
    ASSUME TypeOK, SafetyInv, NEW w \in Workers, pc[w] \in Executing,
           RetryFresh(job[w]), Leaves(w)
    PROVE  SafetyInv'
<1>1. retryCount[job[w]] \in Nat
    BY HolderState DEF TypeOK, RowsTypeOK
<1> DEFINE s == AfterFailure(retryCount[job[w]])
<1>2. /\ s \in {"failed", "retry", "dead_letter"}
      /\ s = "failed" => retryCount[job[w]] >= MaxAttempts
      /\ s = "retry" => retryCount[job[w]] < MaxAttempts
    BY <1>1, AttemptsAssumption DEF AfterFailure
<1>3. /\ status' = [status EXCEPT ![job[w]] = s]
      /\ UNCHANGED <<retryCount, expired, rows, runs>>
    BY DEF RetryFresh
<1> QED BY <1>2, <1>3, EndsSafely

\* A session's copy is current, so it makes no difference that it is a copy.
LEMMA CopyIsRow ==
    ASSUME TypeOK, SafetyInv, NEW w \in Workers,
           pc[w] \in {"answered", "storing", "committing"}
    PROVE  /\ \A s : Write(w, job[w], s) = [status EXCEPT ![job[w]] = s]
           /\ RetrySeen(w, job[w]) => RetryFresh(job[w])
<1>1. pc[w] \in Executing
    BY DEF Executing
<1>2. job[w] \in Jobs
    BY <1>1, HolderState
<1>3. /\ seen[w].status = status[job[w]]
      /\ seen[w].rc = retryCount[job[w]]
    <2>1. seen[w] = [status |-> status[job[w]], rc |-> retryCount[job[w]]]
        BY DEF SafetyInv, Current
    <2> QED BY <2>1
<1>4. ASSUME NEW s
      PROVE  Write(w, job[w], s) = [status EXCEPT ![job[w]] = s]
    BY <1>2, <1>3 DEF Write, TypeOK, RowsTypeOK
<1> QED BY <1>3, <1>4 DEF RetrySeen, RetryFresh

\* w leaves run_once and no row changes.
LEMMA LeavesSafely ==
    ASSUME TypeOK, SafetyInv, NEW w \in Workers, Leaves(w), UNCHANGED rowVars
    PROVE  SafetyInv'
BY DEF TypeOK, WorkersTypeOK, Leaves, Forgets, rowVars, SafetyInv, Held,
       AtMostOneExecution, Current, Spent, SpentBy, ContentOnlyWithCompletion,
       Executes, Executing

LEMMA ClaimSafely ==
    ASSUME TypeOK, SafetyInv, NEW w \in Workers, NEW j \in Jobs, Claim(w, j)
    PROVE  SafetyInv'
<1>1. /\ status[j] \in Claimable
      /\ \A v \in Workers : ~Executes(v, j)
    BY DEF Claim, SafetyInv, Held, Claimable
<1>2. \A v \in Workers \ {w} : pc'[v] = pc[v] /\ job'[v] = job[v]
    BY DEF Claim, TypeOK, WorkersTypeOK
<1>3. pc'[w] = "claimed" /\ job'[w] = j
    BY DEF Claim, TypeOK, WorkersTypeOK
<1>4. \A k \in Jobs \ {j} : /\ status'[k] = status[k]
                             /\ expired'[k] = expired[k]
                             /\ retryCount'[k] = retryCount[k]
                             /\ runs'[k] = runs[k]
    BY DEF Claim, TypeOK, RowsTypeOK
<1>5. /\ status'[j] = "running"
      /\ expired'[j] = FALSE
      /\ retryCount'[j] = retryCount[j] + 1
      /\ runs'[j] = runs[j] + 1
    BY DEF Claim, TypeOK, RowsTypeOK
<1>6. \A v \in Workers, k \in Jobs :
          (Executes(v, k)' <=>
               (v = w /\ k = j) \/ (v # w /\ k # j /\ Executes(v, k)))
    <2> TAKE v \in Workers, k \in Jobs
    <2>1. CASE v = w
        BY <1>3, <2>1 DEF Executes, Executing
    <2>2. CASE v # w
        <3>1. Executes(v, k)' <=> Executes(v, k)
            BY <1>2, <2>2 DEF Executes
        <3> QED BY <1>1, <2>2, <3>1
    <2> QED BY <2>1, <2>2
<1>7. Held'
    BY <1>2, <1>3, <1>4, <1>5, <1>6 DEF SafetyInv, Held
<1>8. AtMostOneExecution'
    BY <1>6 DEF SafetyInv, AtMostOneExecution
<1>9. Current'
    <2> SUFFICES ASSUME NEW v \in Workers, v # w,
                        pc[v] \in {"answered", "storing", "committing", "logging"}
                 PROVE  job[v] \in Jobs /\ job[v] # j
        BY <1>2, <1>3, <1>4 DEF SafetyInv, Current, Claim
    <2>1. job[v] \in Jobs
        BY DEF TypeOK, WorkersTypeOK
    <2>2. pc[v] = "logging" => status[job[v]] = "completed"
        BY DEF SafetyInv, Current
    <2> QED BY <1>1, <2>1, <2>2 DEF Executes, Executing, Claimable
<1>10. Spent'
    BY <1>1, <1>4, <1>5, AttemptsAssumption
    DEF SafetyInv, Spent, SpentBy, Claimable, TypeOK, RowsTypeOK
<1>11. ContentOnlyWithCompletion'
    BY <1>1, <1>4 DEF SafetyInv, ContentOnlyWithCompletion, Claim, Claimable
<1> QED BY <1>7, <1>8, <1>9, <1>10, <1>11 DEF SafetyInv

LEMMA ReclaimSafely ==
    ASSUME SafeDeployment, TypeOK, SafetyInv, NEW w \in Workers, Reclaim(w)
    PROVE  SafetyInv'
<1>1. /\ pc[w] = "idle"
      /\ pc' = [pc EXCEPT ![w] = "polling"]
      /\ UNCHANGED <<job, seen, rows, runs>>
    BY DEF Reclaim, ReclaimRows, localVars
<1>2. \A v \in Workers, j \in Jobs : Executes(v, j)' <=> Executes(v, j)
    BY <1>1 DEF Executes, Executing, TypeOK, WorkersTypeOK
<1>3. \A v \in Workers, j \in Stale : ~Executes(v, j)
    BY <1>1, StaleIsUnheld
<1>4. \A j \in Jobs \ Stale : /\ status'[j] = status[j]
                               /\ retryCount'[j] = retryCount[j]
                               /\ expired'[j] = expired[j]
    BY DEF Reclaim, ReclaimRows, TypeOK, RowsTypeOK
<1>5. \A j \in Stale : /\ j \in Jobs
                        /\ status[j] = "running"
                        /\ status'[j] = AfterFailure(retryCount[j] + 1)
                        /\ retryCount'[j] = retryCount[j] + 1
    BY DEF Reclaim, ReclaimRows, Stale
<1>6. \A v \in Workers : pc'[v] # pc[v] => pc'[v] = "polling"
    BY <1>1 DEF TypeOK, WorkersTypeOK
<1>7. Held'
    BY <1>2, <1>3, <1>4, <1>6 DEF SafetyInv, Held, Executes, Executing
<1>8. AtMostOneExecution'
    BY <1>2 DEF SafetyInv, AtMostOneExecution
<1>9. Current'
    <2> SUFFICES ASSUME NEW v \in Workers,
                        pc[v] \in {"answered", "storing", "committing", "logging"}
                 PROVE  job[v] \in Jobs \ Stale
        BY <1>1, <1>4, <1>6 DEF SafetyInv, Current
    <2>1. job[v] \in Jobs
        BY DEF TypeOK, WorkersTypeOK
    <2>2. pc[v] = "logging" => status[job[v]] = "completed"
        BY DEF SafetyInv, Current
    <2> QED BY <1>3, <1>5, <2>1, <2>2 DEF Executes, Executing
<1>10. Spent'
    <2> SUFFICES ASSUME NEW j \in Jobs
                 PROVE  SpentBy(j)'
        BY DEF Spent
    <2>1. CASE j \in Stale
        BY <1>1, <1>5, <2>1, AttemptsAssumption
        DEF AfterFailure, SafetyInv, Spent, SpentBy, Claimable, TypeOK, RowsTypeOK
    <2>2. CASE j \notin Stale
        BY <1>1, <1>4, <2>2 DEF SafetyInv, Spent, SpentBy
    <2> QED BY <2>1, <2>2
<1>11. ContentOnlyWithCompletion'
    BY <1>1, <1>4, <1>5 DEF SafetyInv, ContentOnlyWithCompletion
<1> QED BY <1>7, <1>8, <1>9, <1>10, <1>11 DEF SafetyInv

\* The attempt of w ends with the content kept, or with nothing to do.
LEMMA CompletesSafely ==
    ASSUME TypeOK, SafetyInv, NEW w \in Workers, pc[w] \in Executing,
           status' = [status EXCEPT ![job[w]] = "completed"],
           UNCHANGED <<retryCount, expired, runs>>,
           NEW kept,
           rows' = [t \in Texts |->
                       IF t \in kept THEN [rows[t] EXCEPT ![job[w]] = @ + 1]
                                     ELSE rows[t]],
           Completes(w)
    PROVE  SafetyInv'
<1> DEFINE j == job[w]
<1>1. /\ j \in Jobs
      /\ status[j] \in {"running", "validated"}
      /\ \A v \in Workers \ {w} : ~Executes(v, j)
    BY HolderState
<1>2. /\ \A v \in Workers \ {w} : pc'[v] = pc[v]
      /\ pc'[w] = "logging"
      /\ job' = job
    BY DEF Completes, TypeOK, WorkersTypeOK
<1>3. /\ \A k \in Jobs \ {j} : status'[k] = status[k]
      /\ status'[j] = "completed"
    BY <1>1 DEF TypeOK, RowsTypeOK
<1>4. \A v \in Workers, k \in Jobs :
          Executes(v, k)' => v # w /\ Executes(v, k) /\ k # j
    BY <1>1, <1>2 DEF Executes, Executing
<1>5. Held'
    BY <1>2, <1>3, <1>4 DEF SafetyInv, Held
<1>6. AtMostOneExecution'
    BY <1>4 DEF SafetyInv, AtMostOneExecution
<1>7. Current'
    <2> SUFFICES ASSUME NEW v \in Workers, v # w,
                        pc[v] \in {"answered", "storing", "committing", "logging"}
                 PROVE  /\ seen'[v] = seen[v]
                        /\ job[v] \in Jobs
                        /\ job[v] # j
        BY <1>2, <1>3 DEF SafetyInv, Current
    <2>1. job[v] \in Jobs
        BY DEF TypeOK, WorkersTypeOK
    <2>2. seen'[v] = seen[v]
        BY DEF Completes, Forgets, TypeOK, WorkersTypeOK
    <2>3. CASE pc[v] = "logging"
        BY <1>1, <2>1, <2>2, <2>3 DEF SafetyInv, Current
    <2>4. CASE pc[v] # "logging"
        BY <1>1, <2>1, <2>2, <2>4 DEF Executes, Executing
    <2> QED BY <2>3, <2>4
<1>8. Spent'
    BY <1>1, <1>3 DEF SafetyInv, Spent, SpentBy, Claimable
<1>9. ContentOnlyWithCompletion'
    <2> SUFFICES ASSUME NEW k \in Jobs, NEW t \in Texts
                 PROVE  /\ rows'[t][k] > 0 => status'[k] = "completed"
                        /\ rows'[t][k] <= 1
        BY DEF ContentOnlyWithCompletion
    <2>1. CASE k # j
        <3>1. rows'[t][k] = rows[t][k]
            BY <1>1, <2>1 DEF TypeOK, RowsTypeOK
        <3> QED BY <1>3, <2>1, <3>1 DEF SafetyInv, ContentOnlyWithCompletion
    <2>2. CASE k = j
        <3>1. rows[t][k] = 0
            BY <1>1, <2>2
            DEF SafetyInv, ContentOnlyWithCompletion, TypeOK, RowsTypeOK
        <3>2. rows'[t][k] \in {0, 1}
            BY <1>1, <2>2, <3>1 DEF TypeOK, RowsTypeOK
        <3> QED BY <1>3, <2>2, <3>2
    <2> QED BY <2>1, <2>2
<1> QED BY <1>5, <1>6, <1>7, <1>8, <1>9 DEF SafetyInv

LEMMA MarksSafely ==
    ASSUME TypeOK, SafetyInv, NEW w \in Workers, MarkValidated(w)
    PROVE  SafetyInv'
<1> DEFINE j == job[w]
<1>1. /\ j \in Jobs
      /\ status[j] = "running"
      /\ \A v \in Workers \ {w} : ~Executes(v, j)
    BY HolderState DEF MarkValidated, Executing
<1>2. status' = [status EXCEPT ![j] = "validated"]
    BY CopyIsRow DEF MarkValidated
<1>3. /\ \A k \in Jobs \ {j} : status'[k] = status[k]
      /\ status'[j] = "validated"
    BY <1>1, <1>2 DEF TypeOK, RowsTypeOK
<1>4. /\ pc[w] = "answered"
      /\ \A v \in Workers \ {w} : pc'[v] = pc[v]
      /\ pc'[w] = "storing"
      /\ UNCHANGED <<job, retryCount, expired, rows, runs>>
    BY DEF MarkValidated, TypeOK, WorkersTypeOK
<1>5. \A v \in Workers, k \in Jobs : Executes(v, k)' <=> Executes(v, k)
    BY <1>4 DEF Executes, Executing
<1>6. Held'
    BY <1>1, <1>3, <1>4, <1>5 DEF SafetyInv, Held, Executes
<1>7. AtMostOneExecution'
    BY <1>5 DEF SafetyInv, AtMostOneExecution
<1>8. Current'
    <2> SUFFICES ASSUME NEW v \in Workers,
                        pc'[v] \in {"answered", "storing", "committing", "logging"}
                 PROVE  /\ pc'[v] # "logging" =>
                              seen'[v] = [status |-> status'[job[v]],
                                          rc |-> retryCount[job[v]]]
                        /\ pc'[v] = "logging" => status'[job[v]] = "completed"
        BY <1>4 DEF Current
    <2>1. CASE v = w
        <3>1. seen[w] = [status |-> status[j], rc |-> retryCount[j]]
            BY <1>4 DEF SafetyInv, Current
        <3>2. seen'[w] = [status |-> "validated", rc |-> seen[w].rc]
            BY DEF MarkValidated, TypeOK, WorkersTypeOK
        <3> QED BY <1>3, <1>4, <2>1, <3>1, <3>2
    <2>2. CASE v # w
        <3>1. seen'[v] = seen[v] /\ pc'[v] = pc[v]
            BY <1>4, <2>2 DEF MarkValidated, TypeOK, WorkersTypeOK
        <3>2. job[v] \in Jobs
            BY <2>2, <3>1 DEF TypeOK, WorkersTypeOK
        <3>3. job[v] # j
            BY <1>1, <2>2, <3>1, <3>2
            DEF Executes, Executing, SafetyInv, Current
        <3> QED BY <1>3, <3>1, <3>2, <3>3 DEF SafetyInv, Current
    <2> QED BY <2>1, <2>2
<1>9. Spent'
    BY <1>1, <1>3, <1>4 DEF SafetyInv, Spent, SpentBy, Claimable
<1>10. ContentOnlyWithCompletion'
    BY <1>1, <1>3, <1>4 DEF SafetyInv, ContentOnlyWithCompletion
<1> QED BY <1>6, <1>7, <1>8, <1>9, <1>10 DEF SafetyInv

LEMMA NextSafety ==
    SafeDeployment /\ TypeOK /\ SafetyInv /\ [Next]_vars => SafetyInv'
<1> SUFFICES ASSUME SafeDeployment, TypeOK, SafetyInv, [Next]_vars
             PROVE  SafetyInv'
    OBVIOUS
<1>1. ASSUME NEW j \in Jobs, Enqueue(j) PROVE SafetyInv'
    BY <1>1, AttemptsAssumption
    DEF Enqueue, localVars, TypeOK, RowsTypeOK, WorkersTypeOK, SafetyInv,
        Held, AtMostOneExecution, Current, Spent, SpentBy,
        ContentOnlyWithCompletion, Executes, Executing, Claimable
<1>2. ASSUME NEW j \in Jobs, BackoffPasses(j) PROVE SafetyInv'
    BY <1>2
    DEF BackoffPasses, localVars, SafetyInv, Held, AtMostOneExecution, Current,
        Spent, SpentBy, ContentOnlyWithCompletion, Executes
<1>3. ASSUME NEW j \in Jobs, LeaseRunsOut(j) PROVE SafetyInv'
    BY <1>3
    DEF LeaseRunsOut, localVars, TypeOK, RowsTypeOK, SafetyInv, Held,
        AtMostOneExecution, Current, Spent, SpentBy, ContentOnlyWithCompletion,
        Executes
<1>4. ASSUME NEW w \in Workers, Reclaim(w) PROVE SafetyInv'
    BY <1>4, ReclaimSafely
<1>5. ASSUME NEW w \in Workers, NothingDue(w) \/ CeilingStops(w)
      PROVE  SafetyInv'
    BY <1>5
    DEF NothingDue, CeilingStops, rowVars, localVars, TypeOK, WorkersTypeOK,
        SafetyInv, Held, AtMostOneExecution, Current, Spent, SpentBy,
        ContentOnlyWithCompletion, Executes, Executing
<1>6. ASSUME NEW w \in Workers, NEW j \in Jobs, Claim(w, j) PROVE SafetyInv'
    BY <1>6, ClaimSafely
<1>7. ASSUME NEW w \in Workers, Attempt(w) PROVE SafetyInv'
    <2>1. CASE DeadLetter(w)
        BY <2>1, EndsSafely DEF DeadLetter, Executing
    <2>2. CASE NothingToDo(w)
        <3> DEFINE kept == {}
        <3>1. rows' = [t \in Texts |->
                          IF t \in kept THEN [rows[t] EXCEPT ![job[w]] = @ + 1]
                                        ELSE rows[t]]
            BY <2>2 DEF NothingToDo, TypeOK, RowsTypeOK
        <3>2. /\ pc[w] \in Executing
              /\ status' = [status EXCEPT ![job[w]] = "completed"]
              /\ UNCHANGED <<retryCount, expired, runs>>
              /\ Completes(w)
            BY <2>2 DEF NothingToDo, Executing
        <3> HIDE DEF kept
        <3> QED BY <3>1, <3>2, CompletesSafely
    <2>3. CASE CallProvider(w)
        BY <2>3
        DEF CallProvider, rowVars, TypeOK, WorkersTypeOK, SafetyInv, Held,
            AtMostOneExecution, Current, Spent, SpentBy,
            ContentOnlyWithCompletion, Executes, Executing
    <2>4. CASE ProviderFails(w)
        BY <2>4, RetriesSafely DEF ProviderFails, Executing
    <2>5. CASE Answer(w)
        BY <2>5
        DEF Answer, rowVars, TypeOK, WorkersTypeOK, SafetyInv, Held,
            AtMostOneExecution, Current, Spent, SpentBy,
            ContentOnlyWithCompletion, Executes, Executing
    <2>6. CASE RejectAll(w)
        BY <2>6, CopyIsRow, RetriesSafely DEF RejectAll, Executing
    <2>7. CASE MarkValidated(w)
        BY <2>7, MarksSafely
    <2>8. CASE LookUp(w)
        BY <2>8
        DEF LookUp, rowVars, TypeOK, WorkersTypeOK, SafetyInv, Held,
            AtMostOneExecution, Current, Spent, SpentBy,
            ContentOnlyWithCompletion, Executes, Executing
    <2>9. CASE Store(w)
        <3>1. PICK kept : rows' = [t \in Texts |->
                              IF t \in kept THEN [rows[t] EXCEPT ![job[w]] = @ + 1]
                                            ELSE rows[t]]
            BY <2>9 DEF Store
        <3> QED BY <2>9, <3>1, CopyIsRow, CompletesSafely DEF Store, Executing
    <2>10. CASE StoreNothing(w)
        BY <2>10, CopyIsRow, RetriesSafely DEF StoreNothing, Executing
    <2>11. CASE StoreFails(w)
        BY <2>11, RetriesSafely DEF StoreFails, Executing
    <2>12. CASE Reports(w)
        BY <2>12, LeavesSafely DEF Reports
    <2> QED BY <1>7, <2>1, <2>2, <2>3, <2>4, <2>5, <2>6, <2>7, <2>8, <2>9,
               <2>10, <2>11, <2>12 DEF Attempt
<1>8. ASSUME NEW w \in Workers, Throws(w) PROVE SafetyInv'
    <2>1. CASE status[job[w]] = "running"
        <3>1. pc[w] \in Executing
            BY <1>8, <2>1, FaultAssumption
            DEF Throws, Executing, SafetyInv, Current
        <3> QED BY <1>8, <2>1, <3>1, RetriesSafely DEF Throws
    <2>2. CASE status[job[w]] # "running"
        BY <1>8, <2>2, LeavesSafely DEF Throws
    <2> QED BY <2>1, <2>2
<1>9. ASSUME NEW w \in Workers, Crash(w) PROVE SafetyInv'
    BY <1>9, LeavesSafely DEF Crash
<1>10. CASE UNCHANGED vars
    BY <1>10
    DEF vars, rowVars, localVars, SafetyInv, Held, AtMostOneExecution, Current,
        Spent, SpentBy, ContentOnlyWithCompletion, Executes
<1> QED BY <1>1, <1>2, <1>3, <1>4, <1>5, <1>6, <1>7, <1>8, <1>9, <1>10
        DEF Next, Rotation

-----------------------------------------------------------------------------
(* The theorems *)

LEMMA SafetyHolds ==
    ASSUME SafeDeployment PROVE Spec => [](TypeOK /\ SafetyInv)
<1>1. TypeOK /\ SafetyInv /\ [Next]_vars => (TypeOK /\ SafetyInv)'
    BY NextTypeOK, NextSafety
<1> QED BY <1>1, InitTypeOK, InitSafety, PTL DEF Spec

\* No job is inside run_job of two workers at a time.
THEOREM OneExecution ==
    ASSUME SafeDeployment PROVE Spec => []AtMostOneExecution
<1>1. SafetyInv => AtMostOneExecution
    BY DEF SafetyInv
<1> QED BY <1>1, SafetyHolds, PTL

\* The row of a job that is being executed says which step its worker is in.
THEOREM RowIsFollowed ==
    ASSUME SafeDeployment PROVE Spec => []RowFollowsWorker
<1>1. SafetyInv => RowFollowsWorker
    BY DEF SafetyInv, Held, RowFollowsWorker
<1> QED BY <1>1, SafetyHolds, PTL

\* No job is claimed more than MaxAttempts times, and one that waits has an
\* attempt left.
THEOREM BudgetIsKept ==
    ASSUME SafeDeployment PROVE Spec => []AttemptBudget
<1>1. SafetyInv => AttemptBudget
    BY DEF SafetyInv, Spent, SpentBy, AttemptBudget
<1> QED BY <1>1, SafetyHolds, PTL

\* Content and completion become visible in the same step, once.
THEOREM ContentIsAtomic ==
    ASSUME SafeDeployment PROVE Spec => []ContentOnlyWithCompletion
<1>1. SafetyInv => ContentOnlyWithCompletion
    BY DEF SafetyInv
<1> QED BY <1>1, SafetyHolds, PTL

\* A job fails only after half of its budget was spent on real executions.
THEOREM FailureIsEarned ==
    ASSUME SafeDeployment PROVE Spec => []FailedAfterHalfTheBudget
<1>1. TypeOK /\ SafetyInv => FailedAfterHalfTheBudget
    BY AttemptsAssumption
    DEF SafetyInv, Spent, SpentBy, FailedAfterHalfTheBudget, TypeOK, RowsTypeOK
<1> QED BY <1>1, SafetyHolds, PTL

-----------------------------------------------------------------------------
(* What a step does to a row *)

\* A worker changes the status of its own job only, from a status in which it
\* is being executed.
LEMMA AttemptStep ==
    ASSUME TypeOK, SafetyInv, NEW w \in Workers,
           Attempt(w) \/ Throws(w) \/ Crash(w)
    PROVE  \/ status' = status
           \/ /\ job[w] \in Jobs
              /\ status[job[w]] \in {"running", "validated"}
              /\ \E s : status' = [status EXCEPT ![job[w]] = s]
<1> DEFINE Unmoved == status' = status
           Moved == /\ pc[w] \in Executing
                    /\ \E s : status' = [status EXCEPT ![job[w]] = s]
<1> SUFFICES Unmoved \/ Moved
    BY HolderState
<1>1. CASE DeadLetter(w)
    BY <1>1 DEF DeadLetter, Executing
<1>2. CASE NothingToDo(w)
    BY <1>2 DEF NothingToDo, Executing
<1>3. CASE CallProvider(w) \/ Answer(w) \/ LookUp(w) \/ Reports(w) \/ Crash(w)
    BY <1>3 DEF CallProvider, Answer, LookUp, Reports, Crash, rowVars
<1>4. CASE ProviderFails(w) \/ StoreFails(w)
    BY <1>4 DEF ProviderFails, StoreFails, RetryFresh, Executing
<1>5. CASE RejectAll(w) \/ StoreNothing(w)
    BY <1>5, CopyIsRow DEF RejectAll, StoreNothing, RetryFresh, Executing
<1>6. CASE MarkValidated(w)
    BY <1>6, CopyIsRow DEF MarkValidated, Executing
<1>7. CASE Store(w)
    BY <1>7, CopyIsRow DEF Store, Executing
<1>8. CASE Throws(w)
    <2>1. CASE status[job[w]] = "running"
        <3>1. pc[w] \in Executing
            BY <1>8, <2>1, FaultAssumption
            DEF Throws, Executing, SafetyInv, Current
        <3> QED BY <1>8, <2>1, <3>1 DEF Throws, RetryFresh
    <2>2. CASE status[job[w]] # "running"
        BY <1>8, <2>2 DEF Throws, rowVars
    <2> QED BY <2>1, <2>2
<1> QED BY <1>1, <1>2, <1>3, <1>4, <1>5, <1>6, <1>7, <1>8 DEF Attempt

\* No step takes a job out of a terminal status.
THEOREM TerminalStays ==
    ASSUME SafeDeployment PROVE Spec => TerminalIsFinal
<1> DEFINE Stays == \A j \in Jobs : status[j] \in Terminal =>
                                       status'[j] = status[j]
<1>1. TypeOK /\ SafetyInv /\ [Next]_vars => [Stays]_vars
    <2> SUFFICES ASSUME TypeOK, SafetyInv, Next,
                        NEW j \in Jobs, status[j] \in Terminal
                 PROVE  status'[j] = status[j]
        OBVIOUS
    <2>0. status \in [Jobs -> Status]
        BY DEF TypeOK, RowsTypeOK
    <2>1. CASE \E k \in Jobs : Enqueue(k) \/ BackoffPasses(k) \/ LeaseRunsOut(k)
        BY <2>0, <2>1 DEF Enqueue, BackoffPasses, LeaseRunsOut, Terminal
    <2>2. ASSUME NEW w \in Workers, Reclaim(w) PROVE status'[j] = status[j]
        BY <2>2 DEF Reclaim, ReclaimRows, Stale, Terminal
    <2>3. ASSUME NEW w \in Workers, NothingDue(w) \/ CeilingStops(w)
          PROVE  status'[j] = status[j]
        BY <2>3 DEF NothingDue, CeilingStops, rowVars
    <2>4. ASSUME NEW w \in Workers, NEW k \in Jobs, Claim(w, k)
          PROVE  status'[j] = status[j]
        BY <2>0, <2>4 DEF Claim, Claimable, Terminal
    <2>5. ASSUME NEW w \in Workers, Attempt(w) \/ Throws(w) \/ Crash(w)
          PROVE  status'[j] = status[j]
        BY <2>0, <2>5, AttemptStep DEF Terminal
    <2> QED BY <2>1, <2>2, <2>3, <2>4, <2>5 DEF Next, Rotation
<1> QED BY <1>1, SafetyHolds, PTL DEF Spec, TerminalIsFinal

-----------------------------------------------------------------------------
(* JobQueue implements JobLifecycle *)

PhaseOf == [j \in Jobs |-> Phase(status[j])]
ContentOf == [j \in Jobs |-> StoredBy(j)]

LEMMA PhaseValues ==
    /\ Phase("none") = "absent"
    /\ Phase("queued") = "waiting"
    /\ Phase("retry") = "waiting"
    /\ Phase("running") = "running"
    /\ Phase("validated") = "running"
    /\ Phase("completed") = "done"
    /\ Phase("failed") = "dead"
    /\ Phase("dead_letter") = "dead"
BY DEF Phase, Claimable

LEMMA LifecycleInit == Init => Lifecycle!Init
BY DEF Init, Lifecycle!Init, Phase, StoredBy, Claimable

\* A step that leaves the attempts, the content and the phases alone.
LEMMA Stutters ==
    ASSUME UNCHANGED <<runs, rows>>,
           \A j \in Jobs : Phase(status'[j]) = Phase(status[j])
    PROVE  UNCHANGED Lifecycle!vars
<1>1. PhaseOf' = PhaseOf
    BY DEF PhaseOf
<1>2. ContentOf' = ContentOf
    BY DEF ContentOf, StoredBy
<1> QED BY <1>1, <1>2 DEF Lifecycle!vars, PhaseOf, ContentOf

\* An attempt that ends without content gives its job back or gives it up.
LEMMA EndIsRelease ==
    ASSUME TypeOK, SafetyInv, NEW j \in Jobs,
           status[j] \in {"running", "validated"},
           NEW s \in {"failed", "retry", "dead_letter"},
           s = "retry" => retryCount[j] < MaxAttempts,
           status' = [status EXCEPT ![j] = s],
           UNCHANGED <<runs, rows>>
    PROVE  Lifecycle!Next
<1> DEFINE lost == {j}
           again == IF s = "retry" THEN {j} ELSE {}
<1>1. status \in [Jobs -> Status]
    BY DEF TypeOK, RowsTypeOK
<1>2. \A k \in lost : PhaseOf[k] = "running"
    BY DEF PhaseOf, Phase, Claimable
<1>3. \A k \in again : runs[k] < MaxAttempts
    BY AttemptsAssumption
    DEF SafetyInv, Spent, SpentBy, TypeOK, RowsTypeOK
<1>4. PhaseOf' = [k \in Jobs |-> IF k \in again THEN "waiting"
                                 ELSE IF k \in lost THEN "dead" ELSE PhaseOf[k]]
    <2>1. \A k \in Jobs : Phase(status'[k]) =
              IF k \in again THEN "waiting"
              ELSE IF k \in lost THEN "dead" ELSE Phase(status[k])
        BY <1>1, PhaseValues
    <2> QED BY <2>1 DEF PhaseOf
<1>5. ContentOf' = ContentOf
    BY DEF ContentOf, StoredBy
<1>6. Lifecycle!Release(lost, again)
    BY <1>2, <1>3, <1>4, <1>5 DEF Lifecycle!Release, PhaseOf, ContentOf
<1>7. lost \in SUBSET Jobs /\ again \in SUBSET lost
    OBVIOUS
<1> QED BY <1>6, <1>7 DEF Lifecycle!Next

\* An attempt that ends with its content finishes the job.
LEMMA CompletionIsFinish ==
    ASSUME TypeOK, SafetyInv, NEW j \in Jobs,
           status[j] \in {"running", "validated"},
           status' = [status EXCEPT ![j] = "completed"],
           UNCHANGED runs,
           NEW kept \in SUBSET Texts,
           rows' = [t \in Texts |->
                       IF t \in kept THEN [rows[t] EXCEPT ![j] = @ + 1]
                                     ELSE rows[t]]
    PROVE  Lifecycle!Next
<1>1. /\ status \in [Jobs -> Status]
      /\ rows \in [Texts -> [Jobs -> Nat]]
    BY DEF TypeOK, RowsTypeOK
<1>2. PhaseOf[j] = "running"
    BY DEF PhaseOf, Phase, Claimable
<1>3. PhaseOf' = [PhaseOf EXCEPT ![j] = "done"]
    <2>1. \A k \in Jobs : Phase(status'[k]) =
              IF k = j THEN "done" ELSE Phase(status[k])
        BY <1>1, PhaseValues
    <2> QED BY <2>1 DEF PhaseOf
<1>4. \A t \in Texts : rows[t][j] = 0
    BY <1>1 DEF SafetyInv, ContentOnlyWithCompletion
<1>5. StoredBy(j)' = kept
    BY <1>1, <1>4 DEF StoredBy
<1>6. \A k \in Jobs \ {j} : StoredBy(k)' = StoredBy(k)
    <2> TAKE k \in Jobs \ {j}
    <2>1. \A t \in Texts : rows'[t][k] = rows[t][k]
        BY <1>1
    <2> QED BY <2>1 DEF StoredBy
<1>7. ContentOf' = [ContentOf EXCEPT ![j] = kept]
    BY <1>5, <1>6 DEF ContentOf
<1>8. Lifecycle!Finish(j, kept)
    BY <1>2, <1>3, <1>7 DEF Lifecycle!Finish, PhaseOf, ContentOf
<1> QED BY <1>8 DEF Lifecycle!Next

LEMMA ReclaimIsRelease ==
    ASSUME TypeOK, SafetyInv, NEW w \in Workers, Reclaim(w)
    PROVE  Lifecycle!Next
<1> DEFINE lost == Stale
           again == {j \in Stale : retryCount[j] + 1 < MaxAttempts}
<1>1. /\ status' = [j \in Jobs |-> IF j \in Stale
                                   THEN AfterFailure(retryCount[j] + 1)
                                   ELSE status[j]]
      /\ UNCHANGED <<rows, runs>>
    BY DEF Reclaim, ReclaimRows
<1>2. \A k \in lost : PhaseOf[k] = "running"
    BY DEF PhaseOf, Phase, Claimable, Stale
<1>3. \A k \in again : runs[k] < MaxAttempts
    BY AttemptsAssumption
    DEF Stale, SafetyInv, Spent, SpentBy, TypeOK, RowsTypeOK
<1>4. \A k \in Jobs : /\ k \in again => status'[k] = "retry"
                      /\ k \in lost \ again => status'[k] = "failed"
                      /\ k \notin lost => status'[k] = status[k]
    BY <1>1, AttemptsAssumption DEF AfterFailure, TypeOK, RowsTypeOK, Stale
<1>5. PhaseOf' = [k \in Jobs |-> IF k \in again THEN "waiting"
                                 ELSE IF k \in lost THEN "dead" ELSE PhaseOf[k]]
    <2>1. \A k \in Jobs : Phase(status'[k]) =
              IF k \in again THEN "waiting"
              ELSE IF k \in lost THEN "dead" ELSE Phase(status[k])
        BY <1>4, PhaseValues
    <2> QED BY <2>1 DEF PhaseOf
<1>6. ContentOf' = ContentOf
    BY <1>1 DEF ContentOf, StoredBy
<1>7. Lifecycle!Release(lost, again)
    BY <1>1, <1>2, <1>3, <1>5, <1>6 DEF Lifecycle!Release, PhaseOf, ContentOf
<1>8. lost \in SUBSET Jobs /\ again \in SUBSET lost
    BY DEF Stale
<1> QED BY <1>7, <1>8 DEF Lifecycle!Next

LEMMA AttemptIsStep ==
    ASSUME TypeOK, SafetyInv, NEW w \in Workers,
           Attempt(w) \/ Throws(w) \/ Crash(w)
    PROVE  Lifecycle!Next \/ UNCHANGED Lifecycle!vars
<1> DEFINE j == job[w]
           Quiet == UNCHANGED <<status, rows, runs>>
           Ends == /\ pc[w] \in Executing
                   /\ UNCHANGED <<rows, runs>>
                   /\ \E s \in {"failed", "retry", "dead_letter"} :
                          /\ s = "retry" => retryCount[j] < MaxAttempts
                          /\ status' = [status EXCEPT ![j] = s]
           Finishes == /\ pc[w] \in Executing
                       /\ UNCHANGED runs
                       /\ status' = [status EXCEPT ![j] = "completed"]
                       /\ \E kept \in SUBSET Texts :
                              rows' = [t \in Texts |->
                                  IF t \in kept THEN [rows[t] EXCEPT ![j] = @ + 1]
                                                ELSE rows[t]]
<1>1. ASSUME Quiet PROVE UNCHANGED Lifecycle!vars
    BY <1>1, Stutters
<1>2. ASSUME Ends PROVE Lifecycle!Next
    <2>1. j \in Jobs /\ status[j] \in {"running", "validated"}
        BY <1>2, HolderState
    <2> QED BY <1>2, <2>1, EndIsRelease
<1>3. ASSUME Finishes PROVE Lifecycle!Next
    <2>1. j \in Jobs /\ status[j] \in {"running", "validated"}
        BY <1>3, HolderState
    <2> QED BY <1>3, <2>1, CompletionIsFinish
<1>4. ASSUME pc[w] \in Executing, RetryFresh(j) PROVE Ends
    <2>1. retryCount[j] \in Nat
        BY <1>4, HolderState DEF TypeOK, RowsTypeOK
    <2>2. /\ AfterFailure(retryCount[j]) \in {"failed", "retry", "dead_letter"}
          /\ AfterFailure(retryCount[j]) = "retry" => retryCount[j] < MaxAttempts
        BY <2>1, AttemptsAssumption DEF AfterFailure
    <2>3. /\ status' = [status EXCEPT ![j] = AfterFailure(retryCount[j])]
          /\ UNCHANGED <<rows, runs>>
        BY <1>4 DEF RetryFresh
    <2> HIDE DEF j
    <2> QED BY <1>4, <2>2, <2>3 DEF j
<1>5. CASE DeadLetter(w)
    BY <1>2, <1>5 DEF DeadLetter, Executing
<1>6. CASE NothingToDo(w)
    <2> DEFINE kept == {}
    <2>1. rows' = [t \in Texts |->
                      IF t \in kept THEN [rows[t] EXCEPT ![j] = @ + 1]
                                    ELSE rows[t]]
        BY <1>6 DEF NothingToDo, TypeOK, RowsTypeOK
    <2>2. kept \in SUBSET Texts
        OBVIOUS
    <2> HIDE DEF kept
    <2>3. \E K \in SUBSET Texts :
              rows' = [t \in Texts |->
                          IF t \in K THEN [rows[t] EXCEPT ![j] = @ + 1]
                                     ELSE rows[t]]
        BY <2>1, <2>2
    <2> QED BY <1>3, <1>6, <2>3 DEF NothingToDo, Executing
<1>7. CASE CallProvider(w) \/ Answer(w) \/ LookUp(w) \/ Reports(w) \/ Crash(w)
    BY <1>1, <1>7 DEF CallProvider, Answer, LookUp, Reports, Crash, rowVars
<1>8. CASE ProviderFails(w) \/ StoreFails(w)
    BY <1>2, <1>4, <1>8 DEF ProviderFails, StoreFails, Executing
<1>9. CASE RejectAll(w) \/ StoreNothing(w)
    BY <1>2, <1>4, <1>9, CopyIsRow DEF RejectAll, StoreNothing, Executing
<1>10. CASE MarkValidated(w)
    <2>1. /\ j \in Jobs
          /\ status[j] = "running"
          /\ status' = [status EXCEPT ![j] = "validated"]
        BY <1>10, CopyIsRow, HolderState DEF MarkValidated, Executing
    <2>2. \A k \in Jobs : Phase(status'[k]) = Phase(status[k])
        BY <2>1, PhaseValues DEF TypeOK, RowsTypeOK
    <2>3. UNCHANGED <<runs, rows>>
        BY <1>10 DEF MarkValidated
    <2> QED BY <2>2, <2>3, Stutters
<1>11. CASE Store(w)
    <2>1. fresh[w] \in SUBSET Texts
        BY DEF TypeOK, WorkersTypeOK
    <2>2. \E kept \in SUBSET Texts :
              rows' = [t \in Texts |->
                          IF t \in kept THEN [rows[t] EXCEPT ![j] = @ + 1]
                                        ELSE rows[t]]
        <3>1. PICK kept \in IF j \in ExplainJobs THEN {fresh[w]}
                                                 ELSE SUBSET fresh[w] :
                  rows' = [t \in Texts |->
                              IF t \in kept THEN [rows[t] EXCEPT ![j] = @ + 1]
                                            ELSE rows[t]]
            BY <1>11 DEF Store
        <3>2. kept \in SUBSET Texts
            BY <2>1, <3>1
        <3> QED BY <3>1, <3>2
    <2>3. status' = [status EXCEPT ![j] = "completed"]
        BY <1>11, CopyIsRow DEF Store
    <2> QED BY <1>3, <1>11, <2>2, <2>3 DEF Store, Executing
<1>12. CASE Throws(w)
    <2>1. CASE status[j] = "running"
        <3>1. pc[w] \in Executing
            BY <1>12, <2>1, FaultAssumption
            DEF Throws, Executing, SafetyInv, Current
        <3> QED BY <1>2, <1>4, <1>12, <2>1, <3>1 DEF Throws
    <2>2. CASE status[j] # "running"
        BY <1>1, <1>12, <2>2 DEF Throws, rowVars
    <2> QED BY <2>1, <2>2
<1> QED BY <1>5, <1>6, <1>7, <1>8, <1>9, <1>10, <1>11, <1>12 DEF Attempt

LEMMA LifecycleNext ==
    ASSUME TypeOK, SafetyInv, [Next]_vars
    PROVE  Lifecycle!Next \/ UNCHANGED Lifecycle!vars
<1>0. status \in [Jobs -> Status] /\ runs \in [Jobs -> Nat]
    BY DEF TypeOK, RowsTypeOK
<1>1. ASSUME NEW j \in Jobs, Enqueue(j) PROVE Lifecycle!Next
    <2>1. status[j] = "none" /\ status' = [status EXCEPT ![j] = "queued"]
        BY <1>1 DEF Enqueue
    <2>2. PhaseOf[j] = "absent" /\ PhaseOf' = [PhaseOf EXCEPT ![j] = "waiting"]
        <3>1. \A k \in Jobs : Phase(status'[k]) =
                  IF k = j THEN "waiting" ELSE Phase(status[k])
            BY <1>0, <2>1, PhaseValues
        <3> QED BY <2>1, <3>1, PhaseValues DEF PhaseOf
    <2>3. UNCHANGED <<runs, ContentOf>>
        BY <1>1 DEF Enqueue, ContentOf, StoredBy
    <2>4. Lifecycle!Submit(j)
        BY <2>2, <2>3 DEF Lifecycle!Submit, PhaseOf, ContentOf
    <2> QED BY <2>4 DEF Lifecycle!Next
<1>2. ASSUME NEW j \in Jobs, BackoffPasses(j) \/ LeaseRunsOut(j)
      PROVE  UNCHANGED Lifecycle!vars
    BY <1>2, Stutters DEF BackoffPasses, LeaseRunsOut
<1>3. ASSUME NEW w \in Workers, Reclaim(w) PROVE Lifecycle!Next
    BY <1>3, ReclaimIsRelease
<1>4. ASSUME NEW w \in Workers, NothingDue(w) \/ CeilingStops(w)
      PROVE  UNCHANGED Lifecycle!vars
    BY <1>4, Stutters DEF NothingDue, CeilingStops, rowVars
<1>5. ASSUME NEW w \in Workers, NEW j \in Jobs, Claim(w, j)
      PROVE  Lifecycle!Next
    <2>1. /\ status[j] \in {"queued", "retry"}
          /\ status' = [status EXCEPT ![j] = "running"]
          /\ runs' = [runs EXCEPT ![j] = @ + 1]
        BY <1>5 DEF Claim, Claimable
    <2>2. PhaseOf[j] = "waiting" /\ PhaseOf' = [PhaseOf EXCEPT ![j] = "running"]
        <3>1. \A k \in Jobs : Phase(status'[k]) =
                  IF k = j THEN "running" ELSE Phase(status[k])
            BY <1>0, <2>1, PhaseValues
        <3> QED BY <2>1, <3>1, PhaseValues DEF PhaseOf
    <2>3. runs[j] < MaxAttempts
        BY <2>1, AttemptsAssumption
        DEF Claimable, SafetyInv, Spent, SpentBy, TypeOK, RowsTypeOK
    <2>4. ContentOf' = ContentOf
        BY <1>5 DEF Claim, ContentOf, StoredBy
    <2>5. Lifecycle!Start(j)
        BY <2>1, <2>2, <2>3, <2>4 DEF Lifecycle!Start, PhaseOf, ContentOf
    <2> QED BY <2>5 DEF Lifecycle!Next
<1>6. ASSUME NEW w \in Workers, Attempt(w) \/ Throws(w) \/ Crash(w)
      PROVE  Lifecycle!Next \/ UNCHANGED Lifecycle!vars
    BY <1>6, AttemptIsStep
<1>7. CASE UNCHANGED vars
    BY <1>7, Stutters DEF vars, rowVars
<1> QED BY <1>1, <1>2, <1>3, <1>4, <1>5, <1>6, <1>7 DEF Next, Rotation

\* Whatever the workers do, the tables behave like JobLifecycle.
THEOREM LifecycleIsImplemented ==
    ASSUME SafeDeployment PROVE Spec => ImplementsLifecycle
<1>1. TypeOK /\ SafetyInv /\ [Next]_vars =>
          [Lifecycle!Next]_(Lifecycle!vars)
    BY LifecycleNext
<1> QED BY <1>1, LifecycleInit, SafetyHolds, PTL
        DEF Spec, ImplementsLifecycle, Lifecycle!Spec

-----------------------------------------------------------------------------
(* One text, one row *)

\* A worker that is alone may go by what it read: an explanation is still
\* missing after prepare saw that it is, and a text that was found nowhere is
\* nowhere until it is stored.
LooksHold(w) ==
    /\ job[w] \in ExplainJobs /\ pc[w] \in Executing \ {"claimed"}
           => \A k \in Jobs : rows[Slot[job[w]]][k] = 0
    /\ job[w] \in ExplainJobs /\ pc[w] \in {"storing", "committing"}
           => accepted[w] \subseteq {Slot[job[w]]}
    /\ pc[w] = "committing"
           => \A t \in fresh[w] : \A k \in Jobs : rows[t][k] = 0

UniqueInv == NoDuplicateText /\ \A w \in Workers : LooksHold(w)

\* A step that stores nothing, of a worker that is done or has read nothing.
LEMMA LeavesUnique ==
    ASSUME TypeOK, UniqueInv, NEW w \in Workers, UNCHANGED rows,
           \A v \in Workers : v = w,
           pc'[w] \in {"idle", "polling", "claimed", "logging"}
    PROVE  UniqueInv'
<1>1. NoDuplicateText'
    BY DEF UniqueInv, NoDuplicateText
<1>2. LooksHold(w)'
    BY DEF LooksHold, Executing
<1> QED BY <1>1, <1>2 DEF UniqueInv

\* Every step of a single worker keeps it, above all the one that stores.
LEMMA UniqueKept ==
    ASSUME \A v, w \in Workers : v = w, TypeOK, TypeOK', UniqueInv,
           [Next]_vars
    PROVE  UniqueInv'
<1>1. ASSUME UNCHANGED <<rows, pc, localVars>> PROVE UniqueInv'
    BY <1>1 DEF UniqueInv, NoDuplicateText, LooksHold, localVars
<1>2. ASSUME NEW j \in Jobs,
             Enqueue(j) \/ BackoffPasses(j) \/ LeaseRunsOut(j)
      PROVE  UniqueInv'
    BY <1>1, <1>2 DEF Enqueue, BackoffPasses, LeaseRunsOut
<1>3. CASE UNCHANGED vars
    BY <1>1, <1>3 DEF vars, rowVars
<1>4. ASSUME NEW w \in Workers, Leaves(w) \/ Completes(w), UNCHANGED rows
      PROVE  UniqueInv'
    BY <1>4, LeavesUnique DEF Leaves, Completes, TypeOK, WorkersTypeOK
<1>5. ASSUME NEW w \in Workers,
             \/ Reclaim(w) \/ NothingDue(w) \/ CeilingStops(w)
             \/ \E j \in Jobs : Claim(w, j)
      PROVE  UniqueInv'
    BY <1>5, LeavesUnique
    DEF Reclaim, ReclaimRows, NothingDue, CeilingStops, Claim, rowVars,
        TypeOK, WorkersTypeOK
<1>6. ASSUME NEW w \in Workers,
             \/ DeadLetter(w) \/ NothingToDo(w) \/ ProviderFails(w)
             \/ RejectAll(w) \/ StoreNothing(w) \/ StoreFails(w)
             \/ Reports(w) \/ Throws(w) \/ Crash(w)
      PROVE  UniqueInv'
    BY <1>4, <1>6
    DEF DeadLetter, NothingToDo, ProviderFails, RejectAll, StoreNothing,
        StoreFails, Reports, Throws, Crash, RetryFresh, RetrySeen, rowVars
<1>7. ASSUME NEW w \in Workers, UNCHANGED rows, LooksHold(w)'
      PROVE  UniqueInv'
    BY <1>7 DEF UniqueInv, NoDuplicateText
<1>8. ASSUME NEW w \in Workers, CallProvider(w) \/ Answer(w)
      PROVE  UniqueInv'
    BY <1>7, <1>8
    DEF CallProvider, Answer, UniqueInv, LooksHold, Executing, rowVars,
        TypeOK, WorkersTypeOK
<1>9. ASSUME NEW w \in Workers, MarkValidated(w) PROVE UniqueInv'
    <2>1. PICK passed \in Screened(w, job[w]) : accepted'[w] = passed
        BY <1>9 DEF MarkValidated, TypeOK, WorkersTypeOK
    <2>2. job[w] \in ExplainJobs => accepted'[w] = {Slot[job[w]]}
        BY <2>1 DEF Screened
    <2>3. LooksHold(w)'
        BY <1>9, <2>2
        DEF MarkValidated, UniqueInv, LooksHold, Executing, TypeOK,
            WorkersTypeOK
    <2> QED BY <1>7, <1>9, <2>3 DEF MarkValidated
<1>10. ASSUME NEW w \in Workers, LookUp(w) PROVE UniqueInv'
    <2>1. job[w] \in Jobs /\ accepted[w] \subseteq Texts
        BY <1>10, BusyHasJob DEF LookUp, TypeOK, WorkersTypeOK
    <2>2. \A t \in fresh'[w] : \A k \in Jobs : rows[t][k] = 0
        <3>1. CASE job[w] \in ExplainJobs
            <4>1. fresh'[w] = accepted[w]
                BY <1>10, <3>1 DEF LookUp, TypeOK, WorkersTypeOK
            <4> QED BY <1>10, <3>1, <4>1
                    DEF LookUp, UniqueInv, LooksHold, Executing
        <3>2. CASE job[w] \notin ExplainJobs
            <4>1. fresh'[w] \subseteq accepted[w]
                      \ (StoredBy(job[w]) \cup StoredByOthers(job[w]))
                BY <1>10, <3>2 DEF LookUp, TypeOK, WorkersTypeOK
            <4>2. \A t \in Texts, k \in Jobs : rows[t][k] \in Nat
                BY DEF TypeOK, RowsTypeOK
            <4> QED BY <2>1, <4>1, <4>2 DEF StoredBy, StoredByOthers
        <3> QED BY <3>1, <3>2
    <2>3. LooksHold(w)'
        BY <1>10, <2>2
        DEF LookUp, UniqueInv, LooksHold, Executing, TypeOK, WorkersTypeOK,
            rowVars
    <2> QED BY <1>7, <1>10, <2>3 DEF LookUp, rowVars
<1>11. ASSUME NEW w \in Workers, Store(w) PROVE UniqueInv'
    <2>1. job[w] \in Jobs
        BY <1>11, BusyHasJob DEF Store
    <2>2. PICK kept \in SUBSET fresh[w] :
              rows' = [t \in Texts |->
                           IF t \in kept THEN [rows[t] EXCEPT ![job[w]] = @ + 1]
                                         ELSE rows[t]]
        BY <1>11 DEF Store
    <2>3. \A t \in kept : \A k \in Jobs : rows[t][k] = 0
        BY <1>11, <2>2 DEF Store, UniqueInv, LooksHold
    <2>4. ASSUME NEW t \in Texts, NEW k \in Jobs
          PROVE  rows'[t][k] = IF t \in kept
                               THEN (IF k = job[w] THEN 1 ELSE 0)
                               ELSE rows[t][k]
        BY <2>2, <2>3 DEF TypeOK, RowsTypeOK
    <2>5. NoDuplicateText'
        BY <2>4 DEF UniqueInv, NoDuplicateText
    <2>6. LooksHold(w)'
        BY <1>11
        DEF Store, Completes, LooksHold, Executing, TypeOK, WorkersTypeOK
    <2> QED BY <2>5, <2>6 DEF UniqueInv
<1> QED BY <1>2, <1>3, <1>5, <1>6, <1>8, <1>9, <1>10, <1>11
        DEF Next, Rotation, Attempt

\* With the single worker of infra/docker-compose.yml no text and no
\* explanation is stored twice, even if attempts outlast their leases: the
\* index on the hash is a plain one, and looking before inserting is enough.
THEOREM TextsAreUnique ==
    ASSUME \A v, w \in Workers : v = w
    PROVE  Spec => []NoDuplicateText
<1>1. Init => UniqueInv
    BY DEF Init, UniqueInv, NoDuplicateText, LooksHold, Executing
<1>2. TypeOK /\ TypeOK' /\ UniqueInv /\ [Next]_vars => UniqueInv'
    BY UniqueKept
<1>3. UniqueInv => NoDuplicateText
    BY DEF UniqueInv
<1> QED BY <1>1, <1>2, <1>3, TypeCorrect, PTL DEF Spec
-----------------------------------------------------------------------------
(* The budget, for any deployment *)

(***************************************************************************)
(* Several workers, and attempts that outlast their lease, so that a job   *)
(* may be reclaimed and executed again while an earlier worker is still at *)
(* it. SafetyInv is false then: rows no longer follow their workers, and a *)
(* late worker may put a job back whose budget is spent.                   *)
(*                                                                         *)
(* What remains true is an account. A worker that holds a job was counted  *)
(* in retry_count when it claimed it, and what reclaimed the job under it  *)
(* was counted too; so a late worker that puts the job back gives away an  *)
(* attempt that was paid for.                                              *)
(***************************************************************************)

\* The workers that have job j, whatever its row says.
Holders(j) == {w \in Workers : job[w] = j}

\* Those that will put the job back if their attempt fails now: their copy of
\* retry_count was loaded before the budget was spent.
Late(j) == {w \in Holders(j) : /\ pc[w] \in {"answered", "storing", "committing"}
                               /\ seen[w].rc < MaxAttempts}

AccountOf(j) ==
    /\ status[j] = "none" => runs[j] = 0 /\ Holders(j) = {}
    /\ runs[j] + Cardinality(Holders(j)) <= retryCount[j] + 1
    /\ status[j] \in Claimable =>
           runs[j] + Cardinality(Holders(j)) <= retryCount[j]
    /\ runs[j] + Cardinality(Late(j)) <= MaxAttempts
    /\ status[j] \in Claimable =>
           runs[j] + Cardinality(Late(j)) < MaxAttempts

Account == \A j \in Jobs : AccountOf(j)

LEMMA HoldersFinite ==
    ASSUME NEW j
    PROVE  /\ IsFiniteSet(Holders(j)) /\ Cardinality(Holders(j)) \in Nat
           /\ IsFiniteSet(Late(j)) /\ Cardinality(Late(j)) \in Nat
           /\ Cardinality(Late(j)) <= Cardinality(Holders(j))
<1>1. Holders(j) \in SUBSET Workers /\ Late(j) \in SUBSET Holders(j)
    BY DEF Holders, Late
<1>2. IsFiniteSet(Holders(j))
    BY <1>1, WorkersAssumption, FS_Subset
<1>3. IsFiniteSet(Late(j)) /\ Cardinality(Late(j)) <= Cardinality(Holders(j))
    BY <1>1, <1>2, FS_Subset
<1> QED BY <1>2, <1>3, FS_CardinalityType

LEMMA InitAccount == Init => Account
<1> SUFFICES ASSUME Init, NEW j \in Jobs PROVE AccountOf(j)
    BY DEF Account
<1>1. Holders(j) = {} /\ Late(j) = {}
    BY NoJobAssumption DEF Init, Holders, Late
<1>2. Cardinality(Holders(j)) = 0 /\ Cardinality(Late(j)) = 0
    BY <1>1, FS_EmptySet
<1>3. status[j] = "none" /\ runs[j] = 0 /\ retryCount[j] = 0
    BY DEF Init
<1> QED BY <1>1, <1>2, <1>3, AttemptsAssumption DEF AccountOf, Claimable

\* Nobody takes or leaves the job, and its row is not opened for a claim.
LEMMA KeepsAccount ==
    ASSUME TypeOK, Account, NEW j \in Jobs,
           Holders(j)' = Holders(j), Late(j)' \subseteq Late(j),
           runs'[j] = runs[j], retryCount'[j] = retryCount[j],
           \/ status'[j] = status[j]
           \/ status'[j] \notin Claimable \cup {"none"}
    PROVE  AccountOf(j)'
<1>1. Cardinality(Late(j)') <= Cardinality(Late(j))
    BY HoldersFinite, FS_Subset
<1>2. /\ Cardinality(Late(j)) \in Nat /\ Cardinality(Holders(j)) \in Nat
      /\ Cardinality(Late(j)') \in Nat
      /\ runs[j] \in Nat /\ retryCount[j] \in Nat /\ MaxAttempts \in Nat
    <2>1. IsFiniteSet(Late(j)')
        BY HoldersFinite, FS_Subset
    <2> QED BY <2>1, HoldersFinite, FS_CardinalityType, AttemptsAssumption
            DEF TypeOK, RowsTypeOK
<1>3. AccountOf(j)
    BY DEF Account
<1> QED BY <1>1, <1>2, <1>3 DEF AccountOf, Claimable

LEMMA OthersKeepAccount ==
    ASSUME TypeOK, Account, NEW j \in Jobs, NEW w \in Workers, job[w] # j,
           job'[w] # j,
           \A v \in Workers \ {w} : /\ job'[v] = job[v] /\ pc'[v] = pc[v]
                                    /\ seen'[v] = seen[v],
           runs'[j] = runs[j], retryCount'[j] = retryCount[j],
           status'[j] = status[j]
    PROVE  AccountOf(j)'
<1>1. Holders(j)' = Holders(j) /\ Late(j)' = Late(j)
    BY DEF Holders, Late
<1> QED BY <1>1, KeepsAccount

\* A worker leaves its job and puts it back only as far as its budget, or the
\* copy of it that the worker has, allows.
LEMMA EndsWithinAccount ==
    ASSUME TypeOK, Account, NEW w \in Workers, job[w] \in Jobs, Leaves(w),
           NEW s \in Status \ {"none"},
           s \in Claimable => \/ retryCount[job[w]] < MaxAttempts
                              \/ w \in Late(job[w]),
           \/ status' = status
           \/ status' = [status EXCEPT ![job[w]] = s],
           UNCHANGED <<retryCount, runs>>
    PROVE  Account'
<1> SUFFICES ASSUME NEW k \in Jobs PROVE AccountOf(k)'
    BY DEF Account
<1> DEFINE j == job[w]
<1>1. /\ job' = [job EXCEPT ![w] = NoJob]
      /\ pc' = [pc EXCEPT ![w] = "idle"]
      /\ \A v \in Workers \ {w} : /\ job'[v] = job[v] /\ pc'[v] = pc[v]
                                  /\ seen'[v] = seen[v]
      /\ job'[w] = NoJob
    BY DEF Leaves, Forgets, TypeOK, WorkersTypeOK
<1>2. CASE k # j
    <2>1. status'[k] = status[k]
        BY <1>2 DEF TypeOK, RowsTypeOK
    <2> QED BY <1>1, <1>2, <2>1, NoJobAssumption, OthersKeepAccount
<1>3. CASE k = j
    <2>1. /\ w \in Holders(k)
          /\ Holders(k)' = Holders(k) \ {w}
          /\ Late(k)' = Late(k) \ {w}
        BY <1>1, <1>3, NoJobAssumption DEF Holders, Late
    <2>2. /\ Cardinality(Holders(k)') = Cardinality(Holders(k)) - 1
          /\ Cardinality(Late(k)') =
                 IF w \in Late(k) THEN Cardinality(Late(k)) - 1
                                  ELSE Cardinality(Late(k))
          /\ Cardinality(Late(k)') <= Cardinality(Holders(k)')
        <3>1. Late(k)' \in SUBSET (Holders(k)')
            BY DEF Late
        <3>2. IsFiniteSet(Holders(k)')
            BY <2>1, HoldersFinite, FS_RemoveElement
        <3> QED BY <2>1, <3>1, <3>2, HoldersFinite, FS_RemoveElement, FS_Subset
    <2>3. /\ Cardinality(Late(k)) \in Nat /\ Cardinality(Holders(k)) \in Nat
          /\ runs[k] \in Nat /\ retryCount[k] \in Nat /\ MaxAttempts \in Nat
        BY HoldersFinite, AttemptsAssumption DEF TypeOK, RowsTypeOK
    <2>4. AccountOf(k) /\ status[k] # "none"
        BY <2>1 DEF Account, AccountOf
    <2>5. status'[k] = status[k] \/ status'[k] = s
        BY <1>3 DEF TypeOK, RowsTypeOK
    <2>6. status'[k] # "none"
        BY <2>4, <2>5
    <2>7. CASE status'[k] \in Claimable /\ status'[k] = s
        <3>1. retryCount[k] < MaxAttempts \/ w \in Late(k)
            BY <1>3, <2>7
        <3> QED BY <2>2, <2>3, <2>4, <2>6, <3>1 DEF AccountOf
    <2>8. CASE status'[k] \notin Claimable \/ status'[k] = status[k]
        BY <2>2, <2>3, <2>4, <2>6, <2>8 DEF AccountOf
    <2> QED BY <2>5, <2>7, <2>8
<1> QED BY <1>2, <1>3

-----------------------------------------------------------------------------
(* The steps that take a job *)

LEMMA EnqueueKeepsAccount ==
    ASSUME TypeOK, Account, NEW j \in Jobs, Enqueue(j)
    PROVE  Account'
<1> SUFFICES ASSUME NEW k \in Jobs PROVE AccountOf(k)'
    BY DEF Account
<1>1. Holders(k)' = Holders(k) /\ Late(k)' = Late(k)
    BY DEF Enqueue, localVars, Holders, Late
<1>2. CASE k # j
    BY <1>1, <1>2, KeepsAccount DEF Enqueue, TypeOK, RowsTypeOK
<1>3. CASE k = j
    <2>1. AccountOf(k) /\ status[k] = "none"
        BY <1>3 DEF Enqueue, Account
    <2>2. Holders(k) = {} /\ Late(k) = {} /\ runs[k] = 0
        BY <2>1 DEF AccountOf, Late
    <2>3. Cardinality(Holders(k)) = 0 /\ Cardinality(Late(k)) = 0
        BY <2>2, FS_EmptySet
    <2>4. /\ status'[k] = "queued" /\ runs'[k] = 0
          /\ retryCount'[k] = retryCount[k] /\ retryCount[k] \in Nat
        BY <1>3, <2>2 DEF Enqueue, TypeOK, RowsTypeOK
    <2> QED BY <1>1, <2>3, <2>4, AttemptsAssumption DEF AccountOf, Claimable
<1> QED BY <1>2, <1>3

LEMMA ReclaimKeepsAccount ==
    ASSUME TypeOK, Account, NEW w \in Workers, Reclaim(w)
    PROVE  Account'
<1> SUFFICES ASSUME NEW k \in Jobs PROVE AccountOf(k)'
    BY DEF Account
<1>1. Holders(k)' = Holders(k)
    BY DEF Reclaim, ReclaimRows, localVars, Holders
<1>2. Late(k)' = Late(k)
    BY <1>1 DEF Reclaim, ReclaimRows, localVars, Late, TypeOK, WorkersTypeOK
<1>3. CASE k \notin Stale
    BY <1>1, <1>2, <1>3, KeepsAccount
    DEF Reclaim, ReclaimRows, TypeOK, RowsTypeOK
<1>4. CASE k \in Stale
    <2>1. /\ status[k] = "running"
          /\ status'[k] = AfterFailure(retryCount[k] + 1)
          /\ retryCount'[k] = retryCount[k] + 1
          /\ runs'[k] = runs[k]
        BY <1>4 DEF Stale, Reclaim, ReclaimRows
    <2>2. /\ Cardinality(Late(k)) \in Nat /\ Cardinality(Holders(k)) \in Nat
          /\ Cardinality(Late(k)) <= Cardinality(Holders(k))
          /\ runs[k] \in Nat /\ retryCount[k] \in Nat /\ MaxAttempts \in Nat
        BY HoldersFinite, AttemptsAssumption DEF TypeOK, RowsTypeOK
    <2>3. AccountOf(k)
        BY DEF Account
    <2>4. CASE retryCount[k] + 1 >= MaxAttempts
        <3>1. status'[k] = "failed"
            BY <2>1, <2>4 DEF AfterFailure
        <3> QED BY <1>1, <1>2, <2>1, <2>2, <2>3, <3>1 DEF AccountOf, Claimable
    <2>5. CASE ~(retryCount[k] + 1 >= MaxAttempts)
        <3>1. status'[k] = "retry"
            BY <2>1, <2>5 DEF AfterFailure
        <3> QED BY <1>1, <1>2, <2>1, <2>2, <2>3, <2>5, <3>1
                DEF AccountOf, Claimable
    <2> QED BY <2>4, <2>5
<1> QED BY <1>3, <1>4

LEMMA ClaimKeepsAccount ==
    ASSUME TypeOK, Account, NEW w \in Workers, NEW j \in Jobs, Claim(w, j)
    PROVE  Account'
<1> SUFFICES ASSUME NEW k \in Jobs PROVE AccountOf(k)'
    BY DEF Account
<1>1. /\ job[w] = NoJob
      /\ job' = [job EXCEPT ![w] = j]
      /\ pc' = [pc EXCEPT ![w] = "claimed"]
      /\ job'[w] = j /\ pc'[w] = "claimed"
      /\ \A v \in Workers \ {w} : /\ job'[v] = job[v] /\ pc'[v] = pc[v]
                                  /\ seen'[v] = seen[v]
    BY DEF Claim, TypeOK, WorkersTypeOK
<1>2. CASE k # j
    BY <1>1, <1>2, NoJobAssumption, OthersKeepAccount
    DEF Claim, TypeOK, RowsTypeOK
<1>3. CASE k = j
    <2>1. w \notin Holders(k) /\ Holders(k)' = Holders(k) \cup {w}
        BY <1>1, <1>3, NoJobAssumption DEF Holders
    <2>2. Late(k)' = Late(k)
        <3>1. w \notin Late(k) /\ w \notin Late(k)'
            BY <1>1, <2>1 DEF Late
        <3>2. \A v \in Workers \ {w} : v \in Late(k)' <=> v \in Late(k)
            BY <1>1, <2>1 DEF Late
        <3>3. Late(k) \subseteq Workers /\ Late(k)' \subseteq Workers
            BY DEF Late, Holders
        <3> QED BY <3>1, <3>2, <3>3
    <2>3. Cardinality(Holders(k)') = Cardinality(Holders(k)) + 1
        BY <2>1, HoldersFinite, FS_AddElement
    <2>4. /\ Cardinality(Late(k)) \in Nat /\ Cardinality(Holders(k)) \in Nat
          /\ runs[k] \in Nat /\ retryCount[k] \in Nat /\ MaxAttempts \in Nat
        BY HoldersFinite, AttemptsAssumption DEF TypeOK, RowsTypeOK
    <2>5. /\ status[k] \in Claimable /\ status'[k] = "running"
          /\ runs'[k] = runs[k] + 1 /\ retryCount'[k] = retryCount[k] + 1
        BY <1>3 DEF Claim, TypeOK, RowsTypeOK
    <2>6. AccountOf(k)
        BY DEF Account
    <2> QED BY <2>2, <2>3, <2>4, <2>5, <2>6 DEF AccountOf, Claimable
<1> QED BY <1>2, <1>3

\* The copy that the worker loads decides whether it may come late.
LEMMA AnswerKeepsAccount ==
    ASSUME TypeOK, Account, NEW w \in Workers, Answer(w)
    PROVE  Account'
<1> SUFFICES ASSUME NEW k \in Jobs PROVE AccountOf(k)'
    BY DEF Account
<1>1. /\ job' = job /\ pc[w] = "calling"
      /\ pc' = [pc EXCEPT ![w] = "answered"]
      /\ UNCHANGED <<status, retryCount, runs>>
      /\ seen'[w].rc = retryCount[job[w]]
      /\ \A v \in Workers \ {w} : /\ job'[v] = job[v] /\ pc'[v] = pc[v]
                                  /\ seen'[v] = seen[v]
    BY DEF Answer, rowVars, TypeOK, WorkersTypeOK
<1>2. CASE k # job[w]
    BY <1>1, <1>2, OthersKeepAccount
<1>3. CASE k = job[w]
    <2>1. Holders(k)' = Holders(k)
        BY <1>1 DEF Holders
    <2>2. \A v \in Holders(k)' \ {w} : v \in Late(k)' <=> v \in Late(k)
        BY <1>1, <2>1 DEF Late, Holders
    <2>3. CASE retryCount[k] < MaxAttempts
        <3>1. IsFiniteSet(Late(k)') /\ Late(k)' \subseteq Holders(k)
            BY <2>1, HoldersFinite, FS_Subset DEF Late
        <3>2. /\ Cardinality(Late(k)') <= Cardinality(Holders(k))
              /\ Cardinality(Late(k)') \in Nat
            BY <3>1, HoldersFinite, FS_Subset, FS_CardinalityType
        <3>3. /\ Cardinality(Holders(k)) \in Nat /\ runs[k] \in Nat
              /\ retryCount[k] \in Nat /\ MaxAttempts \in Nat
            BY HoldersFinite, AttemptsAssumption DEF TypeOK, RowsTypeOK
        <3>4. AccountOf(k)
            BY DEF Account
        <3> QED BY <1>1, <2>1, <2>3, <3>2, <3>3, <3>4 DEF AccountOf
    <2>4. CASE ~(retryCount[k] < MaxAttempts)
        <3>1. w \notin Late(k)'
            BY <1>1, <1>3, <2>4 DEF Late
        <3>2. Late(k)' \subseteq Late(k)
            BY <2>2, <3>1 DEF Late
        <3> QED BY <1>1, <2>1, <3>2, KeepsAccount
    <2> QED BY <2>3, <2>4
<1> QED BY <1>2, <1>3

-----------------------------------------------------------------------------
(* The steps that go on with a job, and those that leave it *)

LEMMA GoesOnKeepsAccount ==
    ASSUME TypeOK, Account, NEW w \in Workers, pc[w] \in Executing,
           \/ CallProvider(w)
           \/ MarkValidated(w)
           \/ LookUp(w)
           \/ NothingToDo(w)
           \/ Store(w)
    PROVE  Account'
<1> SUFFICES ASSUME NEW k \in Jobs PROVE AccountOf(k)'
    BY DEF Account
<1>1. job' = job /\ UNCHANGED <<retryCount, runs>>
    BY DEF CallProvider, MarkValidated, LookUp, NothingToDo, Store, Completes,
           rowVars
<1>2. Holders(k)' = Holders(k)
    BY <1>1 DEF Holders
<1>3. \A v \in Workers \ {w} : pc'[v] = pc[v] /\ seen'[v] = seen[v]
    BY DEF CallProvider, MarkValidated, LookUp, NothingToDo, Store, Completes,
           Forgets, TypeOK, WorkersTypeOK
<1>4. w \in Late(k)' => w \in Late(k)
    BY <1>2 DEF CallProvider, MarkValidated, LookUp, NothingToDo, Store,
                Completes, Forgets, Late, TypeOK, WorkersTypeOK
<1>5. Late(k)' \subseteq Late(k)
    BY <1>2, <1>3, <1>4 DEF Late, Holders
<1>6. status'[k] = status[k] \/ status'[k] \notin Claimable \cup {"none"}
    BY DEF CallProvider, MarkValidated, LookUp, NothingToDo, Store, Write,
           rowVars, Claimable, TypeOK, RowsTypeOK
<1> QED BY <1>1, <1>2, <1>5, <1>6, KeepsAccount

LEMMA FreshRetryKeepsAccount ==
    ASSUME TypeOK, Account, NEW w \in Workers, job[w] \in Jobs,
           RetryFresh(job[w]), Leaves(w)
    PROVE  Account'
<1> DEFINE s == AfterFailure(retryCount[job[w]])
<1>1. s \in Status \ {"none"}
    BY FailureTypeOK DEF Status
<1>2. s \in Claimable => retryCount[job[w]] < MaxAttempts
    BY AttemptsAssumption DEF AfterFailure, Claimable, TypeOK, RowsTypeOK
<1>3. status' = [status EXCEPT ![job[w]] = s] /\ UNCHANGED <<retryCount, runs>>
    BY DEF RetryFresh
<1> HIDE DEF s
<1> QED BY <1>1, <1>2, <1>3, EndsWithinAccount

LEMMA SeenRetryKeepsAccount ==
    ASSUME TypeOK, Account, NEW w \in Workers, job[w] \in Jobs,
           pc[w] \in {"answered", "committing"},
           RetrySeen(w, job[w]), Leaves(w)
    PROVE  Account'
<1> DEFINE s == AfterFailure(seen[w].rc)
<1>1. s \in Status \ {"none"}
    BY FailureTypeOK DEF Status
<1>2. s \in Claimable => w \in Late(job[w])
    BY AttemptsAssumption
    DEF AfterFailure, Claimable, Late, Holders, TypeOK, WorkersTypeOK
<1>3. /\ \/ status' = status
         \/ status' = [status EXCEPT ![job[w]] = s]
      /\ UNCHANGED <<retryCount, runs>>
    BY DEF RetrySeen, Write, TypeOK, RowsTypeOK
<1> HIDE DEF s
<1> QED BY <1>1, <1>2, <1>3, EndsWithinAccount

LEMMA SilentLeaveKeepsAccount ==
    ASSUME TypeOK, Account, NEW w \in Workers, UNCHANGED rowVars, Leaves(w)
    PROVE  Account'
<1>1. CASE job[w] \in Jobs
    BY <1>1, EndsWithinAccount DEF rowVars, Claimable, Status
<1>2. CASE job[w] \notin Jobs
    <2>1. job[w] = NoJob
        BY <1>2 DEF TypeOK, WorkersTypeOK
    <2> SUFFICES ASSUME NEW k \in Jobs PROVE AccountOf(k)'
        BY DEF Account
    <2> QED BY <2>1, NoJobAssumption, OthersKeepAccount
            DEF Leaves, Forgets, rowVars, TypeOK, WorkersTypeOK
<1> QED BY <1>1, <1>2

-----------------------------------------------------------------------------
LEMMA NextAccount == TypeOK /\ Account /\ [Next]_vars => Account'
<1> SUFFICES ASSUME TypeOK, Account, [Next]_vars PROVE Account'
    OBVIOUS
<1>1. ASSUME NEW j \in Jobs, Enqueue(j) PROVE Account'
    BY <1>1, EnqueueKeepsAccount
<1>2. ASSUME NEW w \in Workers, Reclaim(w) PROVE Account'
    BY <1>2, ReclaimKeepsAccount
<1>3. ASSUME NEW w \in Workers, NEW j \in Jobs, Claim(w, j) PROVE Account'
    BY <1>3, ClaimKeepsAccount
<1>4. ASSUME UNCHANGED <<status, retryCount, runs, job, seen>>,
             \/ pc' = pc
             \/ \E w \in Workers : /\ pc[w] = "polling"
                                   /\ pc' = [pc EXCEPT ![w] = "idle"]
      PROVE  Account'
    <2> SUFFICES ASSUME NEW k \in Jobs PROVE AccountOf(k)'
        BY DEF Account
    <2>1. Holders(k)' = Holders(k)
        BY <1>4 DEF Holders
    <2>2. \A v \in Workers : pc'[v] = pc[v] \/ pc'[v] = "idle"
        BY <1>4 DEF TypeOK, WorkersTypeOK
    <2>3. Late(k)' \subseteq Late(k)
        BY <1>4, <2>1, <2>2 DEF Late, Holders
    <2> QED BY <1>4, <2>1, <2>3, KeepsAccount
<1>5. ASSUME NEW j \in Jobs, BackoffPasses(j) \/ LeaseRunsOut(j) PROVE Account'
    BY <1>4, <1>5 DEF BackoffPasses, LeaseRunsOut, localVars
<1>6. ASSUME NEW w \in Workers, NothingDue(w) \/ CeilingStops(w) PROVE Account'
    BY <1>4, <1>6 DEF NothingDue, CeilingStops, rowVars, localVars
<1>7. ASSUME NEW w \in Workers, Attempt(w) PROVE Account'
    <2>0. job[w] \in Jobs
        BY <1>7, BusyHasJob
        DEF Attempt, DeadLetter, NothingToDo, CallProvider, ProviderFails,
            Answer, RejectAll, MarkValidated, LookUp, Store, StoreNothing,
            StoreFails, Reports
    <2>1. CASE DeadLetter(w)
        <3> DEFINE s == "dead_letter"
        <3>1. s \in Status \ {"none"} /\ s \notin Claimable
            BY DEF Status, Claimable
        <3>2. /\ status' = [status EXCEPT ![job[w]] = s]
              /\ UNCHANGED <<retryCount, runs>>
              /\ Leaves(w)
            BY <2>1 DEF DeadLetter
        <3> HIDE DEF s
        <3> QED BY <2>0, <3>1, <3>2, EndsWithinAccount
    <2>2. CASE CallProvider(w) \/ MarkValidated(w) \/ LookUp(w)
                   \/ NothingToDo(w) \/ Store(w)
        <3>1. pc[w] \in Executing
            BY <2>2 DEF CallProvider, MarkValidated, LookUp, NothingToDo,
                        Store, Executing
        <3> QED BY <2>2, <3>1, GoesOnKeepsAccount
    <2>3. CASE ProviderFails(w) \/ StoreFails(w)
        BY <2>0, <2>3, FreshRetryKeepsAccount DEF ProviderFails, StoreFails
    <2>4. CASE Answer(w)
        BY <2>4, AnswerKeepsAccount
    <2>5. CASE RejectAll(w) \/ StoreNothing(w)
        BY <2>0, <2>5, SeenRetryKeepsAccount DEF RejectAll, StoreNothing
    <2>6. CASE Reports(w)
        BY <2>6, SilentLeaveKeepsAccount DEF Reports
    <2> QED BY <1>7, <2>1, <2>2, <2>3, <2>4, <2>5, <2>6 DEF Attempt
<1>8. ASSUME NEW w \in Workers, Throws(w) PROVE Account'
    <2>1. job[w] \in Jobs
        BY <1>8, BusyHasJob, FaultAssumption DEF Throws, Executing
    <2> QED BY <1>8, <2>1, FreshRetryKeepsAccount, SilentLeaveKeepsAccount
            DEF Throws
<1>9. ASSUME NEW w \in Workers, Crash(w) PROVE Account'
    BY <1>9, SilentLeaveKeepsAccount DEF Crash
<1>10. CASE UNCHANGED vars
    BY <1>4, <1>10 DEF vars, rowVars, localVars
<1> QED BY <1>1, <1>2, <1>3, <1>5, <1>6, <1>7, <1>8, <1>9, <1>10
        DEF Next, Rotation

\* No job is claimed more than MaxAttempts times, whatever the leases do.
THEOREM RunsWithinBudget == Spec => []NeverTooManyRuns
<1>1. TypeOK /\ Account => NeverTooManyRuns
    <2> SUFFICES ASSUME TypeOK, Account, NEW j \in Jobs
                 PROVE  runs[j] <= MaxAttempts
        BY DEF NeverTooManyRuns
    <2>1. /\ Cardinality(Late(j)) \in Nat /\ runs[j] \in Nat
          /\ MaxAttempts \in Nat
        BY HoldersFinite, AttemptsAssumption DEF TypeOK, RowsTypeOK
    <2> QED BY <2>1 DEF Account, AccountOf
<1>2. TypeOK /\ Account /\ [Next]_vars => (TypeOK /\ Account)'
    BY NextTypeOK, NextAccount
<1> QED BY <1>1, <1>2, InitTypeOK, InitAccount, PTL DEF Spec
=============================================================================
