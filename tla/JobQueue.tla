------------------------------ MODULE JobQueue ------------------------------
(***************************************************************************)
(* The background job queue: rows of generation_jobs, the worker processes *)
(* that claim and execute them, and the content those jobs store.          *)
(*                                                                         *)
(*   backend/app/jobs/queue.py        the SQL transitions of a job row     *)
(*   backend/app/jobs/worker.py       one rotation of the worker loop      *)
(*   backend/app/jobs/runner.py       one attempt at a claimed job         *)
(*   backend/app/jobs/persistence.py  storing what the provider answered   *)
(*                                                                         *)
(* One action is one committed transaction, or one stretch of code between *)
(* two transactions: what another worker can see changes only there.       *)
(*                                                                         *)
(* Time is abstracted to two flags per row. due[j] stands for              *)
(* next_attempt_at <= now, expired[j] for started_at < now - lease; the    *)
(* passing of time is BackoffPasses and LeaseRunsOut. The ORDER BY of the  *)
(* claim is abstracted too: any due job may be the one that is picked.     *)
(***************************************************************************)
EXTENDS Naturals, FiniteSets

CONSTANTS
    Jobs,         \* rows that enqueueing may insert, one per idempotency key
    Workers,      \* worker processes that share the database
    MaxAttempts,  \* generation_jobs.max_attempts
    Texts,        \* what can be stored: a normalized sentence text, or the
                  \* sentence_item that an explanation belongs to
    ExplainJobs,  \* the jobs of type EXPLAIN_ITEM
    Slot,         \* the sentence_item each of them explains
    Overruns,     \* TRUE iff an attempt may outlast jobs.claim_lease_seconds
    FaultPoints,  \* where a worker may die or meet an unexpected exception
    NoJob         \* value of job[w] while w executes nothing

Sentences == Texts \ {Slot[e] : e \in ExplainJobs}

\* The program counters of a worker inside run_job.
Executing == {"claimed", "calling", "answered", "storing", "committing"}

ASSUME AttemptsAssumption == MaxAttempts \in Nat \ {0}
ASSUME ExplainAssumption == /\ ExplainJobs \subseteq Jobs
                            /\ Slot \in [ExplainJobs -> Texts]
ASSUME OverrunsAssumption == Overruns \in BOOLEAN
ASSUME FaultAssumption ==
           FaultPoints \subseteq Executing \cup {"polling", "logging"}
ASSUME NoJobAssumption == NoJob \notin Jobs
ASSUME WorkersAssumption == IsFiniteSet(Workers)

VARIABLES
    status,      \* generation_jobs.status, "none" before the row exists
    retryCount,  \* generation_jobs.retry_count
    due,         \* next_attempt_at <= now
    expired,     \* started_at < now - claim_lease_seconds
    rows,        \* rows[t][j]: rows of content t that job j has stored
    runs,        \* history: how often each job was claimed
    pc,          \* where each worker is
    job,         \* the job it executes
    seen,        \* status and retry_count of its ORM copy of that job
    corpus,      \* the texts it compares the answer with
    accepted,    \* the contents that passed validation
    own,         \* accepted texts it found stored by this very job
    fresh        \* accepted texts it found nowhere

rowVars == <<status, retryCount, due, expired, rows, runs>>
localVars == <<job, seen, corpus, accepted, own, fresh>>
vars == <<rowVars, pc, localVars>>

NoRetryClaimable == {"queued"}
RunningClaimable == {"queued", "retry", "running"}

Status == {"none", "queued", "running", "validated", "completed", "retry",
           "failed", "dead_letter"}
Claimable == {"queued", "retry"}
Terminal == {"completed", "failed", "dead_letter"}
Blank == [status |-> "none", rc |-> 0]

RowsTypeOK ==
    /\ status \in [Jobs -> Status]
    /\ retryCount \in [Jobs -> Nat]
    /\ due \in [Jobs -> BOOLEAN]
    /\ expired \in [Jobs -> BOOLEAN]
    /\ rows \in [Texts -> [Jobs -> Nat]]
    /\ runs \in [Jobs -> Nat]

WorkersTypeOK ==
    /\ pc \in [Workers -> Executing \cup {"idle", "polling", "logging"}]
    /\ job \in [Workers -> Jobs \cup {NoJob}]
    /\ \A w \in Workers : pc[w] \in {"idle", "polling"} <=> job[w] = NoJob
    /\ seen \in [Workers -> [status : Status, rc : Nat]]
    /\ corpus \in [Workers -> SUBSET Texts]
    /\ accepted \in [Workers -> SUBSET Texts]
    /\ own \in [Workers -> SUBSET Texts]
    /\ fresh \in [Workers -> SUBSET Texts]

TypeOK == RowsTypeOK /\ WorkersTypeOK

Init ==
    /\ status = [j \in Jobs |-> "none"]
    /\ retryCount = [j \in Jobs |-> 0]
    /\ due = [j \in Jobs |-> FALSE]
    /\ expired = [j \in Jobs |-> FALSE]
    /\ rows = [t \in Texts |-> [j \in Jobs |-> 0]]
    /\ runs = [j \in Jobs |-> 0]
    /\ pc = [w \in Workers |-> "idle"]
    /\ job = [w \in Workers |-> NoJob]
    /\ seen = [w \in Workers |-> Blank]
    /\ corpus = [w \in Workers |-> {}]
    /\ accepted = [w \in Workers |-> {}]
    /\ own = [w \in Workers |-> {}]
    /\ fresh = [w \in Workers |-> {}]

-----------------------------------------------------------------------------
(* Helpers *)

\* w is inside run_job for job j.
Executes(w, j) == pc[w] \in Executing /\ job[w] = j

\* The contents of which a job other than j has stored a row.
StoredByOthers(j) == {t \in Texts : \E k \in Jobs \ {j} : rows[t][k] > 0}
StoredBy(j) == {t \in Texts : rows[t][j] > 0}

AfterFailureUnknown(rc) == IF rc >= MaxAttempts THEN "expired" ELSE "retry"

\* record_retryable_failure for a budget of which rc is known to be spent.
AfterFailure(rc) == IF rc >= MaxAttempts THEN "failed" ELSE "retry"

\* An ORM attribute reaches the database only if it differs from the copy the
\* session loaded: a stale copy that already holds s writes nothing.
Write(w, j, s) == [status EXCEPT ![j] = IF seen[w].status = s THEN @ ELSE s]

\* The session's copies are of no use any more.
Forgets(w) ==
    /\ seen' = [seen EXCEPT ![w] = Blank]
    /\ corpus' = [corpus EXCEPT ![w] = {}]
    /\ accepted' = [accepted EXCEPT ![w] = {}]
    /\ own' = [own EXCEPT ![w] = {}]
    /\ fresh' = [fresh EXCEPT ![w] = {}]

\* The attempt is over: the worker leaves run_once.
Leaves(w) ==
    /\ pc' = [pc EXCEPT ![w] = "idle"]
    /\ job' = [job EXCEPT ![w] = NoJob]
    /\ Forgets(w)

\* run_job returned COMPLETED: run_once still reports on the job, inside the
\* same try block.
Completes(w) ==
    /\ pc' = [pc EXCEPT ![w] = "logging"]
    /\ Forgets(w)
    /\ UNCHANGED job

\* record_retryable_failure on a session that reloads the row first: after a
\* rollback, or in the new session of _record_unhandled_failure.
RetryFresh(j) ==
    /\ status' = [status EXCEPT ![j] = AfterFailure(retryCount[j])]
    /\ due' = [due EXCEPT ![j] = @ /\ retryCount[j] >= MaxAttempts]
    /\ UNCHANGED <<retryCount, expired, rows, runs>>

\* record_retryable_failure on a session that still holds the copy it loaded
\* when the answer arrived (expire_on_commit = False, db.py).
RetrySeen(w, j) ==
    /\ status' = Write(w, j, AfterFailure(seen[w].rc))
    /\ due' = [due EXCEPT ![j] = @ /\ seen[w].rc >= MaxAttempts]
    /\ UNCHANGED <<retryCount, expired, rows, runs>>

-----------------------------------------------------------------------------
(* Enqueueing and the passing of time *)

EnqueueAgain(j) ==
    /\ status[j] \in {"none", "completed"}
    /\ status' = [status EXCEPT ![j] = "queued"]
    /\ due' = [due EXCEPT ![j] = TRUE]
    /\ UNCHANGED <<retryCount, expired, rows, runs, pc, localVars>>

\* INSERT ... ON CONFLICT (idempotency_key) DO NOTHING on a request path.
Enqueue(j) ==
    /\ status[j] = "none"
    /\ status' = [status EXCEPT ![j] = "queued"]
    /\ due' = [due EXCEPT ![j] = TRUE]
    /\ UNCHANGED <<retryCount, expired, rows, runs, pc, localVars>>

\* next_attempt_at is reached.
BackoffPasses(j) ==
    /\ status[j] = "retry"
    /\ ~due[j]
    /\ due' = [due EXCEPT ![j] = TRUE]
    /\ UNCHANGED <<status, retryCount, expired, rows, runs, pc, localVars>>

\* started_at falls behind the lease; unless attempts may overrun it, only
\* after the worker that executed the job is gone.
LeaseRunsOut(j) ==
    /\ status[j] = "running"
    /\ ~expired[j]
    /\ Overruns \/ ~\E w \in Workers : Executes(w, j)
    /\ expired' = [expired EXCEPT ![j] = TRUE]
    /\ UNCHANGED <<status, retryCount, due, rows, runs, pc, localVars>>

-----------------------------------------------------------------------------
(* One rotation of the worker loop *)

\* The update of reclaim_stale_jobs, for the rows in stale, with the cost of a
\* lost attempt and the count the budget is compared with.
ReclaimRows(w, stale, cost, spent) ==
    /\ pc[w] = "idle"
    /\ status' = [j \in Jobs |-> IF j \in stale
                                 THEN AfterFailure(retryCount[j] + spent)
                                 ELSE status[j]]
    /\ retryCount' = [j \in Jobs |-> IF j \in stale THEN retryCount[j] + cost
                                                    ELSE retryCount[j]]
    /\ due' = [j \in Jobs |-> due[j] \/ j \in stale]
    /\ expired' = [j \in Jobs |-> expired[j] /\ j \notin stale]
    /\ pc' = [pc EXCEPT ![w] = "polling"]
    /\ UNCHANGED <<rows, runs, localVars>>

Stale == {j \in Jobs : status[j] = "running" /\ expired[j]}

ReclaimUnexpired(w) ==
    ReclaimRows(w, {j \in Jobs : status[j] = "running"}, 1, 1)
ReclaimTooEarly(w) == ReclaimRows(w, Stale, 1, 2)
ReclaimFree(w) == ReclaimRows(w, Stale, 0, 0)

\* reclaim_stale_jobs: one UPDATE over every running row whose lease is over.
Reclaim(w) == ReclaimRows(w, Stale, 1, 1)

\* ceiling_reached: the daily ceiling keeps the worker from claiming.
CeilingStops(w) ==
    /\ pc[w] = "polling"
    /\ pc' = [pc EXCEPT ![w] = "idle"]
    /\ UNCHANGED <<rowVars, localVars>>

NothingDue(w) ==
    /\ pc[w] = "polling"
    /\ ~\E j \in Jobs : status[j] \in Claimable /\ due[j]
    /\ pc' = [pc EXCEPT ![w] = "idle"]
    /\ UNCHANGED <<rowVars, localVars>>

\* claim_next_job: the budget is spent before anything is executed.
Claim(w, j) ==
    /\ pc[w] = "polling"
    /\ status[j] \in Claimable
    /\ due[j]
    /\ status' = [status EXCEPT ![j] = "running"]
    /\ retryCount' = [retryCount EXCEPT ![j] = @ + 1]
    /\ expired' = [expired EXCEPT ![j] = FALSE]
    /\ runs' = [runs EXCEPT ![j] = @ + 1]
    /\ pc' = [pc EXCEPT ![w] = "claimed"]
    /\ job' = [job EXCEPT ![w] = j]
    /\ UNCHANGED <<due, rows, seen, corpus, accepted, own, fresh>>

-----------------------------------------------------------------------------
(* One attempt: prepare *)

\* prepare returns a PermanentReason.
DeadLetter(w) ==
    /\ pc[w] = "claimed"
    /\ status' = [status EXCEPT ![job[w]] = "dead_letter"]
    /\ UNCHANGED <<retryCount, due, expired, rows, runs>>
    /\ Leaves(w)

\* prepare returns NothingToDo: there is no target left, or the explanation
\* is already there.
NothingToDo(w) ==
    /\ pc[w] = "claimed"
    /\ job[w] \in ExplainJobs => \E k \in Jobs : rows[Slot[job[w]]][k] > 0
    /\ status' = [status EXCEPT ![job[w]] = "completed"]
    /\ UNCHANGED <<retryCount, due, expired, rows, runs>>
    /\ Completes(w)

CallAlways(w) ==
    /\ pc[w] = "claimed"
    /\ pc' = [pc EXCEPT ![w] = "calling"]
    /\ UNCHANGED <<rowVars, job, seen, corpus, accepted, own, fresh>>

\* prepare reads the corpus, without this job's own sentences, and the read
\* transaction is rolled back before the provider is called.
CallProvider(w) ==
    /\ pc[w] = "claimed"
    /\ job[w] \in ExplainJobs => \A k \in Jobs : rows[Slot[job[w]]][k] = 0
    /\ corpus' = [corpus EXCEPT ![w] = IF job[w] \in ExplainJobs
                                       THEN {} ELSE StoredByOthers(job[w])]
    /\ pc' = [pc EXCEPT ![w] = "calling"]
    /\ UNCHANGED <<rowVars, job, seen, accepted, own, fresh>>

-----------------------------------------------------------------------------
(* One attempt: the provider's answer *)

ProviderFails(w) ==
    /\ pc[w] = "calling"
    /\ RetryFresh(job[w])
    /\ Leaves(w)

\* record_usage reloads the job, adds the usage and commits; the copy of
\* status and retry_count it loaded is the one later steps go by.
Answer(w) ==
    /\ pc[w] = "calling"
    /\ seen' = [seen EXCEPT ![w] = [status |-> status[job[w]],
                                    rc |-> retryCount[job[w]]]]
    /\ pc' = [pc EXCEPT ![w] = "answered"]
    /\ UNCHANGED <<rowVars, job, corpus, accepted, own, fresh>>

\* The answer does not parse, or nothing in it passes validation.
RejectAll(w) ==
    /\ pc[w] = "answered"
    /\ RetrySeen(w, job[w])
    /\ Leaves(w)

\* What the screening of an answer for job j can let through.
Screened(w, j) == IF j \in ExplainJobs
                  THEN {{Slot[j]}}
                  ELSE SUBSET (Sentences \ corpus[w]) \ {{}}

\* Something passed validation: mark_validated commits before the storing.
MarkValidated(w) ==
    /\ pc[w] = "answered"
    /\ \E passed \in Screened(w, job[w]) :
           accepted' = [accepted EXCEPT ![w] = passed]
    /\ status' = Write(w, job[w], "validated")
    /\ seen' = [seen EXCEPT ![w] = [status |-> "validated", rc |-> @.rc]]
    /\ pc' = [pc EXCEPT ![w] = "storing"]
    /\ UNCHANGED <<retryCount, due, expired, rows, runs, job, corpus, own,
                   fresh>>

-----------------------------------------------------------------------------
(* One attempt: storing *)

\* _store_one looks each accepted text up by its hash. The first row decides
\* whose it is: a text of this job counts as stored, another job's is
\* rejected. An explanation is inserted without looking (save_explanation).
LookUp(w) ==
    LET j == job[w]
        mine == accepted[w] \cap StoredBy(j)
        taken == accepted[w] \cap StoredByOthers(j)
    IN
    /\ pc[w] = "storing"
    /\ IF j \in ExplainJobs
       THEN /\ own' = [own EXCEPT ![w] = {}]
            /\ fresh' = [fresh EXCEPT ![w] = accepted[w]]
       ELSE /\ \E first \in SUBSET mine :
                   /\ mine \ taken \subseteq first
                   /\ own' = [own EXCEPT ![w] = first]
            /\ fresh' = [fresh EXCEPT ![w] = accepted[w] \ (mine \cup taken)]
    /\ pc' = [pc EXCEPT ![w] = "committing"]
    /\ UNCHANGED <<rowVars, job, seen, corpus, accepted>>

\* The rows and the completion are one transaction. kept are the inserted
\* texts; the others failed the check of _promote_to_validated and their
\* savepoint was rolled back.
Store(w) ==
    LET j == job[w] IN
    /\ pc[w] = "committing"
    /\ \E kept \in IF j \in ExplainJobs THEN {fresh[w]} ELSE SUBSET fresh[w] :
           /\ own[w] \cup kept # {}
           /\ rows' = [t \in Texts |->
                          IF t \in kept THEN [rows[t] EXCEPT ![j] = @ + 1]
                                        ELSE rows[t]]
    /\ status' = Write(w, j, "completed")
    /\ UNCHANGED <<retryCount, due, expired, runs>>
    /\ Completes(w)

\* Every accepted text was rejected at the last moment: only the reasons are
\* recorded and the attempt counts as failed.
StoreNothing(w) ==
    /\ pc[w] = "committing"
    /\ job[w] \notin ExplainJobs
    /\ own[w] = {}
    /\ RetrySeen(w, job[w])
    /\ Leaves(w)

StoreFailsHalfway(w) ==
    /\ pc[w] \in {"storing", "committing"}
    /\ status' = [status EXCEPT ![job[w]] = "retry"]
    /\ rows' = [t \in Texts |-> IF t \in fresh[w]
                                THEN [rows[t] EXCEPT ![job[w]] = @ + 1]
                                ELSE rows[t]]
    /\ UNCHANGED <<retryCount, due, expired, runs>>
    /\ Leaves(w)

\* SQLAlchemyError while storing: rollback, then a retryable failure.
StoreFails(w) ==
    /\ pc[w] \in {"storing", "committing"}
    /\ RetryFresh(job[w])
    /\ Leaves(w)

Reports(w) ==
    /\ pc[w] = "logging"
    /\ UNCHANGED rowVars
    /\ Leaves(w)

-----------------------------------------------------------------------------
(* Faults *)

\* An exception leaves run_job or the report. _record_unhandled_failure does
\* not touch a row that is no longer running.
Throws(w) ==
    /\ pc[w] \in FaultPoints \ {"polling"}
    /\ \/ /\ status[job[w]] = "running"
          /\ RetryFresh(job[w])
       \/ /\ status[job[w]] # "running"
          /\ UNCHANGED rowVars
    /\ Leaves(w)

\* The process dies and is started again; its open transaction is undone.
Crash(w) ==
    /\ pc[w] \in FaultPoints
    /\ UNCHANGED rowVars
    /\ Leaves(w)

-----------------------------------------------------------------------------
Attempt(w) ==
    \/ DeadLetter(w)
    \/ NothingToDo(w)
    \/ CallProvider(w)
    \/ ProviderFails(w)
    \/ Answer(w)
    \/ RejectAll(w)
    \/ MarkValidated(w)
    \/ LookUp(w)
    \/ Store(w)
    \/ StoreNothing(w)
    \/ StoreFails(w)
    \/ Reports(w)

Rotation(w) ==
    \/ Reclaim(w)
    \/ NothingDue(w)
    \/ \E j \in Jobs : Claim(w, j)
    \/ Attempt(w)

Next ==
    \/ \E j \in Jobs : Enqueue(j) \/ BackoffPasses(j) \/ LeaseRunsOut(j)
    \/ \E w \in Workers : \/ Rotation(w)
                          \/ CeilingStops(w)
                          \/ Throws(w)
                          \/ Crash(w)

Spec == Init /\ [][Next]_vars

\* Time passes. A worker keeps rotating: docker restarts it after a crash, the
\* provider client has a timeout, and the daily ceiling is lifted at midnight,
\* so a worker that keeps polling while a job is due claims one in the end.
Fairness ==
    /\ \A j \in Jobs : WF_vars(BackoffPasses(j)) /\ WF_vars(LeaseRunsOut(j))
    /\ \A w \in Workers : /\ WF_vars(Rotation(w))
                          /\ SF_vars(\E j \in Jobs : Claim(w, j))

FairSpec == Spec /\ Fairness

-----------------------------------------------------------------------------
(* Properties *)

\* A job is inside run_job of at most one worker: SKIP LOCKED, the claim and
\* the lease together keep the provider from being paid twice at a time.
AtMostOneExecution ==
    \A v, w \in Workers : \A j \in Jobs :
        Executes(v, j) /\ Executes(w, j) => v = w

\* The row tells what its worker does: it is running until the answer passed
\* validation and validated while the content is stored, so no reclaim and no
\* claim can touch it meanwhile.
RowFollowsWorker ==
    \A w \in Workers : \A j \in Jobs :
        Executes(w, j) =>
            status[j] = IF pc[w] \in {"storing", "committing"}
                        THEN "validated" ELSE "running"

\* No job is executed more than max_attempts times, however its attempts end
\* (claim_next_job counts them, reclaim_stale_jobs and
\* record_retryable_failure stop at the budget).
AttemptBudget ==
    \A j \in Jobs : /\ runs[j] <= MaxAttempts
                    /\ status[j] \in Claimable => retryCount[j] < MaxAttempts

\* Content is visible only together with its job's completion, and no attempt
\* stores again what an earlier attempt of the same job has stored.
ContentOnlyWithCompletion ==
    \A j \in Jobs : \A t \in Texts :
        /\ rows[t][j] > 0 => status[j] = "completed"
        /\ rows[t][j] <= 1

\* A text has one sentence row and a sentence_item one explanation, whichever
\* jobs and attempts produced it (_store_one, explain_item.prepare).
NoDuplicateText ==
    \A t \in Texts : \A j, k \in Jobs :
        /\ rows[t][j] <= 1
        /\ rows[t][j] > 0 /\ rows[t][k] > 0 => j = k

\* A job is given up only after at least half of its attempts were really
\* executed: a lost worker costs two units of the budget, one at the claim
\* and one at the reclaim, and nothing costs more.
FailedAfterHalfTheBudget ==
    \A j \in Jobs : status[j] = "failed" => 2 * runs[j] >= MaxAttempts

\* What is completed, failed or dead_letter stays so: no late worker and no
\* reclaim reopens it.
TerminalIsFinal ==
    [][\A j \in Jobs : status[j] \in Terminal => status'[j] = status[j]]_vars

\* Every job that was enqueued comes to an end.
EveryJobEnds ==
    \A j \in Jobs : status[j] = "queued" ~> status[j] \in Terminal

\* A job whose worker is gone does not stay as it was: it is picked up again
\* or it ends.
LostJobsAreRecovered ==
    \A j \in Jobs : status[j] \in {"running", "validated"}
                        ~> status[j] \in Claimable \cup Terminal

\* The part of a row that JobLifecycle knows.
Phase(s) == CASE s = "none" -> "absent"
              [] s \in Claimable -> "waiting"
              [] s \in {"running", "validated"} -> "running"
              [] s = "completed" -> "done"
              [] s \in {"failed", "dead_letter"} -> "dead"

Lifecycle == INSTANCE JobLifecycle
    WITH Budget <- MaxAttempts,
         phase <- [j \in Jobs |-> Phase(status[j])],
         tries <- runs,
         content <- [j \in Jobs |-> StoredBy(j)]

\* The tables implement what JobLifecycle promises.
ImplementsLifecycle == Lifecycle!Spec

\* Even when leases run out under live workers no job is executed more than
\* max_attempts times: a worker that comes late may put a spent job back, but
\* the reclaim that made it late had already cost one attempt.
NeverTooManyRuns == \A j \in Jobs : runs[j] <= MaxAttempts
=============================================================================
