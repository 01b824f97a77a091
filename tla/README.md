# A verification project for the language learning app

TLA+ models of the app in this repository (a FastAPI backend over PostgreSQL, one
background worker, a TypeScript frontend), the TLC configurations that check them on
small instances, and theorems about them that TLAPS checks for every instance.

| file | what it is |
| --- | --- |
| `JobQueue.tla` | the `generation_jobs` table, the worker processes, one attempt at a job |
| `JobLifecycle.tla` | the abstract specification: what the queue promises to those who enqueue |
| `MCJobQueue.tla`, `JobQueue*.cfg` | its four TLC instances of its own |
| `JobQueueProofs.tla` | ten theorems about `JobQueue`, with the refinement |
| `StudySession.tla` | one user's study sessions and the requests that race on them |
| `MCStudySession.tla`, `StudySession*.cfg` | its four TLC instances |
| `StudySessionProofs.tla` | eight theorems about `StudySession` |
| `LearnerRules.tla` | the learning engine's decisions that have no state |
| `LearningLoop.tla` | what one learner is shown, what is learnt from it, what the worker is asked for |
| `Lists.tla` | filtering and sorting, in a form that can be proved about |
| `MCLearningLoop.tla`, `LearningLoop.cfg` | the TLC instance of `LearningLoop` |
| `ListLemmas.tla` | induction, recursive functions, sequences: what the proofs share |
| `LearningLoopPlans.tla` | what the operators of `LearningLoop` return, and what they do not leave out |
| `LearningLoopProofs.tla` | fourteen theorems about `LearningLoop`, three of them its inductive invariants |
| `StudyApp.tla` | the page of a signed-in learner and the requests it has in flight |
| `LocalStore.tla`, `DemoTour.tla`, `KanaRound.tla` | the browser's storage, the demo, kana practice |
| `MCApp.tla`, `App.cfg`, `AppLanguage.cfg` | the page's TLC instances |
| `StudyAppProofs.tla` | five theorems about `StudyApp` |
| `SeedContent.tla` | loading seed files, and the two backfills, beside a running service |
| `MCSeedContent.tla`, `MCContent.tla`, `Content.cfg` | its TLC instance, beside one more of `JobQueue` |
| `SeedContentProofs.tla` | three theorems about `SeedContent` |
| `FrontendProofs.tla` | three theorems about the demo and kana practice |
| `PROJECT.json` | components, runs, mutants, the map to the source, findings, hazards, theorems |

To check: `tlc -config JobQueueTwo.cfg MCJobQueue`, and so on for each configuration
(a module's configurations start with its name); `tlapm JobQueueProofs.tla`, and so on for
each module of proofs. Most of them take a few minutes.

---------------------------------------------------------------------------------------

## 1. Inventory

Paths are relative to the repository. *Status*: **M** modelled, **P** planned, **–** left out.

### 1.1 Background jobs (M) — `backend/app/jobs/`

*State.* The rows of `generation_jobs` (status, `retry_count`, `max_attempts`,
`next_attempt_at`, `started_at`, `output_json`); in each worker process the ORM copies of the
job it executes, the answer, the sentences that passed validation.

*Operations.* Enqueue with `ON CONFLICT DO NOTHING` (`replenishment.py:222`); one rotation of
the worker: reclaim, ceiling, claim with `FOR UPDATE SKIP LOCKED`, execute
(`worker.py:220`); one attempt: `prepare`, provider call, `record_usage`, validation,
`mark_validated`, storing, completion or failure (`runner.py:99`).

*Interactions.* Request handlers enqueue; workers share the database only; the provider is
called outside any transaction; stored sentences become selectable by requests.

*Hard.* A worker that dies anywhere; a lease that runs out under a live worker; an ORM copy
(`expire_on_commit=False`) that is older than the row; storing that fails halfway; an
exception after the job was completed.

*Correct when.* A job is executed by one worker at a time, at most `max_attempts` times; it
ends; content appears with its completion and once; a terminal state is final.

### 1.2 Usage accounting and the daily ceiling (P) — `queue.py:292-418`

*State.* `token_usage` (JSON) on each job row. *Operations.* `record_usage` adds a call's
usage, `daily_usage` sums the rows of a UTC day, `ceiling_reached` compares before the claim.
*Hard.* Read-modify-write of a JSON column; check before and add after the call; the day
boundary; calls whose token count is unknown. *Correct when.* Every paid call is counted; the
overshoot past the limit is bounded by what is in flight; the ceiling is lifted at midnight.

### 1.3 Study sessions, presentations, interactions (M) — `backend/app/services/`

*State.* `study_sessions`, `study_presentations`, `learning_events`, `item_exposures`, the
user's `sentence_candidates`, and the transaction of each request in flight with the rows it
has loaded.

*Operations.* Start or resume, next, complete, finish, extend, click, reveal (two kinds),
self-report, probe response, flag.

*Interactions.* Every handler but one reads its gate without a lock and then waits for the
session row when `touch()` is flushed; `/next` locks first. A flag, also of another user,
quarantines the sentence and its candidates.

*Hard.* Double taps and retries; two tabs; a handler that decides from a row it read before it
waited; idle expiry under a request in flight; a flag before, during or after completion; a
materialization that overlaps a flag.

*Correct when.* One presentation is open per session; what is completed was evaluated as a
whole; each item gets one judgement per presentation; each key acts once; a finished session
leaves nothing open; flagged content does not count.

### 1.4 Learning state (M: `LearningLoop`) — `backend/app/learning/{mastery,exposure,progression}.py`, `srs/review.py`

*State.* `user_mastery`, `user_item_learning_state` (counters, anchor, context stage),
`item_exposures`, `review_states`. *Operations.* Explicit evidence, silence, promotion of a word
met by the way, probe outcome, scheduling and deferral, the ladder on completion, withdrawal of
exposures by a flag. *Hard.* Several rows that one answer moves together; a stage that the shown
stage, not the current one, should move; counters incremented in Python without a lock when two
sessions are in use at once. *Correct when.* Only what the learner called unknown or uncertain is
scheduled; the ladder goes down only on failure and no stage is reached by skipping one; an
anchor stays; a withdrawn exposure does not count.

### 1.5 Selection and the candidate pool (M: `LearningLoop`) — `learning/{selection,exploration,probe}.py`

*State.* `sentence_candidates` (ready, consumed, quarantined; unique per sentence, role and stage
while active), deficits of the category mix, probe events. *Operations.* Materialize, pick, find
the stage's sentence, resolve and reuse an anchor, pace probes. *Hard.* Candidates that were made
for a reason that no longer holds; a quarantine under a ready candidate, an anchor or a stage;
pacing that is recomputed from events. *Correct when.* What is in the pool can be shown as it is;
a review is shown only for a target that may be shown now; the probe bounds hold over any sequence
of screens.

### 1.6 Replenishment (M: `LearningLoop`, `JobQueue`) — `jobs/replenishment.py`

Three kinds of idempotency key (batch, explanation, review context) with the UTC day. The insert is
`JobQueue`'s `Enqueue`; `LearningLoop` has the keys, the requests of a screen that finds nothing,
and the worker whose sentences come back into the pool. *Hard.* A key that keeps content from being
asked for; an item that nothing asks for. *Correct when.* A learner with something due who is shown
nothing has asked for it today.

### 1.7 Frontend: study screen and API client (M: `StudyApp`) — `frontend/src/{private.ts,api.ts,ui/*.ts}`

*State.* The area and screen, the session and presentation on it, `busy`, what was said about the
tapped word, the requests in flight. *Hard.* A late answer after the screen was left; a retry whose
first attempt succeeded; a request shared by two callers; a 409 that has to bring the screen back
in step with the server; another device that ends or opens sessions. *Correct when.* A left screen
is silent; what the panel says was recorded was recorded; one press extends once; a stale sentence
leaves; a completed one does not return.

### 1.8 Frontend: demo and kana practice (M: `DemoTour`, `KanaRound`, `LocalStore`) — `frontend/src/{demo,kana}/`, `local-store.ts`

Local state machines over one storage key each: a queue of sentences that are shown once more,
with a probe now and then, and a round that appends a wrongly answered question once. *Hard.* Every
reachable progress must be one that a reload accepts; a storage that is full or forbidden; state
that the page keeps while the storage has another. *Correct when.* No step loses progress; the
tour and the round come to their end; the counts add up.

### 1.9 Seed content (M: `SeedContent`) — `services/seed_loader.py`, `scripts/{load_seed,backfill_seed_id,backfill_ruby}.py`

*State.* The seed rows of `learning_items` and `sentences` (id of the file, `seed_order`,
furigana); what a running script has read. *Operations.* Load into an empty database or add to a
full one; write ids to rows that were loaded before there were any; write furigana where there is
none. *Hard.* Scripts on a live database, with no lock: everything is read first and written at the
end; content that was loaded under older schemas; positions in files that grow. *Correct when.*
Nothing is there twice; sentences refer to the items their file names; a load is whole; a row is
only ever completed.

### 1.10 The rest (–)

Authentication (`services/auth.py`: one session row, absolute expiry; `get_current_user`
commits before the handler, `api/deps.py:74`, so that no lock of it lasts into a study
request; `StudyApp` has the cookie and its end as the page meets them), heartbeat, health and history (one upserted row and read-only queries), generation
prompts, validation and the provider client (no state of their own), the FSRS binding (the
scheduler is a library), furigana and rendering (pure string functions), prompts and the other
operations scripts (run by hand while the service is down), the home card, speech and furigana views.

---------------------------------------------------------------------------------------

## 2. JobQueue

### State and actions

One action is one committed transaction, or one stretch of code between two: nothing else can
be seen by another worker. `status`, `retryCount`, `rows` are columns and tables; `due` and
`expired` stand for `next_attempt_at <= now` and `started_at < now - lease`, so that time is
the two actions `BackoffPasses` and `LeaseRunsOut`; `pc`, `job`, `seen`, `corpus`, `accepted`,
`own`, `fresh` are a worker's local state, of which `seen` is the ORM copy of the job's row that
`record_usage` loads and that later steps go by (`db.py` sets `expire_on_commit=False`).
`runs` is a history variable.

    idle --Reclaim--> polling --Claim--> claimed --CallProvider--> calling --Answer--> answered
         <-CeilingStops, NothingDue-      |                          |                   |
                                          DeadLetter, NothingToDo    ProviderFails       RejectAll
    answered --MarkValidated--> storing --LookUp--> committing --Store--> logging --Reports--> idle
                                (StoreFails)        (StoreFails, StoreNothing)

At any point in `FaultPoints` the worker may `Throw` (the handler of last resort
`_record_unhandled_failure` writes only if the row is still running; its read and its write are
one action) or `Crash` (nothing is written, docker starts the process again).

The reclaim charges an attempt in addition to the one the claim has charged: a lost worker costs
two units of the budget. The code does so on purpose or not; `FailedAfterHalfTheBudget` is the
bound that follows from it.

*Abstracted.* The row order of the claim (any due job), the usage behind the ceiling (any poll
may be stopped by it), what is generated (any texts), the choice between rows of equal hash (any
of them may be first), a graceful shutdown (a worker that stops between two rotations is one
that takes no further step).

### Runs

| run | instance | shows |
| --- | --- | --- |
| `jobqueue_two_workers` | 2 workers, 2 jobs, 2 texts, 3 attempts, faults everywhere, attempts within their lease | exclusive execution, the row follows its worker, content only with completion, no job fails early, and `JobLifecycle` is implemented: the budget is kept and terminal is final |
| `jobqueue_liveness` | the deployed single worker, a batch and two explain jobs for one slot, 2 attempts, leases may be overrun, faults everywhere but in the validated window | every job ends; no text is stored twice |
| `content_comes_in` (with SeedContent, section 6) | 3 workers, 1 job, 3 attempts, leases overrun | even then no job is executed more than `max_attempts` times |
| `jobqueue_lost_validated` | faults in the validated window too | **violated**: finding 1 |
| `jobqueue_duplicate_text` | 2 workers, leases overrun | **violated**: finding 2 |

*Bounds.* Two jobs suffice for one worker to reclaim what another holds while it executes
something else, and for two jobs to produce one text; three attempts let a job be failed, lost
and reclaimed in every order, also with a last attempt that is lost; three workers let a reclaimed
job have an old, a current and a next executor. The jobs, texts and workers are symmetric where
symmetry is used (safety only).

*Fairness* (`FairSpec`). Weak fairness of the two time actions and of a worker's `Rotation`:
docker restarts a worker that died (`restart: unless-stopped`), every provider call has a timeout.
Strong fairness of `Claim`: the ceiling is lifted at midnight, so a worker that keeps polling
while a job is due finds the ceiling open again and again. Nothing is assumed of `Enqueue`,
`Throws` or `Crash`.

### Findings

1. **A job can be lost as `validated`** (`queue.py:206`). `mark_validated` commits before the
   content is stored; the reclaim takes back `running` rows only, the claim `queued` and `retry`,
   and the last-resort handler leaves anything but `running` alone. A crash in that window leaves
   the job there for ever, while `spec/mvp-01-core/09_BACKGROUND_JOBS.md:109-110` counts on the
   lease, and `worker.py:264` says every job must end.
2. **A text can be stored twice** (`models/content.py:127`). The spec asks for a unique constraint
   (`09_BACKGROUND_JOBS.md:88-90`, `:128-130`); the index on the hash is a plain one and
   `_store_one` looks before it inserts. Two executors of a reclaimed job need only look before
   either commits. With the one worker that is deployed it cannot happen (`jobqueue_liveness`).

### Proofs

For any jobs, workers, texts, budget and fault points. `TypeCorrect` and `RunsWithinBudget` need
no more than the assumptions on the constants, `TextsAreUnique` a single worker; the others assume
`SafeDeployment == ~Overruns \/ \A v, w \in Workers : v = w`: attempts end before their lease, or
there is a single worker as in `docker-compose.yml`. Without it they are false (run
`jobqueue_duplicate_text`), and what is left is `NeverTooManyRuns`.

The safety properties are not inductive. `SafetyInv` joins to them `Held` (the row of a job that a
worker is inside of has the status its step implies, and its lease is over only where attempts may
overrun it, so that no reclaim takes it), `Current` (the copy `seen` is the row: nobody else has
written it since) and `Spent` (how `retryCount` and `runs` are related: a claim and a reclaim
cost at most two per run).
`Current` is what makes the retry decisions from the stale-looking copy right, and `Spent` bounds
both the runs from above (`BudgetIsKept`) and the executed attempts from below
(`FailureIsEarned`). `LifecycleIsImplemented` proves step by step that the tables refine
`JobLifecycle` under the mapping in `JobQueue`: every step is `Submit`, `Start`, `Release`,
`Finish` or a stutter.

`TextsAreUnique` is what is left of the spec's unique constraint: with one worker, overruns or not,
looking before inserting is enough. `UniqueInv` says that what the worker read still holds when it
goes by it (`LooksHold`), because nobody else stores: the explanation that was missing at `prepare`
is missing, and a text that the lookup did not find is nowhere.

`RunsWithinBudget` is the budget for every deployment, of any finite number
of workers whose leases may run out. `SafetyInv` is false there: a late worker that goes by its old
copy can put a job back whose budget is spent. `Account` keeps the books instead. `Holders(j)` are
the workers that have job `j`, `Late(j)` those of them that would put it back; the runs so far and the
holders together are covered by `retry_count` and one, because the claim charged each holder and the
reclaim that made it late was charged as well; and the runs and the late workers together never pass
the budget. A claim turns one unit of the second sum into a run, a late worker gives one up when it
leaves. This is why the second charge of a lost attempt matters: without it (`ReclaimFree`) TLC finds
one run too many.

---------------------------------------------------------------------------------------

## 3. StudySession

### State and actions

Each request is one READ COMMITTED transaction, split where another transaction can come in
between:

1. the *gate* reads session and presentation without a lock (`load_owned_session`,
   `begin_interaction`); the ORM objects keep what they read: that copy is `req[r]`;
2. `touch()` changes `last_activity_at`; the next query flushes the UPDATE and waits for the
   row lock (`lock[s]`), and what is queried from there on is fresh;
3. the rest is written and committed, and the lock is given back.

2 and 3 are one action where nothing read in between can change (interactions, extend, flag);
`StartEnter`/`StartCommit` and `CloseEnter`/`CloseCommit` are apart because a materialization or
another user's flag can come in between. `/next` (`NextEnter`, `NextCommit`) locks with
`FOR UPDATE` before its gate. `Abort` is a request whose process or connection dies.

| endpoint | actions | code |
| --- | --- | --- |
| `POST /session` | `StartGate`, `StartEnter`, `StartCommit` | `study_session.py` 143-220 |
| `POST /session/{id}/next` | `NextEnter`, `NextAgain`, `NextCommit` | `presentation.py` 165-253 |
| `POST /presentations/{pid}/complete` | `CompleteGate`, `CloseEnter`, `CloseCommit` | `presentation.py` 276-303, 349-455 |
| `POST /session/{id}/finish` | `FinishGate`, `CloseEnter`, `CloseCommit` | `study_session.py` 223-256 |
| click, reveal, self-report, probe response | `InteractionGate`, `Interact` | `presentation.py` 306-346, `interactions.py` |
| `POST /session/{id}/extend` | `ExtendGate`, `Extend` | `study_session.py` 259-293 |
| `POST /presentations/{pid}/flag` | `FlagGate`, `Flag`; `OthersFlag` for other users | `content_flag.py` |

`noSignal` is a history variable: how often the code handled an item of a presentation as
"no signal".

*A point of interpretation.* Two requests with the very same `now` would write no new
`last_activity_at`, flush no UPDATE and not wait for each other; the authors describe this
"accidental" serialisation in `backend/tests/test_evidence_concurrency.py:24-30`, and protect
evidence with the unique index `uq_learning_events_evidence` as well. The model has requests with
different `now`; the index is therefore never needed in it.

*Abstracted.* Which sentence is selected and whether a probe is asked (free choices among what is
ready), the language of a session (an early return), mastery, ladder and schedule values (the
`LearningLoop` has them), the `meaningful_exposure_count` cache, rendering, error texts. The events
of click and reveal leave no state that any later step reads.

### Runs

| run | instance | shows |
| --- | --- | --- |
| `studysession_screen` | 3 requests of any kind, 1 session, 1 presentation, 1 item, 2 event keys, 2 extension keys | evidence is unique, completion is whole, an extension key acts once, a flag withdraws the exposure for good |
| `studysession_races` | 2 requests among start, next, complete, finish and flag; 2 sessions, 2 presentations of one sentence, idle expiry | one open presentation, a finished session has none, nothing is shown after a session's end |
| `studysession_judged_once` | as the first, 2 requests | **violated**: finding 3 |
| `studysession_quarantine` | the same | **violated**: finding 4 |

*Bounds.* Three requests are a retry, its original and a competitor, on the same presentation and
the same session row, the only things they meet on; two keys tell a retry from a second tap. Two
requests over two sessions and two presentations are what it takes for a presentation of one
session to be closed while the other session is started, and for a second presentation to appear
where one is open. One item per sentence is enough because the handling of items of one
presentation is independent. `MaxSessions` and `Presentations` bound how much is created, so the
system may come to rest at the bound: deadlock is not checked there. `GoesIdle` waits for requests
in flight: the idle timeout is half an hour (`config/default.yaml:50`), a request lasts seconds; a session that was idle before a
request arrives can still be expired under it.

*Two one-sided properties.* `ExtendedOncePerKey` bounds the extensions from above: two requests
with different keys that race both read the same minutes, and one extension is lost.
`FlaggedIsWithdrawn` excludes sessions that the idle timeout ended under a request in flight: the
flag does not wait for a session it saw ended.

*No liveness* is stated: a request ends by itself unless it waits for a lock, each request holds
at most one, and the user owes the system no further request.

### Findings

3. **An item can be judged twice** (`presentation.py:343`). `begin_interaction` reads
   `completed_at` and only then waits for the session row. A self-report that was gated while
   `/complete` held that row records its evidence on a presentation whose item was just handled as
   no-signal; two `/complete` calls handle no-signal twice. `05_API_SPEC.md:368-371` says the gate
   keeps an exposure from being judged twice.
4. **A quarantined sentence can get a ready candidate** (`content_flag.py:131`).
   `_quarantine_candidates` updates the candidates it sees; a materialization that chose the
   sentence before the flag committed inserts its candidate afterwards, and `_ready_candidates`
   does not look at the sentence's status. `10_ERROR_HANDLING.md:64` says it is excluded from
   selection.

### Proofs

For any requests, kinds of request, sessions, presentations, sentences, items and keys, with no
assumption beyond those on the constants.

*Types.* `TypeOK` is not inductive: that a flag quarantines a *sentence* needs that the flagged
presentation shows one. `Shown` says so (what exists shows a sentence; what is being flagged
exists), and `StudyTypeCorrect` follows from the two together.

*The row lock.* `OneOpenPresentation`, `FinishLeavesNothingOpen` and `NothingShownAfterEnd` are all
consequences of `LockInv`:

- `HoldsLock(r)`: a request that is past its wait holds the lock of its session's row;
- `ReadsHold(r)`: what it has read there is still so: for `/next` the session is open and shows
  nothing, for `/finish` nothing is open but what it is about to complete;
- `Consistent(s)`: at most one open presentation, none once finished.

`Step(r)` says what a step of `r` can look like from outside: other requests and their locks stay,
and a session is either left *steady* (not ended, no new open presentation) or is the one `r`
holds. `StepKeepsLockInv` shows once that any such step keeps `LockInv`; one lemma per group of
actions then shows that the action is such a step. The gates, the interactions and the flag need no
lock for this: they leave alone what the lock protects.

*Evidence and extensions.* `OneEvidence` is inductive as it stands, because the check for earlier
evidence and the event are one step under the row lock. For `ExtendedOncePerKey` the minutes are not
enough, as they may even go down when extensions race: `ExtendInv` adds that also the minutes a
request in flight has loaded are covered by the keys recorded by now, and keys are only added.

*Completion and flags.* `CompletedAsAWhole` and `FlagsWithdraw` rest on `CloseInv`, which rests on
`LockInv`: a request that is about to complete a presentation holds its session's row (`SawTheEnd`),
so if its presentation was completed or flagged since its gate, it either knows or there is nothing
left to do wrong (`CompletesSoundly`). A flag waits for the same row unless its gate saw that the
session had ended (`SawTheEnd`), which is the case the property excludes.

---------------------------------------------------------------------------------------

## 4. LearningLoop

### State and actions

`LearnerRules` has the decisions that depend on nothing but their arguments: the category mix and
its tie order, the review reason, the ladder, the moving average reduced to the observation it is
closest to, the priority of a probe. Shares are percentages, so that deficits are integers.

`LearningLoop` is one learner over several sessions and days. Requests follow one another here; how
they race is `StudySession`'s matter, and how a job is claimed and retried `JobQueue`'s. Time passes
in half days (`Tick`), the deferral of a review that was not answered; a `Tick` also lets an idle
session expire. Identifiers are numbers, because the code orders by them.

| code | actions and operators |
| --- | --- |
| `selection.py`, `materialize_candidates` | `Materialized` with `ReviewPlan`, `NewPlan`, `ExplorationPlan`, `StageSentence`, `ResolvedAnchor`, `NeedsRepair`, the gaps it meets and the anchors it resolves |
| `selection.py`, `select_next` | `SelectNext` with `SelectReview`, `SelectExploration`, `SelectNew`, `ReusedAnchor` |
| `presentation.py`, `/next` | `NextPresentation` with `ProbeFor` and the requests for content (`GapJobs`, `BatchJobs`) |
| `interactions.py` | `SelfReport`, `AnswerProbe`, `SkipProbe` with `Evidence`, `Promoted`, `Rescheduled` |
| `presentation.py`, `/complete`; `/finish` | `Complete`, `Finish` with `Finalized`, `Climbed`, `Ignored`, `Deferred`, `Refreshed` |
| `content_flag.py` | `Flag` with `Recounted` |
| `study_session.py` | `Start`, `Resume`, `Tick` |
| `generate_sentence_batch.py`, `explain_item.py`, `review_context.py` | `GenerateBatch`, `ExplainItem`, `GenerateReviewContext`, in the order in which they were asked for |

*Abstracted.* A sentence's explanations come together; a generation job stores one sentence, or
none; the words of equal standing come in the order of their ids where the code has level, frequency
and id; what FSRS answers is any interval of a small set per signal. `_expire_idle_session` only
sets `ended_at`. Whether the provider refuses is `JobQueue`'s matter: a job here may store nothing.

### Run

`learning_loop`: two words of one language, of which one is seen as unknown or uncertain and the
other as known; two seeded sentences, one with both words that lacks an explanation, and room for a
generated one; two sessions, three screens, two half days, one flag after the second screen; the
worker runs between sessions. These bounds are what it takes for an item to climb the ladder and
fall, for a deferred review to come due, for a probe to be asked after an exposure without an
answer, for an anchor to be quarantined and another to be taken, for a context to be asked for, and
for a generated sentence to be shown. With `FlagAt` and `Used` a run chooses which cases it is
about; they restrict inputs only.

| property | why it could fail |
| --- | --- |
| `PoolIsShowable` | a flag, or an explanation not there yet, under a ready candidate |
| `ReviewIsTimely` | a candidate made for a reason that an answer has moved since |
| `ScheduleNeedsPromotion` | evidence from three places, of which one schedules |
| `StageIsEarned`, `StageFallsOnFailure` | the shown stage is not the current one |
| `CacheNeverOvercounts` | completion and flag recount at different moments |
| `ProbesAreSpaced` | pacing is rebuilt from the session's rows at every screen |
| `ContextsAreNew`, `AnchorIsKept` | anchors are resolved lazily, and quarantined |
| `StarvingAsksForContent` | the day in the key, and gaps that are noted only where a plan is tried |

`StarvingAsksForContent` names the three ways in which the code passes over a due item, and holds
for all others: *stranded*, when the item is at `varied` or `new_context` and its anchor is
quarantined or was never resolved (`selection.py` 876-906 returns before it notes a gap), although
`06_LEARNING_ENGINE.md:369` describes the request for a context; *crowded*, when its sentence is
held by an active candidate of the same stage that it cannot join and whose own targets are not due;
and *foreign*, when one of its sentences was made in the other language (below). It says nothing of
a request whose materialization fills a whole batch: `_review_plans` does not ask whether an item
rests, so the batch can consist of candidates none of which can be shown now, and the due item behind
them is planned only by the next request, which passes over them.

### Proofs

For any items, corpus, policy, bounds and intervals, from the named assumptions alone: items are
positive numbers and finitely many, the corpus consists of sentences with items, there is at least
one half day, a batch holds at least one sentence, and so on.

*The operators* (`LearningLoopPlans`). What can be said about a plan without knowing the history:
it picks only sentences that are ready for the item, selection returns a candidate that is in the
pool and usable, the worker is asked only for contexts that are new, what is sorted or filtered is
what was there. `Filtered` and `Sorted` (`Lists`) take the set of what is kept and the relation that
orders, where `SelectSeq` and `SetToSortSeq` take operators: a lemma about those could not be cited.

*The fold.* `Materialized` goes through the items one by one. `Recursion` says that a recursive
function over `0..n` exists, `RecursionStays` that it stays in a set that each of its steps stays
in; both come from `NatSet`, induction stated for a set in place of a predicate,
which follows from the well-foundedness of the numbers. The set for `Materialized` (`AccOK`) is the
pools that are typed and showable, with anchors in sentences of their items and gaps that only new
contexts can fill.

*The record* (`LearningLoopProofs`). `RecordInv` joins to the types, `PoolIsShowable` and
`ContextsAreNew`: an open session has a number (`SessionInv`), nothing refers to a sentence that is
not there yet (`BlankInv`), what was shown had its explanations (`ShownInv`), anchors are in sentences
of their items (`AnchorInv`). A ready candidate stays showable because content only grows and a flag
takes the candidates with the sentence (`ContentStep`).

*The history.* `HistoryStep` shows every action to be one of five as far as
the presentations are concerned: nothing happens on a screen, a candidate is shown, something is
said, a screen is completed, a screen is flagged. `HistoryInv` adds that only the last screen of a
session is open (`OrderInv`) and has exposed nothing yet (`FreshInv`), and from this
each property is inductive over the five: who has a schedule was promoted (`PromotedInv`), the cached
count is at most the exposures that count (`CountInv`), a stage has its screens (`StageIsEarned`),
probes keep their distance (`ProbesAreSpaced`). The three action properties follow from the same
steps.

*What is asked for* (`StarvingAsks`). `StarvingAsksForContent` is about what the fold leaves out, so it
is not enough to know what each step keeps. `LearnerInv` adds to the record that an item with a
schedule is being learnt (`ActiveInv`: the answer that writes the row promotes, in the same
transaction) and that a review has a reason (`Reasoned`). The argument then follows the code:

- a due item is among those that its role is planned for: review if it was exposed, else new
  (`PlannedCovers`, from `SortedCovers`: `Sorted` leaves nothing out);
- its plan has a sentence, or a gap, or nothing is ready for it, or it is stranded (`DueIsPlanned`,
  `NewIsPlanned`);
- a step of the fold puts a candidate with the plan's key into the pool unless the batch is full
  (`PulledCovers`), and no later step takes one out or changes its key (`GoesOn`, `Later`,
  `RunGoesOn`); hence a materialization that made less than a batch has met every due item
  (`Met`, `MaterializedMeets`);
- when no role finds anything, no candidate of this language is new or a review with a usable target
  (`NothingIsFound`, `NoReviewSelected`, `NoNewSelected`), so what stands for the item is foreign or
  crowded (`MetIsNotSelected`);
- every gap and every role's batch has its key asked for today (`GapIsAsked`, `AskCovers`).

The property was first stated without *foreign*, *crowded* and the full batch, and TLC accepted it:
the instance of the run needs none of them. It was looking for the proof that brought them up.

*Found on the way, without a run.* `_role_targets` picks the words of a batch from all languages
while the job has the session's (`replenishment.py:78-80` says otherwise), so a provider that uses
such a word puts a target of one language into a session of the other. `ContextsAreNew` shows that
the `near_original` stage always shows the anchor itself: the branch that compares similarity is
never reached through it. A candidate with two targets shows again a word whose review was deferred.
`_review_plans` does not ask whether an item rests before it plans a reinforcement; the second look
at selection does. A flag withdraws the exposures of its presentation, where
`06_LEARNING_ENGINE.md:398` speaks of the sentence's. A `review_states` row that is made after its
item was exposed starts with a count of 0; hence `CacheNeverOvercounts` is an inequality.

---------------------------------------------------------------------------------------

## 5. The page: StudyApp, DemoTour, KanaRound

### State and actions

`StudyApp` is one browser page. An answer runs the code behind its `await` up to the next one, so
that delivering an answer is one action, with everything the code does until it sends again:
`Awaited` is the check of the screen's signal that comes first. The actions are what the learner
does (open the area, log in, choose a language, tap, report, extend, go on, finish, retry, leave),
what the server does with a request (`Handle`), the delivery of its answer (`Deliver`), the loss of
a request or an answer (`Lose`), the expiry of the auth session, and another tab or device that ends
the open session and may open one (both bounded together by `MaxTrouble`). `Sent` is `dedupe`: a
request in flight is shared by everybody who asks the same, and the model keeps the newest of them:
an earlier one has left its screen, or is the same retry button, and the effect is the same. Each
button of a notice has an action of its own (`RetryNow`, `StartNew`, `LoadAgain`, `ContinueOther`,
`FinishAndSwitch`); `study.chosen` is the language that `startWithLanguage` was last called with,
which is the open session's after "continue", and which "finish and change" then starts. The server
is reduced to what its answers depend on; each request is handled at once, and `StudySession` has what happens inside.

*Left out.* Probe answers, translations and flags, which go through the same `perform` as the tap
and the self-report; `explanation_revealed`, whose answer is not looked at. A finish whose answer
is lost is sent again and is idempotent. Two clicks on the retry of the login area would mount
twice, which is not modelled.

`LocalStore` is the page's copy and the storage's value of one key, the latter in a browser that
keeps it or does not; in kana practice the storage may also run full and have room again
(`StorageTurns`, the `setItem` that throws). `DemoTour` is the tour through the demo:
sentences in order, those with a doubtful word shown once more later, a probe every few sentences,
all of it saved at each step and checked when it is read back. Sentences are numbered from 1.
`KanaRound` is a round over the shuffled characters, with choices whose readings differ, one retry
for a wrong answer, and the counts kept of each character; the page may be loaded anew at any moment
(`KanaReloads`). `given` and `stored` are history variables: the answers given since the counts were
last zero, without those a reload has lost, and those of them that the storage took. Two tabs that overwrite each other's
storage are not modelled.

### Runs

| run | instance | shows |
| --- | --- | --- |
| `app` | study: one language, two values to report, two screens in a row, two sessions, one sentence each, two requests in flight when the learner acts, one press of "+5 minutes", two reports, one trouble; demo: four sentences with three words; kana: three characters, two with one reading | see below |
| `app_language` | two languages, two troubles | **violated**: finding 5 |

`MCApp` puts the three parts side by side: they share no variable, the run chooses one of them at
the start. Two requests in flight are a report and what the learner does while it is out; two
screens are the one that was left and the one whose request may be joined; one trouble at each place
is a lost request, a lost answer, an expiry or another device. Every client request is sent up to
three times, as in `api.ts`. The bounds let the page come to rest, so deadlock is not checked.

- `ReportedIsRecorded`, `ExtendedOncePerPress`: the key of an event stays the same over all attempts.
- `SentencesDoNotReturn`: it is about completed sentences; a stale shared answer to `GET /session`
  may say that nothing is open, and the open sentence comes back after a new start.
- `LeftScreenIsSilent`: nothing is sent for a screen that was left, and no late answer leads away
  from home.
- `StaleSentenceLeaves` (liveness): a sentence whose session ended elsewhere does not stay.
- `DemoIsKept`, `DemoMovesOn`: a reload finds what the page had, if the storage works; every sentence
  is shown at most twice and the tour goes on.
- `KanaAddsUp`: the result of a round and its retries agree at every moment (`KanaRoundAddsUp`), and
  the kept counts are the answers given, over rounds that were given up, reloads and a storage that
  is full at times (`KanaCountsAreKept`); a reload costs what was answered since the last write that
  the storage took, and no more.

*Fairness.* The server handles requests and answers arrive (weak fairness of `Handle` and
`Deliver`): the browser ends each request, with a failure if need be, and losses are bounded. A
learner who is on the study screen and may go on does so in the end (weak fairness of
`PressNext`); it is the learner's own step and is needed by `StaleSentenceLeaves` alone.

### Proofs

*Kana and the demo* (`FrontendProofs`), for any finite pool with enough readings, and any fixture.
A round is its first questions, each once, then the wrong answers in their order (`AddsUp`): the
length, the number of right answers and the retries follow one from the other, so
`KanaRoundAddsUp` holds at every moment, not only at the result. The counts are valid for
`isKanaProgress` wherever they lie (`CountsWell`), so that none is dropped when it is read back, and
the page's copy and the storage's are the two histories: `KanaCountsAreKept`. A demo progress is taken apart into
where it is (`Placed`), which probe was asked (`Asked`) and what waits to be shown again (`Queued`),
which is what `isProgressOf` checks; each step keeps all three, so a reload finds them. `DemoRest`, the
number of screens still to come, is a natural number that "next" makes smaller and nothing else makes
larger.

*The study screen* (`StudyAppProofs`), for any languages, values and bounds; that `None` is
no language or value (`AppAssumption`) is all it assumes. What an answer does depends on
what else is on the wire; `PageInv` says what can be:

- every request serves what waits for it, and names sessions and sentences that exist (`Sound`);
- no two requests ask for the same (`NoTwins`): `dedupe` sees to it;
- the flow of the screen waits for at most one answer, and is at the step that sent it (`OneStep`);
  hence no two answers can both move the screen;
- only the study screen shows a sentence, of a session it knows (`Refers`), and a panel belongs to
  one (`Holds`).

The properties then have small invariants of their own. `KeyInv`: the keys of extensions are among
the presses so far. `ToldInv`: requests with one key say the same about the same word, and a row says
under a key what its request says, however often it was sent. `GoneInv`: a sentence that left the
screen is completed and in no answer on its way; while a sentence is shown, its session is not
asked for the next one, so that no late answer to `/next` can bring it back. `LeftScreenIsSilent` is
proved from `PageInv` step by step. `StaleSentenceLeaves` is liveness and stays with TLC.

### Finding

5. **The screen takes over a session in another language** (`study.ts:495`). On the way to the
   next sentence `refreshSession` takes whatever `GET /session` returns. If another device has
   meanwhile ended the session and opened one in the other language, the screen goes on with it;
   the comment at `study.ts:28` says that the screen's language is fixed by its argument and that the
   learner gets two choices, which only the start of the screen offers.

---------------------------------------------------------------------------------------

## 6. SeedContent

### State and actions

A script is a process with one step for each SELECT and one for the commit of its writes;
`run[p]` is what it has read so far. Within a transaction of the loader every SELECT sees what is
committed when it runs (READ COMMITTED), so reading the items (`LoadSeesItems`), the sentences,
the greatest order and the equal hashes are four steps, between which anything may commit. The
commit is refused where a unique index on `seed_id` would be violated: such a load can only be
given up (`Stops`), which is also a killed script, a lost connection and a failed backup.

    load      LoadParses -> LoadSeesItems -> LoadSeesSentences [-> LoadSeesOrder]
                         -> LoadChecksHashes -> LoadCommits
    ids       BackfillStarts -> BackfillSeesItems -> BackfillSeesSentences -> BackfillWrites
    furigana  RubyStarts -> RubyWrites

`Directories[l]` are the states that `seed/<l>` has had; any of them may be loaded or used for the
backfill at any time, in any order. The database is empty at first or holds what was loaded before
migration 0005: Japanese rows without ids and without furigana (`Unkeyed`).

*Abstracted.* What a field must look like (`sound`), the place of a span in its text (`fits`, and
`area` for what overlaps), the normal form of a text (`Normal`), the analyzer (`Failures`: it may
fail for a set of texts). What changes an entry under its own id is left out: the load skips such an
entry, as `04_DB_SPEC.md:1012-1015` says.

### Runs

| run | instance | shows |
| --- | --- | --- |
| `content_comes_in` (with JobQueue, section 2) | 2 scripts and the worker; 3 Japanese directories and an English one; the database empty or loaded before there were ids | nothing is there twice, a load that ends well is whole, rows are only completed |

`MCContent` puts this instance beside one of `JobQueue`: the two share no variable, and the first
state chooses one of them.

*Bounds.* Two scripts are what can race for one key, one order or one row. A third would find what
two left. Of the Japanese directories one adds an item in front and a sentence about an old and a new
item, so that references go across loads; one has its items exchanged, which the backfill must see,
and a sentence with overlapping spans, which the load must refuse. The worker stores one text, another
way to write the new sentence's. Scripts are symmetric. Furigana is missing only in the rows of an old
database (`Failures` is never there): that is what two backfills of it race for.

The directories have one history: of two of a language, one has the ids of the other. For two that
have not, `NothingTwice` is false when they are loaded at once, for `seed_order` (see the hazard at
`seed_loader.py:654`).

No liveness is stated: an operator may stop a script at any step and never start it again.

The backfill works for one language only (`backfill_seed_id.py:148`). It compares a directory with
the seed rows of all languages: as soon as there are two, two items have one `seed_order` and there
are more sentences than in the file, so that every directory is refused, although the script's text
says that other languages are passed with `--seed-dir` (`:29`). The documented procedure
(`04_DB_SPEC.md:1238`) runs it before English is loaded; if English was loaded first, the
Japanese rows cannot get their ids, and no Japanese load can be added (the hashes collide). Nothing
wrong is written: `BackfillSeesSentences` refuses in the model as in the code.

### Proofs

For any scripts, directories, old rows and texts, from three assumptions on the constants: there are
two languages (`LanguagesAssumption`), the files hold lists of entries and no entry is called NULL
(`FilesAssumption`), and the old rows come from a state of the Japanese directory that had passed the
loader's checks (`LegacyAssumption`).

- `RowsAreCompleted`: `RowsStay`, from these alone. No script removes a row or changes one but to
  fill in an id or the furigana that was missing.
- `NothingIsTwice` and `LoadsAreWhole`: `NothingTwice` and `LoadedWhole`, for directories of one
  history (`OneHistory`): an id keeps its content for ever and is used in one language only, the same
  content has the same id, of two states of a directory one has all the item ids of the other, and
  none has been without sentences. This is how the files are kept (`04_DB_SPEC.md:141`, `seed/README.md:28`), and the two directories of the repository are such
  (200 items under
  `seed/ja`, 300 under `seed/en`). TLC evaluates it for the instance of the run
  (`HistoryAssumption`).

The inductive invariant, `SeedInv`, relates the tables and every running script to them. A
script's view is old by the time it commits; what makes that harmless is that rows are only added and
completed (`Grown`). So what a script has read is a lower bound of what is there: an item it
saw is still there and has at least the id it had (`Loading`, `Backfilling`). What it did *not* see is
the difficulty. Either another load has inserted it since, and then the unique key on `seed_id`
refuses the commit; or nothing has been inserted, and the greatest order is still what the script read
(`Ahead`: a load has nothing to insert, or a key that is taken, or the greatest order). And as long
as there are rows without ids, sentences of the old files are among them (`Old`), so a Japanese load
finds their hashes and writes nothing. `SeedNextStep` has one lemma per action.

`SeedInv` was checked on the run's instance (216 495 states) before it was proved.

---------------------------------------------------------------------------------------

## 7. What is proved, checked, and left out

| property | TLC | TLAPS |
| --- | --- | --- |
| `JobQueue!TypeOK`, `AtMostOneExecution`, `RowFollowsWorker`, `ContentOnlyWithCompletion`, `FailedAfterHalfTheBudget`, `ImplementsLifecycle`, `NeverTooManyRuns`, `NoDuplicateText` (single worker) | ✓ | ✓ |
| `JobQueue!AttemptBudget`, `TerminalIsFinal` (consequences of the refinement) | | ✓ |
| `JobQueue!EveryJobEnds` (liveness) | ✓ | |
| `StudySession!TypeOK`, `OneOpenPresentation`, `FinishLeavesNothingOpen`, `NothingShownAfterEnd`, `OneEvidence`, `ExtendedOncePerKey`, `CompletionIsWhole`, `FlaggedIsWithdrawn` | ✓ | ✓ |
| `LearningLoop!TypeOK`, `PoolIsShowable`, `ContextsAreNew`, `ScheduleNeedsPromotion`, `CacheNeverOvercounts`, `StageIsEarned`, `ProbesAreSpaced`, `ReviewIsTimely`, `AnchorIsKept`, `StageFallsOnFailure`, `StarvingAsksForContent` | ✓ | ✓ |
| `StudyApp!AppTypeOK`, `ExtendedOncePerPress`, `ReportedIsRecorded`, `LeftScreenIsSilent`, `SentencesDoNotReturn` | ✓ | ✓ |
| `StudyApp!StaleSentenceLeaves` (liveness) | ✓ | |
| `SeedContent!NothingTwice`, `LoadedWhole` (directories of one history), `RowsStay` | ✓ | ✓ |
| `DemoTour!DemoIsKept`, `DemoMovesOn`, `KanaRound!KanaAddsUp` | ✓ | ✓ |

Liveness under fairness and `ENABLED` are beyond the prover and stay with TLC. The induction theorems of
the library take a predicate, which the provers cannot instantiate; where an induction over data is
needed it is stated for a set (`NatSet`, `Recursion`, `RecursionStays`), and that is enough for what a
fold *keeps*, and for what its later steps do not take back. That a fold *computes* a closed form on
every input is not proved anywhere. No module holds a `RECURSIVE` operator.

Every property of a passing run has a *mutant*: a definition changed the way a plausible bug would
change it, under which TLC finds the property violated. They are the definitions in the modules
that no other definition uses, next to the one they replace (`NextUnlocked` before `NextEnter`,
for example), and are listed in `PROJECT.json`.

*Not modelled.* The sums behind the daily ceiling (a free choice in `JobQueue`); the unlocked
counters of two sessions that are in use at once; passwords and tokens; prompts, the provider's
client and the checks of a generated text; the FSRS library; furigana and rendering; prompts, the
other scripts and migrations. The first two are in the plan; the others hold no state that steps could disagree
about, or work on text character by character.

---------------------------------------------------------------------------------------

## 8. Plan

1. **JobQueue**, refining `JobLifecycle`. Done, with proofs.
2. **StudySession.** Done, with proofs of all its properties.
3. **LearningLoop.** Done, with proofs of all its properties.
4. **StudyApp**, **DemoTour**, **KanaRound.** Done, with proofs.
5. **SeedContent.** Done, with proofs.
6. **LearnerState.** The rows of one item under two sessions of a user (two tabs that start at the
   same time): unlocked counters, the copy the ladder is computed from, and the order in which
   handlers take the locks of `user_mastery`, `user_item_learning_state` and `review_states`.
7. **Usage in JobQueue.** `record_usage`, `daily_usage` and `ceiling_reached` in place of the free
   choice `CeilingStops`, in the instance of `content_comes_in`: every paid call is counted, the
   overshoot is bounded by what is in flight.
8. **A timed variant of the lease**, refining `LeaseRunsOut`.
