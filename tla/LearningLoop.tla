---------------------------- MODULE LearningLoop ----------------------------
(***************************************************************************)
(* What one learner sees next, and what is learnt from it.                 *)
(*                                                                         *)
(*   backend/app/learning/selection.py     Ready Pool and selection        *)
(*   backend/app/learning/exploration.py, probe.py, exposure.py,           *)
(*   backend/app/learning/mastery.py, progression.py                       *)
(*   backend/app/srs/review.py             the FSRS schedule               *)
(*   backend/app/services/presentation.py, interactions.py,                *)
(*   backend/app/services/content_flag.py, study_session.py                *)
(*   backend/app/jobs/replenishment.py     what the worker is asked for    *)
(*   backend/app/jobs/generate_sentence_batch.py, explain_item.py,         *)
(*   backend/app/jobs/review_context.py, persistence.py                    *)
(*                                                                         *)
(* Requests follow one another here: how they race is StudySession's, and  *)
(* how a job is claimed and retried is JobQueue's. Time passes in ticks of *)
(* half a day, the deferral of an unanswered review; dates are UTC days.   *)
(* Identifiers are numbers because the code orders by them.                *)
(***************************************************************************)
EXTENDS LearnerRules

CONSTANTS
    Items,          \* learning_items.id
    LangOf,         \* the language of each item
    Corpus,         \* the seeded sentences: [lang, items, explained], by id
    MaxSentence,    \* bound: sentences, seeded and generated
    MaxShown,       \* bound: presentations
    MaxSession,     \* bound: study sessions
    MaxTick,        \* bound: half days
    MaxReports,     \* bound: self-reports on one screen
    FlagAt,         \* bound: the one flag comes after this many presentations
    WorkerAlways,   \* bound: FALSE keeps the worker to the time between sessions
    Used,           \* bound: the signals the learner gives about each item
    Interval,       \* ticks until the next review FSRS may give each signal
    Ratios,         \* the category mix
    BacklogRatios,  \* the category mix of a learner with a backlog
    BacklogThreshold,
    Share,          \* the share of reviews owed to reinforcement
    MinExposures,   \* minimum_meaningful_exposures
    BatchSize,      \* candidates of a role one materialization may make
    MaxTargets,     \* max_new_items_per_sentence
    PerBatch,       \* items one generation job is about
    MaxProbes,      \* probes in a session
    ProbeGap,       \* presentations between two of them
    Passive,        \* silent exposures that make an item worth asking about
    Cooldown,       \* ticks an answered or skipped probe rests
    Recently        \* ticks an exposed item is not explored

Langs == {LangOf[i] : i \in Items}
Sentences == 1..MaxSentence
Ticks == 1..MaxTick

ASSUME ItemsAssumption == Items \subseteq Nat \ {0} /\ IsFiniteSet(Items)
ASSUME CorpusAssumption ==
    Corpus \in Seq([lang : Langs, items : SUBSET Items, explained : BOOLEAN])
ASSUME BoundsAssumption ==
    /\ {MaxSentence, MaxShown, MaxSession, MaxReports, FlagAt} \subseteq Nat
    /\ MaxTick \in Nat \ {0}
    /\ WorkerAlways \in BOOLEAN
    /\ Len(Corpus) <= MaxSentence
ASSUME SignalsAssumption ==
    Used \in [Items -> SUBSET Signals] /\ Interval \in [Signals -> SUBSET Nat]
ASSUME PolicyAssumption ==
    /\ {Ratios, BacklogRatios} \subseteq [Roles -> Nat] /\ Share \in Nat
    /\ {MinExposures, BatchSize, MaxTargets, PerBatch, ProbeGap} \subseteq Nat \ {0}
    /\ {MaxProbes, Passive, Cooldown, Recently, BacklogThreshold} \subseteq Nat

VARIABLES
    now,        \* the current half day
    sentences,  \* [status, lang, items, explained, parent]
    learn,      \* user_item_learning_state of each item
    mastery,    \* user_mastery, as the observation it is closest to
    review,     \* review_states of each item
    pool,       \* ready candidates, in the order of their ids
    shown,      \* study_presentations with their events and exposures
    session,    \* the last study session
    asked,      \* the idempotency keys that hold today's date
    pending     \* the jobs the worker has not worked off, oldest first

learnerVars == <<learn, mastery, review>>
jobVars == <<asked, pending>>
vars == <<now, sentences, learnerVars, pool, shown, session, jobVars>>

Today == now \div 2

Unborn == [status |-> "unborn", lang |-> "", items |-> {}, explained |-> TRUE,
           parent |-> 0]
Seeded(s) == [Unborn EXCEPT !.status = "validated", !.lang = Corpus[s].lang,
                            !.items = Corpus[s].items,
                            !.explained = Corpus[s].explained]

NotLearnt == [active |-> FALSE, anchor |-> 0, stage |-> Anchor, silent |-> 0,
              asked |-> 0]
NoRow == [row |-> FALSE, next |-> 0, hidden |-> 0, count |-> 0]

Init ==
    /\ now = 1
    /\ sentences = [s \in Sentences |->
                      IF s <= Len(Corpus) THEN Seeded(s) ELSE Unborn]
    /\ learn = [i \in Items |-> NotLearnt]
    /\ mastery = [i \in Items |-> NotMeasured]
    /\ review = [i \in Items |-> NoRow]
    /\ pool = <<>>
    /\ shown = <<>>
    /\ session = [id |-> 0, open |-> FALSE, lang |-> "", stale |-> FALSE]
    /\ asked = {}
    /\ pending = <<>>

Candidate == [role : Roles, reason : Reasons \cup {NoReason}, stage : Stages,
              sentence : Sentences, targets : SUBSET Items]
Job == [kind : {"batch"}, role : Roles, lang : Langs]
       \cup [kind : {"explain"}, sentence : Sentences]
       \cup [kind : {"context"}, item : Items, stage : Stages,
             anchor : Sentences, lang : Langs]

\* The idempotency keys without their date: the anchor of a context job is not
\* part of its key.
JobKey(j) ==
    CASE j.kind = "batch" -> <<"batch", j.role, j.lang>>
      [] j.kind = "explain" -> <<"explain", j.sentence>>
      [] j.kind = "context" -> <<"context", j.item, j.stage>>

\* A candidate that was shown, and what has happened on the screen.
Presentation ==
    [role : Roles, reason : Reasons \cup {NoReason}, stage : Stages,
     sentence : Sentences, targets : SUBSET Items, session : 1..MaxSession,
     said : [Items -> Signals \cup {NoSignal}], probe : Items \cup {0},
     closed : BOOLEAN, exposed : SUBSET Items, done : 0..MaxTick,
     flagged : BOOLEAN]

ContentTypeOK ==
    sentences \in [Sentences ->
        [status : {"unborn", "validated", "quarantined"},
         lang : Langs \cup {""}, items : SUBSET Items, explained : BOOLEAN,
         parent : 0..MaxSentence]]

LearnerTypeOK ==
    /\ learn \in [Items -> [active : BOOLEAN, anchor : 0..MaxSentence,
                            stage : Stages, silent : 0..Passive,
                            asked : 0..MaxTick]]
    /\ mastery \in [Items -> 0..3]
    /\ review \in [Items -> [row : BOOLEAN, next : Nat, hidden : Nat,
                             count : Nat]]

TypeOK ==
    /\ now \in Ticks
    /\ ContentTypeOK
    /\ LearnerTypeOK
    /\ pool \in Seq(Candidate)
    /\ shown \in Seq(Presentation)
    /\ session \in [id : 0..MaxSession, open : BOOLEAN, lang : Langs \cup {""},
                    stale : BOOLEAN]
    /\ asked \subseteq {JobKey(j) : j \in Job}
    /\ pending \in Seq(Job)

-----------------------------------------------------------------------------
(* Reading the rows *)

\* _valid_exposure_count, count_valid_exposures
Exposures(i) == Cardinality({p \in DOMAIN shown : i \in shown[p].exposed})

\* exposed_recently
ExposedRecently(i) ==
    \E p \in DOMAIN shown : /\ i \in shown[p].exposed
                            /\ shown[p].done + Recently >= now

\* _ReviewTarget.eligible, due
Eligible(i) == review[i].hidden <= now
Due(i) == Eligible(i) /\ review[i].next <= now

\* order_key: next_review_at, mastery with NULL lowest, id
Precedes(i, j) ==
    \/ review[i].next < review[j].next
    \/ /\ review[i].next = review[j].next
       /\ \/ mastery[i] < mastery[j]
          \/ mastery[i] = mastery[j] /\ i < j

ByReview == {ij \in Items \X Items : Precedes(ij[1], ij[2])}
ById == {ij \in Items \X Items : ij[1] < ij[2]}

\* _examined_sentence_ids: whatever the language of the sentence
Examined(i, seen) ==
    {s \in Sentences \ seen : /\ sentences[s].status = "validated"
                              /\ i \in sentences[s].items}

\* study_presentations.sentence_id
Seen == {shown[p].sentence : p \in DOMAIN shown}

\* _ready_sentences: every tappable item of it has an explanation
ReadyUnexplained(i, seen) == Examined(i, seen)
Ready(i, seen) == {s \in Examined(i, seen) : sentences[s].explained}

Quarantined(s) == sentences[s].status = "quarantined"

InSession == {p \in DOMAIN shown : shown[p].session = session.id}

\* eligible_exploration_targets
Unexplored(i) == /\ mastery[i] = NotMeasured
                 /\ ~learn[i].active
                 /\ ~ExposedRecently(i)

-----------------------------------------------------------------------------
(* Plans: what materialization would make of an item *)

\* The sentence of a stage, and the anchor to record (0: none).
NoPick == [sentence |-> 0, anchor |-> 0]

\* _resolve_anchor: only a quarantined anchor is replaced.
ResolvedToFirst(i, anchor) ==
    LET ready == Ready(i, {})
    IN  IF ready = {} THEN NoPick
        ELSE [sentence |-> Least(ready), anchor |-> Least(ready)]
ResolvedAnchor(i, anchor) ==
    LET ready == Ready(i, {})
    IN  IF anchor \in ready THEN [sentence |-> anchor, anchor |-> 0]
        ELSE IF \/ anchor # 0 /\ ~Quarantined(anchor)
                \/ ready = {} THEN NoPick
        ELSE [sentence |-> Least(ready), anchor |-> Least(ready)]

\* The sentences a stage may not show again.
SeenAt(stage) == IF stage \in {Varied, NewContext} THEN Seen ELSE {}

\* near_original: the first of the anchor and what was made from it
NearSentenceDerived(i, resolved) ==
    LET near == {s \in Ready(i, {}) : sentences[s].parent = resolved.sentence}
    IN  IF near = {} THEN NoPick ELSE [resolved EXCEPT !.sentence = Least(near)]
NearSentence(i, resolved) ==
    IF resolved = NoPick THEN NoPick
    ELSE [resolved EXCEPT !.sentence =
            Least({s \in Ready(i, {}) : \/ s = resolved.sentence
                                        \/ sentences[s].parent = resolved.sentence})]

\* varied and new_context: the first of the others that was never shown
FarSentence(far) ==
    IF far = {} THEN NoPick ELSE [sentence |-> Least(far), anchor |-> 0]

\* _stage_sentence
StageSentence(i, stage, anchor) ==
    CASE stage = Anchor -> ResolvedAnchor(i, anchor)
      [] stage = NearOriginal -> NearSentence(i, ResolvedAnchor(i, anchor))
      [] stage \in {Varied, NewContext} ->
           FarSentence(Ready(i, SeenAt(stage)) \ {anchor})

\* _needs_context_repair: the last failure that still counts happened higher
\* up the ladder, and the current stage has not been shown since.
NeedsRepair(i) ==
    LET failures == {p \in DOMAIN shown : /\ shown[p].said[i] = "unknown"
                                          /\ i \in shown[p].exposed}
        last == Greatest(failures)
    IN  /\ failures # {}
        /\ learn[i].stage < shown[last].stage
        /\ \A p \in DOMAIN shown : p > last /\ i \in shown[p].exposed
                                     => shown[p].stage # learn[i].stage

\* _review_reason_for
ReviewReason(i) ==
    CASE NeedsRepair(i) -> "context_repair"
      [] ~NeedsRepair(i) /\ Due(i) -> "fsrs_due"
      [] ~NeedsRepair(i) /\ ~Due(i) /\ Exposures(i) < MinExposures ->
           "reinforcement"
      [] OTHER -> NoReason

NoPlan == [sentence |-> 0, anchor |-> 0, stage |-> Anchor, reason |-> NoReason,
           explain |-> {}, context |-> {}]

\* `explain': _missing_explanation_items, of the sentences looked at
PlanFrom(i, seen, stage, reason, pick) ==
    [sentence |-> pick.sentence, anchor |-> pick.anchor, stage |-> stage,
     reason |-> reason, explain |-> Examined(i, seen) \ Ready(i, seen),
     context |-> {}]

\* _record_review_context_gap
ContextGapUnanchored(i, stage, anchor) ==
    IF anchor # 0 THEN {} ELSE {[item |-> i, stage |-> stage, anchor |-> anchor]}
ContextGap(i, stage, anchor) ==
    IF anchor = 0 \/ Quarantined(anchor) THEN {}
    ELSE {[item |-> i, stage |-> stage, anchor |-> anchor]}

\* _review_plans, for one item
ReviewPlan(i, anchor) ==
    LET stage == learn[i].stage
        Planned(reason, pick) ==
            [PlanFrom(i, SeenAt(stage), stage, reason, pick) EXCEPT !.context =
               IF pick = NoPick THEN ContextGap(i, stage, anchor) ELSE {}]
        Reasoned(reason) ==
            IF reason = NoReason THEN NoPlan
            ELSE Planned(reason, StageSentence(i, stage, anchor))
    IN  IF Exposures(i) = 0 THEN NoPlan ELSE Reasoned(ReviewReason(i))

\* _new_plans, for one item
NewPlan(i, anchor) ==
    IF Exposures(i) > 0 THEN NoPlan
    ELSE PlanFrom(i, {}, Anchor, NoReason, StageSentence(i, Anchor, anchor))

\* _exploration_plans, for one item: _first_unseen_sentence
ExplorationPlan(i) ==
    LET ready == Ready(i, Seen)
        pick == IF ready = {} THEN NoPick
                ELSE [sentence |-> Least(ready), anchor |-> 0]
    IN  PlanFrom(i, Seen, Anchor, NoReason, pick)

PlanOf(role, i, anchor) ==
    CASE role = "review" -> ReviewPlan(i, anchor)
      [] role = "new" -> NewPlan(i, anchor)
      [] role = "exploration" -> ExplorationPlan(i)

\* The items a role is planned for, in order.
PlannedItems(role, lang) ==
    LET mine == {i \in Items : LangOf[i] = lang}
    IN  CASE role = "review" ->
               Sorted({i \in mine : review[i].row}, ByReview)
          [] role = "new" -> Sorted({i \in mine : learn[i].active}, ById)
          [] role = "exploration" ->
               Sorted({i \in mine : Unexplored(i)}, ById)

-----------------------------------------------------------------------------
(* Candidate materialization *)

\* The partial unique index on queued and ready candidates.
SameKey(c, role, sentence, stage) ==
    c.role = role /\ c.sentence = sentence /\ c.stage = stage

\* A materialization under way: `made' counts the candidates of this role
\* from `base' on, `full' stops the generator.
Begun(acc) == [acc EXCEPT !.base = Len(acc.pool), !.full = FALSE]

\* The gaps and the anchor of a plan are kept even when nothing is made of it.
Noted(acc, i, plan) ==
    [acc EXCEPT !.anchor[i] = IF plan.anchor # 0 THEN plan.anchor ELSE @,
                !.explain = @ \cup plan.explain,
                !.context = @ \cup plan.context]

\* _insert_target: the item joins the candidate that this run made.
Joined(acc, own, i) ==
    LET q == acc.pool
    IN  [acc EXCEPT !.pool = [k \in DOMAIN q |->
           IF k \in own /\ Cardinality(q[k].targets) < MaxTargets
           THEN [q[k] EXCEPT !.targets = q[k].targets \cup {i}] ELSE q[k]]]

\* _insert_candidate
Created(acc, role, i, plan) ==
    [acc EXCEPT !.pool =
       Append(@, [role |-> role, reason |-> plan.reason, stage |-> plan.stage,
                  sentence |-> plan.sentence, targets |-> {i}])]

\* _create_candidates: one plan, and the candidates that have its key
Inserted(acc, role, i, plan, same) ==
    LET own == {k \in same : k > acc.base}
    IN  IF plan.sentence = 0 THEN acc
        ELSE IF own # {} THEN Joined(acc, own, i)
        ELSE IF Len(acc.pool) - acc.base >= BatchSize
             THEN [acc EXCEPT !.full = TRUE]
        ELSE IF same # {} THEN acc
        ELSE Created(acc, role, i, plan)

Placed(acc, role, i, plan) ==
    Inserted(Noted(acc, i, plan), role, i, plan,
             {k \in DOMAIN acc.pool :
                SameKey(acc.pool[k], role, plan.sentence, plan.stage)})

Pulled(acc, role, i) ==
    IF acc.full THEN acc ELSE Placed(acc, role, i, PlanOf(role, i, acc.anchor[i]))

\* materialize_candidates: one role after another, item by item.
OfRole(acc, role, lang) ==
    LET items == PlannedItems(role, lang)
        after[n \in 0..Len(items)] ==
            IF n = 0 THEN Begun(acc) ELSE Pulled(after[n - 1], role, items[n])
    IN  after[Len(items)]

Unmade == [pool |-> pool, anchor |-> [i \in Items |-> learn[i].anchor],
           explain |-> {}, context |-> {}, base |-> 0, full |-> FALSE]

Materialized(lang) ==
    OfRole(OfRole(OfRole(Unmade, "review", lang), "new", lang),
           "exploration", lang)

-----------------------------------------------------------------------------
(* Selection *)

\* count_backlog
Backlog == Cardinality({i \in Items : /\ review[i].row
                                      /\ LangOf[i] = session.lang
                                      /\ Due(i)})

\* load_counters
Presented(role) == Cardinality({p \in InSession : shown[p].role = role})
Reinforced == Cardinality({p \in InSession : shown[p].reason = "reinforcement"})

\* choose_ratios and rank_categories
Ranked == RankCategories(IF Backlog >= BacklogThreshold THEN BacklogRatios
                         ELSE Ratios,
                         [r \in Roles |-> Presented(r)])

\* _ready_candidates: the language is the sentence's
ReadyOf(q, role) == {k \in DOMAIN q : /\ q[k].role = role
                                      /\ sentences[q[k].sentence].lang = session.lang}

\* The targets that make a review candidate worth showing.
UsableStale(c) == {i \in c.targets : review[i].row}
Usable(c) ==
    {i \in c.targets : /\ review[i].row
                       /\ LangOf[i] = session.lang
                       /\ IF c.reason = "fsrs_due" THEN Due(i) ELSE Eligible(i)}

Dominant(c) == CHOOSE i \in Usable(c) :
                   \A j \in Usable(c) : i = j \/ Precedes(i, j)

\* The order of two candidates with these dominant targets: the targets',
\* then a matching stage, then the id.
BeforeReview(q, k, l, i, j) ==
    LET Fits(c, t) == c.stage = learn[t].stage
    IN  \/ Precedes(i, j)
        \/ i = j /\ Fits(q[k], i) /\ ~Fits(q[l], i)
        \/ i = j /\ (Fits(q[k], i) <=> Fits(q[l], i)) /\ k < l

\* Selections are positions in the pool, 0 for none.
BestReview(q, bucket) ==
    IF bucket = {} THEN 0
    ELSE CHOOSE k \in bucket : \A l \in bucket \ {k} :
            BeforeReview(q, k, l, Dominant(q[k]), Dominant(q[l]))

\* _select_review
SelectReview(q) ==
    LET Bucket(usable, reason) == {k \in usable : q[k].reason = reason}
        Best(usable) ==
            BestReview(q, Bucket(usable,
                ChooseReviewReason({q[k].reason : k \in usable},
                                   Presented("review"), Reinforced, Share)))
    IN  Best({k \in ReadyOf(q, "review") : Usable(q[k]) # {}})

\* _select_exploration: the conditions are checked again
SelectExploration(q) ==
    LET still(k) == {i \in q[k].targets : Unexplored(i)}
        Before(k, l) == \/ Least(still(k)) < Least(still(l))
                        \/ Least(still(k)) = Least(still(l)) /\ k <= l
        First(usable) == IF usable = {} THEN 0
                         ELSE CHOOSE k \in usable : \A l \in usable : Before(k, l)
    IN  First({k \in ReadyOf(q, "exploration") : still(k) # {}})

\* _select_new
SelectNew(q) ==
    LET First(ready) == IF ready = {} THEN 0 ELSE Least(ready)
    IN  First(ReadyOf(q, "new"))

\* _select_for_role
Select(q, role) ==
    CASE role = "review" -> SelectReview(q)
      [] role = "new" -> SelectNew(q)
      [] role = "exploration" -> SelectExploration(q)

\* _reuse_anchor_reinforcement: an anchor already seen, for an item that was
\* not shown often enough.
Reusable(q, i, pick) ==
    /\ review[i].row /\ LangOf[i] = session.lang /\ Eligible(i)
    /\ Exposures(i) < MinExposures
    /\ pick # NoPick
    /\ ~\E k \in DOMAIN q : SameKey(q[k], "review", pick.sentence, Anchor)

ReusedAnchor(q, anchors) ==
    LET pick == [i \in Items |-> StageSentence(i, Anchor, anchors[i])]
        First(fit) == CHOOSE i \in fit : \A j \in fit \ {i} : Precedes(i, j)
        Reused(fit, i) ==
            <<[role |-> "review", reason |-> "reinforcement", stage |-> Anchor,
               sentence |-> pick[i].sentence, targets |-> {i}]>>
        Candidates(fit) == IF fit = {} THEN <<>> ELSE Reused(fit, First(fit))
    IN  Candidates({i \in Items : Reusable(q, i, pick[i])})

\* select_next: the first category, else materialize once and try them all,
\* else an anchor again. `pick' is the position of the choice in `pool'.
Kept(first) ==
    [pool |-> pool, anchor |-> [i \in Items |-> learn[i].anchor],
     explain |-> {}, context |-> {}, pick |-> first]

Refilled(made, q, pick) ==
    [pool |-> q, anchor |-> made.anchor, explain |-> made.explain,
     context |-> made.context, pick |-> pick]

Fallback(made, again) ==
    Refilled(made, made.pool \o again,
             IF again = <<>> THEN 0 ELSE Len(made.pool) + 1)

SelectAfter(made, ranked) ==
    LET selected == [n \in 1..3 |-> Select(made.pool, ranked[n])]
        found == {n \in 1..3 : selected[n] # 0}
    IN  IF found = {} THEN Fallback(made, ReusedAnchor(made.pool, made.anchor))
        ELSE Refilled(made, made.pool, selected[Least(found)])

SelectFirst(ranked, first) ==
    IF first # 0 THEN Kept(first)
    ELSE SelectAfter(Materialized(session.lang), ranked)

SelectNext ==
    LET Choice(ranked) == SelectFirst(ranked, Select(pool, ranked[1]))
    IN  Choice(Ranked)

-----------------------------------------------------------------------------
(* Asking the worker *)

\* _enqueue: a key that was used today is left alone.
Ask(jobs) ==
    LET new == Filtered(jobs, {j \in ToSet(jobs) : JobKey(j) \notin asked})
    IN  /\ asked' = asked \cup {JobKey(new[n]) : n \in DOMAIN new}
        /\ pending' = pending \o new

\* enqueue_materialization_gaps
GapJobs(found, lang) ==
    LET explain == Sorted(found.explain,
                          {st \in Sentences \X Sentences : st[1] < st[2]})
        items == Sorted({g.item : g \in found.context}, ById)
        gap == [n \in DOMAIN items |->
                  CHOOSE g \in found.context : g.item = items[n]]
    IN  [n \in DOMAIN explain |-> [kind |-> "explain", sentence |-> explain[n]]]
        \o [n \in DOMAIN items |->
              [kind |-> "context", item |-> items[n], stage |-> gap[n].stage,
               anchor |-> gap[n].anchor, lang |-> lang]]

\* _request_replenishment
BatchJobs(lang) ==
    [n \in 1..3 |-> [kind |-> "batch", lang |-> lang,
                     role |-> <<"review", "new", "exploration">>[n]]]

\* user_item_learning_state.anchor_sentence_id as materialization left it
Anchored(found) == [i \in Items |-> [learn[i] EXCEPT !.anchor = found.anchor[i]]]

-----------------------------------------------------------------------------
(* Requests of the study screen *)

Active == [session EXCEPT !.stale = FALSE]

\* start_or_resume: the open session while it is not idle
Resume(lang) ==
    \E found \in {Materialized(lang)} :
        /\ session.open
        /\ ~session.stale
        /\ session.lang = lang
        /\ pool' = found.pool
        /\ learn' = Anchored(found)
        /\ Ask(GapJobs(found, lang))
        /\ UNCHANGED <<now, sentences, mastery, review, shown, session>>

\* start_or_resume: a new session, an idle one expiring first. What was open
\* on its screen is neither completed nor shown again.
Start(lang) ==
    \E found \in {Materialized(lang)} :
        /\ session.open => session.stale
        /\ session.id < MaxSession
        /\ session' = [id |-> session.id + 1, open |-> TRUE, lang |-> lang,
                       stale |-> FALSE]
        /\ pool' = found.pool
        /\ learn' = Anchored(found)
        /\ Ask(GapJobs(found, lang))
        /\ UNCHANGED <<now, sentences, mastery, review, shown>>

\* _open_presentation
OnScreen == {p \in InSession : shown[p].done = 0}

\* read_pacing and pacing_allows_probe: the presentation being built does not
\* count.
PacingAcrossSessions ==
    LET probed == {p \in InSession : shown[p].probe # 0}
        since == IF probed = {} THEN DOMAIN shown
                 ELSE {p \in InSession : p > Greatest(probed)}
    IN  Cardinality(probed) < MaxProbes /\ Cardinality(since) >= ProbeGap
PacingAllowsProbe ==
    LET probed == {p \in InSession : shown[p].probe # 0}
        since == IF probed = {} THEN InSession
                 ELSE {p \in InSession : p > Greatest(probed)}
    IN  Cardinality(probed) < MaxProbes /\ Cardinality(since) >= ProbeGap

\* _items_with_session_feedback, _in_cooldown
Askable(i) ==
    /\ \A p \in InSession : shown[p].said[i] = NoSignal /\ shown[p].probe # i
    /\ learn[i].asked = 0 \/ learn[i].asked + Cooldown <= now
    /\ ProbePriority(mastery[i]) # 0

\* select_probe_target
AskedBefore(i, j) ==
    LET rank(k) == <<ProbePriority(mastery[k]),
                     IF learn[k].silent >= Passive THEN 0 ELSE 1, k>>
    IN  \/ rank(i)[1] < rank(j)[1]
        \/ rank(i)[1] = rank(j)[1] /\ rank(i)[2] < rank(j)[2]
        \/ rank(i)[1] = rank(j)[1] /\ rank(i)[2] = rank(j)[2] /\ i <= j

\* choose_probe
ProbeFor(targets) ==
    LET askable == {i \in targets : Askable(i)}
    IN  IF askable = {} \/ ~PacingAllowsProbe THEN 0
        ELSE CHOOSE i \in askable : \A j \in askable : AskedBefore(i, j)

\* next_presentation's new row
Shown(c) ==
    [role |-> c.role, reason |-> c.reason, stage |-> c.stage,
     sentence |-> c.sentence, targets |-> c.targets, session |-> session.id,
     said |-> [i \in Items |-> NoSignal], probe |-> ProbeFor(c.targets),
     closed |-> FALSE, exposed |-> {}, done |-> 0, flagged |-> FALSE]

\* next_presentation: a screen that is open is returned as it is.
NextPresentation ==
    \E choice \in {SelectNext} :
        /\ session.open
        /\ OnScreen = {}
        /\ Len(shown) < MaxShown
        /\ learn' = Anchored(choice)
        /\ session' = Active
        /\ \/ /\ choice.pick # 0
              /\ shown' = Append(shown, Shown(choice.pool[choice.pick]))
              /\ pool' = RemoveAt(choice.pool, choice.pick)
              /\ Ask(GapJobs(choice, session.lang))
           \/ /\ choice.pick = 0
              /\ pool' = choice.pool
              /\ Ask(GapJobs(choice, session.lang) \o BatchJobs(session.lang))
              /\ UNCHANGED shown
        /\ UNCHANGED <<now, sentences, mastery, review>>

\* begin_interaction
Interacting(p) == session.open /\ p \in OnScreen

\* record_explicit_evidence
Measured(i, signal) ==
    \E m \in EmaOutcomes(mastery[i], signal) :
        mastery' = [mastery EXCEPT ![i] = m]

\* record_explicit_review: the row comes into being here, and any answer ends
\* a deferral.
Rescheduled(i, signal) ==
    \E d \in Interval[signal] :
        review' = [review EXCEPT ![i].row = TRUE, ![i].next = now + d,
                                 ![i].hidden = 0]

\* promote_incidental
Promotes(i, signal) == signal \in PromotingSignals /\ ~learn[i].active
Promoted(i, sentence, signal) ==
    IF Promotes(i, signal)
    THEN [learn[i] EXCEPT !.active = TRUE,
                          !.anchor = IF @ = 0 THEN sentence ELSE @]
    ELSE learn[i]

\* _apply_explicit_evidence: mastery, promotion, and the schedule of an item
\* that is on it or is an active target.
EvidenceSchedulesAll(i, signal) ==
    Measured(i, signal) /\ Rescheduled(i, signal) /\ session' = Active
Evidence(i, signal) ==
    /\ Measured(i, signal)
    /\ \/ /\ review[i].row \/ learn[i].active \/ Promotes(i, signal)
          /\ Rescheduled(i, signal)
       \/ /\ ~(review[i].row \/ learn[i].active \/ Promotes(i, signal))
          /\ UNCHANGED review
    /\ session' = Active

\* self_report, on any item of the sentence
SelfReport(p, i, signal) ==
    /\ Interacting(p)
    /\ i \in sentences[shown[p].sentence].items
    /\ shown[p].said[i] = NoSignal
    /\ Cardinality({j \in Items : shown[p].said[j] # NoSignal}) < MaxReports
    /\ shown' = [shown EXCEPT ![p].said[i] = signal]
    /\ Evidence(i, signal)
    /\ learn' = [learn EXCEPT ![i] = Promoted(i, shown[p].sentence, signal)]
    /\ UNCHANGED <<now, sentences, pool, jobVars>>

\* respond_to_probe with a signal: refused when there is evidence already.
AnswerProbe(p, i, signal) ==
    /\ Interacting(p)
    /\ shown[p].probe = i
    /\ shown[p].said[i] = NoSignal
    /\ ~shown[p].closed
    /\ shown' = [shown EXCEPT ![p].said[i] = signal, ![p].closed = TRUE]
    /\ Evidence(i, signal)
    /\ learn' = [learn EXCEPT ![i] =
                   [Promoted(i, shown[p].sentence, signal) EXCEPT
                      !.asked = now]]
    /\ UNCHANGED <<now, sentences, pool, jobVars>>

\* respond_to_probe without one
SkipProbe(p) ==
    LET i == shown[p].probe
    IN  /\ Interacting(p)
        /\ i # 0
        /\ ~shown[p].closed
        /\ shown' = [shown EXCEPT ![p].closed = TRUE]
        /\ learn' = [learn EXCEPT ![i].asked = now]
        /\ session' = Active
        /\ UNCHANGED <<now, sentences, mastery, review, pool, jobVars>>

\* UNKNOWN_SIGNAL_EVENTS on this presentation
FailedWhenSilent(p, i) == shown[p].said[i] \in {"unknown", NoSignal}
Failed(p, i) == shown[p].said[i] = "unknown"

\* _advance_context_stages
Climbed(p, i) ==
    [learn[i] EXCEPT !.stage = AdvancedStage(@, shown[p].stage, Failed(p, i))]

\* _handle_no_signal_targets: what silence does to the item, and how it puts
\* off a review.
Unanswered(p, i) == shown[p].said[i] = NoSignal
Ignored(p, i, state) ==
    IF Unanswered(p, i) /\ state.silent < Passive
    THEN [state EXCEPT !.silent = @ + 1] ELSE state
Deferred(p, i, state) ==
    IF Unanswered(p, i) /\ shown[p].role = "review"
    THEN [state EXCEPT !.hidden = now + 1] ELSE state

\* _refresh_exposure_cache, with the exposure of this presentation
Refreshed(i) == [review[i] EXCEPT !.count = Exposures(i) + 1]

\* finalize_presentation: exposures, their cached count, the ladder, then the
\* targets nothing was said about. A quarantined sentence leaves no trace.
Finalized(p) ==
    LET touched == IF Quarantined(shown[p].sentence) THEN {}
                   ELSE shown[p].targets
    IN  /\ shown' = [shown EXCEPT ![p].done = now, ![p].exposed = touched]
        /\ learn' = [i \in Items |->
             IF i \in touched THEN Ignored(p, i, Climbed(p, i)) ELSE learn[i]]
        /\ review' = [i \in Items |->
             IF i \in touched /\ review[i].row THEN Deferred(p, i, Refreshed(i))
             ELSE review[i]]

\* complete_presentation
Complete(p) ==
    /\ Interacting(p)
    /\ Finalized(p)
    /\ session' = Active
    /\ UNCHANGED <<now, sentences, mastery, pool, jobVars>>

\* finish: completes what is on the screen
Finish ==
    /\ session.open
    /\ session' = [Active EXCEPT !.open = FALSE]
    /\ \/ \E p \in OnScreen : Finalized(p)
       \/ OnScreen = {} /\ UNCHANGED <<shown, learn, review>>
    /\ UNCHANGED <<now, sentences, mastery, pool, jobVars>>

\* _invalidate_exposures: the cached count without the exposure that is lost
RecountedNever(i) == review[i]
Recounted(i) ==
    IF review[i].row THEN [review[i] EXCEPT !.count = Exposures(i) - 1]
    ELSE review[i]

\* flag_content: the sentence is quarantined with its candidates, and the
\* exposures of this presentation no longer count.
Flag(p) ==
    LET s == shown[p].sentence
        lost == shown[p].exposed
    IN  /\ ~shown[p].flagged
        /\ Len(shown) = FlagAt /\ \A q \in DOMAIN shown : ~shown[q].flagged
        /\ shown' = [shown EXCEPT ![p].exposed = {}, ![p].flagged = TRUE]
        /\ sentences' = [sentences EXCEPT ![s].status = "quarantined"]
        /\ pool' = Filtered(pool, {c \in ToSet(pool) : c.sentence # s})
        /\ review' = [i \in Items |-> IF i \in lost THEN Recounted(i)
                                       ELSE review[i]]
        /\ session' = IF shown[p].session = session.id /\ session.open
                      THEN Active ELSE session
        /\ UNCHANGED <<now, learn, mastery, jobVars>>

-----------------------------------------------------------------------------
(* Time and the worker *)

\* Half a day later the open session is idle; at midnight UTC keys are new.
Tick ==
    /\ now < MaxTick
    /\ now' = now + 1
    /\ session' = [session EXCEPT !.stale = session.open]
    /\ asked' = IF (now + 1) \div 2 = Today THEN asked ELSE {}
    /\ UNCHANGED <<sentences, learnerVars, pool, shown, pending>>

\* _new_targets, _review_targets and _exploration_targets: no language
RoleTargets(role) ==
    CASE role = "review" ->
           Sorted({i \in Items : review[i].row /\ Exposures(i) > 0}, ByReview)
      [] role = "new" ->
           Sorted({i \in Items : learn[i].active /\ Exposures(i) = 0}, ById)
      [] role = "exploration" -> Sorted({i \in Items : Unexplored(i)}, ById)

\* _generation_targets: items that no sentence is ready for
GenerationTargets(role) ==
    LET bare == Filtered(RoleTargets(role), {i \in Items : Ready(i, {}) = {}})
    IN  {bare[n] : n \in DOMAIN bare \cap 1..PerBatch}

\* _insert_sentence: the language is the job's, explanations are complete.
Stored(job, items, parent) ==
    \E s \in Sentences :
        /\ sentences[s].status = "unborn"
        /\ \A t \in Sentences : sentences[t].status = "unborn" => s <= t
        /\ sentences' = [sentences EXCEPT
             ![s] = [status |-> "validated", lang |-> job.lang, items |-> items,
                     explained |-> TRUE, parent |-> parent]]

Worked(job) ==
    /\ pending' = Tail(pending)
    /\ UNCHANGED <<now, learnerVars, pool, shown, session, asked>>

\* generate_sentence_batch: a sentence about some of the items, or none
GenerateBatch(job) ==
    /\ job.kind = "batch"
    /\ \/ \E items \in SUBSET GenerationTargets(job.role) :
             /\ items # {} /\ Cardinality(items) <= MaxTargets
             /\ Stored(job, items, 0)
       \/ UNCHANGED sentences
    /\ Worked(job)

\* explain_item: nothing to do, or an explanation, or a rejected one
ExplainItem(job) ==
    /\ job.kind = "explain"
    /\ \/ sentences' = [sentences EXCEPT ![job.sentence].explained = TRUE]
       \/ UNCHANGED sentences
    /\ Worked(job)

\* review_context: nothing is made from a quarantined anchor.
GenerateReviewContext(job) ==
    /\ job.kind = "context"
    /\ \/ /\ ~Quarantined(job.anchor)
          /\ Stored(job, {job.item},
                    IF job.stage = NearOriginal THEN job.anchor ELSE 0)
       \/ UNCHANGED sentences
    /\ Worked(job)

-----------------------------------------------------------------------------
Screen ==
    \/ \E lang \in Langs : Start(lang) \/ Resume(lang)
    \/ NextPresentation
    \/ \E p \in DOMAIN shown :
          \/ \E i \in Items : \E signal \in Used[i] : SelfReport(p, i, signal)
          \/ \E i \in Items : \E signal \in Used[i] : AnswerProbe(p, i, signal)
          \/ SkipProbe(p)
          \/ Complete(p)
          \/ Flag(p)
    \/ Finish

Worker ==
    /\ pending # <<>>
    /\ WorkerAlways \/ ~session.open
    /\ LET job == Head(pending)
       IN  GenerateBatch(job) \/ ExplainItem(job) \/ GenerateReviewContext(job)

Next == Screen \/ Tick \/ Worker

Spec == Init /\ [][Next]_vars

-----------------------------------------------------------------------------
(* Properties *)

\* A ready candidate can be shown as it is: its sentence is validated and
\* fully explained, contains every target, and nothing else of the pool has
\* its key (selection.py, _ready_sentences; content_flag.py withdraws it).
Showable(q) ==
    \A k \in DOMAIN q :
        LET s == sentences[q[k].sentence]
        IN  /\ s.status = "validated" /\ s.explained
            /\ q[k].targets # {} /\ q[k].targets \subseteq s.items
            /\ Cardinality(q[k].targets) <= MaxTargets
            /\ \A l \in DOMAIN q : SameKey(q[l], q[k].role, q[k].sentence,
                                           q[k].stage) => k = l
PoolIsShowable == Showable(pool)

\* An item gets a schedule only after the learner has called it unknown or
\* uncertain: what is only known stays off the review list (interactions.py).
ScheduleNeedsPromotion ==
    \A i \in Items : review[i].row =>
        \E p \in DOMAIN shown : shown[p].said[i] \in PromotingSignals

\* The cached meaningful_exposure_count never counts an exposure that a flag
\* has withdrawn (presentation.py, content_flag.py).
CacheNeverOvercounts ==
    \A i \in Items : review[i].count <= Exposures(i)

\* No stage is reached by skipping one: a completed presentation of the item
\* one step below, or at the top, came before without a failure.
StageIsEarned ==
    \A i \in Items : learn[i].stage # Anchor =>
        \E p \in DOMAIN shown :
            /\ shown[p].done # 0
            /\ i \in shown[p].targets
            /\ StepUp(shown[p].stage) >= learn[i].stage
            /\ shown[p].said[i] # "unknown" \/ shown[p].stage > learn[i].stage

\* Probes of a session keep their distance, in whatever order screens are
\* reloaded and judged, and never ask about an item the session has an answer
\* for already (probe.py, read_pacing).
ProbesAreSpaced ==
    \A p \in DOMAIN shown : shown[p].probe # 0 =>
        LET before == {q \in 1..(p - 1) : shown[q].session = shown[p].session}
            last == {q \in before : shown[q].probe # 0}
        IN  /\ Cardinality(last) < MaxProbes
            /\ \A q \in last \cup {0} :
                  Cardinality({r \in before : r > q}) >= ProbeGap
            /\ \A q \in before : shown[q].said[shown[p].probe] = NoSignal

\* Nobody asks for a sentence near an original: the anchor itself always
\* comes first there, as the sentences made from it have larger ids.
ContextsAreNew ==
    \A n \in DOMAIN pending : LET job == pending[n] IN job.kind = "context" =>
        /\ job.stage \in {Varied, NewContext}
        /\ job.item \in sentences[job.anchor].items

\* A review is shown only when one of its targets may be shown now; the
\* reason of a candidate can be older than an answer that moved the schedule
\* (selection.py, _select_review).
ReviewIsTimely ==
    [][\A p \in DOMAIN shown' \ DOMAIN shown :
          LET c == shown'[p]
          IN  c.role = "review" =>
                \E i \in c.targets :
                    /\ review[i].row /\ Eligible(i)
                    /\ c.reason = "fsrs_due" => Due(i)]_vars

\* The anchor of an item is set once: only a quarantine makes it move
\* (selection.py, _resolve_anchor; progression.py, promote_incidental).
AnchorIsKept ==
    [][\A i \in Items :
          learn[i].anchor # 0 /\ learn'[i].anchor # learn[i].anchor
          => Quarantined(learn[i].anchor)]_vars

\* An item comes down the ladder only when the presentation that is being
\* completed was failed, and then to one step below what was shown.
StageFallsOnFailure ==
    [][\A i \in Items : learn'[i].stage < learn[i].stage =>
          \E p \in DOMAIN shown : /\ shown[p].done = 0 /\ shown'[p].done # 0
                                  /\ shown[p].said[i] = "unknown"
                                  /\ i \in shown'[p].exposed
                                  /\ learn'[i].stage = StepDown(shown[p].stage)]_vars

\* The ways a due item is passed over without a job for it: it is far up the
\* ladder with no anchor to write a context from; a sentence of it was made in
\* the other language (_role_targets); its sentence is taken by a candidate of
\* the same stage that it cannot join, whose own targets are not due.
Stranded(i) ==
    /\ learn[i].stage \in {Varied, NewContext}
    /\ learn[i].anchor = 0 \/ Quarantined(learn[i].anchor)
Foreign(i) == \E s \in Ready(i, {}) : sentences[s].lang # session.lang
Crowded(i) ==
    \E k \in DOMAIN pool :
        /\ pool[k].role = "review" /\ pool[k].stage = learn[i].stage
        /\ i \in sentences[pool[k].sentence].items \ pool[k].targets

\* A materialization has ended early, with a whole batch of candidates, none of
\* which can be shown now. The next one passes over them and goes on.
Filled == Len(pool') >= Len(pool) + BatchSize

\* When there is nothing to show, content was asked for today for every item
\* that is due, but for those: its own context, or the batch that picks the
\* items without a sentence (selection.py, replenishment.py).
StarvingAsksForContent ==
    [][NextPresentation /\ shown' = shown /\ ~Filled
       => \A i \in Items :
            /\ LangOf[i] = session.lang
            /\ review[i].row /\ Due(i)
            => \/ Ready(i, {}) = {}
                  /\ \A r \in Roles : <<"batch", r, session.lang>> \in asked'
               \/ <<"context", i, learn[i].stage>> \in asked'
               \/ Stranded(i) \/ Foreign(i) \/ Crowded(i)']_vars
=============================================================================
